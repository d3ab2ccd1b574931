--------------------------- MODULE MCSyncProtocol ---------------------------
(* Instances of SyncProtocol for TLC.                                       *)
EXTENDS SyncProtocol

\* A product and two movements of its stock, none of them there at the start.
JournalEntities == {"product", "move1", "move2"}
JournalRows     == {"move1", "move2"}
JournalNeeds    == [e \in JournalEntities |-> IF e \in JournalRows THEN {"product"} ELSE {}]

\* A product and one movement.
SmallEntities == {"product", "move1"}
SmallRows     == {"move1"}
SmallNeeds    == [e \in SmallEntities |-> IF e \in SmallRows THEN {"product"} ELSE {}]

\* One product every till already holds.
CatalogEntities == {"product"}
CatalogNeeds    == [e \in CatalogEntities |-> {}]
CatalogSeeded   == <<"product">>
NothingSeeded   == <<>>
=============================================================================
