----------------------------- MODULE CausalRows -----------------------------
(***************************************************************************)
(* What the synchronisation is for, without how it is done: rows recorded  *)
(* on one till spread to the server, and from the server to the other      *)
(* tills.  No database loses a row, or holds one before those it           *)
(* references.  SyncProtocol implements this specification.                *)
(***************************************************************************)
CONSTANTS
    Device,  \* the tills
    Entity,  \* the rows
    Needs,   \* those a row references
    Start    \* those every database holds at the start

VARIABLES
    server,  \* the rows the server holds
    till     \* those each till holds

rowVars == <<server, till>>

Init ==
    /\ server = Start
    /\ till = [d \in Device |-> Start]

\* A till records a row nobody holds yet.
Record(d, e) ==
    /\ e \notin server
    /\ \A b \in Device : e \notin till[b]
    /\ Needs[e] \subseteq till[d]
    /\ till' = [till EXCEPT ![d] = @ \cup {e}]
    /\ UNCHANGED server

\* The server accepts a row that some till has recorded.
Accept(e) ==
    /\ \E d \in Device : e \in till[d]
    /\ Needs[e] \subseteq server
    /\ server' = server \cup {e}
    /\ UNCHANGED till

\* A row the server has accepted reaches another till.
Deliver(d, e) ==
    /\ e \in server
    /\ Needs[e] \subseteq till[d]
    /\ till' = [till EXCEPT ![d] = @ \cup {e}]
    /\ UNCHANGED server

Next ==
    \E e \in Entity :
        \/ Accept(e)
        \/ \E d \in Device : Record(d, e) \/ Deliver(d, e)

Spec == Init /\ [][Next]_rowVars

-----------------------------------------------------------------------------
\* No database refers to a row it does not hold: a sale line never arrives
\* anywhere before its sale, nor a movement before its product
\* (apps/desktop/src-tauri/migrations/0001_init.sql:16).
NoOrphan ==
    /\ \A e \in server : Needs[e] \subseteq server
    /\ \A d \in Device : \A e \in till[d] : Needs[e] \subseteq till[d]
=============================================================================
