-------------------------- MODULE MCSyncEngineLoop --------------------------
(***************************************************************************)
(* Instances of SyncEngineLoop, MergeOrder, EntityFields and ServerDesk    *)
(* for TLC: the engine, what it merges, and the back office whose changes  *)
(* it pulls.  They share no state: `part' says which one a behaviour is    *)
(* of, and the others stay as they began.                                  *)
(***************************************************************************)
EXTENDS SyncEngineLoop, MergeOrder, EntityFields, ServerDesk

AllKinds == DOMAIN FieldsOf

VARIABLE part

cyclesVars == <<part, vars, orderVars, fieldsVars, deskVars>>

CyclesInit ==
  /\ part \in {"loop", "order", "fields", "shelves", "fleet"}
  /\ IF part = "fields" THEN TRUE ELSE kind = "company"
  /\ IF part = "order" THEN TRUE
     ELSE edit = [d \in Device |-> [fields |-> Field, ts |-> CHOOSE c \in Clock : TRUE]]
  /\ Init /\ OrderInit /\ FieldsInit /\ DeskInit

\* Tills are attached apart from the rest of the back office: no row is of both.
OfItsPart ==
  \A c \in Callers : request'[c] # Nil => (request'[c].op = "enroll" <=> part = "fleet")

CyclesNext ==
  /\ UNCHANGED part
  /\ \/ part = "loop" /\ Next /\ UNCHANGED <<orderVars, fieldsVars, deskVars>>
     \/ part = "order" /\ OrderNext /\ UNCHANGED <<vars, fieldsVars, deskVars>>
     \/ part = "fields" /\ FieldsNext /\ UNCHANGED <<vars, orderVars, deskVars>>
     \/ part \in {"shelves", "fleet"} /\ DeskNext /\ OfItsPart
        /\ UNCHANGED <<vars, orderVars, fieldsVars>>

\* As in SyncEngineLoop: timers go off and awaited calls return.
CyclesSpec ==
  /\ CyclesInit /\ [][CyclesNext]_cyclesVars
  /\ WF_vars(part = "loop" /\ StartEngine)
  /\ \A e \in Engine :
       WF_vars(part = "loop" /\ Timer(e)) /\ WF_vars(part = "loop" /\ Cycle(e))
=============================================================================
