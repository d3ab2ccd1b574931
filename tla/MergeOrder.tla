----------------------------- MODULE MergeOrder -----------------------------
(***************************************************************************)
(* What becomes of one row that several tills have edited from the same    *)
(* version while they were offline, for every order in which their updates *)
(* reach the server: resolveUpdate (packages/shared/src/sync/merge.ts)     *)
(* called by applyMutable (apps/api/src/modules/sync/sync.service.ts) for  *)
(* one update after the other.  No field is sensitive here: arbitration is *)
(* in SyncProtocol.                                                        *)
(***************************************************************************)
EXTENDS Naturals, FiniteSets, MergeRules

CONSTANTS
    Device, \* the tills: positive numbers, ordered as their identifiers
    Field,  \* the fields of the row
    Clock   \* the dates of the edits

ASSUME OrderAssumption == Device \subseteq Nat \ {0} /\ Clock \subseteq Nat

VARIABLES
    edit,    \* the fields each till has changed, and when
    arrived, \* the tills whose update the server has handled
    val,     \* the till that last wrote a field, Nobody for none
    version, \* the row's
    ts,      \* its updatedAt
    changed, \* the fields of each version in change_log
    last     \* the till of the last entry of change_log

orderVars == <<edit, arrived, val, version, ts, changed, last>>

Nobody == 0
Base   == 1

OrderInit ==
    /\ edit \in [Device -> [fields : (SUBSET Field) \ {{}}, ts : Clock]]
    /\ arrived = {}
    /\ val = [f \in Field |-> Nobody]
    /\ version = Base
    /\ ts = 0
    /\ changed = [d \in Device |-> {}]
    /\ last = Nobody

\* Every entry after the base is one of these tills', so `changed` is kept by till.
FieldsChangedSince == UNION {changed[d] : d \in Device}

Resolution(d) ==
    ResolveUpdate([clientFields  |-> edit[d].fields,
                   fieldsSince   |-> FieldsChangedSince,
                   baseVersion   |-> Base,
                   serverVersion |-> version,
                   clientTs      |-> edit[d].ts,
                   serverTs      |-> ts,
                   clientDev     |-> d,
                   serverDev     |-> last,
                   serverDeleted |-> FALSE], {})

\* The fields the update writes.  Seeded faults: all those of its payload; the row
\* whole.
WrittenAll(d) == IF Resolution(d).fields = {} THEN {} ELSE edit[d].fields
WrittenRow(d) == IF Resolution(d).fields = {} THEN {} ELSE Field
Written(d) == Resolution(d).fields

Arrive(d) ==
    /\ d \notin arrived
    /\ arrived' = arrived \cup {d}
    /\ IF Written(d) # {}
       THEN /\ val' = [f \in Field |-> IF f \in Written(d) THEN d ELSE val[f]]
            /\ version' = version + 1
            /\ ts' = edit[d].ts
            /\ changed' = [changed EXCEPT ![d] = Written(d)]
            /\ last' = d
       ELSE UNCHANGED <<val, version, ts, changed, last>>
    /\ UNCHANGED edit

OrderNext == \E d \in Device : Arrive(d)

OrderSpec == OrderInit /\ [][OrderNext]_orderVars

-----------------------------------------------------------------------------
Editors(f) == {d \in Device : f \in edit[d].fields}
Later(a, b) == ClientWins(edit[a].ts, edit[b].ts, a, b)
AllArrived == arrived = Device

\* Every variable has its type, and nothing is logged before it has arrived.
OrderTypeOK ==
    /\ edit \in [Device -> [fields : SUBSET Field, ts : Clock]]
    /\ arrived \subseteq Device
    /\ val \in [Field -> arrived \cup {Nobody}]
    /\ version \in Nat
    /\ ts \in Nat
    /\ changed \in [Device -> SUBSET Field]
    /\ last \in arrived \cup {Nobody}

\* A field one till alone has changed keeps its value, whoever else wrote over
\* the row and in whatever order ("Champs disjoints : fusion", ADR 0004:24).
DisjointSurvive ==
    AllArrived => \A f \in Field, d \in Device : Editors(f) = {d} => val[f] = d

\* Of two updates the last writer of a field wins, by date and then by device, in
\* whatever order they arrive ("dernier ecrivain gagne sur updatedAt", merge.ts:13).
\* Beyond two it does not hold: the row has one updatedAt for all its fields, and
\* the merge of an older update of other fields takes it back.
LastWriterWins ==
    Cardinality(arrived) <= 2 => \A f \in Field : \A a, b \in Editors(f) \cap arrived :
        val[f] = a => a = b \/ Later(a, b)
=============================================================================
