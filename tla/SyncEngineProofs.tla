------------------------- MODULE SyncEngineProofs --------------------------
(***************************************************************************)
(* Proofs about SyncEngineLoop, for any number of sessions and of failures *)
(* of the local database: an engine never has two loops, and begins no     *)
(* cycle on top of another; and about MergeRules and MergeOrder, for any   *)
(* number of tills, any fields and any dates: a field that only one till   *)
(* has changed survives every order of arrival, and of two updates the     *)
(* last writer wins; and about ServerDesk, for any tables, any requests    *)
(* and any number of them open at once: the log the engine pulls says what *)
(* the back office's rows hold, and they hold together.                    *)
(***************************************************************************)
EXTENDS SyncEngineLoop, MergeOrder, ServerDesk, FiniteSetTheorems, SumTheorems, TLAPS

-----------------------------------------------------------------------------
(* The loop of an engine.                                                  *)

\* Sign-ins under way still have an engine to make, and the engine of the session
\* has been made: a button never starts a cycle of one that has not.
LoopInv ==
    /\ TypeOK
    /\ made + opening <= MaxEngines
    /\ current <= made
    /\ OneLoop

LEMMA LoopInit == Init => LoopInv
<1> SUFFICES ASSUME Init PROVE LoopInv
  OBVIOUS
<1>1. /\ 0 \in 0..MaxEngines /\ 0 \in 0..MaxDbFaults /\ 0 + 0 <= MaxEngines /\ None <= 0
      /\ \A e \in Engine : e > 0
  BY LoopAssumption DEF Engine, None
<1>2. TypeOK
  BY <1>1 DEF Init, TypeOK, Phases
<1>3. OneLoop
  BY DEF Init, OneLoop
<1> QED  BY <1>1, <1>2, <1>3 DEF Init, LoopInv

\* An exception ends the tick that owns the cycle, and no other.
LEMMA ThrowsKeeps ==
    ASSUME NEW e \in Engine, Throws(e),
           tick \in [Engine -> BOOLEAN], mine \in [Engine -> BOOLEAN],
           \A a \in Engine : mine[a] => tick[a]
    PROVE  /\ tick' \in [Engine -> BOOLEAN]
           /\ mine' \in [Engine -> BOOLEAN]
           /\ \A a \in Engine : tick'[a] => tick[a]
           /\ \A a \in Engine : mine'[a] => tick'[a]
<1>1. tick' = [tick EXCEPT ![e] = tick[e] /\ ~mine[e]]
  BY DEF Throws
<1>2. mine' = [mine EXCEPT ![e] = FALSE]
  BY DEF Throws
<1>3. /\ tick' \in [Engine -> BOOLEAN]
      /\ mine' \in [Engine -> BOOLEAN]
  BY <1>1, <1>2
<1>4. tick'[e] = (tick[e] /\ ~mine[e]) /\ ~mine'[e]
  BY <1>1, <1>2
<1>5. \A a \in Engine : a # e => tick'[a] = tick[a] /\ mine'[a] = mine[a]
  BY <1>1, <1>2
<1> QED  BY <1>3, <1>4, <1>5

LEMMA LoopStep == LoopInv /\ [Next]_vars => LoopInv'
<1> SUFFICES ASSUME LoopInv, [Next]_vars PROVE LoopInv'
  OBVIOUS
<1> USE LoopAssumption DEF LoopInv, TypeOK, OneLoop, Engine, None, Phases
<1>1. CASE UNCHANGED vars
  BY <1>1 DEF vars, loopVars, sessionVars
<1>2. CASE SignIn
  BY <1>2 DEF SignIn, loopVars
<1>3. CASE StartEngine
  <2>1. made + 1 \in 1..MaxEngines /\ opening - 1 \in 0..MaxEngines
    BY <1>3 DEF StartEngine, Opening
  <2>2. ~tick[made + 1]
    BY <2>1
  <2> QED  BY <1>3, <2>1, <2>2 DEF StartEngine, Opening
<1>4. CASE StartFails
  BY <1>4 DEF StartFails, Fault, loopVars
<1>5. CASE SignOut
  <2>1. timer' \in [Engine -> BOOLEAN] /\ \A e \in Engine : timer'[e] => timer[e]
    BY <1>5 DEF SignOut
  <2>2. ready' \in BOOLEAN
    BY <1>5 DEF SignOut
  <2>3. current' \in Engine \cup {None} /\ current' <= made
    BY <1>5 DEF SignOut
  <2>4. UNCHANGED <<opening, made, tick, mine, phase, dbFaults>>
    BY <1>5 DEF SignOut
  <2> QED  BY <2>1, <2>2, <2>3, <2>4
<1>6. ASSUME NEW e \in Engine, Timer(e) PROVE LoopInv'
  <2>1. CASE Tick(e)
    BY <2>1 DEF Tick, Fired, sessionVars
  <2>2. CASE Rearm(e)
    BY <2>2 DEF Rearm, Awaited, sessionVars
  <2> QED  BY <1>6, <2>1, <2>2 DEF Timer
<1>7. ASSUME NEW e \in Engine, Cycle(e) \/ SyncNow(e) \/ Faulty(e) PROVE LoopInv'
  <2>1. CASE Opened(e)
    BY <2>1 DEF Opened, At, sessionVars
  <2>2. CASE Worked(e)
    BY <2>2 DEF Worked, At, sessionVars
  <2>3. CASE WorkFails(e)
    BY <2>3 DEF WorkFails, At, sessionVars
  <2>4. CASE Closed(e)
    BY <2>4 DEF Closed, At, sessionVars
  <2>5. CASE SyncNow(e)
    BY <2>5 DEF SyncNow, Asked, sessionVars
  <2>6. CASE OpeningFails(e)
    <3>1. Throws(e)
      BY <2>6 DEF OpeningFails
    <3>2. /\ tick' \in [Engine -> BOOLEAN]
          /\ mine' \in [Engine -> BOOLEAN]
          /\ \A a \in Engine : tick'[a] => tick[a]
          /\ \A a \in Engine : mine'[a] => tick'[a]
      BY <3>1, ThrowsKeeps
    <3>3. /\ phase' \in [Engine -> Phases]
          /\ \A a \in Engine : a > made => phase'[a] = "idle"
          /\ dbFaults' \in 0..MaxDbFaults
      BY <2>6 DEF OpeningFails, At, Fault
    <3>4. UNCHANGED <<sessionVars, timer>>
      BY <2>6 DEF OpeningFails
    <3> QED  BY <3>2, <3>3, <3>4 DEF sessionVars
  <2>7. CASE ClosingFails(e)
    <3>1. /\ tick' \in [Engine -> BOOLEAN]
          /\ mine' \in [Engine -> BOOLEAN]
          /\ \A a \in Engine : tick'[a] => tick[a]
          /\ \A a \in Engine : mine'[a] => tick'[a]
      BY <2>7, ThrowsKeeps DEF ClosingFails
    <3>2. /\ phase' \in [Engine -> Phases]
          /\ \A a \in Engine : a > made => phase'[a] = "idle"
          /\ dbFaults' \in 0..MaxDbFaults
      BY <2>7 DEF ClosingFails, At, Fault
    <3>3. UNCHANGED <<sessionVars, timer>>
      BY <2>7 DEF ClosingFails
    <3> QED  BY <3>1, <3>2, <3>3 DEF sessionVars
  <2> QED  BY <1>7, <2>1, <2>2, <2>3, <2>4, <2>5, <2>6, <2>7 DEF Cycle, Faulty
<1> QED  BY <1>1, <1>2, <1>3, <1>4, <1>5, <1>6, <1>7 DEF Next, Session

\* However sign-ins, buttons, timers, late reports and failures interleave, an
\* engine has at most one loop, and none before it is made.
THEOREM OneLoopCorrect == Spec => []OneLoop
<1>1. LoopInv => OneLoop
  BY DEF LoopInv
<1> QED  BY <1>1, LoopInit, LoopStep, PTL DEF Spec

\* Every variable of the loop keeps its type.
THEOREM LoopTypeCorrect == Spec => []TypeOK
<1>1. LoopInv => TypeOK
  BY DEF LoopInv
<1> QED  BY <1>1, LoopInit, LoopStep, PTL DEF Spec

-----------------------------------------------------------------------------
(* Merging.                                                                *)

\* What resolveUpdate lets through is part of the update; and it lets through,
\* when no field is sensitive and the row is there, every field the server has
\* not changed since (merge.ts:86).
LEMMA Resolved ==
    ASSUME NEW in, ~in.serverDeleted
    PROVE  /\ ResolveUpdate(in, {}).fields \subseteq in.clientFields
           /\ in.clientFields \ in.fieldsSince \subseteq ResolveUpdate(in, {}).fields
<1> DEFINE fields     == in.clientFields
           collisions == fields \cap in.fieldsSince
           upToDate   == in.baseVersion # 0 /\ in.baseVersion = in.serverVersion
           wins       == ClientWins(in.clientTs, in.serverTs, in.clientDev, in.serverDev)
           kept       == IF wins \/ collisions = {} THEN Outcome("merge", fields)
                         ELSE IF fields \ collisions = {} THEN Outcome("ignore", {})
                         ELSE Outcome("merge", fields \ collisions)
<1>1. collisions \cap {} = {}
  OBVIOUS
<1>2. CASE fields = {}
  <2>1. ResolveUpdate(in, {}) = Outcome("ignore", {})
    BY <1>2 DEF ResolveUpdate
  <2> QED  BY <2>1, <1>2 DEF Outcome
<1>3. CASE fields # {} /\ upToDate
  <2>1. ResolveUpdate(in, {}) = Outcome("apply", fields)
    BY <1>3 DEF ResolveUpdate
  <2> QED  BY <2>1 DEF Outcome
<1>4. CASE fields # {} /\ ~upToDate
  <2>1. ResolveUpdate(in, {}) = kept
    BY <1>4 DEF ResolveUpdate
  <2>2. CASE wins \/ collisions = {}
    BY <2>1, <2>2 DEF Outcome
  <2>3. CASE ~(wins \/ collisions = {}) /\ fields \ collisions = {}
    BY <2>1, <2>3 DEF Outcome
  <2>4. CASE ~(wins \/ collisions = {}) /\ fields \ collisions # {}
    BY <2>1, <2>4 DEF Outcome
  <2> QED  BY <2>2, <2>3, <2>4
<1> QED  BY <1>2, <1>3, <1>4

\* What the server writes for d is part of what d has changed, with every field
\* nobody's written update has changed.
LEMMA WrittenFields ==
    ASSUME NEW d \in Device
    PROVE  /\ Written(d) \subseteq edit[d].fields
           /\ edit[d].fields \ FieldsChangedSince \subseteq Written(d)
<1> DEFINE in == [clientFields  |-> edit[d].fields,
                  fieldsSince   |-> FieldsChangedSince,
                  baseVersion   |-> Base,
                  serverVersion |-> version,
                  clientTs      |-> edit[d].ts,
                  serverTs      |-> ts,
                  clientDev     |-> d,
                  serverDev     |-> last,
                  serverDeleted |-> FALSE]
<1>1. /\ ~in.serverDeleted
      /\ in.clientFields = edit[d].fields
      /\ in.fieldsSince = FieldsChangedSince
  OBVIOUS
<1>2. Written(d) = ResolveUpdate(in, {}).fields
  BY DEF Written, Resolution
<1> HIDE DEF in
<1> QED  BY <1>1, <1>2, Resolved

\* Every field of the log is one its till has changed, a till logs nothing before
\* it has arrived, and a field one till alone has changed is that till's as soon
\* as it has arrived.
DisjointInv ==
    /\ edit \in [Device -> [fields : SUBSET Field, ts : Clock]]
    /\ arrived \subseteq Device
    /\ val \in [Field -> Device \cup {Nobody}]
    /\ changed \in [Device -> SUBSET Field]
    /\ \A d \in Device : changed[d] \subseteq edit[d].fields
    /\ \A d \in Device : d \notin arrived => changed[d] = {}
    /\ \A f \in Field, d \in Device : Editors(f) = {d} /\ d \in arrived => val[f] = d

LEMMA DisjointInit == OrderInit => DisjointInv
<1> SUFFICES ASSUME OrderInit PROVE DisjointInv  OBVIOUS
<1> QED  BY DEF OrderInit, DisjointInv, Editors

LEMMA DisjointStep == DisjointInv /\ [OrderNext]_orderVars => DisjointInv'
<1> SUFFICES ASSUME DisjointInv, [OrderNext]_orderVars PROVE DisjointInv'
  OBVIOUS
<1>1. CASE UNCHANGED orderVars
  BY <1>1 DEF orderVars, DisjointInv, Editors
<1>2. ASSUME NEW d \in Device, Arrive(d) PROVE DisjointInv'
  <2>1. /\ edit' = edit
        /\ arrived' = arrived \cup {d}
        /\ d \notin arrived
    BY <1>2 DEF Arrive
  <2>2. \A f \in Field : Editors(f)' = Editors(f)
    BY <2>1 DEF Editors
  <2>3. /\ Written(d) \subseteq edit[d].fields
        /\ edit[d].fields \ FieldsChangedSince \subseteq Written(d)
    BY WrittenFields
  <2>4. edit[d].fields \subseteq Field
    BY DEF DisjointInv
  <2>5. /\ val' \in [Field -> Device \cup {Nobody}]
        /\ \A f \in Field : val'[f] = IF f \in Written(d) THEN d ELSE val[f]
    <3>1. CASE Written(d) # {}
      BY <1>2, <3>1 DEF Arrive, DisjointInv
    <3>2. CASE Written(d) = {}
      BY <1>2, <3>2 DEF Arrive, DisjointInv
    <3> QED  BY <3>1, <3>2
  <2>6. /\ changed' \in [Device -> SUBSET Field]
        /\ \A b \in Device : changed'[b] = IF b = d THEN Written(d) ELSE changed[b]
    <3>1. CASE Written(d) # {}
      BY <1>2, <2>3, <2>4, <3>1 DEF Arrive, DisjointInv
    <3>2. CASE Written(d) = {}
      <4>1. changed[d] = {}
        BY <2>1 DEF DisjointInv
      <4> QED  BY <1>2, <3>2, <4>1 DEF Arrive, DisjointInv
    <3> QED  BY <3>1, <3>2
  <2>7. ASSUME NEW f \in Field, NEW b \in Device, Editors(f) = {b}, b \in arrived'
        PROVE  val'[f] = b
    <3>1. f \in edit[b].fields /\ \A c \in Device : f \in edit[c].fields => c = b
      BY <2>7 DEF Editors
    <3>2. CASE b = d
      <4>1. \A c \in Device : f \notin changed[c]
        BY <2>1, <3>1, <3>2 DEF DisjointInv
      <4>2. f \notin FieldsChangedSince
        BY <4>1 DEF FieldsChangedSince
      <4>3. f \in Written(d)
        BY <2>3, <3>1, <3>2, <4>2
      <4> QED  BY <2>5, <3>2, <4>3
    <3>3. CASE b # d
      <4>1. f \notin Written(d)
        BY <2>3, <3>1, <3>3
      <4>2. val[f] = b
        BY <2>1, <2>7, <3>3 DEF DisjointInv
      <4> QED  BY <2>5, <4>1, <4>2
    <3> QED  BY <3>2, <3>3
  <2>8. /\ edit' \in [Device -> [fields : SUBSET Field, ts : Clock]]
        /\ arrived' \subseteq Device
    BY <2>1 DEF DisjointInv
  <2>9. \A b \in Device : changed'[b] \subseteq edit'[b].fields
    BY <2>1, <2>3, <2>6 DEF DisjointInv
  <2>10. \A b \in Device : b \notin arrived' => changed'[b] = {}
    BY <2>1, <2>6 DEF DisjointInv
  <2> QED  BY <2>2, <2>5, <2>6, <2>7, <2>8, <2>9, <2>10 DEF DisjointInv
<1> QED  BY <1>1, <1>2 DEF OrderNext

\* Updates of different fields of one row all survive, however many tills were
\* offline and whatever their clocks said.
THEOREM DisjointSurviveCorrect == OrderSpec => []DisjointSurvive
<1>1. DisjointInv => DisjointSurvive
  BY DEF DisjointInv, DisjointSurvive, AllArrived
<1> QED  BY <1>1, DisjointInit, DisjointStep, PTL DEF OrderSpec

-----------------------------------------------------------------------------
\* Two updates: the last writer wins.

\* What resolveUpdate lets through exactly, no field being sensitive: everything over the
\* version the update was made from, or when it wins; otherwise what nobody else has changed.
LEMMA ResolvedWhole ==
    ASSUME NEW in, ~in.serverDeleted, in.clientFields # {}
    PROVE  /\ in.baseVersion # 0 /\ in.baseVersion = in.serverVersion =>
                ResolveUpdate(in, {}).fields = in.clientFields
           /\ in.baseVersion # in.serverVersion =>
                ResolveUpdate(in, {}).fields =
                  IF ClientWins(in.clientTs, in.serverTs, in.clientDev, in.serverDev)
                  THEN in.clientFields ELSE in.clientFields \ in.fieldsSince
<1> DEFINE fields     == in.clientFields
           collisions == fields \cap in.fieldsSince
           wins       == ClientWins(in.clientTs, in.serverTs, in.clientDev, in.serverDev)
           kept       == IF wins \/ collisions = {} THEN Outcome("merge", fields)
                         ELSE IF fields \ collisions = {} THEN Outcome("ignore", {})
                         ELSE Outcome("merge", fields \ collisions)
<1>1. CASE in.baseVersion # 0 /\ in.baseVersion = in.serverVersion
  <2>1. ResolveUpdate(in, {}) = Outcome("apply", fields)
    BY <1>1 DEF ResolveUpdate
  <2> QED  BY <2>1, <1>1 DEF Outcome
<1>2. CASE in.baseVersion # in.serverVersion
  <2>1. ResolveUpdate(in, {}) = kept
    <3>1. collisions \cap {} = {}
      OBVIOUS
    <3> QED  BY <1>2, <3>1 DEF ResolveUpdate
  <2>2. CASE wins
    BY <2>1, <2>2, <1>2 DEF Outcome
  <2>3. CASE ~wins /\ collisions = {}
    BY <2>1, <2>3, <1>2 DEF Outcome
  <2>4. CASE ~wins /\ collisions # {}
    <3>1. ResolveUpdate(in, {}).fields = fields \ collisions
      BY <2>1, <2>4 DEF Outcome
    <3>2. fields \ collisions = fields \ in.fieldsSince
      OBVIOUS
    <3> QED  BY <3>1, <3>2, <2>4, <1>2
  <2> QED  BY <2>2, <2>3, <2>4
<1> QED  BY <1>1, <1>2

\* The same of the row.
LEMMA WrittenWhole ==
    ASSUME NEW d \in Device, edit[d].fields # {}
    PROVE  /\ version = Base => Written(d) = edit[d].fields
           /\ version # Base =>
                Written(d) = IF ClientWins(edit[d].ts, ts, d, last)
                             THEN edit[d].fields ELSE edit[d].fields \ FieldsChangedSince
<1> DEFINE in == [clientFields  |-> edit[d].fields,
                  fieldsSince   |-> FieldsChangedSince,
                  baseVersion   |-> Base,
                  serverVersion |-> version,
                  clientTs      |-> edit[d].ts,
                  serverTs      |-> ts,
                  clientDev     |-> d,
                  serverDev     |-> last,
                  serverDeleted |-> FALSE]
<1>1. /\ ~in.serverDeleted /\ in.clientFields = edit[d].fields
      /\ in.fieldsSince = FieldsChangedSince
      /\ in.baseVersion = Base /\ in.serverVersion = version
      /\ in.clientTs = edit[d].ts /\ in.serverTs = ts
      /\ in.clientDev = d /\ in.serverDev = last
  OBVIOUS
<1>2. Written(d) = ResolveUpdate(in, {}).fields
  BY DEF Written, Resolution
<1>3. Base # 0
  BY DEF Base
<1> HIDE DEF in
<1>4. CASE version = Base
  BY <1>1, <1>2, <1>3, <1>4, ResolvedWhole
<1>5. CASE version # Base
  BY <1>1, <1>2, <1>5, ResolvedWhole
<1> QED  BY <1>4, <1>5

\* Until two updates have arrived the row is known exactly: the first is written whole.
FirstInv ==
    /\ edit \in [Device -> [fields : (SUBSET Field) \ {{}}, ts : Clock]]
    /\ arrived \subseteq Device /\ IsFiniteSet(arrived)
    /\ val \in [Field -> Device \cup {Nobody}]
    /\ changed \in [Device -> SUBSET Field]
    /\ arrived = {} =>
         version = Base /\ changed = [d \in Device |-> {}] /\ val = [f \in Field |-> Nobody]
    /\ \A a \in Device : arrived = {a} =>
         /\ version # Base /\ ts = edit[a].ts /\ last = a
         /\ changed[a] = edit[a].fields
         /\ \A f \in edit[a].fields : val[f] = a

WriterInv == FirstInv /\ LastWriterWins

LEMMA WriterInit == OrderInit => WriterInv
<1> SUFFICES ASSUME OrderInit PROVE WriterInv
  OBVIOUS
<1>1. FirstInv
  BY FS_EmptySet DEF OrderInit, FirstInv
<1>2. LastWriterWins
  BY DEF OrderInit, LastWriterWins
<1> QED  BY <1>1, <1>2 DEF WriterInv

\* The second of two updates is compared with the first, and takes the fields both have
\* changed only if it is the later.
LEMMA SecondArrival ==
    ASSUME FirstInv, NEW x \in Device, arrived = {x}, NEW d \in Device \ {x}, Arrive(d),
           NEW f \in edit[x].fields \cap edit[d].fields
    PROVE  val'[f] = IF Later(d, x) THEN d ELSE x
<1>1. /\ version # Base /\ ts = edit[x].ts /\ last = x
      /\ changed[x] = edit[x].fields /\ val[f] = x /\ f \in Field
      /\ edit[d].fields # {}
  BY DEF FirstInv
<1>2. f \in FieldsChangedSince
  BY <1>1 DEF FieldsChangedSince
<1>3. f \in Written(d) <=> Later(d, x)
  BY <1>1, <1>2, WrittenWhole DEF Later
<1>4. CASE Written(d) = {}
  BY <1>1, <1>3, <1>4 DEF Arrive
<1>5. CASE Written(d) # {}
  <2>1. val' = [g \in Field |-> IF g \in Written(d) THEN d ELSE val[g]]
    BY <1>5 DEF Arrive
  <2> QED  BY <2>1, <1>1, <1>3
<1> QED  BY <1>4, <1>5

LEMMA FirstStep == FirstInv /\ [OrderNext]_orderVars => FirstInv'
<1> SUFFICES ASSUME FirstInv, [OrderNext]_orderVars PROVE FirstInv'
  OBVIOUS
<1>1. CASE UNCHANGED orderVars
  BY <1>1 DEF orderVars, FirstInv
<1>2. ASSUME NEW d \in Device, Arrive(d) PROVE FirstInv'
  <2>1. /\ edit' = edit /\ arrived' = arrived \cup {d} /\ d \notin arrived
    BY <1>2 DEF Arrive
  <2>2. edit[d].fields # {} /\ edit[d].fields \subseteq Field
    BY DEF FirstInv
  <2>3. Written(d) \subseteq edit[d].fields
    BY WrittenFields
  <2>4. val' \in [Field -> Device \cup {Nobody}] /\ changed' \in [Device -> SUBSET Field]
    <3>1. CASE Written(d) = {}
      BY <1>2, <3>1 DEF Arrive, FirstInv
    <3>2. CASE Written(d) # {}
      BY <1>2, <2>2, <2>3, <3>2 DEF Arrive, FirstInv
    <3> QED  BY <3>1, <3>2
  <2>5. IsFiniteSet(arrived') /\ arrived' \subseteq Device /\ arrived' # {}
    BY <2>1, FS_AddElement DEF FirstInv
  <2>6. ASSUME NEW a \in Device, arrived' = {a}
        PROVE  /\ version' # Base /\ ts' = edit'[a].ts /\ last' = a
               /\ changed'[a] = edit'[a].fields
               /\ \A f \in edit'[a].fields : val'[f] = a
    <3>1. a = d /\ arrived = {}
      BY <2>1, <2>6
    <3>2. version = Base /\ Written(d) = edit[d].fields
      BY <3>1, <2>2, WrittenWhole DEF FirstInv
    <3>3. /\ val' = [f \in Field |-> IF f \in Written(d) THEN d ELSE val[f]]
          /\ version' = version + 1 /\ ts' = edit[d].ts /\ last' = d
          /\ changed' = [changed EXCEPT ![d] = Written(d)]
      BY <1>2, <2>2, <3>2 DEF Arrive
    <3> QED  BY <2>1, <2>2, <3>1, <3>2, <3>3 DEF FirstInv, Base
  <2> QED  BY <2>1, <2>4, <2>5, <2>6 DEF FirstInv
<1> QED  BY <1>1, <1>2 DEF OrderNext

LEMMA WriterStep == WriterInv /\ [OrderNext]_orderVars => WriterInv'
<1> SUFFICES ASSUME FirstInv, LastWriterWins, [OrderNext]_orderVars PROVE LastWriterWins'
  BY FirstStep DEF WriterInv
<1>1. CASE UNCHANGED orderVars
  BY <1>1 DEF orderVars, LastWriterWins, Editors, Later
<1>2. ASSUME NEW d \in Device, Arrive(d) PROVE LastWriterWins'
  <2>1. SUFFICES ASSUME Cardinality(arrived') <= 2, NEW f \in Field,
                        NEW a \in Editors(f)' \cap arrived', NEW b \in Editors(f)' \cap arrived',
                        val'[f] = a, a # b
                 PROVE  Later(a, b)'
    BY DEF LastWriterWins
  <2>2. /\ edit' = edit /\ arrived' = arrived \cup {d} /\ d \notin arrived
    BY <1>2 DEF Arrive
  <2>3. Cardinality(arrived) + 1 <= 2 /\ Cardinality(arrived) \in Nat
    <3>1. IsFiniteSet(arrived)
      BY DEF FirstInv
    <3>2. Cardinality(arrived \cup {d}) = Cardinality(arrived) + 1 /\ Cardinality(arrived) \in Nat
      BY <2>2, <3>1, FS_AddElement, FS_CardinalityType
    <3> QED BY <2>1, <2>2, <3>2
  <2>4. PICK x \in Device : arrived = {x}
    <3>1. Cardinality(arrived) = 0 \/ Cardinality(arrived) = 1
      BY <2>3
    <3>2. CASE Cardinality(arrived) = 0
      BY <2>1, <2>2, <3>2, FS_EmptySet DEF FirstInv
    <3>3. CASE Cardinality(arrived) = 1
      BY <3>3, FS_Singleton DEF FirstInv
    <3> QED  BY <3>1, <3>2, <3>3
  <2>5. {a, b} = {x, d} /\ x # d /\ a \in Device /\ b \in Device
    BY <2>1, <2>2, <2>4
  <2>6. f \in edit[x].fields \cap edit[d].fields
    BY <2>1, <2>2, <2>5 DEF Editors
  <2>7. val'[f] = IF Later(d, x) THEN d ELSE x
    BY <1>2, <2>4, <2>5, <2>6, SecondArrival
  <2>8. Later(a, b)
    <3>1. edit[x].ts \in Nat /\ edit[d].ts \in Nat /\ x \in Nat /\ d \in Nat
      BY OrderAssumption DEF FirstInv
    <3>2. Later(d, x) \/ Later(x, d)
      BY <3>1, <2>5 DEF Later, ClientWins
    <3> QED  BY <2>1, <2>5, <2>7, <3>2
  <2> QED  BY <2>2, <2>8 DEF Later
<1> QED  BY <1>1, <1>2 DEF OrderNext

\* Of two updates made from the same version, the later one, by date and then by device, wins
\* every field both have changed, in whatever order they arrive (resolveUpdate).
THEOREM LastWriterWinsCorrect == OrderSpec => []LastWriterWins
<1>1. WriterInv => LastWriterWins
  BY DEF WriterInv
<1> QED  BY <1>1, WriterInit, WriterStep, PTL DEF OrderSpec

-----------------------------------------------------------------------------
(* The back office: what its variables hold.                               *)

ProductRows == [v : Nat, cat : Categories \cup {Nil}, del : BOOLEAN]
CategoryRows == [v : Nat, parent : Categories \cup {Nil}, del : BOOLEAN]
PostRows == [register : Nat, revoked : BOOLEAN]

Entry(what, ids, states) == [kind : {what}, id : ids, base : Nat, v : Nat, state : states]
ProductEntry == Entry("product", Products, ProductRows)
CategoryEntry == Entry("category", Categories, CategoryRows)
MovementEntry == Entry("movement", Products, Int)
RegisterEntry == Entry("register", Nat, Nat)
Entries == ProductEntry \cup CategoryEntry \cup MovementEntry \cup RegisterEntry

ProductOps == {"newProduct", "editProduct", "removeProduct", "adjust", "count"}
CategoryOps == {"newCategory", "editCategory", "removeCategory"}
Requests == [op : ProductOps \cup CategoryOps \cup {"enroll"}, id : Products \cup Categories \cup Posts,
             base : Nat, to : Categories \cup {Nil, Keep}, qty : Int,
             at : {"read", "category", "climb", "children", "level", "register", "write"},
             here : Categories \cup {Nil}, depth : Nat]

\* A request is about a row of its table, and only an edit is made from a version.
IsRequest(r) ==
    /\ r \in Requests
    /\ r.op \in ProductOps => r.id \in Products
    /\ r.op \in CategoryOps => r.id \in Categories
    /\ r.op = "enroll" => r.id \in Posts
    /\ r.op \in {"newProduct", "newCategory"} => r.to \in Categories \cup {Nil}
    /\ r.op \in {"newProduct", "newCategory", "removeProduct", "removeCategory"} => r.base = 0
    /\ r.at = "climb" => r.op = "editCategory" /\ r.to \in Categories
                         /\ (r.depth # 0 => r.here \in Categories)
    /\ r.at \notin {"climb", "write"} => r.depth = 0

RequestsTyped == DOMAIN request = Callers /\ \A c \in Callers : request[c] # Nil => IsRequest(request[c])

TablesTyped ==
    /\ product \in [Products -> ProductRows] /\ category \in [Categories -> CategoryRows]
    /\ stock \in [Products -> Int \cup {Nil}] /\ registers \in Seq(Nat)
    /\ post \in [Posts -> PostRows \cup {Nil}]
    /\ told \in Seq(Entries)

DeskTypes == TablesTyped /\ RequestsTyped /\ overlapped \in BOOLEAN

\* Nothing is there yet, and nobody asks.
LEMMA DeskTypesInit == DeskInit => DeskTypes
<1> SUFFICES ASSUME DeskInit PROVE DeskTypes
  OBVIOUS
<1>1. TablesTyped
  <2>1. Absence.product \in ProductRows /\ Absence.category \in CategoryRows
    BY DEF Absence, ProductRows, CategoryRows
  <2> QED BY <2>1 DEF DeskInit, TablesTyped
<1>2. RequestsTyped
  BY DEF DeskInit, RequestsTyped
<1> QED BY <1>1, <1>2 DEF DeskInit, DeskTypes

\* Whatever is asked is a request, and nothing has been found out for it yet.
Fresh(r) == r.at \in {"read", "category", "register"} /\ (r.op \in {"editProduct", "editCategory"} => r.at = "read")

LEMMA AskedTyped ==
    ASSUME TablesTyped, NEW a \in Asks
    PROVE  IsRequest(a) /\ Fresh(a)
<1>1. \A o, b, to, q, at, id :
        /\ o \in ProductOps \cup CategoryOps \cup {"enroll"}
        /\ o \in ProductOps => id \in Products
        /\ o \in CategoryOps => id \in Categories
        /\ o = "enroll" => id \in Posts
        /\ b \in Nat /\ (o \notin {"editProduct", "editCategory"} => b = 0 /\ to \in Categories \cup {Nil})
        /\ to \in Categories \cup {Nil, Keep} /\ q \in Int /\ at \in {"read", "category", "register"}
        /\ (o \in {"editProduct", "editCategory"} => at = "read")
        => IsRequest(Asking(o, id, b, to, q, at)) /\ Fresh(Asking(o, id, b, to, q, at))
  <2> SUFFICES ASSUME NEW o, NEW b, NEW to, NEW q, NEW at, NEW id,
                      /\ o \in ProductOps \cup CategoryOps \cup {"enroll"}
                      /\ o \in ProductOps => id \in Products
                      /\ o \in CategoryOps => id \in Categories
                      /\ o = "enroll" => id \in Posts
                      /\ b \in Nat /\ (o \notin {"editProduct", "editCategory"} => b = 0 /\ to \in Categories \cup {Nil})
                      /\ to \in Categories \cup {Nil, Keep} /\ q \in Int /\ at \in {"read", "category", "register"}
                      /\ (o \in {"editProduct", "editCategory"} => at = "read")
               PROVE  IsRequest(Asking(o, id, b, to, q, at)) /\ Fresh(Asking(o, id, b, to, q, at))
    OBVIOUS
  <2> DEFINE r == Asking(o, id, b, to, q, at)
  <2>1. r \in Requests
    BY DEF Requests, Asking, ProductOps, CategoryOps
  <2>2. r.op = o /\ r.id = id /\ r.base = b /\ r.to = to /\ r.at = at /\ r.depth = 0
    BY DEF Asking
  <2> HIDE DEF r
  <2>3. /\ r.op \in ProductOps => r.id \in Products
        /\ r.op \in CategoryOps => r.id \in Categories
        /\ r.op = "enroll" => r.id \in Posts
    BY <2>2
  <2>4. /\ r.op \in {"newProduct", "newCategory"} => r.to \in Categories \cup {Nil}
        /\ r.op \in {"newProduct", "newCategory", "removeProduct", "removeCategory"} => r.base = 0
    BY <2>2
  <2>5. r.at # "climb" /\ r.depth = 0
    BY <2>2
  <2>6. IsRequest(r)
    BY ONLY <2>1, <2>3, <2>4, <2>5 DEF IsRequest
  <2>7. Fresh(r)
    BY <2>2 DEF Fresh
  <2> QED BY <2>6, <2>7 DEF r
<1>2. \A p \in Products : Shown(product[p]) \subseteq Nat
  BY DEF Shown, TablesTyped, ProductRows
<1>3. \A k \in Categories : Shown(category[k]) \subseteq Nat
  BY DEF Shown, TablesTyped, CategoryRows
<1>4. Quantities \subseteq Int
  BY DeskAssumption
<1> DEFINE Right(r) == IsRequest(r) /\ Fresh(r)
<1>5. ASSUME NEW p \in Products, NEW k \in Categories \cup {Nil}, NEW q \in Quantities \cup {0}
      PROVE  Right(Asking("newProduct", p, 0, k, q, "category"))
  BY <1>1, <1>4 DEF ProductOps, CategoryOps
<1>6. ASSUME NEW k \in Categories, NEW up \in Categories \cup {Nil}
      PROVE  Right(Asking("newCategory", k, 0, up, 0, "category"))
  BY <1>1 DEF ProductOps, CategoryOps
<1>7. ASSUME NEW p \in Products, NEW b \in Shown(product[p]), NEW k \in Categories \cup {Nil, Keep}
      PROVE  Right(Asking("editProduct", p, b, k, 0, "read"))
  BY <1>1, <1>2 DEF ProductOps, CategoryOps
<1>8. ASSUME NEW k \in Categories, NEW b \in Shown(category[k]), NEW up \in Categories \cup {Nil, Keep}
      PROVE  Right(Asking("editCategory", k, b, up, 0, "read"))
  BY <1>1, <1>3 DEF ProductOps, CategoryOps
<1>9. ASSUME NEW p \in Products
      PROVE  /\ Right(Asking("removeProduct", p, 0, Nil, 0, "read"))
             /\ \A o \in {"adjust", "count"}, q \in Quantities : Right(Asking(o, p, 0, Nil, q, "read"))
  BY <1>1, <1>4 DEF ProductOps, CategoryOps
<1>10. ASSUME NEW k \in Categories
       PROVE  Right(Asking("removeCategory", k, 0, Nil, 0, "read"))
  BY <1>1 DEF ProductOps, CategoryOps
<1>11. ASSUME NEW t \in Posts, NEW n \in 0..2
       PROVE  Right(Asking("enroll", t, 0, Nil, n, "register"))
  BY <1>1 DEF ProductOps, CategoryOps
<1> QED BY <1>5, <1>6, <1>7, <1>8, <1>9, <1>10, <1>11 DEF Asks

\* One request moves on, and stays one, or is done.
Moves(c, r) == request' = [request EXCEPT ![c] = r] /\ (r = Nil \/ IsRequest(r))

\* The request that moves is the one that changes.
LEMMA MovesTyped ==
    ASSUME RequestsTyped, NEW c \in Callers, NEW r, Moves(c, r)
    PROVE  /\ RequestsTyped' /\ request'[c] = r
           /\ \A d \in Callers : d # c => request'[d] = request[d]
BY DEF RequestsTyped, IsRequest, Moves

\* A request that is done is one that moves to nothing.
LEMMA RequestCloses ==
    ASSUME NEW c, Close(c)
    PROVE  Moves(c, Nil)
BY DEF Close, Moves

\* The statements that read, and what they leave of the request.
Reads(c) ==
    FindProduct(c) \/ FindCategory(c) \/ CheckCategory(c) \/ Climb(c)
    \/ CountChildren(c) \/ CountToDelta(c) \/ ChooseRegister(c)

\* A statement that reads lets the request on to its next one, or refuses it.
LEMMA Checked ==
    ASSUME RequestsTyped, NEW c \in Callers, request[c] # Nil, NEW ok, NEW next, Check(c, ok, next),
           next \in {"category", "climb", "children", "level", "write"},
           request[c].depth = 0,
           next = "climb" => request[c].op = "editCategory" /\ request[c].to \in Categories
    PROVE  \E r : /\ Moves(c, r) /\ (r # Nil => ok)
                  /\ r # Nil => r = [request[c] EXCEPT !.at = next]
<1>1. CASE ok
  <2> DEFINE r == [request[c] EXCEPT !.at = next]
  <2>1. IsRequest(request[c])
    BY DEF RequestsTyped
  <2>2. r \in Requests
    BY <2>1 DEF IsRequest, Requests
  <2>3. r.op = request[c].op /\ r.id = request[c].id /\ r.to = request[c].to /\ r.base = request[c].base
        /\ r.depth = request[c].depth /\ r.here = request[c].here /\ r.at = next
    BY <2>1 DEF IsRequest, Requests
  <2>4. request' = [request EXCEPT ![c] = r]
    BY <1>1 DEF Check
  <2> HIDE DEF r
  <2>5. IsRequest(r)
    BY <2>1, <2>2, <2>3 DEF IsRequest
  <2> QED BY <1>1, <2>4, <2>5 DEF Moves, r
<1>2. CASE ~ok
  BY <1>2, RequestCloses DEF Check
<1> QED BY <1>1, <1>2

\* The product is there, and an edit has the version it was made from.
LEMMA FindProductStep ==
    ASSUME DeskTypes, NEW c \in Callers, FindProduct(c)
    PROVE  \E r : /\ Moves(c, r)
                  /\ r # Nil => /\ Live(product[request[c].id])
                                /\ request[c].op = "editProduct" => product[request[c].id].v = request[c].base
                                /\ \E next \in {"category", "level", "write"} :
                                      /\ r = [request[c] EXCEPT !.at = next]
                                      /\ next = "category" <=> request[c].op = "editProduct"
<1>1. request[c] # Nil /\ IsRequest(request[c]) /\ request[c].depth = 0
  BY DEF FindProduct, Doing, DeskTypes, RequestsTyped, IsRequest
<1> DEFINE q == request[c]
           next == CASE q.op = "editProduct" -> "category" [] q.op = "count" -> "level" [] OTHER -> "write"
           ok == Live(product[q.id]) /\ (q.op = "editProduct" => product[q.id].v = q.base)
<1>2. Check(c, ok, next)
  BY DEF FindProduct
<1>3. next \in {"category", "level", "write"} /\ (next = "category" <=> q.op = "editProduct")
  OBVIOUS
<1> HIDE DEF next, ok
<1>4. PICK r : Moves(c, r) /\ (r # Nil => ok) /\ (r # Nil => r = [request[c] EXCEPT !.at = next])
  BY <1>1, <1>2, <1>3, Checked DEF DeskTypes
<1> QED BY <1>3, <1>4 DEF ok

\* The category is there, and an edit has the version it was made from.
LEMMA FindCategoryStep ==
    ASSUME DeskTypes, NEW c \in Callers, FindCategory(c)
    PROVE  \E r : /\ Moves(c, r)
                  /\ r # Nil => /\ Live(category[request[c].id])
                                /\ request[c].op = "editCategory" =>
                                      category[request[c].id].v = request[c].base /\ request[c].to # request[c].id
                                /\ \E next \in {"category", "children"} :
                                      /\ r = [request[c] EXCEPT !.at = next]
                                      /\ next = "category" <=> request[c].op = "editCategory"
<1>1. request[c] # Nil /\ IsRequest(request[c]) /\ request[c].depth = 0
  BY DEF FindCategory, Doing, DeskTypes, RequestsTyped, IsRequest
<1> DEFINE q == request[c]
           next == IF q.op = "editCategory" THEN "category" ELSE "children"
           ok == Live(category[q.id]) /\ (q.op = "editCategory" => category[q.id].v = q.base /\ q.to # q.id)
<1>2. Check(c, ok, next)
  BY DEF FindCategory
<1>3. next \in {"category", "children"} /\ (next = "category" <=> q.op = "editCategory")
  OBVIOUS
<1> HIDE DEF next, ok
<1>4. PICK r : Moves(c, r) /\ (r # Nil => ok) /\ (r # Nil => r = [request[c] EXCEPT !.at = next])
  BY <1>1, <1>2, <1>3, Checked DEF DeskTypes
<1> QED BY <1>3, <1>4 DEF ok

\* The category named was alive when it was looked up.
LEMMA CheckCategoryStep ==
    ASSUME DeskTypes, NEW c \in Callers, CheckCategory(c)
    PROVE  /\ request[c] # Nil /\ request[c].op \in {"newProduct", "editProduct", "newCategory", "editCategory"}
           /\ request[c].at = "category" /\ request[c].depth = 0
           /\ \E r : /\ Moves(c, r)
                     /\ r # Nil => /\ request[c].to \in Categories => Live(category[request[c].to])
                                   /\ r = [request[c] EXCEPT !.at =
                                             IF request[c].op = "editCategory" /\ request[c].to \in Categories
                                             THEN "climb" ELSE "write"]
<1>1. request[c] # Nil /\ IsRequest(request[c]) /\ request[c].depth = 0 /\ request[c].at = "category"
      /\ request[c].op \in {"newProduct", "editProduct", "newCategory", "editCategory"}
  BY DEF CheckCategory, Doing, DeskTypes, RequestsTyped, IsRequest
<1> DEFINE q == request[c]
           next == IF q.op = "editCategory" /\ q.to \in Categories THEN "climb" ELSE "write"
           ok == q.to \in Categories => Live(category[q.to])
<1>2. Check(c, ok, next)
  BY DEF CheckCategory
<1>3. next \in {"climb", "write"} /\ (next = "climb" => q.op = "editCategory" /\ q.to \in Categories)
  OBVIOUS
<1> HIDE DEF next, ok
<1>4. PICK r : Moves(c, r) /\ (r # Nil => ok) /\ (r # Nil => r = [request[c] EXCEPT !.at = next])
  BY <1>1, <1>2, <1>3, Checked DEF DeskTypes
<1> QED BY <1>1, <1>4 DEF ok, next

\* The category a climb has reached.
Here(r) == IF r.depth = 0 THEN r.to ELSE r.here

\* One level up, and no further than MaxDepth.
LEMMA ClimbStep ==
    ASSUME DeskTypes, NEW c \in Callers, Climb(c)
    PROVE  /\ request[c] # Nil /\ request[c].op = "editCategory" /\ request[c].at = "climb"
           /\ request[c].to \in Categories /\ Here(request[c]) \in Categories
           /\ \/ Here(request[c]) = request[c].id /\ Moves(c, Nil)
              \/ \E r : /\ Here(request[c]) # request[c].id
                        /\ Moves(c, r) /\ r \in Requests
                        /\ r.op = request[c].op /\ r.id = request[c].id /\ r.base = request[c].base
                        /\ r.to = request[c].to /\ r.depth = request[c].depth + 1
                        /\ r.here = category[Here(request[c])].parent
                        /\ r.at = IF r.here = Nil \/ r.depth >= MaxDepth THEN "write" ELSE "climb"
<1> DEFINE q == request[c]
           up == category[Here(q)].parent
           next == IF up = Nil \/ q.depth + 1 >= MaxDepth THEN "write" ELSE "climb"
           r == [q EXCEPT !.here = up, !.depth = q.depth + 1, !.at = next]
<1>1. q # Nil /\ IsRequest(q) /\ q.op = "editCategory" /\ q.at = "climb"
  BY DEF Climb, Doing, DeskTypes, RequestsTyped
<1>2. q.to \in Categories /\ Here(q) \in Categories
  BY <1>1 DEF IsRequest, Here
<1>3. up \in Categories \cup {Nil}
  BY <1>2 DEF DeskTypes, TablesTyped, CategoryRows
<1>4. next \in {"write", "climb"} /\ (next = "climb" => up # Nil) /\ q.depth + 1 \in Nat \ {0}
  BY <1>1 DEF IsRequest, Requests
<1>5. IF Here(q) = q.id THEN Close(c)
      ELSE request' = [request EXCEPT ![c] = r]
  BY DEF Climb, Here
<1> HIDE DEF next, up
<1>6. /\ r \in Requests /\ r.op = q.op /\ r.id = q.id /\ r.base = q.base /\ r.to = q.to
      /\ r.depth = q.depth + 1 /\ r.here = up /\ r.at = next
  BY <1>1, <1>3, <1>4 DEF IsRequest, Requests
<1> HIDE DEF r
<1>7. IsRequest(r)
  BY <1>1, <1>2, <1>3, <1>4, <1>6 DEF IsRequest
<1>8. CASE Here(q) = q.id
  BY <1>1, <1>2, <1>5, <1>8, RequestCloses
<1>9. CASE Here(q) # q.id
  BY <1>1, <1>2, <1>5, <1>6, <1>7, <1>9 DEF Moves, next, up
<1> QED BY <1>8, <1>9

\* A category is removed only if no living one was found under it.
LEMMA CountChildrenStep ==
    ASSUME DeskTypes, NEW c \in Callers, CountChildren(c)
    PROVE  /\ request[c] # Nil /\ request[c].op = "removeCategory" /\ request[c].at = "children"
           /\ \E r : /\ Moves(c, r)
                     /\ r # Nil => /\ \A x \in Categories : Live(category[x]) => category[x].parent # request[c].id
                                   /\ r = [request[c] EXCEPT !.at = "write"]
<1>1. request[c] # Nil /\ IsRequest(request[c]) /\ request[c].depth = 0
      /\ request[c].op = "removeCategory" /\ request[c].at = "children"
  BY DEF CountChildren, Doing, DeskTypes, RequestsTyped, IsRequest
<1> DEFINE ok == \A x \in Categories : Live(category[x]) => category[x].parent # request[c].id
<1>2. Check(c, ok, "write")
  BY DEF CountChildren
<1> HIDE DEF ok
<1>3. PICK r : Moves(c, r) /\ (r # Nil => ok) /\ (r # Nil => r = [request[c] EXCEPT !.at = "write"])
  BY <1>1, <1>2, Checked DEF DeskTypes
<1> QED BY <1>1, <1>3 DEF ok

\* A count has become the movement to the level it found.
LEMMA CountToDeltaStep ==
    ASSUME DeskTypes, NEW c \in Callers, CountToDelta(c)
    PROVE  /\ request[c] # Nil /\ request[c].op = "count" /\ request[c].at = "level"
           /\ \E r : /\ Moves(c, r)
                     /\ r # Nil => /\ r.op = request[c].op /\ r.id = request[c].id
                                   /\ r.base = request[c].base /\ r.at = "write"
<1> DEFINE q == request[c]
           delta == q.qty - OnShelf(q.id)
           r == [q EXCEPT !.qty = delta, !.at = "write"]
<1>1. q # Nil /\ IsRequest(q) /\ q.op = "count" /\ q.at = "level" /\ q.id \in Products /\ q.qty \in Int
  BY DEF CountToDelta, Doing, DeskTypes, RequestsTyped, IsRequest, ProductOps, Requests
<1>2. OnShelf(q.id) \in Int
  BY <1>1 DEF OnShelf, DeskTypes, TablesTyped
<1>3. delta \in Int
  BY <1>1, <1>2
<1>4. IF delta = 0 THEN Close(c) ELSE request' = [request EXCEPT ![c] = r]
  BY DEF CountToDelta
<1> HIDE DEF delta
<1>5. r \in Requests /\ r.op = q.op /\ r.id = q.id /\ r.base = q.base /\ r.to = q.to /\ r.depth = q.depth
      /\ r.at = "write"
  BY <1>1, <1>3 DEF IsRequest, Requests
<1> HIDE DEF r
<1>6. IsRequest(r)
  BY <1>1, <1>5 DEF IsRequest
<1>7. CASE delta = 0
  BY <1>1, <1>4, <1>7, RequestCloses
<1>8. CASE delta # 0
  BY <1>1, <1>4, <1>5, <1>6, <1>8 DEF Moves
<1> QED BY <1>7, <1>8

\* A register that is asked for is one of those there are.
LEMMA ChooseRegisterStep ==
    ASSUME DeskTypes, NEW c \in Callers, ChooseRegister(c)
    PROVE  /\ request[c] # Nil /\ request[c].op = "enroll" /\ request[c].at = "register"
           /\ \E r : /\ Moves(c, r)
                     /\ r # Nil => /\ r.op = request[c].op /\ r.id = request[c].id /\ r.at = "write"
                                   /\ r.qty > 0 => r.qty \in DOMAIN registers
<1> DEFINE q == request[c]
<1>1. q # Nil /\ IsRequest(q) /\ q.op = "enroll" /\ q.at = "register" /\ q.id \in Posts
      /\ q.qty \in Int /\ q.depth = 0
  BY DEF ChooseRegister, Doing, DeskTypes, RequestsTyped, IsRequest, Requests
<1>2. Len(registers) \in Nat
  BY DEF DeskTypes, TablesTyped
<1>3. CASE q.qty > 0 /\ Check(c, q.qty \in DOMAIN registers, "write")
  <2>1. PICK r : Moves(c, r) /\ (r # Nil => q.qty \in DOMAIN registers)
                 /\ (r # Nil => r = [request[c] EXCEPT !.at = "write"])
    BY <1>1, <1>3, Checked DEF DeskTypes
  <2>2. r # Nil => r.op = q.op /\ r.id = q.id /\ r.at = "write" /\ r.qty = q.qty
    BY <1>1, <2>1 DEF IsRequest, Requests
  <2> QED BY <1>1, <2>1, <2>2
<1> DEFINE Chosen(n) == [q EXCEPT !.base = n, !.qty = 0, !.at = "write"]
<1>4. ASSUME NEW n \in Nat, request' = [request EXCEPT ![c] = Chosen(n)]
      PROVE  \E r : /\ Moves(c, r)
                    /\ r # Nil => r.op = q.op /\ r.id = q.id /\ r.at = "write" /\ ~(r.qty > 0)
  <2> DEFINE r == Chosen(n)
  <2>1. /\ r \in Requests /\ r.op = q.op /\ r.id = q.id /\ r.to = q.to /\ r.depth = q.depth
        /\ r.at = "write" /\ r.qty = 0
    <3>1. q \in Requests
      BY <1>1 DEF IsRequest
    <3>2. "base" \in DOMAIN q /\ "qty" \in DOMAIN q /\ "at" \in DOMAIN q
      BY <3>1 DEF Requests
    <3>3. r.base = n /\ r.qty = 0 /\ r.at = "write"
      BY <3>2
    <3>4. r.op = q.op /\ r.id = q.id /\ r.to = q.to /\ r.depth = q.depth /\ r.here = q.here
      BY <3>1 DEF Requests
    <3>5. r \in Requests
      <4> DEFINE Put(z) == [q EXCEPT !.base = n, !.qty = z, !.at = "write"]
      <4>1. \A z \in Int : Put(z) \in Requests
        BY <3>1 DEF Requests
      <4>2. r = Put(0)
        OBVIOUS
      <4> HIDE DEF Put, r
      <4> QED BY <4>1, <4>2
    <3> QED BY <3>3, <3>4, <3>5
  <2> HIDE DEF Chosen
  <2>2. request' = [request EXCEPT ![c] = r]
    BY <1>4
  <2> HIDE DEF r
  <2>3. IsRequest(r)
    BY <1>1, <2>1 DEF IsRequest
  <2>4. Moves(c, r)
    BY <2>2, <2>3 DEF Moves
  <2> QED BY <1>4, <2>1, <2>4
<1>5. \/ q.qty > 0 /\ Check(c, q.qty \in DOMAIN registers, "write")
      \/ q.qty \in Nat /\ request' = [request EXCEPT ![c] = Chosen(q.qty)]
      \/ request' = [request EXCEPT ![c] = Chosen(Len(registers) + 1)]
  BY <1>1 DEF ChooseRegister
<1> HIDE DEF Chosen
<1>6. CASE \E n \in Nat : request' = [request EXCEPT ![c] = Chosen(n)]
  BY <1>1, <1>4, <1>6
<1> QED BY <1>1, <1>2, <1>3, <1>5, <1>6

\* What every statement that reads does: the request alone moves, still about the same row and,
\* for an edit, from the same version; it passed its first statement if that was the row's.
ReadsRight(c, r) ==
    /\ request[c] # Nil
    /\ r.op = request[c].op /\ r.id = request[c].id
    /\ r.op # "enroll" => r.base = request[c].base
    /\ r.op = "enroll" /\ r.at = "write" /\ r.qty > 0 => r.qty \in DOMAIN registers
    /\ r.op = "editProduct" => request[c].at # "read" \/ product[r.id].v = r.base
    /\ r.op = "editCategory" => request[c].at # "read" \/ category[r.id].v = r.base

LEMMA ReadsStep ==
    ASSUME DeskTypes, NEW c \in Callers, Reads(c)
    PROVE  /\ UNCHANGED <<product, category, stock, registers, post, told, asked, overlapped>>
           /\ \E r : Moves(c, r) /\ (r # Nil => ReadsRight(c, r))
<1>1. UNCHANGED <<product, category, stock, registers, post, told, asked, overlapped>>
  BY DEF Reads, FindProduct, FindCategory, CheckCategory, Climb, CountChildren, CountToDelta,
         ChooseRegister, Check, tables
<1> SUFFICES \E r : Moves(c, r) /\ (r # Nil => ReadsRight(c, r))
  BY <1>1
<1>2. request[c] # Nil /\ IsRequest(request[c]) /\ request[c] \in Requests
  BY DEF Reads, FindProduct, FindCategory, CheckCategory, Climb, CountChildren, CountToDelta,
         ChooseRegister, Doing, DeskTypes, RequestsTyped, IsRequest
<1>3. ASSUME NEW r, r = Nil \/ \E at : r = [request[c] EXCEPT !.at = at]
      PROVE  r # Nil => r.op = request[c].op /\ r.id = request[c].id /\ r.base = request[c].base
                        /\ r.qty = request[c].qty
  BY <1>2, <1>3 DEF Requests
<1>4. CASE FindProduct(c)
  <2>1. request[c].op \in {"editProduct", "removeProduct", "adjust", "count"}
    BY <1>4 DEF FindProduct, Doing
  <2>2. PICK r : /\ Moves(c, r)
                 /\ r = Nil \/ \E at : r = [request[c] EXCEPT !.at = at]
                 /\ r # Nil => (request[c].op = "editProduct" => product[request[c].id].v = request[c].base)
    BY <1>4, FindProductStep
  <2> QED BY <1>2, <1>3, <2>1, <2>2 DEF ReadsRight
<1>5. CASE FindCategory(c)
  <2>1. request[c].op \in {"editCategory", "removeCategory"}
    BY <1>5 DEF FindCategory, Doing
  <2>2. PICK r : /\ Moves(c, r)
                 /\ r = Nil \/ \E at : r = [request[c] EXCEPT !.at = at]
                 /\ r # Nil => (request[c].op = "editCategory" => category[request[c].id].v = request[c].base)
    BY <1>5, FindCategoryStep
  <2> QED BY <1>2, <1>3, <2>1, <2>2 DEF ReadsRight
<1>6. CASE CheckCategory(c)
  <2>1. PICK r : Moves(c, r) /\ (r = Nil \/ \E at : r = [request[c] EXCEPT !.at = at])
    BY <1>6, CheckCategoryStep
  <2> QED BY <1>3, <1>6, <2>1, CheckCategoryStep DEF ReadsRight
<1>7. CASE Climb(c)
  BY <1>2, <1>7, ClimbStep DEF ReadsRight
<1>8. CASE CountChildren(c)
  <2>1. PICK r : Moves(c, r) /\ (r = Nil \/ \E at : r = [request[c] EXCEPT !.at = at])
    BY <1>8, CountChildrenStep
  <2> QED BY <1>3, <1>8, <2>1, CountChildrenStep DEF ReadsRight
<1>9. CASE CountToDelta(c)
  <2>1. PICK r : Moves(c, r) /\ (r # Nil => r.op = request[c].op /\ r.id = request[c].id
                                            /\ r.base = request[c].base /\ r.at = "write")
    BY <1>9, CountToDeltaStep
  <2> QED BY <1>9, <2>1, CountToDeltaStep DEF ReadsRight
<1>10. CASE ChooseRegister(c)
  <2>1. PICK r : Moves(c, r) /\ (r # Nil => r.op = request[c].op /\ r.id = request[c].id /\ r.at = "write"
                                            /\ (r.qty > 0 => r.qty \in DOMAIN registers))
    BY <1>10, ChooseRegisterStep
  <2> QED BY <1>10, <2>1, ChooseRegisterStep DEF ReadsRight
<1> QED BY <1>4, <1>5, <1>6, <1>7, <1>8, <1>9, <1>10 DEF Reads

\* What a write of a product does.
ProductWrites(c) == CreateProduct(c) \/ UpdateProduct(c) \/ RemoveProduct(c)

ProductWriting(c, p, new, e) ==
    /\ request[c] # Nil /\ request[c].id = p /\ request[c].at = "write"
    /\ request[c].op \in {"newProduct", "editProduct", "removeProduct"}
    /\ Moves(c, Nil)
    /\ new.v = product[p].v + 1 /\ product' = [product EXCEPT ![p] = new]
    /\ e.id = p /\ e.base = request[c].base /\ e.v = new.v /\ e.state = new
    /\ \/ told' = Append(told, e) /\ UNCHANGED stock
       \/ \E m \in MovementEntry : /\ m.id = p /\ told' = Append(Append(told, e), m)
                                   /\ stock' = [stock EXCEPT ![p] = OnShelf(p) + m.state]
    /\ \/ new.del
       \/ new.cat = request[c].to /\ request[c].op \in {"newProduct", "editProduct"}
       \/ new.cat = product[p].cat /\ new.del = product[p].del
    /\ UNCHANGED <<category, registers, post, asked, overlapped>>

\* An entry of the log carries the request, the version and the row.
LEMMA EntryMade ==
    ASSUME RequestsTyped, NEW c \in Callers, request[c] # Nil, NEW v \in Nat
    PROVE  /\ \A row \in ProductRows : request[c].id \in Products =>
                 Change("product", c, v, row) \in ProductEntry
           /\ \A row \in CategoryRows : request[c].id \in Categories =>
                 Change("category", c, v, row) \in CategoryEntry
           /\ \A q \in Int : request[c].id \in Products =>
                 /\ Movement(c, q) \in MovementEntry
                 /\ Movement(c, q).id = request[c].id /\ Movement(c, q).state = q
           /\ \A what, state : /\ Change(what, c, v, state).id = request[c].id
                               /\ Change(what, c, v, state).base = request[c].base
                               /\ Change(what, c, v, state).v = v
                               /\ Change(what, c, v, state).state = state
<1>1. request[c].base \in Nat
  BY DEF RequestsTyped, IsRequest, Requests
<1> QED BY <1>1 DEF Change, Movement, ProductEntry, CategoryEntry, MovementEntry, Entry

\* Whichever product is written, it is one version more, and told.
LEMMA ProductWritten ==
    ASSUME DeskTypes, NEW c \in Callers, ProductWrites(c)
    PROVE  \E p \in Products, new \in ProductRows, e \in ProductEntry : ProductWriting(c, p, new, e)
<1> DEFINE q == request[c]
           p == q.id
           old == product[p]
<1>1. q # Nil /\ IsRequest(q) /\ q.at = "write" /\ q.op \in {"newProduct", "editProduct", "removeProduct"}
  BY DEF ProductWrites, CreateProduct, UpdateProduct, RemoveProduct, Doing, DeskTypes, RequestsTyped
<1>2. p \in Products /\ q.qty \in Int /\ q.to \in Categories \cup {Nil, Keep}
      /\ (q.op = "newProduct" => q.to \in Categories \cup {Nil})
  BY <1>1 DEF IsRequest, ProductOps, Requests
<1>3. old \in ProductRows /\ OnShelf(p) \in Int /\ DOMAIN stock = Products
  BY <1>2 DEF DeskTypes, TablesTyped, OnShelf
<1>4. Moves(c, Nil) /\ UNCHANGED <<category, registers, post, asked, overlapped>>
  BY RequestCloses DEF ProductWrites, CreateProduct, UpdateProduct, RemoveProduct, PutProduct
<1>5. ASSUME NEW new \in ProductRows, new.v = old.v + 1, PutProduct(c, new),
             \/ told' = ProductTold(c, new) /\ UNCHANGED stock
             \/ /\ told' = Append(ProductTold(c, new), Movement(c, q.qty))
                /\ stock' = Levelled(p, q.qty),
             \/ new.del
             \/ new.cat = q.to /\ q.op \in {"newProduct", "editProduct"}
             \/ new.cat = old.cat /\ new.del = old.del
      PROVE  \E e \in ProductEntry : ProductWriting(c, p, new, e)
  <2> DEFINE e == Change("product", c, new.v, new)
  <2>1. new.v \in Nat
    BY DEF ProductRows
  <2>2. e \in ProductEntry /\ e.id = p /\ e.base = q.base /\ e.v = new.v /\ e.state = new
    BY <1>1, <1>2, <2>1, EntryMade DEF DeskTypes
  <2>3. Movement(c, q.qty) \in MovementEntry /\ Movement(c, q.qty).id = p /\ Movement(c, q.qty).state = q.qty
    BY <1>1, <1>2, EntryMade DEF DeskTypes
  <2>4. ProductTold(c, new) = Append(told, e)
    BY DEF ProductTold
  <2>5. \/ told' = Append(told, e) /\ UNCHANGED stock
        \/ \E m \in MovementEntry : /\ m.id = p /\ told' = Append(Append(told, e), m)
                                    /\ stock' = [stock EXCEPT ![p] = OnShelf(p) + m.state]
    BY <1>5, <2>3, <2>4 DEF Levelled
  <2>6. product' = [product EXCEPT ![p] = new]
    BY <1>5 DEF PutProduct
  <2> HIDE DEF e
  <2> QED BY <1>1, <1>4, <1>5, <2>2, <2>5, <2>6 DEF ProductWriting
<1>6. CASE CreateProduct(c)
  <2> DEFINE new == [v |-> 1, cat |-> q.to, del |-> FALSE]
  <2>1. q.op = "newProduct" /\ old.v = 0
    BY <1>6 DEF CreateProduct, Doing
  <2>2. new \in ProductRows /\ new.v = 1 /\ new.cat = q.to
    BY <1>2, <2>1 DEF ProductRows
  <2>3. /\ PutProduct(c, new)
        /\ \/ told' = ProductTold(c, new) /\ UNCHANGED stock
           \/ /\ told' = Append(ProductTold(c, new), Movement(c, q.qty))
              /\ stock' = Levelled(p, q.qty)
    BY <1>6 DEF CreateProduct
  <2> HIDE DEF new
  <2> QED BY <1>2, <1>5, <2>1, <2>2, <2>3
<1>7. CASE UpdateProduct(c)
  <2> DEFINE new == [old EXCEPT !.v = NextVersion(c, old.v), !.cat = Over(old.cat, q.to)]
  <2>1. q.op = "editProduct" /\ PutProduct(c, new) /\ told' = ProductTold(c, new) /\ UNCHANGED stock
    BY <1>7 DEF UpdateProduct, Doing
  <2>2. NextVersion(c, old.v) = old.v + 1 /\ old.v + 1 \in Nat
    BY <1>3 DEF NextVersion, ProductRows
  <2>3. Over(old.cat, q.to) \in Categories \cup {Nil} /\ Over(old.cat, q.to) \in {old.cat, q.to}
    BY <1>2, <1>3 DEF Over, ProductRows
  <2>4. new \in ProductRows /\ new.v = old.v + 1 /\ new.cat = Over(old.cat, q.to) /\ new.del = old.del
    BY ONLY <1>3, <2>2, <2>3 DEF ProductRows
  <2> HIDE DEF new
  <2> QED BY <1>2, <1>5, <2>1, <2>3, <2>4
<1>8. CASE RemoveProduct(c)
  <2> DEFINE new == [old EXCEPT !.v = NextVersion(c, old.v), !.del = TRUE]
  <2>1. PutProduct(c, new) /\ told' = ProductTold(c, new) /\ UNCHANGED stock
    BY <1>8 DEF RemoveProduct
  <2>2. NextVersion(c, old.v) = old.v + 1 /\ old.v + 1 \in Nat
    BY <1>3 DEF NextVersion, ProductRows
  <2>4. new \in ProductRows /\ new.v = old.v + 1 /\ new.del
    BY ONLY <1>3, <2>2 DEF ProductRows
  <2> HIDE DEF new
  <2> QED BY <1>2, <1>5, <2>1, <2>4
<1> QED BY <1>6, <1>7, <1>8 DEF ProductWrites

\* What a write of a category does.
CategoryWrites(c) == CreateCategory(c) \/ UpdateCategory(c) \/ RemoveCategory(c)

CategoryWriting(c, k, new, e) ==
    /\ request[c] # Nil /\ request[c].id = k /\ request[c].at = "write"
    /\ Moves(c, Nil)
    /\ new.v = category[k].v + 1 /\ category' = [category EXCEPT ![k] = new]
    /\ e.id = k /\ e.base = request[c].base /\ e.v = new.v /\ e.state = new
    /\ told' = Append(told, e)
    /\ \/ /\ request[c].op = "newCategory" /\ category[k].v = 0
          /\ new.parent = request[c].to /\ ~new.del /\ UNCHANGED product
       \/ /\ request[c].op = "editCategory"
          /\ new.parent = Over(category[k].parent, request[c].to) /\ new.del = category[k].del
          /\ UNCHANGED product
       \/ /\ request[c].op = "removeCategory" /\ new.parent = category[k].parent /\ new.del
          /\ product' = [p \in Products |-> IF Live(product[p]) /\ product[p].cat = k
                                             THEN [product[p] EXCEPT !.cat = Nil] ELSE product[p]]
    /\ UNCHANGED <<stock, registers, post, asked, overlapped>>

\* Whichever category is written, it is one version more, and told.
LEMMA CategoryWritten ==
    ASSUME DeskTypes, NEW c \in Callers, CategoryWrites(c)
    PROVE  \E k \in Categories, new \in CategoryRows, e \in CategoryEntry : CategoryWriting(c, k, new, e)
<1> DEFINE q == request[c]
           k == q.id
           old == category[k]
           Product == [p \in Products |-> IF Live(product[p]) /\ product[p].cat = k
                                             THEN [product[p] EXCEPT !.cat = Nil] ELSE product[p]]
<1>1. q # Nil /\ IsRequest(q) /\ q.at = "write" /\ q.op \in {"newCategory", "editCategory", "removeCategory"}
  BY DEF CategoryWrites, CreateCategory, UpdateCategory, RemoveCategory, Doing, DeskTypes, RequestsTyped
<1>2. k \in Categories /\ q.to \in Categories \cup {Nil, Keep}
      /\ (q.op = "newCategory" => q.to \in Categories \cup {Nil})
  BY <1>1 DEF IsRequest, CategoryOps, Requests
<1>3. old \in CategoryRows
  BY <1>2 DEF DeskTypes, TablesTyped
<1>4. Moves(c, Nil) /\ UNCHANGED <<stock, registers, post, asked, overlapped>>
  BY RequestCloses DEF CategoryWrites, CreateCategory, UpdateCategory, RemoveCategory, PutCategory
<1> HIDE DEF Product
<1>5. ASSUME NEW new \in CategoryRows, new.v = old.v + 1, PutCategory(c, new),
             \/ q.op = "newCategory" /\ old.v = 0 /\ new.parent = q.to /\ ~new.del /\ UNCHANGED product
             \/ /\ q.op = "editCategory" /\ new.parent = Over(old.parent, q.to) /\ new.del = old.del
                /\ UNCHANGED product
             \/ q.op = "removeCategory" /\ new.parent = old.parent /\ new.del /\ product' = Product
      PROVE  \E e \in CategoryEntry : CategoryWriting(c, k, new, e)
  <2> DEFINE e == Change("category", c, new.v, new)
  <2>1. new.v \in Nat
    BY DEF CategoryRows
  <2>2. e \in CategoryEntry /\ e.id = k /\ e.base = q.base /\ e.v = new.v /\ e.state = new
    BY <1>1, <1>2, <2>1, EntryMade DEF DeskTypes
  <2>3. told' = Append(told, e) /\ category' = [category EXCEPT ![k] = new]
    BY <1>5 DEF PutCategory
  <2> HIDE DEF e
  <2> QED BY <1>1, <1>4, <1>5, <2>2, <2>3 DEF CategoryWriting, Product
<1>6. CASE CreateCategory(c)
  <2> DEFINE new == [v |-> 1, parent |-> q.to, del |-> FALSE]
  <2>1. q.op = "newCategory" /\ old.v = 0 /\ PutCategory(c, new) /\ UNCHANGED product
    BY <1>6 DEF CreateCategory, Doing
  <2>2. new \in CategoryRows /\ new.v = 1 /\ new.parent = q.to /\ ~new.del
    BY <1>2, <2>1 DEF CategoryRows
  <2> HIDE DEF new
  <2> QED BY <1>2, <1>5, <2>1, <2>2
<1>7. CASE UpdateCategory(c)
  <2> DEFINE new == [old EXCEPT !.v = NextVersion(c, old.v), !.parent = Over(old.parent, q.to)]
  <2>1. q.op = "editCategory" /\ PutCategory(c, new) /\ UNCHANGED product
    BY <1>7 DEF UpdateCategory, Doing
  <2>2. NextVersion(c, old.v) = old.v + 1 /\ old.v + 1 \in Nat
    BY <1>3 DEF NextVersion, CategoryRows
  <2>3. Over(old.parent, q.to) \in Categories \cup {Nil}
    BY <1>2, <1>3 DEF Over, CategoryRows
  <2>4. new \in CategoryRows /\ new.v = old.v + 1 /\ new.parent = Over(old.parent, q.to) /\ new.del = old.del
    BY ONLY <1>3, <2>2, <2>3 DEF CategoryRows
  <2> HIDE DEF new
  <2> QED BY <1>2, <1>5, <2>1, <2>3, <2>4
<1>8. CASE RemoveCategory(c)
  <2> DEFINE new == [old EXCEPT !.v = NextVersion(c, old.v), !.del = TRUE]
  <2>1. q.op = "removeCategory" /\ PutCategory(c, new) /\ product' = Product
    BY <1>8 DEF RemoveCategory, Doing, Product
  <2>2. NextVersion(c, old.v) = old.v + 1 /\ old.v + 1 \in Nat
    BY <1>3 DEF NextVersion, CategoryRows
  <2>4. new \in CategoryRows /\ new.v = old.v + 1 /\ new.del /\ new.parent = old.parent
    BY ONLY <1>3, <2>2 DEF CategoryRows
  <2> HIDE DEF new
  <2> QED BY <1>2, <1>5, <2>1, <2>4
<1> QED BY <1>6, <1>7, <1>8 DEF CategoryWrites

\* What a movement, and the attachment of a till, write.
StockMoving(c, p, e) ==
    /\ request[c] # Nil /\ request[c].op \in {"adjust", "count"}
    /\ Moves(c, Nil)
    /\ e.id = p /\ told' = Append(told, e) /\ stock' = [stock EXCEPT ![p] = OnShelf(p) + e.state]
    /\ UNCHANGED <<product, category, registers, post, asked, overlapped>>

\* A movement is told and added to the level.
LEMMA StockMoved ==
    ASSUME DeskTypes, NEW c \in Callers, MoveStock(c)
    PROVE  \E p \in Products, e \in MovementEntry : StockMoving(c, p, e)
<1> DEFINE q == request[c]
<1>1. q # Nil /\ IsRequest(q) /\ q.op \in {"adjust", "count"}
  BY DEF MoveStock, Doing, DeskTypes, RequestsTyped
<1>2. q.id \in Products /\ q.qty \in Int
  BY <1>1 DEF IsRequest, ProductOps, Requests
<1>3. Movement(c, q.qty) \in MovementEntry /\ Movement(c, q.qty).id = q.id /\ Movement(c, q.qty).state = q.qty
  BY <1>1, <1>2, EntryMade DEF DeskTypes
<1> HIDE DEF q
<1>4. /\ Moves(c, Nil) /\ told' = Append(told, Movement(c, q.qty))
      /\ stock' = [stock EXCEPT ![q.id] = OnShelf(q.id) + q.qty]
      /\ UNCHANGED <<product, category, registers, post, asked, overlapped>>
  BY RequestCloses DEF MoveStock, Levelled, q
<1> QED BY <1>1, <1>2, <1>3, <1>4 DEF StockMoving, q

Enrolling(c, t, n) ==
    /\ request[c] # Nil /\ request[c].op = "enroll" /\ request[c].at = "write"
    /\ Moves(c, Nil)
    /\ post' = [post EXCEPT ![t] = [register |-> n, revoked |-> FALSE]]
    /\ \/ request[c].qty > 0 /\ n = request[c].qty /\ UNCHANGED <<registers, told>>
       \/ \E e \in RegisterEntry :
            /\ n = Len(registers) + 1
            /\ e.id = n /\ told' = Append(told, e) /\ registers' = Append(registers, e.state)
            /\ \A i \in DOMAIN registers : registers[i] # e.state
    /\ UNCHANGED <<product, category, stock, asked, overlapped>>

\* A till works on the register asked for, or on a new one under a free prefix.
LEMMA Enrolled ==
    ASSUME DeskTypes, NEW c \in Callers, Enroll(c)
    PROVE  \E t \in Posts, n \in Nat : Enrolling(c, t, n)
<1> DEFINE q == request[c]
           n == IF q.qty > 0 THEN q.qty ELSE Len(registers) + 1
           e == [Change("register", c, 1, q.base) EXCEPT !.id = n]
<1>1. q # Nil /\ IsRequest(q) /\ q.op = "enroll" /\ q.at = "write"
  BY DEF Enroll, Doing, DeskTypes, RequestsTyped
<1>2. q.id \in Posts /\ q.qty \in Int /\ q.base \in Nat
  BY <1>1 DEF IsRequest, Requests
<1>3. n \in Nat /\ Len(registers) \in Nat
  BY <1>2 DEF DeskTypes, TablesTyped
<1>4. /\ Moves(c, Nil)
      /\ post' = [post EXCEPT ![q.id] = [register |-> n, revoked |-> FALSE]]
      /\ UNCHANGED <<product, category, stock, asked, overlapped>>
  BY RequestCloses DEF Enroll
<1>5. IF q.qty > 0 THEN UNCHANGED <<registers, told>>
      ELSE /\ \A i \in DOMAIN registers : registers[i] # q.base
           /\ registers' = Append(registers, q.base)
           /\ told' = Append(told, e)
  BY DEF Enroll
<1>6. e \in RegisterEntry /\ e.id = n /\ e.state = q.base
  <2> HIDE DEF n
  <2> QED BY <1>2, <1>3 DEF Change, RegisterEntry, Entry
<1>7. q.qty > 0 => n = q.qty
  OBVIOUS
<1>8. ~(q.qty > 0) => n = Len(registers) + 1
  OBVIOUS
<1> HIDE DEF e, n
<1>9. \/ q.qty > 0 /\ n = q.qty /\ UNCHANGED <<registers, told>>
      \/ \E ee \in RegisterEntry :
            /\ n = Len(registers) + 1
            /\ ee.id = n /\ told' = Append(told, ee) /\ registers' = Append(registers, ee.state)
            /\ \A i \in DOMAIN registers : registers[i] # ee.state
  BY <1>5, <1>6, <1>7, <1>8
<1> QED BY <1>1, <1>2, <1>3, <1>4, <1>9 DEF Enrolling

\* Every step, by what it does to the tables and the log.
Still == UNCHANGED <<product, category, stock, registers, post, told>>

LEMMA StepKinds ==
    ASSUME DeskTypes, [DeskNext]_deskVars
    PROVE  \/ Still
           \/ \E c \in Callers, p \in Products, new \in ProductRows, e \in ProductEntry :
                 ProductWriting(c, p, new, e)
           \/ \E c \in Callers, k \in Categories, new \in CategoryRows, e \in CategoryEntry :
                 CategoryWriting(c, k, new, e)
           \/ \E c \in Callers, p \in Products, e \in MovementEntry : StockMoving(c, p, e)
           \/ \E c \in Callers, t \in Posts, n \in Nat : Enrolling(c, t, n)
           \/ \E p \in Products : SetMinimum(p)
           \/ \E t \in Posts : Revoke(t)
<1>1. CASE UNCHANGED deskVars
  BY <1>1 DEF deskVars, tables, Still
<1>2. ASSUME NEW c \in Callers, Ask(c) \/ Fail(c) PROVE Still
  BY <1>2 DEF Ask, Fail, tables, Still
<1>3. ASSUME NEW c \in Callers, Reads(c) PROVE Still
  BY <1>3, ReadsStep DEF Still
<1>4. CASE DeskNext
  BY <1>2, <1>3, <1>4, ProductWritten, CategoryWritten, StockMoved, Enrolled
     DEF DeskNext, Reads, ProductWrites, CategoryWrites
<1> QED BY <1>1, <1>4

\* Every step, by what it does to the requests.
LEMMA RequestKinds ==
    ASSUME DeskTypes, [DeskNext]_deskVars
    PROVE  \/ UNCHANGED <<request, overlapped>>
           \/ \E c \in Callers : \E r :
                 /\ Moves(c, r) /\ overlapped' \in BOOLEAN
                 /\ r # Nil => Still /\ (Fresh(r) \/ ReadsRight(c, r))
<1> DEFINE Turn(c) == \E r : /\ Moves(c, r) /\ overlapped' \in BOOLEAN
                             /\ r # Nil => Still /\ (Fresh(r) \/ ReadsRight(c, r))
<1>1. CASE UNCHANGED deskVars
  BY <1>1 DEF deskVars
<1>2. CASE \E p \in Products : SetMinimum(p)
  BY <1>2 DEF SetMinimum
<1>3. CASE \E t \in Posts : Revoke(t)
  BY <1>3 DEF Revoke
<1>4. ASSUME NEW c \in Callers, Ask(c)
      PROVE  Turn(c)
  BY <1>4, AskedTyped DEF Ask, Moves, DeskTypes, tables, Still
<1>5. ASSUME NEW c \in Callers, Fail(c)
      PROVE  Turn(c)
  BY <1>5, RequestCloses DEF Fail, DeskTypes
<1>6. ASSUME NEW c \in Callers, Reads(c)
      PROVE  Turn(c)
  BY <1>6, ReadsStep DEF DeskTypes, Still
<1>7. ASSUME NEW c \in Callers, ProductWrites(c) \/ CategoryWrites(c) \/ MoveStock(c) \/ Enroll(c)
      PROVE  Turn(c)
  <2>1. Moves(c, Nil) /\ overlapped' \in BOOLEAN
    BY <1>7, ProductWritten, CategoryWritten, StockMoved, Enrolled
       DEF ProductWriting, CategoryWriting, StockMoving, Enrolling, DeskTypes
  <2> QED BY <2>1
<1> HIDE DEF Turn
<1>8. CASE \E c \in Callers : Turn(c)
  BY <1>8 DEF Turn
<1>9. CASE DeskNext
  BY <1>2, <1>3, <1>4, <1>5, <1>6, <1>7, <1>8, <1>9 DEF DeskNext, Reads, ProductWrites, CategoryWrites
<1> QED BY <1>1, <1>9

\* The types hold after every step.
LEMMA DeskTypesStep == DeskTypes /\ [DeskNext]_deskVars => DeskTypes'
<1> SUFFICES ASSUME DeskTypes, [DeskNext]_deskVars PROVE DeskTypes'
  OBVIOUS
<1>1. RequestsTyped' /\ overlapped' \in BOOLEAN
  BY RequestKinds, MovesTyped DEF DeskTypes, RequestsTyped
<1>2. /\ product \in [Products -> ProductRows] /\ category \in [Categories -> CategoryRows]
      /\ stock \in [Products -> Int \cup {Nil}] /\ registers \in Seq(Nat)
      /\ post \in [Posts -> PostRows \cup {Nil}] /\ told \in Seq(Entries)
  BY DEF DeskTypes, TablesTyped
<1>3. \A p \in Products : OnShelf(p) \in Int
  BY <1>2 DEF OnShelf
<1>4. /\ ProductEntry \subseteq Entries /\ CategoryEntry \subseteq Entries
      /\ MovementEntry \subseteq Entries /\ RegisterEntry \subseteq Entries
  BY DEF Entries
<1>5. /\ \A m \in MovementEntry : m.state \in Int
      /\ \A m \in RegisterEntry : m.state \in Nat
  BY DEF MovementEntry, RegisterEntry, Entry
<1> SUFFICES TablesTyped'
  BY <1>1 DEF DeskTypes
<1>6. CASE Still
  BY <1>2, <1>6 DEF Still, TablesTyped
<1>7. ASSUME NEW c \in Callers, NEW p \in Products, NEW new \in ProductRows, NEW e \in ProductEntry,
             ProductWriting(c, p, new, e)
      PROVE  TablesTyped'
  <2>1. product' \in [Products -> ProductRows] /\ UNCHANGED <<category, registers, post>>
    BY <1>2, <1>7 DEF ProductWriting
  <2>2. told' \in Seq(Entries) /\ stock' \in [Products -> Int \cup {Nil}]
    <3>1. CASE told' = Append(told, e) /\ UNCHANGED stock
      BY <1>2, <1>4, <3>1
    <3>2. CASE \E m \in MovementEntry : /\ m.id = p /\ told' = Append(Append(told, e), m)
                                        /\ stock' = [stock EXCEPT ![p] = OnShelf(p) + m.state]
      <4>1. PICK m \in MovementEntry : /\ told' = Append(Append(told, e), m)
                                        /\ stock' = [stock EXCEPT ![p] = OnShelf(p) + m.state]
        BY <3>2
      <4>2. OnShelf(p) + m.state \in Int
        BY <1>3, <1>5
      <4>3. Append(told, e) \in Seq(Entries)
        BY <1>2, <1>4
      <4> QED BY <1>2, <1>4, <4>1, <4>2, <4>3
    <3> QED BY <1>7, <3>1, <3>2 DEF ProductWriting
  <2> QED BY <1>2, <2>1, <2>2 DEF TablesTyped
<1>8. ASSUME NEW c \in Callers, NEW k \in Categories, NEW new \in CategoryRows, NEW e \in CategoryEntry,
             CategoryWriting(c, k, new, e)
      PROVE  TablesTyped'
  <2>1. category' \in [Categories -> CategoryRows] /\ told' \in Seq(Entries)
        /\ UNCHANGED <<stock, registers, post>>
    BY <1>2, <1>4, <1>8 DEF CategoryWriting
  <2>2. \A p \in Products : [product[p] EXCEPT !.cat = Nil] \in ProductRows
    BY <1>2 DEF ProductRows
  <2>3. product' \in [Products -> ProductRows]
    BY <1>2, <1>8, <2>2 DEF CategoryWriting
  <2> QED BY <1>2, <2>1, <2>3 DEF TablesTyped
<1>9. ASSUME NEW c \in Callers, NEW p \in Products, NEW e \in MovementEntry, StockMoving(c, p, e)
      PROVE  TablesTyped'
  <2>1. OnShelf(p) + e.state \in Int
    BY <1>3, <1>5
  <2> QED BY <1>2, <1>4, <1>9, <2>1 DEF StockMoving, TablesTyped
<1>10. ASSUME NEW c \in Callers, NEW t \in Posts, NEW n \in Nat, Enrolling(c, t, n)
       PROVE  TablesTyped'
  <2>1. [register |-> n, revoked |-> FALSE] \in PostRows
    BY DEF PostRows
  <2>2. post' \in [Posts -> PostRows \cup {Nil}]
    BY <1>2, <1>10, <2>1 DEF Enrolling
  <2>3. registers' \in Seq(Nat) /\ told' \in Seq(Entries)
    <3>1. CASE UNCHANGED <<registers, told>>
      BY <1>2, <3>1
    <3>2. CASE \E e \in RegisterEntry : told' = Append(told, e) /\ registers' = Append(registers, e.state)
      BY <1>2, <1>4, <1>5, <3>2
    <3> QED BY <1>10, <3>1, <3>2 DEF Enrolling
  <2> QED BY <1>2, <1>10, <2>2, <2>3 DEF Enrolling, TablesTyped
<1>11. ASSUME NEW p \in Products, SetMinimum(p)
       PROVE  TablesTyped'
  BY <1>2, <1>3, <1>11 DEF SetMinimum, TablesTyped
<1>12. ASSUME NEW t \in Posts, Revoke(t)
       PROVE  TablesTyped'
  <2>1. post[t] \in PostRows
    BY <1>2, <1>12 DEF Revoke
  <2>2. [post[t] EXCEPT !.revoked = TRUE] \in PostRows
    BY <2>1 DEF PostRows
  <2> QED BY <1>2, <1>12, <2>2 DEF Revoke, TablesTyped
<1> QED BY <1>6, <1>7, <1>8, <1>9, <1>10, <1>11, <1>12, StepKinds

-----------------------------------------------------------------------------
(* The entries of a log about one row.                                     *)

Of(log, what, id) == {i \in DOMAIN log : log[i].kind = what /\ log[i].id = id}

About(e, what, id) == e.kind = what /\ e.id = id

\* One entry more: it is the last one about its row, and others have none more.
LEMMA OfAppend ==
    ASSUME NEW log \in Seq(Entries), NEW e \in Entries
    PROVE  /\ Len(log) \in Nat /\ DOMAIN log = 1..Len(log) /\ Append(log, e) \in Seq(Entries)
           /\ DOMAIN Append(log, e) = 1..(Len(log) + 1)
           /\ \A i \in DOMAIN log : Append(log, e)[i] = log[i]
           /\ Append(log, e)[Len(log) + 1] = e
           /\ \A what, id :
                /\ Of(log, what, id) \subseteq 1..Len(log)
                /\ About(e, what, id) => Of(Append(log, e), what, id) = Of(log, what, id) \cup {Len(log) + 1}
                /\ ~About(e, what, id) => Of(Append(log, e), what, id) = Of(log, what, id)
<1>1. /\ Len(log) \in Nat /\ DOMAIN log = 1..Len(log) /\ Append(log, e) \in Seq(Entries)
      /\ DOMAIN Append(log, e) = 1..(Len(log) + 1)
      /\ \A i \in DOMAIN log : Append(log, e)[i] = log[i]
      /\ Append(log, e)[Len(log) + 1] = e
  OBVIOUS
<1> DEFINE more == Append(log, e)
           n == Len(log)
<1>2. 1..(n + 1) = 1..n \cup {n + 1}
  BY <1>1
<1> HIDE DEF more, n
<1>3. ASSUME NEW what, NEW id
      PROVE  /\ Of(log, what, id) \subseteq 1..n
             /\ About(e, what, id) => Of(more, what, id) = Of(log, what, id) \cup {n + 1}
             /\ ~About(e, what, id) => Of(more, what, id) = Of(log, what, id)
  BY <1>1, <1>2 DEF more, n, Of, About
<1> QED BY <1>1, <1>3 DEF more, n

\* Versions 1 to v, each told once and in order; and what is told of one of them.
Tells(log, what, id, v) ==
    /\ {log[i].v : i \in Of(log, what, id)} = 1..v
    /\ \A i, j \in Of(log, what, id) : i < j => log[i].v < log[j].v

States(log, what, id, v) == {log[i].state : i \in {j \in Of(log, what, id) : log[j].v = v}}

\* What is told of other rows leaves the versions of this one told.
LEMMA TellsOther ==
    ASSUME NEW log \in Seq(Entries), NEW e \in Entries, NEW what, NEW id, ~About(e, what, id), NEW v
    PROVE  /\ Tells(log, what, id, v) => Tells(Append(log, e), what, id, v)
           /\ States(Append(log, e), what, id, v) = States(log, what, id, v)
<1> DEFINE more == Append(log, e)
           S == Of(log, what, id)
<1>1. Of(more, what, id) = S /\ \A i \in S : more[i] = log[i]
  BY OfAppend
<1> HIDE DEF more, S
<1>2. {more[i].v : i \in S} = {log[i].v : i \in S}
  BY <1>1
<1>3. {more[i].state : i \in {j \in S : more[j].v = v}} = {log[i].state : i \in {j \in S : log[j].v = v}}
  BY <1>1
<1>4. Tells(log, what, id, v) => Tells(more, what, id, v)
  BY <1>1, <1>2 DEF Tells, S
<1>5. States(more, what, id, v) = States(log, what, id, v)
  BY <1>1, <1>3 DEF States, S
<1> QED BY <1>4, <1>5 DEF more

\* The entry of the next version tells one more, and what the row then holds.
LEMMA TellsNext ==
    ASSUME NEW log \in Seq(Entries), NEW e \in Entries, NEW what, NEW id, About(e, what, id), NEW v \in Nat,
           e.v = v + 1, Tells(log, what, id, v)
    PROVE  /\ Tells(Append(log, e), what, id, v + 1)
           /\ States(Append(log, e), what, id, v + 1) = {e.state}
<1> DEFINE more == Append(log, e)
           S == Of(log, what, id)
           n == Len(log) + 1
<1>1. /\ Of(more, what, id) = S \cup {n} /\ \A i \in S : i \in Nat /\ i < n /\ more[i] = log[i]
      /\ n \in Nat /\ more[n] = e
  BY OfAppend
<1>2. /\ {log[i].v : i \in S} = 1..v
      /\ \A i, j \in S : i < j => log[i].v < log[j].v
  BY DEF Tells
<1> HIDE DEF more, S, n
<1>3. \A i \in S : log[i].v \in 1..v
  BY <1>2
<1>4. {more[i].v : i \in S \cup {n}} = 1..(v + 1)
  <2>1. {more[i].v : i \in S \cup {n}} = {log[i].v : i \in S} \cup {e.v}
    BY <1>1
  <2>2. 1..(v + 1) = 1..v \cup {v + 1}
    OBVIOUS
  <2> QED BY <1>2, <2>1, <2>2
<1>5. \A i, j \in S \cup {n} : i < j => more[i].v < more[j].v
  BY <1>1, <1>2, <1>3
<1>6. {j \in S \cup {n} : more[j].v = v + 1} = {n}
  BY <1>1, <1>3
<1>7. {more[i].state : i \in {j \in S \cup {n} : more[j].v = v + 1}} = {e.state}
  BY <1>1, <1>6
<1> QED BY <1>1, <1>4, <1>5, <1>7 DEF Tells, States, more, S, n

\* The kinds of entries tell themselves apart.
LEMMA EntryFacts ==
    ASSUME NEW e
    PROVE  /\ e \in ProductEntry => e \in Entries /\ e.kind = "product" /\ e.id \in Products /\ e.state \in ProductRows
           /\ e \in CategoryEntry => e \in Entries /\ e.kind = "category" /\ e.id \in Categories
                                     /\ e.state \in CategoryRows
           /\ e \in MovementEntry => e \in Entries /\ e.kind = "movement" /\ e.id \in Products /\ e.state \in Int
           /\ e \in RegisterEntry => e \in Entries /\ e.kind = "register" /\ e.id \in Nat /\ e.state \in Nat
           /\ e \in Entries => e.base \in Nat /\ e.v \in Nat
BY DEF Entries, ProductEntry, CategoryEntry, MovementEntry, RegisterEntry, Entry

-----------------------------------------------------------------------------
(* The log and the rows.                                                   *)

\* What was told last of a product may name a category that it has lost since, with the category.
Known(s, row, categories) ==
    \/ s = row
    \/ /\ s = [row EXCEPT !.cat = s.cat]
       /\ row.cat = Nil /\ s.cat \in Categories /\ categories[s.cat].del

CategoriesTold ==
    \A k \in Categories :
        /\ Tells(told, "category", k, category[k].v)
        /\ States(told, "category", k, category[k].v) \subseteq {category[k]}
        /\ category[k].del => category[k].v > 0

ProductsTold ==
    \A p \in Products :
        /\ Tells(told, "product", p, product[p].v)
        /\ \A s \in States(told, "product", p, product[p].v) : Known(s, product[p], category)

LogInv == CategoriesTold /\ ProductsTold

\* The log of the invariant is that of LogTold.
LEMMA LogInvTells == LogInv => LogTold
<1>1. \A what, id : ToldOf(what, id) = Of(told, what, id)
  BY DEF ToldOf, Of
<1>2. \A what, id, v : Tells(told, what, id, v) => InOrder(ToldOf(what, id), v)
  BY <1>1 DEF Tells, InOrder
<1>3. \A what, id, v : \A i \in ToldOf(what, id) : told[i].v = v => told[i].state \in States(told, what, id, v)
  BY <1>1 DEF States
<1> SUFFICES ASSUME LogInv PROVE LogTold
  OBVIOUS
<1>4. ASSUME NEW k \in Categories
      PROVE  /\ InOrder(ToldOf("category", k), category[k].v)
             /\ \A i \in ToldOf("category", k) :
                  told[i].v = category[k].v => told[i].state = category[k]
  BY <1>2, <1>3 DEF LogInv, CategoriesTold
<1>5. ASSUME NEW p \in Products
      PROVE  /\ InOrder(ToldOf("product", p), product[p].v)
             /\ \A i \in ToldOf("product", p) :
                  told[i].v = product[p].v => Known(told[i].state, product[p], category)
  BY <1>2, <1>3 DEF LogInv, ProductsTold
<1> QED BY <1>4, <1>5, Zenon DEF LogTold, Known

LEMMA LogInit == DeskInit => LogInv
<1> SUFFICES ASSUME DeskInit PROVE LogInv
  OBVIOUS
<1>1. told = <<>> /\ \A p \in Products : product[p].v = 0
  BY DEF DeskInit, Absence
<1>2. \A k \in Categories : category[k].v = 0 /\ ~category[k].del
  BY DEF DeskInit, Absence
<1>3. \A what, id : Of(told, what, id) = {}
  BY <1>1 DEF Of
<1>4. \A what, id : Tells(told, what, id, 0) /\ States(told, what, id, 0) = {}
  BY <1>3 DEF Tells, States
<1> QED BY <1>1, <1>2, <1>4 DEF LogInv, CategoriesTold, ProductsTold

\* Each write tells the next version of its row; a removed category its last.
LEMMA LogStep == DeskTypes /\ LogInv /\ [DeskNext]_deskVars => LogInv'
<1> SUFFICES ASSUME DeskTypes, LogInv, [DeskNext]_deskVars PROVE LogInv'
  OBVIOUS
<1>1. /\ product \in [Products -> ProductRows] /\ category \in [Categories -> CategoryRows]
      /\ told \in Seq(Entries)
  BY DEF DeskTypes, TablesTyped
<1>2. CASE Still
  BY <1>2 DEF Still, LogInv, CategoriesTold, ProductsTold
<1>3. ASSUME NEW e \in Entries, e.kind \notin {"product", "category"}, told' = Append(told, e),
             UNCHANGED <<product, category>>
      PROVE  LogInv'
  <2>1. \A what \in {"product", "category"} : \A id : ~About(e, what, id)
    BY <1>3 DEF About
  <2>2. \A what \in {"product", "category"} : \A id, v :
           /\ Tells(told, what, id, v) => Tells(told', what, id, v)
           /\ States(told', what, id, v) = States(told, what, id, v)
    BY <1>1, <1>3, <2>1, TellsOther
  <2> QED BY <1>3, <2>2 DEF LogInv, CategoriesTold, ProductsTold
<1>4. ASSUME NEW c \in Callers, NEW p \in Products, NEW new \in ProductRows, NEW e \in ProductEntry,
             ProductWriting(c, p, new, e)
      PROVE  LogInv'
  <2> DEFINE once == Append(told, e)
  <2>1. e \in Entries /\ once \in Seq(Entries) /\ \A what, id : About(e, what, id) <=> what = "product" /\ id = p
    BY <1>1, <1>4, EntryFacts, OfAppend DEF ProductWriting, About
  <2>2. product[p].v \in Nat /\ e.v = product[p].v + 1 /\ e.state = new /\ new.v = product[p].v + 1
    BY <1>1, <1>4 DEF ProductWriting, ProductRows
  <2>3. /\ product'[p] = new /\ \A x \in Products : x # p => product'[x] = product[x]
        /\ category' = category
    BY <1>1, <1>4 DEF ProductWriting
  <2>4. Tells(once, "product", p, new.v) /\ States(once, "product", p, new.v) = {new}
    <3>1. Tells(told, "product", p, product[p].v) /\ About(e, "product", p)
      BY <2>1 DEF LogInv, ProductsTold
    <3>2. /\ Tells(once, "product", p, product[p].v + 1)
          /\ States(once, "product", p, product[p].v + 1) = {e.state}
      BY <1>1, <2>1, <2>2, <3>1, TellsNext
    <3> QED BY <2>2, <3>2
  <2>5. ASSUME NEW what, NEW id, NEW v, ~(what = "product" /\ id = p)
        PROVE  /\ Tells(told, what, id, v) => Tells(once, what, id, v)
               /\ States(once, what, id, v) = States(told, what, id, v)
    <3>1. ~About(e, what, id)
      BY <2>1, <2>5
    <3> QED BY <1>1, <2>1, <3>1, TellsOther
  <2> HIDE DEF once
  <2>6. ASSUME NEW what \in {"product", "category"}, NEW id, NEW v
        PROVE  /\ Tells(once, what, id, v) => Tells(told', what, id, v)
               /\ States(told', what, id, v) = States(once, what, id, v)
    <3>1. CASE told' = once
      BY <3>1
    <3>2. CASE \E m \in MovementEntry : told' = Append(once, m)
      <4>1. PICK m \in MovementEntry : told' = Append(once, m)
        BY <3>2
      <4>2. m \in Entries /\ ~About(m, what, id)
        BY EntryFacts DEF About
      <4> QED BY <2>1, <4>1, <4>2, TellsOther
    <3> QED BY <1>4, <3>1, <3>2 DEF ProductWriting, once
  <2>7. CategoriesTold'
    BY <2>3, <2>5, <2>6 DEF LogInv, CategoriesTold
  <2>8. ProductsTold'
    <3>1. ASSUME NEW x \in Products
          PROVE  /\ Tells(told', "product", x, product'[x].v)
                 /\ \A s \in States(told', "product", x, product'[x].v) : Known(s, product'[x], category')
      <4>1. CASE x = p
        BY <2>3, <2>4, <2>6, <4>1 DEF Known
      <4>2. CASE x # p
        BY <2>3, <2>5, <2>6, <4>2 DEF LogInv, ProductsTold
      <4> QED BY <4>1, <4>2
    <3> QED BY <3>1 DEF ProductsTold
  <2> QED BY <2>7, <2>8 DEF LogInv
<1>5. ASSUME NEW c \in Callers, NEW k \in Categories, NEW new \in CategoryRows, NEW e \in CategoryEntry,
             CategoryWriting(c, k, new, e)
      PROVE  LogInv'
  <2>1. e \in Entries /\ \A what, id : About(e, what, id) <=> what = "category" /\ id = k
    BY <1>5, EntryFacts DEF CategoryWriting, About
  <2>2. category[k].v \in Nat /\ e.v = category[k].v + 1 /\ e.state = new /\ new.v = category[k].v + 1
        /\ told' = Append(told, e)
    BY <1>1, <1>5 DEF CategoryWriting, CategoryRows
  <2>3. category'[k] = new /\ \A x \in Categories : x # k => category'[x] = category[x]
    BY <1>1, <1>5 DEF CategoryWriting
  <2>4. Tells(told', "category", k, new.v) /\ States(told', "category", k, new.v) = {new}
    <3>1. Tells(told, "category", k, category[k].v) /\ About(e, "category", k)
      BY <2>1 DEF LogInv, CategoriesTold
    <3>2. /\ Tells(told', "category", k, category[k].v + 1)
          /\ States(told', "category", k, category[k].v + 1) = {e.state}
      BY <1>1, <2>1, <2>2, <3>1, TellsNext
    <3> QED BY <2>2, <3>2
  <2>5. ASSUME NEW what, NEW id, NEW v, ~(what = "category" /\ id = k)
        PROVE  /\ Tells(told, what, id, v) => Tells(told', what, id, v)
               /\ States(told', what, id, v) = States(told, what, id, v)
    <3>1. ~About(e, what, id)
      BY <2>1, <2>5
    <3> QED BY <1>1, <2>1, <2>2, <3>1, TellsOther
  <2>6. CategoriesTold'
    <3>1. ASSUME NEW x \in Categories
          PROVE  /\ Tells(told', "category", x, category'[x].v)
                 /\ States(told', "category", x, category'[x].v) \subseteq {category'[x]}
                 /\ category'[x].del => category'[x].v > 0
      <4>1. CASE x = k
        BY <2>2, <2>3, <2>4, <4>1
      <4>2. CASE x # k
        BY <2>3, <2>5, <4>2 DEF LogInv, CategoriesTold
      <4> QED BY <4>1, <4>2
    <3> QED BY <3>1 DEF CategoriesTold
  <2>7. \A x \in Categories : category[x].del => category'[x].del
    <3>1. category[k].del => new.del
      <4>1. category[k].del => category[k].v > 0
        BY DEF LogInv, CategoriesTold
      <4>2. category[k].v = 0 \/ new.del \/ new.del = category[k].del
        BY <1>5 DEF CategoryWriting
      <4>3. category[k].del => category[k].v # 0
        BY <4>1
      <4> QED BY <4>2, <4>3, Zenon
    <3> QED BY <2>3, <3>1
  <2>8. ASSUME NEW x \in Products
        PROVE  /\ Tells(told', "product", x, product'[x].v)
               /\ \A s \in States(told', "product", x, product'[x].v) : Known(s, product'[x], category')
    <3>1. /\ Tells(told', "product", x, product[x].v)
          /\ \A s \in States(told', "product", x, product[x].v) : Known(s, product[x], category)
      BY <2>5 DEF LogInv, ProductsTold
    <3>2. CASE product'[x] = product[x]
      BY <2>7, <3>1, <3>2 DEF Known
    <3>3. CASE /\ product'[x] = [product[x] EXCEPT !.cat = Nil] /\ product[x].cat = k
               /\ new.del
      <4>1. product[x] \in ProductRows
        BY <1>1
      <4>2. product'[x].v = product[x].v /\ product'[x].cat = Nil
        BY <3>3, <4>1 DEF ProductRows
      <4>3. k # Nil
        BY DeskAssumption
      <4>4. [product'[x] EXCEPT !.cat = k] = product[x]
        BY <3>3, <4>1 DEF ProductRows
      <4>5. \A s : Known(s, product[x], category) => s = product[x]
        BY <3>3, <4>3 DEF Known
      <4>6. Known(product[x], product'[x], category')
        BY <2>3, <3>3, <4>2, <4>4 DEF Known
      <4> QED BY <3>1, <4>2, <4>5, <4>6
    <3> QED BY <1>1, <1>5, <3>2, <3>3 DEF CategoryWriting
  <2> QED BY <2>6, <2>8 DEF LogInv, ProductsTold
<1>6. ASSUME NEW c \in Callers, NEW p \in Products, NEW e \in MovementEntry, StockMoving(c, p, e)
      PROVE  LogInv'
  BY <1>3, <1>6, EntryFacts DEF StockMoving
<1>7. ASSUME NEW c \in Callers, NEW t \in Posts, NEW n \in Nat, Enrolling(c, t, n)
      PROVE  LogInv'
  <2>1. CASE UNCHANGED told
    BY <1>7, <2>1 DEF Enrolling, LogInv, CategoriesTold, ProductsTold
  <2>2. CASE \E e \in RegisterEntry : told' = Append(told, e)
    BY <1>3, <1>7, <2>2, EntryFacts DEF Enrolling
  <2> QED BY <1>7, <2>1, <2>2 DEF Enrolling
<1>8. ASSUME NEW p \in Products, SetMinimum(p)
      PROVE  LogInv'
  BY <1>8 DEF SetMinimum, LogInv, CategoriesTold, ProductsTold
<1>9. ASSUME NEW t \in Posts, Revoke(t)
      PROVE  LogInv'
  BY <1>9 DEF Revoke, LogInv, CategoriesTold, ProductsTold
<1> QED BY <1>2, <1>4, <1>5, <1>6, <1>7, <1>8, <1>9, StepKinds

-----------------------------------------------------------------------------
(* The levels and the movements.                                           *)

Moved(log, p) == SumFunctionOnSet([i \in DOMAIN log |-> log[i].state], Of(log, "movement", p))

\* The movements told of a product are finitely many, and have a sum.
LEMMA OfMovements ==
    ASSUME NEW log \in Seq(Entries), NEW p
    PROVE  /\ IsFiniteSet(Of(log, "movement", p))
           /\ \A i \in Of(log, "movement", p) : i \in DOMAIN log /\ log[i].state \in Int
           /\ Moved(log, p) \in Int
<1>1. Len(log) \in Nat /\ DOMAIN log = 1..Len(log)
  OBVIOUS
<1>2. IsFiniteSet(1..Len(log))
  BY <1>1, FS_Interval
<1>3. IsFiniteSet(Of(log, "movement", p))
  BY <1>1, <1>2, FS_Subset DEF Of
<1>4. ASSUME NEW i \in Of(log, "movement", p)
      PROVE  i \in DOMAIN log /\ log[i].state \in Int
  <2>1. i \in DOMAIN log /\ log[i] \in Entries /\ log[i].kind = "movement"
    BY <1>1 DEF Of
  <2>2. log[i] \in MovementEntry
    BY <2>1 DEF Entries, ProductEntry, CategoryEntry, RegisterEntry, Entry
  <2> QED BY <2>1, <2>2, EntryFacts
<1> DEFINE f == [i \in DOMAIN log |-> log[i].state]
           S == Of(log, "movement", p)
<1>5. \A i \in S : f[i] \in Int
  BY <1>4
<1> HIDE DEF f, S
<1>6. SumFunctionOnSet(f, S) \in Int
  BY <1>3, <1>5, SumType DEF S
<1> QED BY <1>3, <1>4, <1>6 DEF Moved, f, S

\* A movement more adds its quantity to the sum of its product, and to no other.
LEMMA MovedOnce ==
    ASSUME NEW log \in Seq(Entries), NEW e \in Entries, NEW p
    PROVE  /\ e.kind # "movement" \/ e.id # p => Moved(Append(log, e), p) = Moved(log, p)
           /\ e \in MovementEntry /\ e.id = p => Moved(Append(log, e), p) = Moved(log, p) + e.state
<1> DEFINE more == Append(log, e)
           f == [i \in DOMAIN log |-> log[i].state]
           g == [i \in DOMAIN more |-> more[i].state]
           S == Of(log, "movement", p)
           n == Len(log) + 1
<1>1. /\ DOMAIN log = 1..Len(log) /\ Len(log) \in Nat /\ DOMAIN more = 1..n /\ more[n] = e
      /\ \A i \in DOMAIN log : more[i] = log[i]
      /\ S \subseteq 1..Len(log)
      /\ About(e, "movement", p) => Of(more, "movement", p) = S \cup {n}
      /\ ~About(e, "movement", p) => Of(more, "movement", p) = S
  BY OfAppend
<1>2. IsFiniteSet(S) /\ \A i \in S : i \in DOMAIN log /\ log[i].state \in Int
  BY OfMovements
<1> HIDE DEF S, more
<1>3. \A i \in S : f[i] \in Int /\ g[i] = f[i]
  BY <1>1, <1>2
<1>4. n \in DOMAIN more /\ n \notin S /\ g[n] = e.state
  BY <1>1
<1> HIDE DEF f, g, n
<1>5. SumFunctionOnSet(f, S) = SumFunctionOnSet(g, S) /\ SumFunctionOnSet(g, S) \in Int
  BY <1>2, <1>3, SumSame, SumType
<1>6. ASSUME e.kind # "movement" \/ e.id # p
      PROVE  Moved(more, p) = Moved(log, p)
  <2>1. Of(more, "movement", p) = S
    BY <1>1, <1>6 DEF About
  <2> QED BY <1>5, <2>1 DEF Moved, f, g, S
<1>7. ASSUME e \in MovementEntry, e.id = p
      PROVE  Moved(more, p) = Moved(log, p) + e.state
  <2>1. e.kind = "movement" /\ e.state \in Int
    BY <1>7, EntryFacts
  <2>2. Of(more, "movement", p) = S \cup {n}
    BY <1>1, <1>7, <2>1 DEF About
  <2>3. SumFunctionOnSet(g, S \cup {n}) = e.state + SumFunctionOnSet(g, S)
    BY <1>2, <1>3, <1>4, <2>1, SumAdd
  <2>4. Moved(more, p) = e.state + SumFunctionOnSet(g, S) /\ Moved(log, p) = SumFunctionOnSet(g, S)
    BY <1>5, <2>2, <2>3 DEF Moved, f, g, S
  <2> QED BY <1>5, <2>1, <2>4
<1> QED BY <1>6, <1>7 DEF more

LevelInv == \A p \in Products : OnShelf(p) = Moved(told, p)

\* The invariant of the levels is LevelsAddUp itself.
LEMMA LevelsTold == LevelInv <=> LevelsAddUp
BY DEF LevelInv, LevelsAddUp, Moved, ToldOf, Of

LEMMA LevelsInit == DeskInit => LevelInv
<1> SUFFICES ASSUME DeskInit, NEW p \in Products PROVE OnShelf(p) = Moved(told, p)
  BY DEF LevelInv
<1>1. OnShelf(p) = 0 /\ told = <<>>
  BY DEF DeskInit, OnShelf
<1>2. Of(told, "movement", p) = {}
  BY <1>1 DEF Of
<1> QED BY <1>1, <1>2, SumEmpty DEF Moved

\* A level moves by what is told, and by nothing else.
LEMMA LevelsStep == DeskTypes /\ LevelInv /\ [DeskNext]_deskVars => LevelInv'
<1> SUFFICES ASSUME DeskTypes, LevelInv, [DeskNext]_deskVars PROVE LevelInv'
  OBVIOUS
<1>1. stock \in [Products -> Int \cup {Nil}] /\ told \in Seq(Entries) /\ Nil \notin Int
  BY DeskAssumption DEF DeskTypes, TablesTyped
<1>2. \A p \in Products : OnShelf(p) \in Int
  BY <1>1 DEF OnShelf
<1>3. ASSUME UNCHANGED stock, \A p \in Products : Moved(told', p) = Moved(told, p)
      PROVE  LevelInv'
  BY <1>3 DEF LevelInv, OnShelf
<1>4. ASSUME NEW log \in Seq(Entries), NEW m \in MovementEntry, NEW p \in Products, m.id = p,
             told' = Append(log, m), stock' = [stock EXCEPT ![p] = OnShelf(p) + m.state],
             \A x \in Products : Moved(log, x) = Moved(told, x)
      PROVE  LevelInv'
  <2>1. m \in Entries /\ m.kind = "movement" /\ m.state \in Int
    BY EntryFacts
  <2>2. \A x \in Products : x # p => Moved(told', x) = Moved(told, x)
    BY <1>4, <2>1, MovedOnce
  <2>3. Moved(told', p) = Moved(told, p) + m.state
    BY <1>4, <2>1, MovedOnce
  <2>4. OnShelf(p)' = OnShelf(p) + m.state
    BY <1>1, <1>2, <1>4, <2>1 DEF OnShelf
  <2>5. \A x \in Products : x # p => OnShelf(x)' = OnShelf(x)
    BY <1>1, <1>4 DEF OnShelf
  <2> QED BY <2>2, <2>3, <2>4, <2>5 DEF LevelInv
<1>5. CASE Still
  BY <1>3, <1>5 DEF Still
<1>6. ASSUME NEW c \in Callers, NEW p \in Products, NEW new \in ProductRows, NEW e \in ProductEntry,
             ProductWriting(c, p, new, e)
      PROVE  LevelInv'
  <2>1. e \in Entries /\ e.kind = "product"
    BY EntryFacts
  <2>2. \A x \in Products : Moved(Append(told, e), x) = Moved(told, x)
    BY <1>1, <2>1, MovedOnce
  <2>3. Append(told, e) \in Seq(Entries)
    BY <1>1, <2>1
  <2> QED BY <1>3, <1>4, <1>6, <2>2, <2>3 DEF ProductWriting
<1>7. ASSUME NEW c \in Callers, NEW k \in Categories, NEW new \in CategoryRows, NEW e \in CategoryEntry,
             CategoryWriting(c, k, new, e)
      PROVE  LevelInv'
  <2>1. e \in Entries /\ e.kind = "category"
    BY EntryFacts
  <2>2. \A x \in Products : Moved(Append(told, e), x) = Moved(told, x)
    BY <1>1, <2>1, MovedOnce
  <2> QED BY <1>3, <1>7, <2>2 DEF CategoryWriting
<1>8. ASSUME NEW c \in Callers, NEW p \in Products, NEW e \in MovementEntry, StockMoving(c, p, e)
      PROVE  LevelInv'
  BY <1>1, <1>4, <1>8 DEF StockMoving
<1>9. ASSUME NEW c \in Callers, NEW t \in Posts, NEW n \in Nat, Enrolling(c, t, n)
      PROVE  LevelInv'
  <2>1. \A e \in RegisterEntry, x \in Products : Moved(Append(told, e), x) = Moved(told, x)
    BY <1>1, EntryFacts, MovedOnce
  <2> QED BY <1>3, <1>9, <2>1 DEF Enrolling
<1>10. ASSUME NEW p \in Products, SetMinimum(p)
       PROVE  LevelInv'
  <2>1. \A x \in Products : OnShelf(x)' = OnShelf(x)
    BY <1>1, <1>2, <1>10 DEF SetMinimum, OnShelf
  <2> QED BY <1>10, <2>1 DEF SetMinimum, LevelInv
<1>11. ASSUME NEW t \in Posts, Revoke(t)
       PROVE  LevelInv'
  BY <1>3, <1>11 DEF Revoke
<1> QED BY <1>5, <1>6, <1>7, <1>8, <1>9, <1>10, <1>11, StepKinds

-----------------------------------------------------------------------------
(* The registers.                                                          *)

\* None is told that is not there, and one a request is to use was.
RegisterInv ==
    /\ RegistersTold
    /\ \A i \in DOMAIN told : told[i].kind = "register" => told[i].id \in DOMAIN registers
    /\ \A c \in Callers : Doing(c, {"enroll"}, "write") /\ request[c].qty > 0 =>
                              request[c].qty \in DOMAIN registers

LEMMA RegisterInit == DeskInit => RegisterInv
<1> SUFFICES ASSUME DeskInit PROVE RegisterInv
  OBVIOUS
<1>1. DOMAIN registers = {} /\ DOMAIN told = {} /\ \A t \in Posts : post[t] = Nil
  BY DEF DeskInit
<1>2. \A c \in Callers : request[c] = Nil
  BY DEF DeskInit
<1> QED BY <1>1, <1>2 DEF RegisterInv, RegistersTold, Doing

\* A register is told as it is made, under the next number.
LEMMA RegisterStep == DeskTypes /\ RegisterInv /\ [DeskNext]_deskVars => RegisterInv'
<1> SUFFICES ASSUME DeskTypes, RegisterInv, [DeskNext]_deskVars PROVE RegisterInv'
  OBVIOUS
<1>1. /\ registers \in Seq(Nat) /\ post \in [Posts -> PostRows \cup {Nil}] /\ told \in Seq(Entries)
      /\ Len(registers) \in Nat /\ DOMAIN registers = 1..Len(registers)
  BY DEF DeskTypes, TablesTyped
<1>2. /\ \A i, j \in DOMAIN registers : registers[i] = registers[j] => i = j
      /\ \A i \in DOMAIN registers : Cardinality(Of(told, "register", i)) = 1
      /\ \A t \in Posts : post[t] # Nil => post[t].register \in DOMAIN registers
      /\ \A i \in DOMAIN told : told[i].kind = "register" => told[i].id \in DOMAIN registers
  BY DEF RegisterInv, RegistersTold, ToldOf, Of
<1> DEFINE Kept == /\ RegistersTold'
                   /\ \A i \in DOMAIN told' : told'[i].kind = "register" => told'[i].id \in DOMAIN registers'
                   /\ DOMAIN registers \subseteq DOMAIN registers'
\* Entries of other tables change nothing.
<1>3. ASSUME NEW log \in Seq(Entries), NEW e \in Entries, e.kind # "register",
             \A i \in DOMAIN registers : Cardinality(Of(log, "register", i)) = 1,
             \A i \in DOMAIN log : log[i].kind = "register" => log[i].id \in DOMAIN registers
      PROVE  /\ \A i \in DOMAIN registers : Cardinality(Of(Append(log, e), "register", i)) = 1
             /\ \A i \in DOMAIN Append(log, e) : Append(log, e)[i].kind = "register" =>
                    Append(log, e)[i].id \in DOMAIN registers
             /\ Append(log, e) \in Seq(Entries)
  <2> DEFINE more == Append(log, e)
  <2>1. \A i : Of(more, "register", i) = Of(log, "register", i)
    BY <1>3, OfAppend DEF About
  <2>2. /\ Len(log) \in Nat /\ DOMAIN log = 1..Len(log) /\ DOMAIN more = 1..(Len(log) + 1)
        /\ \A i \in DOMAIN log : more[i] = log[i]
        /\ more[Len(log) + 1] = e /\ more \in Seq(Entries)
    BY OfAppend
  <2> HIDE DEF more
  <2>3. \A i \in DOMAIN more : i \in DOMAIN log \/ i = Len(log) + 1
    BY <2>2
  <2> QED BY <1>3, <2>1, <2>2, <2>3 DEF more
<1>4. ASSUME UNCHANGED <<registers, post>>,
             /\ \A i \in DOMAIN registers : Cardinality(Of(told', "register", i)) = 1
             /\ \A i \in DOMAIN told' : told'[i].kind = "register" => told'[i].id \in DOMAIN registers
      PROVE  Kept
  BY <1>2, <1>4 DEF RegistersTold, ToldOf, Of
<1> HIDE DEF Kept
<1>14. ASSUME NEW e \in Entries, e.kind # "register", told' = Append(told, e), UNCHANGED <<registers, post>>
       PROVE  Kept
  <2> DEFINE more == Append(told, e)
  <2>1. /\ \A i \in DOMAIN registers : Cardinality(Of(more, "register", i)) = 1
        /\ \A i \in DOMAIN more : more[i].kind = "register" => more[i].id \in DOMAIN registers
    BY <1>1, <1>2, <1>3, <1>14
  <2>2. told' = more
    BY <1>14
  <2> HIDE DEF more
  <2> QED BY <1>4, <1>14, <2>1, <2>2
<1>5. ASSUME Still PROVE Kept
  BY <1>2, <1>4, <1>5 DEF Still
<1>6. ASSUME NEW c \in Callers, NEW p \in Products, NEW new \in ProductRows, NEW e \in ProductEntry,
             ProductWriting(c, p, new, e)
      PROVE  Kept
  <2> DEFINE once == Append(told, e)
  <2>1. /\ \A i \in DOMAIN registers : Cardinality(Of(once, "register", i)) = 1
        /\ \A i \in DOMAIN once : once[i].kind = "register" => once[i].id \in DOMAIN registers
        /\ once \in Seq(Entries)
    BY <1>1, <1>2, <1>3, EntryFacts
  <2> HIDE DEF once
  <2>2. CASE told' = once
    BY <1>4, <1>6, <2>1, <2>2 DEF ProductWriting
  <2>3. CASE \E m \in MovementEntry : told' = Append(once, m)
    <3>1. PICK m \in MovementEntry : told' = Append(once, m)
      BY <2>3
    <3>2. /\ \A i \in DOMAIN registers : Cardinality(Of(told', "register", i)) = 1
          /\ \A i \in DOMAIN told' : told'[i].kind = "register" => told'[i].id \in DOMAIN registers
      BY <1>3, <2>1, <3>1, EntryFacts
    <3> QED BY <1>4, <1>6, <3>2 DEF ProductWriting
  <2> QED BY <1>6, <2>2, <2>3 DEF ProductWriting, once
<1>7. ASSUME NEW c \in Callers, NEW k \in Categories, NEW new \in CategoryRows, NEW e \in CategoryEntry,
             CategoryWriting(c, k, new, e)
      PROVE  Kept
  BY <1>7, <1>14, EntryFacts DEF CategoryWriting
<1>8. ASSUME NEW c \in Callers, NEW p \in Products, NEW e \in MovementEntry, StockMoving(c, p, e)
      PROVE  Kept
  BY <1>8, <1>14, EntryFacts DEF StockMoving
<1>9. ASSUME NEW c \in Callers, NEW t \in Posts, NEW n \in Nat, Enrolling(c, t, n)
      PROVE  Kept
  <2>1. ASSUME NEW posts, post' = [post EXCEPT ![t] = [register |-> n, revoked |-> FALSE]], n \in posts,
               DOMAIN registers \subseteq posts
        PROVE  \A x \in Posts : post'[x] # Nil => post'[x].register \in posts
    BY <1>1, <1>2, <2>1
  <2>2. CASE request[c].qty > 0 /\ n = request[c].qty /\ UNCHANGED <<registers, told>>
    <3>1. n \in DOMAIN registers
      BY <1>9, <2>2 DEF Enrolling, RegisterInv, Doing
    <3>2. \A x \in Posts : post'[x] # Nil => post'[x].register \in DOMAIN registers
      BY <1>9, <2>1, <3>1 DEF Enrolling
    <3> QED BY <1>2, <2>2, <3>2 DEF RegistersTold, ToldOf, Of, Kept
  <2>3. ASSUME NEW e \in RegisterEntry, n = Len(registers) + 1, e.id = n, told' = Append(told, e),
               registers' = Append(registers, e.state), \A i \in DOMAIN registers : registers[i] # e.state
        PROVE  Kept
    <3>1. e \in Entries /\ e.kind = "register" /\ e.state \in Nat
      BY EntryFacts
    <3>2. /\ DOMAIN registers' = 1..n /\ registers'[n] = e.state
          /\ \A i \in DOMAIN registers : registers'[i] = registers[i]
      BY <1>1, <2>3, <3>1
    <3>3. /\ Len(told) \in Nat /\ DOMAIN told = 1..Len(told) /\ DOMAIN told' = 1..(Len(told) + 1)
          /\ \A i \in DOMAIN told : told'[i] = told[i]
          /\ told'[Len(told) + 1] = e
      BY <1>1, <2>3, <3>1, OfAppend
    <3>13. \A i : About(e, "register", i) <=> i = n
      BY <2>3, <3>1 DEF About
    <3>14. /\ \A i : i # n => Of(told', "register", i) = Of(told, "register", i)
           /\ Of(told', "register", n) = Of(told, "register", n) \cup {Len(told) + 1}
      <4> DEFINE more == Append(told, e)
      <4>1. /\ \A i : i # n => Of(more, "register", i) = Of(told, "register", i)
            /\ Of(more, "register", n) = Of(told, "register", n) \cup {Len(told) + 1}
        BY <1>1, <3>1, <3>13, OfAppend
      <4>2. told' = more
        BY <2>3
      <4> HIDE DEF more
      <4> QED BY <4>1, <4>2
    <3>4. Of(told, "register", n) = {}
      BY <1>1, <1>2, <2>3 DEF Of
    <3>5. Cardinality(Of(told', "register", n)) = 1
      <4>1. Of(told', "register", n) = {Len(told) + 1}
        BY <3>4, <3>14
      <4> QED BY <4>1, FS_Singleton
    <3>6. \A i \in DOMAIN registers' : i # n => i \in DOMAIN registers
      BY <1>1, <2>3, <3>2
    <3>7. \A i \in DOMAIN registers' : Cardinality(Of(told', "register", i)) = 1
      BY <1>2, <3>14, <3>5, <3>6
    <3>8. \A i, j \in DOMAIN registers' : registers'[i] = registers'[j] => i = j
      BY <1>2, <2>3, <3>2, <3>6
    <3>9. DOMAIN registers \subseteq DOMAIN registers' /\ n \in DOMAIN registers'
      BY <1>1, <2>3, <3>2
    <3>10. \A i \in DOMAIN told' : told'[i].kind = "register" => told'[i].id \in DOMAIN registers'
      BY <1>2, <2>3, <3>3, <3>9
    <3>11. \A x \in Posts : post'[x] # Nil => post'[x].register \in DOMAIN registers'
      BY <1>9, <2>1, <3>9 DEF Enrolling
    <3> QED BY <3>7, <3>8, <3>9, <3>10, <3>11 DEF RegistersTold, ToldOf, Of, Kept
  <2> QED BY <1>9, <2>2, <2>3 DEF Enrolling
<1>10. ASSUME NEW p \in Products, SetMinimum(p)
       PROVE  Kept
  BY <1>2, <1>4, <1>10 DEF SetMinimum
<1>11. ASSUME NEW t \in Posts, Revoke(t)
       PROVE  Kept
  <2>1. post[t] \in PostRows
    BY <1>1, <1>11 DEF Revoke
  <2>2. [post[t] EXCEPT !.revoked = TRUE].register = post[t].register
    BY <2>1 DEF PostRows
  <2>3. \A x \in Posts : post'[x] # Nil => post'[x].register \in DOMAIN registers
    BY <1>1, <1>2, <1>11, <2>2 DEF Revoke
  <2> QED BY <1>2, <1>11, <2>3 DEF Revoke, RegistersTold, ToldOf, Of, Kept
<1>12. Kept
  BY <1>5, <1>6, <1>7, <1>8, <1>9, <1>10, <1>11, StepKinds
<1>13. ASSUME NEW d \in Callers, request'[d] # Nil, request'[d].op = "enroll", request'[d].at = "write",
              request'[d].qty > 0
       PROVE  request'[d].qty \in DOMAIN registers
  <2>1. request[d] # Nil /\ request[d].op = "enroll" /\ request[d].at = "write" /\ request[d].qty > 0
        => request[d].qty \in DOMAIN registers
    BY DEF RegisterInv, Doing
  <2>2. CASE request'[d] = request[d]
    BY <1>13, <2>1, <2>2
  <2>3. CASE request'[d] # request[d]
    <3>1. PICK c \in Callers : \E r : /\ Moves(c, r)
                                      /\ r # Nil => Still /\ (Fresh(r) \/ ReadsRight(c, r))
      BY <2>3, RequestKinds
    <3>2. PICK r : Moves(c, r) /\ (r # Nil => Still /\ (Fresh(r) \/ ReadsRight(c, r)))
      BY <3>1
    <3>3. r = request'[d] /\ c = d
      BY <2>3, <3>2, MovesTyped DEF DeskTypes
    <3> QED BY <1>13, <3>2, <3>3 DEF Fresh, ReadsRight
  <2> QED BY <2>2, <2>3
<1> QED BY <1>12, <1>13 DEF RegisterInv, Doing, Kept

-----------------------------------------------------------------------------
(* The changes made from one version.                                      *)

FromBase(log, what, id, b) == {i \in Of(log, what, id) : log[i].base = b}

\* Edits that have found the row as their caller had it, and are still to be written.
Pending(op, id, b) ==
    {c \in Callers : /\ request[c] # Nil /\ request[c].op = op /\ request[c].at # "read"
                     /\ request[c].id = id /\ request[c].base = b}

\* None is made, or waits, from a version that the row has not reached; none is made from the one it
\* has; and those made from an older one, with those still to be, are no more than the requests.
Few(F, W, v, b) ==
    /\ v <= b => F = {}
    /\ v < b => W = {}
    /\ b < v => Cardinality(F) + Cardinality(W) <= Cardinality(Callers)

FewInv ==
    /\ \A p \in Products, b \in Nat \ {0} :
          Few(FromBase(told, "product", p, b), Pending("editProduct", p, b), product[p].v, b)
    /\ \A k \in Categories, b \in Nat \ {0} :
          Few(FromBase(told, "category", k, b), Pending("editCategory", k, b), category[k].v, b)

\* A bound on the edits from one version stays when none is made and nobody comes to wait.
LEMMA FewKept ==
    ASSUME NEW F, NEW W \in SUBSET Callers, NEW v \in Nat, NEW b \in Nat, Few(F, W, v, b), IsFiniteSet(F),
           NEW U \in SUBSET W
    PROVE  Few(F, U, v, b) /\ Few(F, U, v + 1, b)
<1>1. IsFiniteSet(Callers)
  BY DeskAssumption
<1>2. IsFiniteSet(W) /\ IsFiniteSet(U) /\ Cardinality(U) <= Cardinality(W)
      /\ Cardinality(W) <= Cardinality(Callers)
  BY <1>1, FS_Subset
<1>3. /\ Cardinality(F) \in Nat /\ Cardinality(U) \in Nat /\ Cardinality(W) \in Nat
      /\ Cardinality(Callers) \in Nat
  BY <1>1, <1>2, FS_CardinalityType
<1>4. Cardinality({}) = 0
  BY FS_EmptySet
<1>5. /\ v <= b => F = {}
      /\ v < b => W = {}
      /\ b < v => Cardinality(F) + Cardinality(W) <= Cardinality(Callers)
  BY DEF Few
<1>6. /\ v <= b => F = {}
      /\ v < b => U = {}
      /\ b < v => Cardinality(F) + Cardinality(U) <= Cardinality(Callers)
  BY <1>2, <1>3, <1>5
<1>7. /\ v + 1 <= b => F = {}
      /\ v + 1 < b => U = {}
      /\ b < v + 1 => Cardinality(F) + Cardinality(U) <= Cardinality(Callers)
  <2>1. v + 1 <= b => F = {}
    BY <1>5
  <2>2. v + 1 < b => U = {}
    BY <1>5
  <2>3. CASE b < v
    BY <1>6, <2>1, <2>2, <2>3
  <2>4. CASE b = v
    BY <1>2, <1>3, <1>4, <1>5, <2>1, <2>2, <2>4
  <2> QED BY <2>1, <2>2, <2>3, <2>4
<1> QED BY <1>6, <1>7 DEF Few

\* One that waited is made.
LEMMA FewMade ==
    ASSUME NEW F, NEW W \in SUBSET Callers, NEW v \in Nat, NEW b \in Nat, Few(F, W, v, b), IsFiniteSet(F),
           NEW c \in W, NEW n, n \notin F
    PROVE  Few(F \cup {n}, W \ {c}, v + 1, b)
<1>1. IsFiniteSet(Callers)
  BY DeskAssumption
<1>2. IsFiniteSet(W) /\ Cardinality(W) <= Cardinality(Callers)
  BY <1>1, FS_Subset
<1>3. Cardinality(F) \in Nat /\ Cardinality(W) \in Nat /\ Cardinality(Callers) \in Nat
  BY <1>1, <1>2, FS_CardinalityType
<1>4. Cardinality(F \cup {n}) = Cardinality(F) + 1 /\ Cardinality(W \ {c}) = Cardinality(W) - 1
  BY <1>2, FS_AddElement, FS_RemoveElement
<1>5. /\ v <= b => F = {}
      /\ ~(v < b)
      /\ b < v => Cardinality(F) + Cardinality(W) <= Cardinality(Callers)
  BY DEF Few
<1>6. Cardinality({}) = 0
  BY FS_EmptySet
<1>7. Cardinality(F \cup {n}) + Cardinality(W \ {c}) <= Cardinality(Callers)
  <2>1. CASE b < v
    BY <1>3, <1>4, <1>5, <2>1
  <2>2. CASE b = v
    <3>1. Cardinality(F) = 0
      BY <1>5, <1>6, <2>2
    <3> QED BY <1>2, <1>3, <1>4, <3>1
  <2> QED BY <1>5, <2>1, <2>2
<1>8. ~(v + 1 <= b) /\ ~(v + 1 < b)
  BY <1>5
<1> QED BY <1>7, <1>8 DEF Few

\* An entry appended is from a version if it says so.
LEMMA FromBaseAppend ==
    ASSUME NEW log \in Seq(Entries), NEW e \in Entries, NEW what, NEW id, NEW b
    PROVE  /\ IsFiniteSet(FromBase(log, what, id, b))
           /\ ~About(e, what, id) \/ e.base # b =>
                FromBase(Append(log, e), what, id, b) = FromBase(log, what, id, b)
           /\ About(e, what, id) /\ e.base = b =>
                /\ Len(log) + 1 \notin FromBase(log, what, id, b)
                /\ FromBase(Append(log, e), what, id, b) = FromBase(log, what, id, b) \cup {Len(log) + 1}
<1> DEFINE more == Append(log, e)
           S == Of(log, what, id)
           n == Len(log) + 1
<1>1. /\ Len(log) \in Nat /\ DOMAIN log = 1..Len(log)
      /\ \A i \in DOMAIN log : more[i] = log[i]
      /\ more[n] = e
      /\ S \subseteq 1..Len(log)
      /\ About(e, what, id) => Of(more, what, id) = S \cup {n}
      /\ ~About(e, what, id) => Of(more, what, id) = S
  BY OfAppend
<1>2. IsFiniteSet(FromBase(log, what, id, b))
  <2>1. IsFiniteSet(1..Len(log))
    BY <1>1, FS_Interval
  <2> QED BY <1>1, <2>1, FS_Subset DEF FromBase
<1>3. n \notin S
  BY <1>1
<1>4. \A i \in S : more[i] = log[i]
  BY <1>1
<1> HIDE DEF more, S, n
<1>5. ASSUME ~About(e, what, id) \/ e.base # b
      PROVE  {i \in Of(more, what, id) : more[i].base = b} = {i \in S : log[i].base = b}
  BY <1>1, <1>4, <1>5
<1>6. ASSUME About(e, what, id), e.base = b
      PROVE  {i \in Of(more, what, id) : more[i].base = b} = {i \in S : log[i].base = b} \cup {n}
  BY <1>1, <1>4, <1>6
<1> QED BY <1>2, <1>3, <1>5, <1>6 DEF FromBase, more, S, n

\* One entry more is one edit more from its version.
LEMMA FromBaseMore ==
    ASSUME NEW log \in Seq(Entries), NEW e \in Entries, NEW what, NEW id, About(e, what, id)
    PROVE  /\ FromBase(Append(log, e), what, id, e.base) = FromBase(log, what, id, e.base) \cup {Len(log) + 1}
           /\ Len(log) + 1 \notin FromBase(log, what, id, e.base)
<1> DEFINE b == e.base
<1>1. b = e.base
  OBVIOUS
<1> HIDE DEF b
<1>2. /\ Len(log) + 1 \notin FromBase(log, what, id, b)
      /\ FromBase(Append(log, e), what, id, b) = FromBase(log, what, id, b) \cup {Len(log) + 1}
  BY <1>1, FromBaseAppend
<1> QED BY <1>2 DEF b

\* No request comes to wait but the one that finds the row at its version.
LEMMA PendingMoves ==
    ASSUME DeskTypes, NEW c \in Callers, NEW r, Moves(c, r), r # Nil => Fresh(r) \/ ReadsRight(c, r),
           NEW op \in {"editProduct", "editCategory"}, NEW id, NEW b
    PROVE  \/ Pending(op, id, b)' \subseteq Pending(op, id, b)
           \/ op = "editProduct" /\ product[id].v = b
           \/ op = "editCategory" /\ category[id].v = b
<1>1. request'[c] = r /\ \A d \in Callers : d # c => request'[d] = request[d]
  BY MovesTyped DEF DeskTypes
<1>2. CASE r = Nil \/ Fresh(r)
  BY <1>1, <1>2 DEF Pending, Fresh
<1>3. CASE r # Nil /\ ReadsRight(c, r)
  BY <1>1, <1>3 DEF Pending, ReadsRight
<1> QED BY <1>2, <1>3

\* A request that closes waits no more.
LEMMA PendingCloses ==
    ASSUME DeskTypes, NEW c \in Callers, Moves(c, Nil), NEW op, NEW id, NEW b
    PROVE  Pending(op, id, b)' = Pending(op, id, b) \ {c}
<1>1. request'[c] = Nil /\ \A d \in Callers : d # c => request'[d] = request[d]
  BY MovesTyped DEF DeskTypes
<1> QED BY <1>1 DEF Pending

\* The edits from a version are bounded by the requests open at once.
LEMMA FewHolds == DeskTypes /\ LogInv /\ FewInv => FewFromOneVersion
<1> SUFFICES ASSUME DeskTypes, LogInv, FewInv, NEW i \in DOMAIN told, told[i].base > 0,
                    told[i].kind \in {"product", "category"}
             PROVE  Cardinality({j \in ToldOf(told[i].kind, told[i].id) : told[j].base = told[i].base})
                        <= Cardinality(Callers)
  BY DEF FewFromOneVersion
<1> DEFINE b == told[i].base
           F == FromBase(told, told[i].kind, told[i].id, b)
<1>0. told \in Seq(Entries) /\ told[i] \in Entries
  BY DEF DeskTypes, TablesTyped
<1>1. b \in Nat \ {0}
  BY <1>0, EntryFacts
<1>2. {j \in ToldOf(told[i].kind, told[i].id) : told[j].base = b} = F /\ i \in F
  BY DEF ToldOf, Of, FromBase
<1>3. IsFiniteSet(F)
  BY <1>0, FromBaseAppend
<1> HIDE DEF F, b
<1>4. \E v \in Nat : \E op : Few(F, Pending(op, told[i].id, b), v, b)
  <2>1. CASE told[i].kind = "product"
    <3>1. told[i] \in ProductEntry
      BY <1>0, <2>1 DEF Entries, CategoryEntry, MovementEntry, RegisterEntry, Entry
    <3>2. told[i].id \in Products /\ product[told[i].id].v \in Nat
      BY <3>1, EntryFacts DEF DeskTypes, TablesTyped, ProductRows
    <3> QED BY <1>1, <2>1, <3>2 DEF FewInv, F
  <2>2. CASE told[i].kind = "category"
    <3>1. told[i] \in CategoryEntry
      BY <1>0, <2>2 DEF Entries, ProductEntry, MovementEntry, RegisterEntry, Entry
    <3>2. told[i].id \in Categories /\ category[told[i].id].v \in Nat
      BY <3>1, EntryFacts DEF DeskTypes, TablesTyped, CategoryRows
    <3> QED BY <1>1, <2>2, <3>2 DEF FewInv, F
  <2> QED BY <2>1, <2>2
<1>5. PICK v \in Nat : \E op : Few(F, Pending(op, told[i].id, b), v, b)
  BY <1>4
<1>9. PICK op : Few(F, Pending(op, told[i].id, b), v, b)
  BY <1>5
<1> DEFINE W == Pending(op, told[i].id, b)
<1>6. b < v /\ Cardinality(F) + Cardinality(W) <= Cardinality(Callers)
  BY <1>1, <1>2, <1>9 DEF Few
<1>7. Cardinality(F) \in Nat /\ Cardinality(W) \in Nat /\ Cardinality(Callers) \in Nat
  <2>1. W \subseteq Callers /\ IsFiniteSet(Callers)
    BY DeskAssumption DEF Pending
  <2> HIDE DEF W
  <2> QED BY <1>3, <2>1, FS_Subset, FS_CardinalityType
<1> HIDE DEF W
<1>8. Cardinality(F) <= Cardinality(Callers)
  BY <1>6, <1>7
<1> QED BY <1>2, <1>8 DEF b

LEMMA FewInit == DeskInit => FewInv
<1> SUFFICES ASSUME DeskInit PROVE FewInv
  OBVIOUS
<1>1. \A what, id, b : FromBase(told, what, id, b) = {}
  BY DEF DeskInit, FromBase, Of
<1>2. \A op, id, b : Pending(op, id, b) = {}
  BY DEF DeskInit, Pending
<1>3. \A p \in Products : product[p].v = 0
  BY DEF DeskInit, Absence
<1>4. \A k \in Categories : category[k].v = 0
  BY DEF DeskInit, Absence
<1> QED BY <1>1, <1>2, <1>3, <1>4 DEF FewInv, Few

\* A version is left by the first edit made from it: those that wait were there before.
LEMMA FewStep == DeskTypes /\ FewInv /\ [DeskNext]_deskVars => FewInv'
<1> SUFFICES ASSUME DeskTypes, FewInv, [DeskNext]_deskVars PROVE FewInv'
  OBVIOUS
<1>1. /\ product \in [Products -> ProductRows] /\ category \in [Categories -> CategoryRows]
      /\ told \in Seq(Entries)
  BY DEF DeskTypes, TablesTyped
<1>2. /\ \A p \in Products : product[p].v \in Nat
      /\ \A k \in Categories : category[k].v \in Nat
  BY <1>1 DEF ProductRows, CategoryRows
<1>3. \A op, id, b : Pending(op, id, b) \in SUBSET Callers
  BY DEF Pending
<1>4. \A what, id, b : IsFiniteSet(FromBase(told, what, id, b))
  <2>1. \E e : e \in Entries
    <3>1. [kind |-> "register", id |-> 0, base |-> 0, v |-> 0, state |-> 0] \in Entries
      BY DEF Entries, RegisterEntry, Entry
    <3> QED BY <3>1
  <2> QED BY <1>1, <2>1, FromBaseAppend
<1>5. /\ \A p \in Products, b \in Nat \ {0} :
            Few(FromBase(told, "product", p, b), Pending("editProduct", p, b), product[p].v, b)
      /\ \A k \in Categories, b \in Nat \ {0} :
            Few(FromBase(told, "category", k, b), Pending("editCategory", k, b), category[k].v, b)
  BY DEF FewInv
\* Versions and the log about the rows stay, and no request comes to wait.
<1>6. ASSUME \A p \in Products : product'[p].v = product[p].v,
             \A k \in Categories : category'[k].v = category[k].v,
             \A what \in {"product", "category"} : \A id, b :
                FromBase(told', what, id, b) = FromBase(told, what, id, b),
             \A op, id, b : Pending(op, id, b)' \subseteq Pending(op, id, b)
      PROVE  FewInv'
  <2>1. ASSUME NEW p \in Products, NEW b \in Nat \ {0}
        PROVE  Few(FromBase(told', "product", p, b), Pending("editProduct", p, b)', product'[p].v, b)
    BY <1>2, <1>3, <1>4, <1>5, <1>6, FewKept
  <2>2. ASSUME NEW k \in Categories, NEW b \in Nat \ {0}
        PROVE  Few(FromBase(told', "category", k, b), Pending("editCategory", k, b)', category'[k].v, b)
    BY <1>2, <1>3, <1>4, <1>5, <1>6, FewKept
  <2> QED BY <2>1, <2>2 DEF FewInv
<1>7. ASSUME UNCHANGED request PROVE \A op, id, b : Pending(op, id, b)' \subseteq Pending(op, id, b)
  BY <1>7 DEF Pending
<1>8. CASE Still
  <2>1. CASE UNCHANGED request
    BY <1>6, <1>7, <1>8, <2>1 DEF Still
  <2>2. CASE ~UNCHANGED request
    <3>1. PICK c \in Callers : \E r : Moves(c, r) /\ (r # Nil => Fresh(r) \/ ReadsRight(c, r))
      BY <2>2, RequestKinds
    <3>2. PICK r : Moves(c, r) /\ (r # Nil => Fresh(r) \/ ReadsRight(c, r))
      BY <3>1
    <3>3. ASSUME NEW p \in Products, NEW b \in Nat \ {0}
          PROVE  Few(FromBase(told', "product", p, b), Pending("editProduct", p, b)', product'[p].v, b)
      <4>1. CASE Pending("editProduct", p, b)' \subseteq Pending("editProduct", p, b)
        BY <1>2, <1>3, <1>4, <1>5, <1>8, <4>1, FewKept DEF Still
      <4>2. CASE product[p].v = b
        BY <1>2, <1>5, <1>8, <4>2 DEF Still, Few
      <4> QED BY <3>2, <4>1, <4>2, PendingMoves
    <3>4. ASSUME NEW k \in Categories, NEW b \in Nat \ {0}
          PROVE  Few(FromBase(told', "category", k, b), Pending("editCategory", k, b)', category'[k].v, b)
      <4>1. CASE Pending("editCategory", k, b)' \subseteq Pending("editCategory", k, b)
        BY <1>2, <1>3, <1>4, <1>5, <1>8, <4>1, FewKept DEF Still
      <4>2. CASE category[k].v = b
        BY <1>2, <1>5, <1>8, <4>2 DEF Still, Few
      <4> QED BY <3>2, <4>1, <4>2, PendingMoves
    <3> QED BY <3>3, <3>4 DEF FewInv
  <2> QED BY <2>1, <2>2
<1>9. ASSUME NEW c \in Callers, NEW p \in Products, NEW new \in ProductRows, NEW e \in ProductEntry,
             ProductWriting(c, p, new, e)
      PROVE  FewInv'
  <2> DEFINE once == Append(told, e)
  <2>1. e \in Entries /\ once \in Seq(Entries) /\ \A what, id : About(e, what, id) <=> what = "product" /\ id = p
    BY <1>1, <1>9, EntryFacts, OfAppend DEF ProductWriting, About
  <2>2. /\ Moves(c, Nil) /\ request[c] # Nil /\ request[c].id = p /\ request[c].at = "write"
        /\ request[c].op \in {"newProduct", "editProduct", "removeProduct"}
        /\ e.base = request[c].base
    BY <1>9 DEF ProductWriting
  <2>3. e.base \in Nat /\ (e.base # 0 => request[c].op = "editProduct")
    BY <2>2 DEF DeskTypes, RequestsTyped, IsRequest, Requests
  <2>4. /\ product'[p].v = product[p].v + 1 /\ \A x \in Products : x # p => product'[x] = product[x]
        /\ category' = category
    BY <1>1, <1>9 DEF ProductWriting
  <2>5. \A op, id, b : Pending(op, id, b)' = Pending(op, id, b) \ {c}
    BY <2>2, PendingCloses
  <2>6. ASSUME NEW what, NEW id, NEW b, ~(what = "product" /\ id = p) \/ e.base # b
        PROVE  FromBase(once, what, id, b) = FromBase(told, what, id, b)
    BY <1>1, <2>1, <2>6, FromBaseAppend
  <2>7. ASSUME NEW what \in {"product", "category"}, NEW id, NEW b
        PROVE  FromBase(told', what, id, b) = FromBase(once, what, id, b)
    <3> HIDE DEF once
    <3>1. CASE told' = once
      BY <3>1
    <3>2. CASE \E m \in MovementEntry : told' = Append(once, m)
      <4>1. PICK m \in MovementEntry : told' = Append(once, m)
        BY <3>2
      <4>2. m \in Entries /\ ~About(m, what, id)
        BY EntryFacts DEF About
      <4> QED BY <2>1, <4>1, <4>2, FromBaseAppend
    <3> QED BY <1>9, <3>1, <3>2 DEF ProductWriting, once
  <2>8. ASSUME NEW b \in Nat \ {0}
        PROVE  Few(FromBase(told', "product", p, b), Pending("editProduct", p, b)', product'[p].v, b)
    <3> DEFINE F == FromBase(told, "product", p, b)
               W == Pending("editProduct", p, b)
    <3>1. Few(F, W, product[p].v, b) /\ W \in SUBSET Callers /\ IsFiniteSet(F) /\ product[p].v \in Nat
      BY <1>2, <1>3, <1>4, <1>5
    <3>2. Pending("editProduct", p, b)' = W \ {c}
      BY <2>5
    <3>3. CASE e.base = b
      <4>1. c \in W
        BY <2>2, <2>3, <3>3 DEF Pending
      <4>2. FromBase(told', "product", p, b) = F \cup {Len(told) + 1} /\ Len(told) + 1 \notin F
        <5>1. About(e, "product", p)
          BY <2>1
        <5>2. FromBase(once, "product", p, b) = F \cup {Len(told) + 1} /\ Len(told) + 1 \notin F
          <6>1. FromBase(Append(told, e), "product", p, e.base) = FromBase(told, "product", p, e.base) \cup {Len(told) + 1}
                /\ Len(told) + 1 \notin FromBase(told, "product", p, e.base)
            BY <1>1, <2>1, <5>1, FromBaseMore
          <6> QED BY <3>3, <6>1
        <5> QED BY <2>7, <5>2
      <4> HIDE DEF F, W
      <4> QED BY <2>4, <3>1, <3>2, <4>1, <4>2, FewMade
    <3>4. CASE e.base # b
      <4>1. FromBase(told', "product", p, b) = F
        BY <2>6, <2>7, <3>4
      <4> HIDE DEF F, W
      <4> QED BY <2>4, <3>1, <3>2, <4>1, FewKept
    <3> QED BY <3>3, <3>4
  <2> HIDE DEF once
  <2>9. ASSUME NEW x \in Products, x # p, NEW b \in Nat \ {0}
        PROVE  Few(FromBase(told', "product", x, b), Pending("editProduct", x, b)', product'[x].v, b)
    <3>1. FromBase(told', "product", x, b) = FromBase(told, "product", x, b)
      BY <2>6, <2>7, <2>9
    <3>2. Pending("editProduct", x, b)' \subseteq Pending("editProduct", x, b)
      BY <2>5
    <3> QED BY <1>2, <1>3, <1>4, <1>5, <2>4, <2>9, <3>1, <3>2, FewKept
  <2>10. ASSUME NEW k \in Categories, NEW b \in Nat \ {0}
         PROVE  Few(FromBase(told', "category", k, b), Pending("editCategory", k, b)', category'[k].v, b)
    <3>1. FromBase(told', "category", k, b) = FromBase(told, "category", k, b)
      BY <2>6, <2>7
    <3>2. Pending("editCategory", k, b)' \subseteq Pending("editCategory", k, b)
      BY <2>5
    <3> QED BY <1>2, <1>3, <1>4, <1>5, <2>4, <3>1, <3>2, FewKept
  <2> QED BY <2>8, <2>9, <2>10 DEF FewInv
<1>10. ASSUME NEW c \in Callers, NEW k \in Categories, NEW new \in CategoryRows, NEW e \in CategoryEntry,
              CategoryWriting(c, k, new, e)
       PROVE  FewInv'
  <2>1. e \in Entries /\ \A what, id : About(e, what, id) <=> what = "category" /\ id = k
    BY <1>10, EntryFacts DEF CategoryWriting, About
  <2>2. /\ Moves(c, Nil) /\ request[c] # Nil /\ request[c].id = k /\ request[c].at = "write"
        /\ request[c].op \in {"newCategory", "editCategory", "removeCategory"}
        /\ e.base = request[c].base /\ told' = Append(told, e)
    BY <1>10 DEF CategoryWriting
  <2>3. e.base \in Nat /\ (e.base # 0 => request[c].op = "editCategory")
    BY <2>2 DEF DeskTypes, RequestsTyped, IsRequest, Requests
  <2>4. category'[k].v = category[k].v + 1 /\ \A x \in Categories : x # k => category'[x] = category[x]
    BY <1>1, <1>10 DEF CategoryWriting
  <2>5. \A op, id, b : Pending(op, id, b)' = Pending(op, id, b) \ {c}
    BY <2>2, PendingCloses
  <2>6. ASSUME NEW what, NEW id, NEW b, ~(what = "category" /\ id = k) \/ e.base # b
        PROVE  FromBase(told', what, id, b) = FromBase(told, what, id, b)
    BY <1>1, <2>1, <2>2, <2>6, FromBaseAppend
  <2>7. \A p \in Products : product'[p].v = product[p].v
    <3>1. \A p \in Products : [product[p] EXCEPT !.cat = Nil].v = product[p].v
      BY <1>1 DEF ProductRows
    <3> QED BY <1>1, <1>10, <3>1 DEF CategoryWriting
  <2>8. ASSUME NEW b \in Nat \ {0}
        PROVE  Few(FromBase(told', "category", k, b), Pending("editCategory", k, b)', category'[k].v, b)
    <3> DEFINE F == FromBase(told, "category", k, b)
               W == Pending("editCategory", k, b)
    <3>1. Few(F, W, category[k].v, b) /\ W \in SUBSET Callers /\ IsFiniteSet(F) /\ category[k].v \in Nat
      BY <1>2, <1>3, <1>4, <1>5
    <3>2. Pending("editCategory", k, b)' = W \ {c}
      BY <2>5
    <3>3. CASE e.base = b
      <4>1. c \in W
        BY <2>2, <2>3, <3>3 DEF Pending
      <4>2. FromBase(told', "category", k, b) = F \cup {Len(told) + 1} /\ Len(told) + 1 \notin F
        <5>1. About(e, "category", k)
          BY <2>1
        <5>2. FromBase(Append(told, e), "category", k, e.base) = FromBase(told, "category", k, e.base) \cup {Len(told) + 1}
              /\ Len(told) + 1 \notin FromBase(told, "category", k, e.base)
          BY <1>1, <2>1, <5>1, FromBaseMore
        <5> QED BY <2>2, <3>3, <5>2
      <4> HIDE DEF F, W
      <4> QED BY <2>4, <3>1, <3>2, <4>1, <4>2, FewMade
    <3>4. CASE e.base # b
      <4>1. FromBase(told', "category", k, b) = F
        BY <2>6, <3>4
      <4> HIDE DEF F, W
      <4> QED BY <2>4, <3>1, <3>2, <4>1, FewKept
    <3> QED BY <3>3, <3>4
  <2>9. ASSUME NEW x \in Categories, x # k, NEW b \in Nat \ {0}
        PROVE  Few(FromBase(told', "category", x, b), Pending("editCategory", x, b)', category'[x].v, b)
    <3>1. FromBase(told', "category", x, b) = FromBase(told, "category", x, b)
      BY <2>6, <2>9
    <3>2. Pending("editCategory", x, b)' \subseteq Pending("editCategory", x, b)
      BY <2>5
    <3> QED BY <1>2, <1>3, <1>4, <1>5, <2>4, <2>9, <3>1, <3>2, FewKept
  <2>10. ASSUME NEW p \in Products, NEW b \in Nat \ {0}
         PROVE  Few(FromBase(told', "product", p, b), Pending("editProduct", p, b)', product'[p].v, b)
    <3>1. FromBase(told', "product", p, b) = FromBase(told, "product", p, b)
      BY <2>6
    <3>2. Pending("editProduct", p, b)' \subseteq Pending("editProduct", p, b)
      BY <2>5
    <3> QED BY <1>2, <1>3, <1>4, <1>5, <2>7, <3>1, <3>2, FewKept
  <2> QED BY <2>8, <2>9, <2>10 DEF FewInv
<1>11. ASSUME NEW c \in Callers, Moves(c, Nil), UNCHANGED <<product, category>>,
              UNCHANGED told \/ \E e \in MovementEntry \cup RegisterEntry : told' = Append(told, e)
       PROVE  FewInv'
  <2>1. ASSUME NEW what \in {"product", "category"}, NEW id, NEW b
        PROVE  FromBase(told', what, id, b) = FromBase(told, what, id, b)
    <3>1. CASE UNCHANGED told
      BY <3>1
    <3>2. CASE \E e \in MovementEntry \cup RegisterEntry : told' = Append(told, e)
      <4>1. PICK e \in MovementEntry \cup RegisterEntry : told' = Append(told, e)
        BY <3>2
      <4>2. e \in Entries /\ ~About(e, what, id)
        BY EntryFacts DEF About
      <4> QED BY <1>1, <4>1, <4>2, FromBaseAppend
    <3> QED BY <1>11, <3>1, <3>2
  <2>2. \A op, id, b : Pending(op, id, b)' \subseteq Pending(op, id, b)
    BY <1>11, PendingCloses
  <2> QED BY <1>6, <1>11, <2>1, <2>2
<1>12. ASSUME NEW c \in Callers, NEW p \in Products, NEW e \in MovementEntry, StockMoving(c, p, e)
       PROVE  FewInv'
  BY <1>11, <1>12 DEF StockMoving
<1>13. ASSUME NEW c \in Callers, NEW t \in Posts, NEW n \in Nat, Enrolling(c, t, n)
       PROVE  FewInv'
  BY <1>11, <1>13 DEF Enrolling
<1>14. ASSUME NEW p \in Products, SetMinimum(p)
       PROVE  FewInv'
  BY <1>6, <1>7, <1>14 DEF SetMinimum
<1>15. ASSUME NEW t \in Posts, Revoke(t)
       PROVE  FewInv'
  BY <1>6, <1>7, <1>15 DEF Revoke
<1> QED BY <1>8, <1>9, <1>10, <1>12, <1>13, <1>14, <1>15, StepKinds

-----------------------------------------------------------------------------
(* The tree of the categories, while requests are asked one at a time.     *)

Parent(x) == category[x].parent

\* No category leads back to itself in as many levels as are climbed.
NoRing ==
    \A S \in SUBSET Categories :
        S # {} /\ IsFiniteSet(S) /\ Cardinality(S) <= MaxDepth => \E x \in S : Parent(x) \notin S

\* The sets that would be such a ring if k were put under `to'.
Rings(k, to) ==
    {T \in SUBSET Categories :
        /\ IsFiniteSet(T) /\ Cardinality(T) <= MaxDepth /\ k \in T /\ to \in T
        /\ \A x \in T \ {k} : Parent(x) \in T}

\* The categories climbed so far, V, are as many as levels, lead one to the next, and
\* would all be part of the ring.
Climbed(r) ==
    /\ Here(r) \in Categories
    /\ \E V \in SUBSET Categories :
        /\ r.depth < MaxDepth \/ r.depth = 0
        /\ IsFiniteSet(V) /\ Cardinality(V) = r.depth
        /\ r.id \notin V /\ Here(r) \notin V
        /\ \A x \in V : Parent(x) \in V \cup {Here(r)}
        /\ \A T \in Rings(r.id, r.to) : V \cup {Here(r)} \subseteq T

\* What a request has found out, and still is so.
Found(r) ==
    /\ r.op \in {"newProduct", "editProduct", "newCategory", "editCategory"}
         /\ r.at \in {"climb", "write"} /\ r.to \in Categories => Live(category[r.to])
    /\ r.op = "removeCategory" /\ r.at = "write" =>
         \A x \in Categories : Live(category[x]) => Parent(x) # r.id
    /\ r.op = "editCategory" /\ r.at = "climb" => Climbed(r)
    /\ r.op = "editCategory" /\ r.at = "write" /\ r.to \in Categories => Rings(r.id, r.to) = {}

Rooted ==
    \A k \in Categories :
        /\ Parent(k) # Nil => category[k].v > 0 /\ category[Parent(k)].v > 0
        /\ ~category[k].del /\ Parent(k) # Nil => Live(category[Parent(k)])

Shelved ==
    \A p \in Products : product[p].cat # Nil =>
        product[p].v > 0 /\ (~product[p].del => Live(category[product[p].cat]))

Alone == \A c, d \in Callers : request[c] # Nil /\ request[d] # Nil => c = d

Informed == \A c \in Callers : request[c] # Nil => Found(request[c])

TreeInv == overlapped \/ (NoRing /\ Rooted /\ Shelved /\ Alone /\ Informed)

\* The tree of the invariant is that of TreeHolds.
LEMMA TreeStands == TreeInv => TreeHolds
<1> SUFFICES ASSUME NoRing, Rooted, Shelved, ~overlapped PROVE TreeHolds
  BY DEF TreeInv, TreeHolds
<1>1. ~ \E S \in (SUBSET Categories) \ {{}} :
            /\ IsFiniteSet(S) /\ Cardinality(S) <= MaxDepth
            /\ \A k \in S : category[k].parent \in S
  BY DEF NoRing, Parent
<1>2. \A k \in Categories : Live(category[k]) /\ category[k].parent # Nil =>
                                Live(category[category[k].parent])
  BY DEF Rooted, Parent, Live
<1>3. \A p \in Products : Live(product[p]) /\ product[p].cat # Nil => Live(category[product[p].cat])
  BY DEF Shelved, Live
<1> QED BY <1>1, <1>2, <1>3 DEF TreeHolds

LEMMA TreeInit == DeskInit => TreeInv
<1> SUFFICES ASSUME DeskInit PROVE TreeInv
  OBVIOUS
<1>1. /\ \A k \in Categories : Parent(k) = Nil
      /\ \A p \in Products : product[p].cat = Nil
  BY DEF DeskInit, Absence, Parent
<1>2. \A c \in Callers : request[c] = Nil
  BY DEF DeskInit
<1>3. Nil \notin Categories
  BY DeskAssumption
<1>4. NoRing
  BY <1>1, <1>3 DEF NoRing
<1> QED BY <1>1, <1>2, <1>4 DEF TreeInv, Rooted, Shelved, Alone, Informed

\* A climb that goes on has found one category more; one that ends has found that there is no ring.
LEMMA ClimbFinds ==
    ASSUME DeskTypes, NoRing, NEW c \in Callers, Climb(c), Found(request[c]), NEW r, r # Nil,
           Moves(c, r)
    PROVE  Found(r)
<1> DEFINE q == request[c]
           at == Here(q)
<1>1. /\ q # Nil /\ q.op = "editCategory" /\ q.at = "climb" /\ q.to \in Categories /\ at \in Categories
      /\ at # q.id /\ r \in Requests
      /\ r.op = q.op /\ r.id = q.id /\ r.to = q.to /\ r.depth = q.depth + 1 /\ r.here = Parent(at)
      /\ r.at = IF r.here = Nil \/ r.depth >= MaxDepth THEN "write" ELSE "climb"
  <2>1. request'[c] = r
    BY MovesTyped DEF DeskTypes
  <2>2. ~Moves(c, Nil)
    BY <2>1, MovesTyped DEF DeskTypes
  <2>3. PICK s : /\ Here(request[c]) # request[c].id
                 /\ Moves(c, s) /\ s \in Requests
                 /\ s.op = request[c].op /\ s.id = request[c].id /\ s.base = request[c].base
                 /\ s.to = request[c].to /\ s.depth = request[c].depth + 1
                 /\ s.here = category[Here(request[c])].parent
                 /\ s.at = IF s.here = Nil \/ s.depth >= MaxDepth THEN "write" ELSE "climb"
    BY <2>2, ClimbStep
  <2>4. s = r
    BY <2>1, <2>3, MovesTyped DEF DeskTypes
  <2> QED BY <2>3, <2>4, ClimbStep DEF Parent
<1>2. q.depth \in Nat /\ Climbed(q) /\ Live(category[q.to]) /\ MaxDepth \in Nat
  BY <1>1, DeskAssumption DEF Found, DeskTypes, RequestsTyped, IsRequest, Requests
<1>3. PICK V \in SUBSET Categories :
        /\ q.depth < MaxDepth \/ q.depth = 0
        /\ IsFiniteSet(V) /\ Cardinality(V) = q.depth
        /\ q.id \notin V /\ at \notin V
        /\ \A x \in V : Parent(x) \in V \cup {at}
        /\ \A T \in Rings(q.id, q.to) : V \cup {at} \subseteq T
  BY <1>2 DEF Climbed
<1> DEFINE W == V \cup {at}
<1>4. /\ W \in SUBSET Categories /\ IsFiniteSet(W) /\ Cardinality(W) = r.depth
      /\ q.id \notin W /\ W # {}
  BY <1>1, <1>3, FS_AddElement
<1>5. \A x \in W : Parent(x) \in W \cup {r.here}
  BY <1>1, <1>3
<1>6. \A T \in Rings(q.id, q.to) : W \cup {r.here} \subseteq T
  <2> SUFFICES ASSUME NEW T \in Rings(q.id, q.to) PROVE W \subseteq T /\ r.here \in T
    OBVIOUS
  <2>1. W \subseteq T
    BY <1>3
  <2>2. at \in T \ {q.id}
    BY <1>1, <2>1
  <2> QED BY <1>1, <2>1, <2>2 DEF Rings
<1> HIDE DEF W
<1>7. CASE r.at = "climb"
  <2>1. r.here \in Categories /\ r.depth < MaxDepth /\ r.depth # 0
    BY <1>1, <1>2, <1>7 DEF Requests
  <2>2. Here(r) = r.here
    BY <2>1 DEF Here
  <2>3. r.here \notin W
    <3> SUFFICES ASSUME r.here \in W PROVE FALSE
      OBVIOUS
    <3>1. \A x \in W : Parent(x) \in W
      BY <1>5
    <3>2. Cardinality(W) <= MaxDepth
      BY <1>1, <1>2, <1>4, <2>1
    <3> QED BY <1>4, <3>1, <3>2 DEF NoRing
  <2>4. Climbed(r)
    BY <1>1, <1>4, <1>5, <1>6, <2>1, <2>2, <2>3 DEF Climbed
  <2> QED BY <1>1, <1>2, <1>7, <2>4 DEF Found
<1>8. CASE r.at = "write"
  <2>1. r.here = Nil \/ r.depth >= MaxDepth
    BY <1>1, <1>8
  <2>2. ASSUME NEW T \in Rings(r.id, r.to) PROVE FALSE
    <3>1. W \cup {r.here} \subseteq T /\ T \in SUBSET Categories /\ IsFiniteSet(T) /\ Cardinality(T) <= MaxDepth
          /\ q.id \in T
      BY <1>1, <1>6, <2>2 DEF Rings
    <3>2. CASE r.here = Nil
      BY <3>1, <3>2, DeskAssumption
    <3>3. CASE r.depth >= MaxDepth
      <4>1. W \cup {q.id} \in SUBSET T /\ Cardinality(W \cup {q.id}) = r.depth + 1
        <5> HIDE DEF q
        <5>1. W \cup {q.id} \subseteq T
          BY <3>1
        <5>2. Cardinality(W \cup {q.id}) = Cardinality(W) + 1
          BY ONLY <1>4, FS_AddElement
        <5> QED BY <1>4, <5>1, <5>2
      <4>2. Cardinality(W \cup {q.id}) <= Cardinality(T)
        BY <3>1, <4>1, FS_Subset
      <4>3. Cardinality(T) \in Nat
        BY <3>1, FS_CardinalityType
      <4> QED BY <1>1, <1>2, <3>1, <3>3, <4>1, <4>2, <4>3
    <3> QED BY <2>1, <3>2, <3>3
  <2>3. Rings(r.id, r.to) = {}
    BY <2>2
  <2> QED BY <1>1, <1>2, <1>8, <2>3 DEF Found
<1> QED BY <1>1, <1>7, <1>8

\* Each statement that reads finds out what its request will rely on.
LEMMA ReadFinds ==
    ASSUME DeskTypes, NoRing, NEW c \in Callers, Reads(c), Found(request[c]), NEW r, r # Nil, Moves(c, r)
    PROVE  Found(r)
<1> DEFINE q == request[c]
<1>0. request'[c] = r /\ \A s : Moves(c, s) => s = r
  BY MovesTyped DEF DeskTypes
<1>1. q # Nil /\ q \in Requests /\ IsRequest(q)
  BY DEF Reads, FindProduct, FindCategory, CheckCategory, Climb, CountChildren, CountToDelta,
         ChooseRegister, Doing, DeskTypes, RequestsTyped, IsRequest
<1>2. ASSUME NEW next, r = [request[c] EXCEPT !.at = next]
      PROVE  r.op = q.op /\ r.id = q.id /\ r.to = q.to /\ r.depth = q.depth /\ r.at = next
  BY <1>1, <1>2 DEF Requests
<1>3. CASE FindProduct(c)
  <2>1. q.op \in {"editProduct", "removeProduct", "adjust", "count"}
    BY <1>3 DEF FindProduct, Doing
  <2>2. PICK next \in {"category", "level", "write"} :
            r = [request[c] EXCEPT !.at = next] /\ (next = "category" <=> request[c].op = "editProduct")
    BY <1>0, <1>3, FindProductStep
  <2> QED BY <1>2, <2>1, <2>2 DEF Found
<1>4. CASE FindCategory(c)
  <2>1. q.op \in {"editCategory", "removeCategory"}
    BY <1>4 DEF FindCategory, Doing
  <2>2. PICK next \in {"category", "children"} : r = [request[c] EXCEPT !.at = next]
    BY <1>0, <1>4, FindCategoryStep
  <2> QED BY <1>2, <2>1, <2>2 DEF Found
<1>5. CASE CheckCategory(c)
  <2> DEFINE next == IF q.op = "editCategory" /\ q.to \in Categories THEN "climb" ELSE "write"
  <2>1. /\ q.op \in {"newProduct", "editProduct", "newCategory", "editCategory"} /\ q.depth = 0
        /\ q.to \in Categories => Live(category[q.to])
        /\ r = [request[c] EXCEPT !.at = next]
    BY <1>0, <1>5, CheckCategoryStep
  <2> HIDE DEF next
  <2>2. r.op = q.op /\ r.id = q.id /\ r.to = q.to /\ r.depth = 0 /\ r.at = next
    BY <1>2, <2>1
  <2>3. CASE next = "climb"
    <3>1. q.op = "editCategory" /\ q.to \in Categories
      BY <2>3 DEF next
    <3>2. Here(r) = q.to
      BY <2>2 DEF Here
    <3>3. IsFiniteSet({}) /\ Cardinality({}) = 0
      BY FS_EmptySet
    <3>4. \A T \in Rings(r.id, r.to) : {} \cup {Here(r)} \subseteq T
      BY <2>2, <3>2 DEF Rings
    <3>5. Climbed(r)
      BY <2>2, <3>1, <3>2, <3>3, <3>4 DEF Climbed
    <3> QED BY <2>1, <2>2, <2>3, <3>1, <3>5 DEF Found
  <2>4. CASE next = "write" /\ ~(q.op = "editCategory" /\ q.to \in Categories)
    BY <2>1, <2>2, <2>4 DEF Found
  <2> QED BY <2>3, <2>4 DEF next
<1>6. CASE Climb(c)
  BY <1>6, ClimbFinds
<1>7. CASE CountChildren(c)
  <2>1. /\ q.op = "removeCategory"
        /\ \A x \in Categories : Live(category[x]) => category[x].parent # q.id
        /\ r = [request[c] EXCEPT !.at = "write"]
    BY <1>0, <1>7, CountChildrenStep
  <2> QED BY <1>2, <2>1 DEF Found, Parent
<1>8. CASE CountToDelta(c)
  <2>1. r.op = "count"
    BY <1>0, <1>8, CountToDeltaStep
  <2> QED BY <2>1 DEF Found
<1>9. CASE ChooseRegister(c)
  <2>1. r.op = "enroll"
    BY <1>0, <1>9, ChooseRegisterStep
  <2> QED BY <2>1 DEF Found
<1> QED BY <1>3, <1>4, <1>5, <1>6, <1>7, <1>8, <1>9 DEF Reads

\* The request that writes was the only one.
LEMMA LastOne ==
    ASSUME DeskTypes, Alone, NEW c \in Callers, request[c] # Nil, Moves(c, Nil)
    PROVE  Alone' /\ Informed'
<1>1. request'[c] = Nil /\ \A d \in Callers : d # c => request'[d] = request[d]
  BY MovesTyped DEF DeskTypes
<1>2. \A d \in Callers : request'[d] = Nil
  BY <1>1 DEF Alone
<1> QED BY <1>2 DEF Alone, Informed

\* The rows as they were, what has been found out about them is so.
LEMMA FoundKept ==
    ASSUME UNCHANGED category, NEW r
    PROVE  Found(r) => Found(r)'
BY DEF Found, Climbed, Rings, Parent, Here, Live

\* With the rows as they were, the requests are informed when what they now are is.
LEMMA InformedNow ==
    ASSUME UNCHANGED category, \A d \in Callers : request'[d] # Nil => Found(request'[d])
    PROVE  Informed'
BY DEF Informed, Found, Climbed, Rings, Parent, Here, Live

\* The tree is one of the rows alone.
LEMMA RowsKept ==
    ASSUME UNCHANGED <<product, category>>, NoRing, Rooted, Shelved
    PROVE  NoRing' /\ Rooted' /\ Shelved'
BY DEF NoRing, Rooted, Shelved, Parent, Live

\* Requests that have overlapped stay so: only a new one can bring it about.
LEMMA OverlapStays ==
    ASSUME DeskTypes, [DeskNext]_deskVars
    PROVE  UNCHANGED overlapped \/ \E c \in Callers : Ask(c)
<1>1. ASSUME NEW c \in Callers, Reads(c) PROVE UNCHANGED overlapped
  BY <1>1, ReadsStep
<1>2. ASSUME NEW c \in Callers, ProductWrites(c) \/ CategoryWrites(c) \/ MoveStock(c) \/ Enroll(c)
      PROVE  UNCHANGED overlapped
  BY <1>2, ProductWritten, CategoryWritten, StockMoved, Enrolled
     DEF ProductWriting, CategoryWriting, StockMoving, Enrolling
<1>3. ASSUME NEW c \in Callers, Fail(c) PROVE UNCHANGED overlapped
  BY <1>3 DEF Fail
<1>4. CASE UNCHANGED deskVars
  BY <1>4 DEF deskVars
<1>5. CASE \E p \in Products : SetMinimum(p)
  BY <1>5 DEF SetMinimum
<1>6. CASE \E t \in Posts : Revoke(t)
  BY <1>6 DEF Revoke
<1> QED BY <1>1, <1>2, <1>3, <1>4, <1>5, <1>6 DEF DeskNext, Reads, ProductWrites, CategoryWrites

\* The steps that write no product and no category.
LEMMA TreeReads ==
    ASSUME DeskTypes, Alone, Informed, NoRing, NEW c \in Callers, Reads(c)
    PROVE  Alone' /\ Informed'
<1>1. UNCHANGED category /\ \E r : Moves(c, r) /\ (r # Nil => ReadsRight(c, r))
  BY ReadsStep
<1>2. request[c] # Nil
  BY DEF Reads, FindProduct, FindCategory, CheckCategory, Climb, CountChildren, CountToDelta,
         ChooseRegister, Doing
<1>3. PICK r : Moves(c, r) /\ (r # Nil => ReadsRight(c, r))
  BY <1>1
<1>4. request'[c] = r /\ \A d \in Callers : d # c => request'[d] = request[d] /\ request[d] = Nil
  BY <1>2, <1>3, MovesTyped DEF DeskTypes, Alone
<1>5. r # Nil => Found(r)
  BY <1>2, <1>3, ReadFinds DEF Informed
<1> QED BY <1>1, <1>4, <1>5, InformedNow DEF Alone

\* What begins alone has found out nothing, and relies on nothing.
LEMMA TreeAsks ==
    ASSUME DeskTypes, Alone, Informed, NEW c \in Callers, Ask(c), ~overlapped'
    PROVE  Alone' /\ Informed'
<1>1. UNCHANGED category /\ \A d \in Callers : request[d] = Nil
  BY DEF Ask, tables
<1>2. PICK a \in Asks : request' = [request EXCEPT ![c] = a]
  BY DEF Ask
<1>3. request'[c] = a /\ \A d \in Callers : d # c => request'[d] = Nil
  BY <1>1, <1>2 DEF DeskTypes, RequestsTyped
<1>4. Fresh(a)
  BY AskedTyped DEF DeskTypes
<1>5. Found(a)
  BY <1>4 DEF Fresh, Found
<1> QED BY <1>1, <1>3, <1>5, InformedNow DEF Alone

\* A product is written: it goes into no category but one that is alive.
LEMMA ShelvedWhenWritten ==
    ASSUME DeskTypes, Shelved, Informed, NEW c \in Callers, NEW p \in Products, NEW new \in ProductRows,
           NEW e \in ProductEntry, ProductWriting(c, p, new, e)
    PROVE  Shelved'
<1>1. product \in [Products -> ProductRows] /\ product[p].v \in Nat
  BY DEF DeskTypes, TablesTyped, ProductRows
<1>2. /\ product' = [product EXCEPT ![p] = new] /\ category' = category /\ new.v = product[p].v + 1
      /\ request[c] # Nil /\ request[c].at = "write"
      /\ \/ new.del
         \/ new.cat = request[c].to /\ request[c].op \in {"newProduct", "editProduct"}
         \/ new.cat = product[p].cat /\ new.del = product[p].del
  BY DEF ProductWriting
<1>3. new.v > 0 /\ new.cat \in Categories \cup {Nil}
  BY <1>1, <1>2 DEF ProductRows
<1>4. request[c].op \in {"newProduct", "editProduct"} /\ request[c].to \in Categories
        => Live(category[request[c].to])
  BY <1>2 DEF Informed, Found
<1>5. new.cat # Nil /\ ~new.del => Live(category[new.cat])
  BY <1>2, <1>3, <1>4 DEF Shelved
<1>6. product'[p] = new /\ \A x \in Products : x # p => product'[x] = product[x]
  BY <1>1, <1>2
<1>7. ASSUME NEW x \in Products, product'[x].cat # Nil
      PROVE  product'[x].v > 0 /\ (~product'[x].del => Live(category[product'[x].cat]))
  BY <1>3, <1>5, <1>6, <1>7 DEF Shelved
<1> QED BY <1>2, <1>7 DEF Shelved, Live

\* A category is written: the tree stays one, under what the request had found out.
LEMMA TreeGrows ==
    ASSUME DeskTypes, NoRing, Rooted, Informed, NEW c \in Callers, NEW k \in Categories,
           NEW new \in CategoryRows, NEW e \in CategoryEntry, CategoryWriting(c, k, new, e)
    PROVE  NoRing' /\ Rooted'
<1> DEFINE q == request[c]
           to == q.to
<1>1. /\ category \in [Categories -> CategoryRows] /\ Nil \notin Categories /\ Keep \notin Categories
      /\ \A x \in Categories : category[x].v \in Nat /\ Parent(x) \in Categories \cup {Nil}
  BY DeskAssumption DEF DeskTypes, TablesTyped, CategoryRows, Parent
<1>2. /\ category'[k] = new /\ \A x \in Categories : x # k => category'[x] = category[x]
      /\ new.v = category[k].v + 1 /\ new.v > 0 /\ new.parent \in Categories \cup {Nil}
  BY <1>1 DEF CategoryWriting, CategoryRows
<1>3. /\ q # Nil /\ q.id = k /\ q.at = "write" /\ IsRequest(q) /\ Found(q)
      /\ \/ q.op = "newCategory" /\ category[k].v = 0 /\ new.parent = to /\ ~new.del
         \/ q.op = "editCategory" /\ new.parent = Over(Parent(k), to) /\ new.del = category[k].del
         \/ q.op = "removeCategory" /\ new.parent = Parent(k) /\ new.del
  BY DEF CategoryWriting, Informed, DeskTypes, RequestsTyped, Parent
\* Either k is put under `to', or it stays where it was.
<1>4. \/ /\ new.parent = to /\ to \in Categories /\ Live(category[to]) /\ ~new.del = ~category[k].del
         /\ q.op = "editCategory" /\ Rings(k, to) = {}
      \/ /\ new.parent = to /\ to \in Categories /\ Live(category[to])
         /\ q.op = "newCategory" /\ category[k].v = 0 /\ ~new.del
      \/ new.parent = Nil /\ new.del = category[k].del
      \/ new.parent = Nil /\ ~new.del /\ category[k].v = 0
      \/ new.parent = Parent(k) /\ new.del = category[k].del
      \/ new.parent = Parent(k) /\ new.del /\ \A x \in Categories : Live(category[x]) => Parent(x) # k
  <2> HIDE DEF q, to
  <2>1. CASE q.op = "newCategory"
    <3>1. to \in Categories => Live(category[to])
      BY <1>3, <2>1 DEF Found, to
    <3> QED BY <1>2, <1>3, <2>1, <3>1
  <2>2. CASE q.op = "editCategory"
    <3>1. to \in Categories => Live(category[to]) /\ Rings(k, to) = {}
      BY <1>3, <2>2 DEF Found, to
    <3>2. new.parent = to \/ new.parent = Parent(k)
      BY <1>3, <2>2 DEF Over
    <3> QED BY <1>2, <1>3, <2>2, <3>1, <3>2
  <2>3. CASE q.op = "removeCategory"
    BY <1>3, <2>3 DEF Found, Parent
  <2> QED BY <1>3, <2>1, <2>2, <2>3
<1> HIDE DEF q, to
<1> DEFINE Up(x) == category'[x].parent
<1>5. Up(k) = new.parent /\ \A x \in Categories : x # k => Up(x) = Parent(x)
  BY <1>2 DEF Parent
<1>6. NoRing'
  <2> SUFFICES ASSUME NEW S \in SUBSET Categories, S # {}, IsFiniteSet(S), Cardinality(S) <= MaxDepth,
                      \A x \in S : Up(x) \in S
               PROVE  FALSE
    BY DEF NoRing, Parent
  <2>1. PICK x \in S : Parent(x) \notin S
    BY DEF NoRing
  <2>2. x = k /\ k \in S /\ new.parent \in S /\ new.parent # Parent(k) /\ new.parent # Nil
    BY <1>1, <1>5, <2>1
  <2>3. to \in Categories /\ Live(category[to]) /\ to \in S
    BY <1>4, <2>2
  <2>4. \A y \in S \ {k} : Parent(y) \in S
    BY <1>5
  <2>5. CASE Rings(k, to) = {}
    BY <2>2, <2>3, <2>4, <2>5 DEF Rings
  <2>6. CASE category[k].v = 0
    <3>1. to # k
      BY <2>3, <2>6 DEF Live
    <3>2. \A y \in S \ {k} : Parent(y) # k
      BY <1>1, <2>6 DEF Rooted
    <3>3. \A y \in S \ {k} : Parent(y) \in S \ {k}
      BY <2>4, <3>2
    <3>4. IsFiniteSet(S \ {k}) /\ Cardinality(S \ {k}) = Cardinality(S) - 1 /\ Cardinality(S) \in Nat
      BY <2>2, FS_RemoveElement, FS_CardinalityType
    <3>5. S \ {k} # {} /\ S \ {k} \in SUBSET Categories /\ Cardinality(S \ {k}) <= MaxDepth
      BY <2>3, <3>1, <3>4, DeskAssumption
    <3> QED BY <3>3, <3>4, <3>5 DEF NoRing
  <2> QED BY <1>4, <2>2, <2>5, <2>6
<1>7. Rooted'
  <2> DEFINE Alive(x) == category'[x].v > 0 /\ ~category'[x].del
  <2>1. \A x \in Categories : /\ category[x].v > 0 => category'[x].v > 0
                              /\ x # k => (Alive(x) <=> Live(category[x]))
    BY <1>1, <1>2 DEF Live
  <2>2. ASSUME NEW x \in Categories, Up(x) # Nil
        PROVE  category'[x].v > 0 /\ category'[Up(x)].v > 0 /\ Up(x) \in Categories
    <3>1. CASE x = k
      <4>1. CASE new.parent = Parent(k)
        BY <1>1, <1>2, <1>5, <2>1, <2>2, <3>1, <4>1 DEF Rooted
      <4>2. CASE to \in Categories /\ Live(category[to]) /\ new.parent = to
        BY <1>2, <1>5, <2>1, <3>1, <4>2 DEF Live
      <4> QED BY <1>4, <1>5, <2>2, <3>1, <4>1, <4>2
    <3>2. CASE x # k
      BY <1>1, <1>5, <2>1, <2>2, <3>2 DEF Rooted
    <3> QED BY <3>1, <3>2
  <2>3. ASSUME NEW x \in Categories, Up(x) # Nil, ~category'[x].del
        PROVE  Alive(Up(x))
    <3>1. CASE x = k
      <4>1. CASE new.parent = Parent(k) /\ new.del = category[k].del
        <5>1. Live(category[Parent(k)])
          BY <1>2, <1>5, <2>3, <3>1, <4>1 DEF Rooted
        <5>2. Parent(k) # k => Alive(Parent(k))
          BY <1>1, <1>5, <2>1, <2>3, <3>1, <4>1, <5>1
        <5>3. Parent(k) = k => Alive(k)
          BY <1>2, <2>3, <3>1
        <5> QED BY <1>5, <3>1, <4>1, <5>2, <5>3
      <4>2. CASE to \in Categories /\ Live(category[to]) /\ new.parent = to
        <5>1. to # k => Alive(to)
          BY <2>1, <4>2
        <5>2. to = k => Alive(to)
          BY <1>2, <2>3, <3>1
        <5> QED BY <1>5, <3>1, <4>2, <5>1, <5>2
      <4> QED BY <1>2, <1>4, <1>5, <2>3, <3>1, <4>1, <4>2
    <3>2. CASE x # k
      <4>1. Up(x) = Parent(x) /\ ~category[x].del /\ Live(category[Parent(x)]) /\ category[x].v > 0
            /\ Parent(x) \in Categories
        BY <1>1, <1>2, <1>5, <2>3, <3>2 DEF Rooted
      <4>2. CASE Parent(x) # k
        BY <2>1, <4>1, <4>2
      <4>3. CASE Parent(x) = k
        <5>1. Live(category[x]) /\ Live(category[k])
          BY <4>1, <4>3 DEF Live
        <5>2. ~new.del
          BY <1>4, <4>3, <5>1 DEF Live
        <5> QED BY <1>2, <4>1, <4>3, <5>2
      <4> QED BY <4>2, <4>3
    <3> QED BY <3>1, <3>2
  <2> QED BY <2>2, <2>3 DEF Rooted, Parent, Live
<1> QED BY <1>6, <1>7

\* The products follow: none stays in the category that is removed.
LEMMA ShelvedAfter ==
    ASSUME DeskTypes, Shelved, NEW c \in Callers, NEW k \in Categories,
           NEW new \in CategoryRows, NEW e \in CategoryEntry, CategoryWriting(c, k, new, e)
    PROVE  Shelved'
<1>1. /\ product \in [Products -> ProductRows] /\ category \in [Categories -> CategoryRows]
      /\ \A p \in Products : product[p].cat \in Categories \cup {Nil}
      /\ Nil \notin Categories /\ \A x \in Categories : category[x].v \in Nat
  BY DeskAssumption DEF DeskTypes, TablesTyped, ProductRows, CategoryRows
<1>2. /\ category'[k] = new /\ \A x \in Categories : x # k => category'[x] = category[x]
      /\ new.v > 0
  BY <1>1 DEF CategoryWriting
<1>3. \/ UNCHANGED product /\ (Live(category[k]) => ~new.del)
      \/ product' = [p \in Products |-> IF Live(product[p]) /\ product[p].cat = k
                                             THEN [product[p] EXCEPT !.cat = Nil] ELSE product[p]]
  BY DEF CategoryWriting, Live
<1>4. \A x \in Categories : x # k /\ Live(category[x]) => category'[x].v > 0 /\ ~category'[x].del
  BY <1>2 DEF Live
<1>5. ASSUME NEW p \in Products, product'[p].cat # Nil
      PROVE  /\ product'[p].v > 0
             /\ ~product'[p].del => category'[product'[p].cat].v > 0 /\ ~category'[product'[p].cat].del
  <2>1. CASE UNCHANGED product /\ (Live(category[k]) => ~new.del)
    <3>1. product[p].v > 0 /\ (~product[p].del => Live(category[product[p].cat]))
      BY <1>5, <2>1 DEF Shelved
    <3> QED BY <1>1, <1>2, <1>4, <1>5, <2>1, <3>1
  <2>2. CASE product' = [x \in Products |-> IF Live(product[x]) /\ product[x].cat = k
                                             THEN [product[x] EXCEPT !.cat = Nil] ELSE product[x]]
    <3>1. CASE Live(product[p]) /\ product[p].cat = k
      <4>1. product'[p] = [product[p] EXCEPT !.cat = Nil]
        BY <2>2, <3>1
      <4>2. product'[p].cat = Nil
        BY <1>1, <4>1 DEF ProductRows
      <4> QED BY <1>5, <4>2
    <3>2. CASE ~(Live(product[p]) /\ product[p].cat = k)
      <4>1. product'[p] = product[p]
        BY <2>2, <3>2
      <4>2. product[p].v > 0 /\ (~product[p].del => Live(category[product[p].cat]))
        BY <1>5, <4>1 DEF Shelved
      <4> QED BY <1>1, <1>4, <1>5, <3>2, <4>1, <4>2 DEF Live
    <3> QED BY <3>1, <3>2
  <2> QED BY <1>3, <2>1, <2>2
<1> QED BY <1>5 DEF Shelved, Live

\* No request can make a ring, an orphan or a product without its shelf, if it is alone.
LEMMA TreeStep == DeskTypes /\ TreeInv /\ [DeskNext]_deskVars => TreeInv'
<1> SUFFICES ASSUME DeskTypes, TreeInv, [DeskNext]_deskVars, ~overlapped'
             PROVE  NoRing' /\ Rooted' /\ Shelved' /\ Alone' /\ Informed'
  BY DEF TreeInv
<1>1. ~overlapped
  BY OverlapStays DEF DeskTypes, Ask
<1>2. NoRing /\ Rooted /\ Shelved /\ Alone /\ Informed
  BY <1>1 DEF TreeInv
<1>3. ASSUME UNCHANGED <<product, category>>, Alone', Informed'
      PROVE  NoRing' /\ Rooted' /\ Shelved' /\ Alone' /\ Informed'
  BY <1>2, <1>3, RowsKept
<1>4. ASSUME UNCHANGED <<product, category, request>>
      PROVE  NoRing' /\ Rooted' /\ Shelved' /\ Alone' /\ Informed'
  <2>1. Alone' /\ Informed'
    BY <1>2, <1>4, InformedNow DEF Alone, Informed
  <2> QED BY <1>3, <1>4, <2>1
<1>5. ASSUME NEW c \in Callers, request[c] # Nil, Moves(c, Nil) PROVE Alone' /\ Informed'
  BY <1>2, <1>5, LastOne
<1>6. ASSUME NEW c \in Callers, Ask(c)
      PROVE  NoRing' /\ Rooted' /\ Shelved' /\ Alone' /\ Informed'
  <2>1. Alone' /\ Informed'
    BY <1>2, <1>6, TreeAsks
  <2> QED BY <1>3, <1>6, <2>1 DEF Ask, tables
<1>7. ASSUME NEW c \in Callers, Fail(c)
      PROVE  NoRing' /\ Rooted' /\ Shelved' /\ Alone' /\ Informed'
  BY <1>3, <1>5, <1>7, RequestCloses DEF Fail, tables
<1>8. ASSUME NEW c \in Callers, Reads(c)
      PROVE  NoRing' /\ Rooted' /\ Shelved' /\ Alone' /\ Informed'
  <2>1. Alone' /\ Informed'
    BY <1>2, <1>8, TreeReads
  <2> QED BY <1>3, <1>8, <2>1, ReadsStep
<1>9. ASSUME NEW c \in Callers, ProductWrites(c)
      PROVE  NoRing' /\ Rooted' /\ Shelved' /\ Alone' /\ Informed'
  <2>1. PICK p \in Products, new \in ProductRows, e \in ProductEntry : ProductWriting(c, p, new, e)
    BY <1>9, ProductWritten
  <2>2. UNCHANGED category /\ request[c] # Nil /\ Moves(c, Nil)
    BY <2>1 DEF ProductWriting
  <2>3. NoRing' /\ Rooted'
    BY <1>2, <2>2 DEF NoRing, Rooted, Parent, Live
  <2>4. Shelved'
    BY <1>2, <2>1, ShelvedWhenWritten
  <2> QED BY <1>5, <2>2, <2>3, <2>4
<1>10. ASSUME NEW c \in Callers, CategoryWrites(c)
       PROVE  NoRing' /\ Rooted' /\ Shelved' /\ Alone' /\ Informed'
  <2>1. PICK k \in Categories, new \in CategoryRows, e \in CategoryEntry : CategoryWriting(c, k, new, e)
    BY <1>10, CategoryWritten
  <2>2. request[c] # Nil /\ Moves(c, Nil)
    BY <2>1 DEF CategoryWriting
  <2>3. NoRing' /\ Rooted' /\ Shelved'
    BY <1>2, <2>1, TreeGrows, ShelvedAfter
  <2> QED BY <1>5, <2>2, <2>3
<1>11. ASSUME NEW c \in Callers, MoveStock(c) \/ Enroll(c)
       PROVE  NoRing' /\ Rooted' /\ Shelved' /\ Alone' /\ Informed'
  <2>1. UNCHANGED <<product, category>> /\ request[c] # Nil /\ Moves(c, Nil)
    BY <1>11, StockMoved, Enrolled DEF StockMoving, Enrolling
  <2> QED BY <1>3, <1>5, <2>1
<1>12. CASE \E p \in Products : SetMinimum(p)
  BY <1>4, <1>12 DEF SetMinimum
<1>13. CASE \E t \in Posts : Revoke(t)
  BY <1>4, <1>13 DEF Revoke
<1>14. CASE UNCHANGED deskVars
  BY <1>4, <1>14 DEF deskVars, tables
<1> QED BY <1>6, <1>7, <1>8, <1>9, <1>10, <1>11, <1>12, <1>13, <1>14
        DEF DeskNext, Reads, ProductWrites, CategoryWrites

\* What stands at every moment, by parts: the types, the log, the levels, the registers, the edits
\* made from one version, the tree.
DeskInv == DeskTypes /\ LogInv /\ LevelInv /\ RegisterInv /\ FewInv /\ TreeInv

\* DeskHolds, for any products, categories, tills and depth of climbing, and any requests, however
\* many of them open at once: the log tells what the rows hold, no version serves more edits than
\* can be open, the categories are a tree while requests do not overlap, the levels add up, and
\* the registers are told.
THEOREM DeskHoldsCorrect == DeskSpec => []DeskHolds
<1>1. DeskInit => DeskInv
  BY DeskTypesInit, LogInit, LevelsInit, RegisterInit, FewInit, TreeInit DEF DeskInv
<1>2. DeskInv /\ [DeskNext]_deskVars => DeskInv'
  BY DeskTypesStep, LogStep, LevelsStep, RegisterStep, FewStep, TreeStep DEF DeskInv
<1>3. DeskInv => DeskHolds
  BY LogInvTells, FewHolds, TreeStands, LevelsTold DEF DeskInv, DeskHolds, RegisterInv
<1> QED BY <1>1, <1>2, <1>3, PTL DEF DeskSpec
=============================================================================
