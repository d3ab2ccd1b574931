------------------------- MODULE SyncProtocolProofs -------------------------
(***************************************************************************)
(* Theorems about SyncProtocol, for every number of tills, entities,       *)
(* mutations and faults: first the outbox and its mutations, then the rows *)
(* it spreads, the log that carries them, the journal, and what a till     *)
(* shows once it has caught up.                                            *)
(***************************************************************************)
EXTENDS SyncProtocol, SequenceTheorems, FiniteSetTheorems, TLAPS, WellFoundedInduction

\* The constant records the actions write have the type of the columns.
LEMMA RowTypes ==
    /\ Absent \in Row
    /\ Seed \in Row
    /\ NoAnswer \in Answers
    /\ Unissued \in Mutation
<1>1. Absent \in Row /\ Seed \in Row
  BY SyncAssumption DEF Absent, Seed, Row
<1>2. NoAnswer \in Answers
  BY <1>1 DEF NoAnswer, Answer, Answers, Status
<1>3. (CHOOSE e \in Entity : TRUE) \in Entity
  BY SyncAssumption
<1>4. Unissued \in Mutation
  BY SyncAssumption, <1>1, <1>3 DEF Unissued, Mutation, Absent, Row, Nobody
<1> QED BY <1>1, <1>2, <1>4

\* The resolution lets through, and sends to arbitration, fields of the update only.
LEMMA ResolvedFields ==
    ASSUME NEW in, NEW sensitive
    PROVE  ResolveUpdate(in, sensitive).fields \subseteq in.clientFields
BY DEF ResolveUpdate, Outcome

LEMMA InitType == Init => TypeOK
<1> SUFFICES ASSUME Init PROVE TypeOK
  OBVIOUS
<1> USE SyncAssumption, RowTypes
<1>1. Len(Seeded) \in Nat /\ \A i \in 1..Len(Seeded) : Seeded[i] \in Entity
  BY ElementOfSeq, LenProperties
<1>2. \A e \in Entity : SeedRow(e) \in Row
  BY DEF SeedRow
<1>3. srv \in [Entity -> Row] /\ row \in [Device -> [Entity -> Row]]
  BY <1>2 DEF Init
<1>4. log \in Seq(Entry)
  <2>1. log \in [1..Len(Seeded) -> Entry]
    BY <1>1 DEF Init, Entry, Nobody
  <2>2. Seq(Entry) = UNION {[1..n -> Entry] : n \in Nat}
    BY SeqDef
  <2> QED BY <1>1, <2>1, <2>2
<1>5. cursor \in [Device -> Nat]
  BY <1>1 DEF Init
<1>6. /\ total \in [Entity -> Nat]
      /\ processed \in [Mut -> Answers]
      /\ reply \in [Mut -> Answers]
      /\ mut \in [Mut -> Mutation]
      /\ level \in [Device -> [Entity -> Nat]]
      /\ deferred \in [Device -> [Change -> 0..MaxDeferred]]
  BY DEF Init
<1>7. edit \in [Device -> Edit]
  BY DEF Init, Edit, NoEdit
<1> QED BY <1>3, <1>4, <1>5, <1>6, <1>7 DEF Init, TypeOK, Labels

LEMMA CashierType ==
    ASSUME TypeOK, NEW d \in Device, Cashier(d) \/ Writing(d)
    PROVE  TypeOK'
<1> USE SyncAssumption DEF vars, serverVars, netVars, outboxVars, replicaVars, pullVars, pushVars
<1>0. nextMut \in 1..(MaxMut + 1) /\ row \in [Device -> [Entity -> Row]]
  BY DEF TypeOK
<1>1. ASSUME NEW e \in Entity, NEW r \in Row, NEW m \in Mutation, Write(d, e, r, m)
      PROVE  TypeOK'
  <2>1. nextMut \in Mut /\ nextMut \in 0..MaxMut /\ nextMut' \in 1..(MaxMut + 1)
    BY <1>1 DEF Write, TypeOK, Mut
  <2>2. [mut |-> nextMut, bump |-> e \in Journal, closes |-> 0] \in Edit
    <3>1. (e \in Journal) \in BOOLEAN
      OBVIOUS
    <3> QED BY <2>1, <3>1 DEF Edit
  <2>3. edit' \in [Device -> Edit]
    BY <1>1, <2>2 DEF Write, TypeOK
  <2>4. row' \in [Device -> [Entity -> Row]] /\ mut' \in [Mut -> Mutation]
    BY <1>1, <2>1 DEF Write, TypeOK
  <2> QED BY <1>1, <2>1, <2>3, <2>4 DEF Write, TypeOK
<1>2. ASSUME NEW e \in Entity, NEW t \in Clock, LocalCreate(d, e, t)
      PROVE  TypeOK'
  <2>0. nextMut <= MaxMut
    BY <1>2 DEF LocalCreate, Write
  <2>1. nextMut \in 0..MaxMut
    BY <1>0, <2>0
  <2>2. FirstRow(nextMut, t) \in Row
    BY <2>1 DEF FirstRow, Row
  <2> QED BY <1>1, <1>2, <2>1, <2>2, RowTypes, ZenonT(60) DEF LocalCreate, Mutation, Row
<1>3. ASSUME NEW e \in Entity, NEW t \in Clock, NEW F \in SUBSET Field, LocalUpdate(d, e, F, t)
      PROVE  TypeOK'
  <2> DEFINE r == [v |-> row[d][e].v + 1, ts |-> t, del |-> FALSE,
                   val |-> [f \in Field |-> IF f \in F THEN nextMut ELSE row[d][e].val[f]]]
             m == [dev |-> d, ent |-> e, op |-> "update", base |-> row[d][e].v,
                   fields |-> F, val |-> nextMut, ts |-> t, saw |-> row[d][e].val]
  <2>0. nextMut <= MaxMut
    BY <1>3 DEF LocalUpdate, Write
  <2>1. nextMut \in 0..MaxMut /\ row[d][e] \in Row
    BY <1>0, <2>0
  <2>2. row[d][e].v \in Nat /\ row[d][e].val \in [Field -> 0..MaxMut] /\ t \in Nat
    BY <2>1 DEF Row
  <2>3. r \in Row
    <3>1. [f \in Field |-> IF f \in F THEN nextMut ELSE row[d][e].val[f]] \in [Field -> 0..MaxMut]
      BY <2>1, <2>2
    <3> QED BY <2>2, <3>1 DEF Row
  <2>4. m \in Mutation
    BY <2>1, <2>2 DEF Mutation
  <2>5. Write(d, e, r, m)
    BY <1>3 DEF LocalUpdate
  <2> QED BY <1>1, <2>3, <2>4, <2>5
<1>4. ASSUME NEW e \in Entity, NEW t \in Clock, LocalDelete(d, e, t)
      PROVE  TypeOK'
  <2> DEFINE r == [v |-> row[d][e].v + 1, val |-> row[d][e].val, ts |-> t, del |-> TRUE]
             m == [dev |-> d, ent |-> e, op |-> "delete", base |-> row[d][e].v,
                   fields |-> {}, val |-> nextMut, ts |-> t, saw |-> row[d][e].val]
  <2>0. nextMut <= MaxMut
    BY <1>4 DEF LocalDelete, Write
  <2>1. nextMut \in 0..MaxMut /\ row[d][e] \in Row
    BY <1>0, <2>0
  <2>2. r \in Row
    <3>1. row[d][e].v \in Nat /\ row[d][e].val \in [Field -> 0..MaxMut]
      BY <2>1 DEF Row
    <3>2. row[d][e].v + 1 \in Nat /\ t \in Nat
      BY <3>1
    <3> QED BY <3>1, <3>2 DEF Row
  <2>3. m \in Mutation
    BY <2>1 DEF Row, Mutation
  <2>4. Write(d, e, r, m)
    BY <1>4 DEF LocalDelete
  <2> QED BY <1>1, <2>2, <2>3, <2>4
<1>5. ASSUME NEW m \in Mut, ResolveServer(d, m)
      PROVE  TypeOK'
  <2>1. processed[m].state \in Row /\ mut[m].ent \in Entity
    BY DEF TypeOK, Answers, Mutation
  <2>2. row' \in [Device -> [Entity -> Row]]
    BY <1>5, <2>1 DEF ResolveServer, TypeOK
  <2>3. [mut |-> 0, bump |-> FALSE, closes |-> m] \in Edit
    BY DEF Edit, Mut
  <2>4. edit' \in [Device -> Edit]
    BY <1>5, <2>3 DEF ResolveServer, TypeOK
  <2> QED BY <1>5, <2>2, <2>4 DEF ResolveServer, TypeOK
<1>6. ASSUME NEW m \in Mut, NEW t \in Clock, ResolveLocal(d, m, t)
      PROVE  TypeOK'
  <2> DEFINE theirs == processed[m].state
             ours   == [v |-> theirs.v, ts |-> t, del |-> theirs.del,
                        val |-> [f \in Field |-> IF f \in mut[m].fields
                                                 THEN mut[m].val ELSE theirs.val[f]]]
             again  == [dev |-> d, ent |-> mut[m].ent, op |-> "update", base |-> theirs.v,
                        fields |-> mut[m].fields, val |-> mut[m].val, ts |-> t,
                        saw |-> theirs.val]
             now    == [mut |-> nextMut, bump |-> FALSE, closes |-> m]
  <2>1. nextMut \in Mut /\ nextMut' \in 1..(MaxMut + 1)
    <3>1. nextMut <= MaxMut /\ nextMut' = nextMut + 1
      BY <1>6 DEF ResolveLocal
    <3>2. nextMut \in 1..(MaxMut + 1)
      BY DEF TypeOK
    <3> QED BY <3>1, <3>2 DEF Mut
  <2>2. theirs \in Row /\ mut[m] \in Mutation
    BY DEF TypeOK, Answers
  <2>3. mut[m].ent \in Entity /\ ours \in Row
    <3>1. mut[m].ent \in Entity /\ mut[m].val \in 0..MaxMut
      BY <2>2 DEF Mutation
    <3>2. theirs.val \in [Field -> 0..MaxMut] /\ theirs.v \in Nat /\ theirs.del \in BOOLEAN
      BY <2>2 DEF Row
    <3>3. [f \in Field |-> IF f \in mut[m].fields THEN mut[m].val ELSE theirs.val[f]]
             \in [Field -> 0..MaxMut]
      BY <3>1, <3>2
    <3> QED BY <3>1, <3>2, <3>3 DEF Row
  <2>4. again \in Mutation
    BY <2>2 DEF Row, Mutation
  <2>5. now \in Edit
    BY <2>1 DEF Edit, Mut
  <2>6. row' = [row EXCEPT ![d][mut[m].ent] = ours] /\ mut' = [mut EXCEPT ![nextMut] = again]
    BY <1>6 DEF ResolveLocal
  <2>7. edit' = [edit EXCEPT ![d] = now]
    BY <1>6 DEF ResolveLocal
  <2> HIDE DEF ours, again, now
  <2>8. row' \in [Device -> [Entity -> Row]] /\ mut' \in [Mut -> Mutation]
    BY <2>1, <2>3, <2>4, <2>6 DEF TypeOK
  <2>9. edit' \in [Device -> Edit]
    BY <2>5, <2>7 DEF TypeOK
  <2> QED BY <1>6, <2>1, <2>8, <2>9 DEF ResolveLocal, TypeOK
<1>7. CASE LocalLevel(d)
  <2> DEFINE m == edit[d].mut
             e == mut[m].ent
             now == [mut |-> m, bump |-> FALSE, closes |-> 0]
  <2>1. edit[d] \in Edit
    BY DEF TypeOK
  <2>2. m \in Mut
    BY <1>7, <2>1 DEF LocalLevel, Edit, Mut
  <2>3. mut[m] \in Mutation
    BY <2>2 DEF TypeOK
  <2>4. e \in Entity
    BY <2>3 DEF Mutation
  <2>5. level' = [level EXCEPT ![d][e] = level[d][e] + 1] /\ edit' = [edit EXCEPT ![d] = now]
    BY <1>7 DEF LocalLevel, Counted
  <2>6. now \in Edit
    BY <2>2 DEF Edit, Mut
  <2> HIDE DEF m, e, now
  <2>7. level' \in [Device -> [Entity -> Nat]]
    BY <2>4, <2>5 DEF TypeOK
  <2>8. edit' \in [Device -> Edit]
    BY <2>5, <2>6 DEF TypeOK
  <2> QED BY <1>7, <2>7, <2>8 DEF LocalLevel, TypeOK
<1>8. CASE Enqueue(d)
  <2>1. [mut |-> 0, bump |-> FALSE, closes |-> edit[d].closes] \in Edit
    BY DEF TypeOK, Edit
  <2>2. edit' \in [Device -> Edit]
    BY <1>8, <2>1 DEF Enqueue, TypeOK
  <2>3. st' \in [Mut -> {"none", "pending", "failed", "conflict", "done"}]
    BY <1>8 DEF Enqueue, TypeOK
  <2> QED BY <1>8, <2>2, <2>3 DEF Enqueue, TypeOK
<1>9. CASE CloseConflict(d)
  <2>1. NoEdit \in Edit
    BY DEF NoEdit, Edit
  <2>2. edit' \in [Device -> Edit]
    BY <1>9, <2>1 DEF CloseConflict, TypeOK
  <2>3. open' \in [Mut -> Nat]
    <3>1. \A k \in Nat : (IF k > 0 THEN k - 1 ELSE 0) \in Nat
      OBVIOUS
    <3>2. PICK n \in Mut : open' = [open EXCEPT ![n] = IF open[n] > 0 THEN open[n] - 1 ELSE 0]
      <4>1. edit[d] \in Edit
        BY DEF TypeOK
      <4>2. edit[d].closes \in Mut
        BY <1>9, <4>1 DEF CloseConflict, Edit, Mut
      <4> QED BY <1>9, <4>2 DEF CloseConflict
    <3>3. open \in [Mut -> Nat]
      BY DEF TypeOK
    <3> QED BY <3>1, <3>2, <3>3
  <2> QED BY <1>9, <2>2, <2>3 DEF CloseConflict, TypeOK
<1> QED BY <1>2, <1>3, <1>4, <1>5, <1>6, <1>7, <1>8, <1>9 DEF Cashier, Writing

\* What the server's handlers share: an answer is served, and stored, as typed.
LEMMA ServeType ==
    ASSUME TypeOK, NEW d \in Device, NEW m \in Mut, NEW a \in Answers, Serve(d, m, a)
    PROVE  /\ wire' \in [Device -> SUBSET Mut]
           /\ ghost' \in [Device -> SUBSET Mut]
           /\ reply' \in [Mut -> Answers]
<1>1. CASE /\ wire' = [wire EXCEPT ![d] = @ \ {m}]
           /\ reply' = [reply EXCEPT ![m] = a]
           /\ UNCHANGED ghost
  BY <1>1 DEF TypeOK
<1>2. CASE /\ ghost' = [ghost EXCEPT ![d] = @ \ {m}]
           /\ UNCHANGED <<wire, reply>>
  BY <1>2 DEF TypeOK
<1> QED BY <1>1, <1>2 DEF Serve

LEMMA CommitType ==
    ASSUME TypeOK, NEW d \in Device, NEW m \in Mut, NEW a \in Answers, Commit(d, m, a),
           srv' \in [Entity -> Row], total' \in [Entity -> Nat], log' \in Seq(Entry)
    PROVE  TypeOK'
<1>1. /\ wire' \in [Device -> SUBSET Mut]
      /\ ghost' \in [Device -> SUBSET Mut]
      /\ reply' \in [Mut -> Answers]
  BY ServeType DEF Commit
<1>2. processed' \in [Mut -> Answers]
  BY DEF Commit, TypeOK
<1> QED BY <1>1, <1>2 DEF Commit, TypeOK, tillVars, outboxVars, replicaVars, pullVars, pushVars

LEMMA PublishType ==
    ASSUME TypeOK, NEW m \in Mut, NEW r \in Row, NEW F \in SUBSET Field, Publish(m, r, F)
    PROVE  srv' \in [Entity -> Row] /\ log' \in Seq(Entry)
<1> DEFINE entry == [ent |-> mut[m].ent, row |-> r, fields |-> F, dev |-> mut[m].dev, mut |-> m]
<1>1. mut[m] \in Mutation
  BY DEF TypeOK
<1>2. mut[m].ent \in Entity /\ mut[m].dev \in Nat
  <2>1. mut[m].ent \in Entity /\ mut[m].dev \in Device \cup {0}
    BY <1>1 DEF Mutation, Nobody
  <2>2. Device \subseteq Nat
    BY SyncAssumption
  <2>3. 0 \in Nat
    OBVIOUS
  <2> QED BY <2>1, <2>2, <2>3, Zenon
<1>3. m \in 0..MaxMut
  BY SyncAssumption DEF Mut
<1>4. entry \in Entry
  BY <1>2, <1>3 DEF Entry
<1>5. log' = Append(log, entry) /\ srv' = [srv EXCEPT ![mut[m].ent] = r]
  BY DEF Publish
<1> HIDE DEF entry
<1>6. srv' \in [Entity -> Row]
  BY <1>2, <1>5 DEF TypeOK
<1>7. log' \in Seq(Entry)
  BY <1>4, <1>5, AppendProperties DEF TypeOK
<1> QED BY <1>6, <1>7

LEMMA ServerType ==
    ASSUME TypeOK, NEW d \in Device, Server(d)
    PROVE  TypeOK'
<1>1. PICK m \in Mut : ServerStep(d, m)
  BY DEF Server
<1> DEFINE e == mut[m].ent
           cur == srv[e]
<1>2. mut[m] \in Mutation
  BY DEF TypeOK
<1>3. /\ e \in Entity /\ mut[m].val \in 0..MaxMut /\ mut[m].ts \in Nat
      /\ mut[m].fields \in SUBSET Field
  BY <1>2 DEF Mutation
<1>4. cur \in Row
  BY <1>3 DEF TypeOK
<1>5. cur.v \in Nat /\ cur.val \in [Field -> 0..MaxMut] /\ cur.ts \in Nat
  BY <1>4 DEF Row
<1>6. \A status \in Status, state \in Row : Answer(status, state) \in Answers
  BY DEF Answer, Answers
<1>7. Absent \in Row
  BY RowTypes
<1>8. srv \in [Entity -> Row] /\ total \in [Entity -> Nat] /\ log \in Seq(Entry)
  BY DEF TypeOK
<1> HIDE DEF e, cur
<1>9. CASE ServeReplay(d, m)
  <2>1. processed[m] \in Answers
    BY DEF TypeOK
  <2>2. /\ wire' \in [Device -> SUBSET Mut]
        /\ ghost' \in [Device -> SUBSET Mut]
        /\ reply' \in [Mut -> Answers]
    BY <1>9, <2>1, ServeType DEF ServeReplay
  <2> QED BY <1>9, <2>2
          DEF ServeReplay, TypeOK, serverVars, tillVars, outboxVars, replicaVars, pullVars, pushVars
<1>10. CASE ServeThrow(d, m)
  <2>1. Answer("rejected", Absent) \in Answers
    BY <1>6, <1>7 DEF Status
  <2>2. /\ wire' \in [Device -> SUBSET Mut]
        /\ ghost' \in [Device -> SUBSET Mut]
        /\ reply' \in [Mut -> Answers]
    BY <1>10, <2>1, ServeType DEF ServeThrow
  <2>3. faults' \in 0..MaxFaults
    BY <1>10, SyncAssumption DEF ServeThrow, TypeOK
  <2> QED BY <1>10, <2>2, <2>3
          DEF ServeThrow, TypeOK, serverVars, tillVars, outboxVars, replicaVars, pullVars, pushVars
<1>11. CASE ServeCreate(d, m)
  <2>1. FirstRow(mut[m].val, mut[m].ts) \in Row
    BY <1>3 DEF FirstRow, Row
  <2>2. (IF e \in Journal THEN {} ELSE Field) \in SUBSET Field
    OBVIOUS
  <2>3. srv' \in [Entity -> Row] /\ log' \in Seq(Entry)
    BY <1>11, <2>1, <2>2, PublishType DEF ServeCreate, e
  <2>4. total' \in [Entity -> Nat]
    BY <1>3, <1>8, <1>11 DEF ServeCreate, Counted, e
  <2>5. Answer("applied", Absent) \in Answers
    BY <1>6, <1>7 DEF Status
  <2> QED BY <1>11, <2>3, <2>4, <2>5, CommitType DEF ServeCreate
<1>12. CASE ServeUnknown(d, m)
  <2>1. Answer("rejected", Absent) \in Answers
    BY <1>6, <1>7 DEF Status
  <2> QED BY <1>8, <1>12, <2>1, CommitType DEF ServeUnknown, NothingWritten
<1>13. CASE ServeDeleted(d, m)
  <2> DEFINE a == Answer("ignored", IF mut[m].op = "create" THEN Absent ELSE cur)
  <2>1. a \in Answers
    BY <1>4, <1>6, <1>7 DEF Status
  <2>2. Commit(d, m, a) /\ NothingWritten
    BY <1>13 DEF ServeDeleted, cur, e
  <2> HIDE DEF a
  <2> QED BY <1>8, <2>1, <2>2, CommitType DEF NothingWritten
<1>14. CASE ServeDelete(d, m)
  <2> DEFINE r == [v |-> cur.v + 1, val |-> cur.val, ts |-> cur.ts, del |-> TRUE]
  <2>1. r \in Row
    BY <1>5 DEF Row
  <2>2. Publish(m, r, {}) /\ UNCHANGED total /\ Commit(d, m, Answer("applied", Absent))
    BY <1>14 DEF ServeDelete, cur, e
  <2> HIDE DEF r
  <2>3. srv' \in [Entity -> Row] /\ log' \in Seq(Entry)
    BY <2>1, <2>2, PublishType
  <2>4. Answer("applied", Absent) \in Answers
    BY <1>6, <1>7 DEF Status
  <2> QED BY <1>8, <2>2, <2>3, <2>4, CommitType
<1>15. CASE ServeUpdate(d, m)
  <2> DEFINE out == Resolution(m)
             r == [v |-> cur.v + 1, ts |-> mut[m].ts, del |-> FALSE,
                   val |-> [f \in Field |-> IF f \in out.fields THEN mut[m].val ELSE cur.val[f]]]
             a == Answer(IF out.kind = "apply" THEN "applied" ELSE "merged", r)
  <2>1. out.fields \in SUBSET Field
    <3>1. out.fields \subseteq mut[m].fields
      BY ResolvedFields DEF Resolution
    <3> QED BY <1>3, <3>1
  <2>2. Publish(m, r, out.fields) /\ UNCHANGED total /\ Commit(d, m, a)
    BY <1>15 DEF ServeUpdate, cur, e
  <2> HIDE DEF out
  <2>3. [f \in Field |-> IF f \in out.fields THEN mut[m].val ELSE cur.val[f]]
             \in [Field -> 0..MaxMut]
    BY <1>3, <1>5
  <2>4. r \in Row
    BY <1>3, <1>5, <2>3 DEF Row
  <2> HIDE DEF r
  <2>5. a \in Answers
    BY <1>6, <2>4 DEF Status
  <2> HIDE DEF a
  <2>6. srv' \in [Entity -> Row] /\ log' \in Seq(Entry)
    BY <2>1, <2>2, <2>4, PublishType
  <2> QED BY <1>8, <2>2, <2>5, <2>6, CommitType
<1>16. CASE ServeKeep(d, m)
  <2> DEFINE a == Answer(IF Resolution(m).kind = "manual" THEN "conflict" ELSE "ignored", cur)
  <2>1. a \in Answers
    BY <1>4, <1>6 DEF Status
  <2>2. Commit(d, m, a) /\ NothingWritten
    BY <1>16 DEF ServeKeep, cur, e
  <2> HIDE DEF a
  <2> QED BY <1>8, <2>1, <2>2, CommitType DEF NothingWritten
<1> QED BY <1>1, <1>9, <1>10, <1>11, <1>12, <1>13, <1>14, <1>15, <1>16 DEF ServerStep

LEMMA PushType ==
    ASSUME TypeOK, NEW d \in Device,
           \/ PushNothing(d) \/ PushBatch(d) \/ PushDone(d)
           \/ \E m \in Mut : \/ AnswerAccepted(d, m) \/ AnswerConflict(d, m) \/ MarkConflict(d, m)
                             \/ AnswerRejected(d, m) \/ MarkSent(d, m)
    PROVE  TypeOK'
<1> USE DEF serverVars, netVars, outboxVars, replicaVars, pullVars, pushVars
<1>1. ASSUME NEW label \in Labels, Go(d, label)
      PROVE  pc' \in [Device -> Labels]
  BY <1>1 DEF Go, TypeOK
<1>2. CASE PushNothing(d)
  <2>1. pc' \in [Device -> Labels]
    BY <1>1, <1>2 DEF PushNothing, Labels
  <2> QED BY <1>2, <2>1 DEF PushNothing, TypeOK
<1>3. CASE PushBatch(d)
  <2>1. FirstOf(Due(d), BatchSize) \in SUBSET Mut
    BY DEF FirstOf, Due, Outbox
  <2>2. pc' \in [Device -> Labels]
    BY <1>1, <1>3 DEF PushBatch, Labels
  <2>3. sent' \in [Device -> SUBSET Mut]
    BY <1>3, <2>1 DEF PushBatch, TypeOK
  <2>4. todo' \in [Device -> SUBSET Mut]
    BY <1>3, <2>1 DEF PushBatch, TypeOK
  <2>5. wire' \in [Device -> SUBSET Mut]
    BY <1>3, <2>1 DEF PushBatch, TypeOK
  <2> QED BY <1>3, <2>2, <2>3, <2>4, <2>5 DEF PushBatch, TypeOK
<1>4. CASE PushDone(d)
  <2>1. pc' \in [Device -> Labels]
    BY <1>1, <1>4 DEF PushDone, Labels
  <2>2. sent' \in [Device -> SUBSET Mut]
    BY <1>4 DEF PushDone, TypeOK
  <2> QED BY <1>4, <2>1, <2>2 DEF PushDone, TypeOK
<1>5. ASSUME NEW m \in Mut, Handled(d, m)
      PROVE  reply' \in [Mut -> Answers] /\ todo' \in [Device -> SUBSET Mut]
  <2>1. NoAnswer \in Answers
    BY RowTypes
  <2> QED BY <1>5, <2>1 DEF Handled, TypeOK
<1>6. ASSUME NEW m \in Mut, AnswerAccepted(d, m)
      PROVE  TypeOK'
  <2>1. reply' \in [Mut -> Answers] /\ todo' \in [Device -> SUBSET Mut]
    BY <1>5, <1>6 DEF AnswerAccepted
  <2>2. row' \in [Device -> [Entity -> Row]]
    <3>1. reply[m].state \in Row /\ mut[m].ent \in Entity
      BY DEF TypeOK, Answers, Mutation
    <3> QED BY <1>6, <3>1 DEF AnswerAccepted, TypeOK
  <2>3. acked' \in [Device -> SUBSET Mut]
    BY <1>6 DEF AnswerAccepted, TypeOK
  <2> QED BY <1>6, <2>1, <2>2, <2>3 DEF AnswerAccepted, TypeOK
<1>7. ASSUME NEW m \in Mut, AnswerConflict(d, m)
      PROVE  TypeOK'
  <2>1. pc' \in [Device -> Labels]
    BY <1>1, <1>7 DEF AnswerConflict, Labels
  <2>2. open' \in [Mut -> Nat]
    BY <1>7 DEF AnswerConflict, TypeOK
  <2> QED BY <1>7, <2>1, <2>2 DEF AnswerConflict, TypeOK
<1>8. ASSUME NEW m \in Mut, MarkConflict(d, m)
      PROVE  TypeOK'
  <2>1. pc' \in [Device -> Labels]
    BY <1>1, <1>8 DEF MarkConflict, Labels
  <2>2. reply' \in [Mut -> Answers] /\ todo' \in [Device -> SUBSET Mut]
    BY <1>5, <1>8 DEF MarkConflict
  <2>3. st' \in [Mut -> {"none", "pending", "failed", "conflict", "done"}]
    BY <1>8 DEF MarkConflict, TypeOK
  <2> QED BY <1>8, <2>1, <2>2, <2>3 DEF MarkConflict, TypeOK
<1>9. ASSUME NEW m \in Mut, AnswerRejected(d, m)
      PROVE  TypeOK'
  <2>1. reply' \in [Mut -> Answers] /\ todo' \in [Device -> SUBSET Mut]
    BY <1>5, <1>9 DEF AnswerRejected
  <2>2. st' \in [Mut -> {"none", "pending", "failed", "conflict", "done"}]
    BY <1>9 DEF AnswerRejected, TypeOK
  <2>3. att' \in [Mut -> Nat]
    BY <1>9 DEF AnswerRejected, TypeOK
  <2> QED BY <1>9, <2>1, <2>2, <2>3 DEF AnswerRejected, TypeOK
<1>10. ASSUME NEW m \in Mut, MarkSent(d, m)
       PROVE  TypeOK'
  <2>1. st' \in [Mut -> {"none", "pending", "failed", "conflict", "done"}]
    BY <1>10 DEF MarkSent, TypeOK
  <2>2. acked' \in [Device -> SUBSET Mut]
    BY <1>10 DEF MarkSent, TypeOK
  <2> QED BY <1>10, <2>1, <2>2 DEF MarkSent, TypeOK
<1> QED BY <1>2, <1>3, <1>4, <1>6, <1>7, <1>8, <1>9, <1>10

\* A change a till is to apply, or has put aside, is an entry of the log.
Published ==
    \A d \in Device, s \in Change :
        s \in page[d] \/ deferred[d][s] > 0 => s \in 1..Len(log)

LEMMA PullType ==
    ASSUME TypeOK, Published, NEW d \in Device,
           \/ Pull(d) \/ PageDone(d) \/ CycleDone(d)
           \/ \E s \in Change : \/ ApplySkip(d, s) \/ ApplyStart(d, s) \/ ApplyUpsert(d, s)
                                \/ ApplyLevel(d, s) \/ ApplyDefer(d, s)
    PROVE  TypeOK'
<1> USE DEF serverVars, netVars, outboxVars, replicaVars, pullVars, pushVars
<1>1. ASSUME NEW label \in Labels, Go(d, label)
      PROVE  pc' \in [Device -> Labels]
  BY <1>1 DEF Go, TypeOK
<1>2. Change \subseteq Nat
  BY SyncAssumption DEF Change
<1>3. CASE Pull(d)
  <2> DEFINE changes == FirstOf(Fresh(d), PageSize)
  <2>1. changes \in SUBSET Change
    BY DEF FirstOf, Fresh
  <2>2. /\ \E last \in changes \cup {cursor[d]} : upto' = [upto EXCEPT ![d] = last]
        /\ page' = [page EXCEPT ![d] = changes]
        /\ more' = [more EXCEPT ![d] = changes # Fresh(d)]
    BY <1>3 DEF Pull
  <2>3. (changes # Fresh(d)) \in BOOLEAN
    OBVIOUS
  <2> HIDE DEF changes
  <2>4. upto' \in [Device -> Nat]
    BY <1>2, <2>1, <2>2 DEF TypeOK
  <2>5. page' \in [Device -> SUBSET Change]
    BY <2>1, <2>2 DEF TypeOK
  <2>6. more' \in [Device -> BOOLEAN]
    BY <2>2, <2>3 DEF TypeOK
  <2>7. pc' \in [Device -> Labels]
    BY <1>1, <1>3 DEF Pull, Labels
  <2> QED BY <1>3, <2>4, <2>5, <2>6, <2>7 DEF Pull, TypeOK
<1>4. CASE PageDone(d)
  <2> DEFINE next == IF more[d] THEN {} ELSE Replayable(d)
  <2>1. next \in SUBSET Change
    BY DEF Replayable
  <2>2. page' = [page EXCEPT ![d] = next]
    BY <1>4 DEF PageDone
  <2> HIDE DEF next
  <2>3. page' \in [Device -> SUBSET Change]
    BY <2>1, <2>2 DEF TypeOK
  <2>4. cursor' \in [Device -> Nat]
    BY <1>4 DEF PageDone, TypeOK
  <2>5. upto' \in [Device -> Nat]
    BY <1>4 DEF PageDone, TypeOK
  <2>6. more' \in [Device -> BOOLEAN]
    BY <1>4 DEF PageDone, TypeOK
  <2>7. replaying' \in [Device -> BOOLEAN]
    BY <1>4 DEF PageDone, TypeOK
  <2>8. pc' \in [Device -> Labels]
    BY <1>1, <1>4 DEF PageDone, Labels
  <2> QED BY <1>4, <2>3, <2>4, <2>5, <2>6, <2>7, <2>8 DEF PageDone, TypeOK
<1>5. CASE CycleDone(d)
  <2>1. pc' \in [Device -> Labels]
    BY <1>1, <1>5 DEF CycleDone, Labels
  <2>2. replaying' \in [Device -> BOOLEAN]
    BY <1>5 DEF CycleDone, TypeOK
  <2> QED BY <1>5, <2>1, <2>2 DEF CycleDone, TypeOK
<1>6. ASSUME NEW s \in Change, Settled(d, s)
      PROVE  /\ deferred' \in [Device -> [Change -> 0..MaxDeferred]]
             /\ page' \in [Device -> SUBSET Change]
  BY <1>6, SyncAssumption DEF Settled, TypeOK
<1>7. ASSUME NEW s \in Change, ApplySkip(d, s)
      PROVE  TypeOK'
  <2>1. /\ deferred' \in [Device -> [Change -> 0..MaxDeferred]]
        /\ page' \in [Device -> SUBSET Change]
    BY <1>6, <1>7 DEF ApplySkip
  <2> QED BY <1>7, <2>1 DEF ApplySkip, TypeOK
<1>8. ASSUME NEW s \in Change, ApplyStart(d, s)
      PROVE  TypeOK'
  <2>1. pc' \in [Device -> Labels]
    BY <1>1, <1>8 DEF ApplyStart, Labels
  <2> QED BY <1>8, <2>1 DEF ApplyStart, TypeOK
<1>9. ASSUME NEW s \in Change, First(page[d], s)
      PROVE  log[s] \in Entry
  <2>1. s \in 1..Len(log)
    BY <1>9 DEF First, Published
  <2> QED BY <2>1, ElementOfSeq DEF TypeOK
<1>10. ASSUME NEW s \in Change, ApplyUpsert(d, s)
       PROVE  TypeOK'
  <2>1. log[s].ent \in Entity /\ log[s].row \in Row
    BY <1>9, <1>10 DEF ApplyUpsert, Entry
  <2>2. row' \in [Device -> [Entity -> Row]]
    BY <1>10, <2>1 DEF ApplyUpsert, TypeOK
  <2>3. pc' \in [Device -> Labels]
    BY <1>1, <1>10 DEF ApplyUpsert, Labels
  <2>4. /\ deferred' \in [Device -> [Change -> 0..MaxDeferred]]
        /\ page' \in [Device -> SUBSET Change]
    BY <1>6, <1>10 DEF ApplyUpsert, TypeOK
  <2> QED BY <1>10, <2>2, <2>3, <2>4 DEF ApplyUpsert, TypeOK
<1>11. ASSUME NEW s \in Change, ApplyLevel(d, s)
       PROVE  TypeOK'
  <2>1. log[s].ent \in Entity
    BY <1>9, <1>11 DEF ApplyLevel, Entry
  <2>2. level' = [level EXCEPT ![d][log[s].ent] = level[d][log[s].ent] + 1]
    BY <1>11 DEF ApplyLevel, Counted
  <2>3. level' \in [Device -> [Entity -> Nat]]
    BY <2>1, <2>2 DEF TypeOK
  <2>4. pc' \in [Device -> Labels]
    BY <1>1, <1>11 DEF ApplyLevel, Labels
  <2>5. /\ deferred' \in [Device -> [Change -> 0..MaxDeferred]]
        /\ page' \in [Device -> SUBSET Change]
    BY <1>6, <1>11 DEF ApplyLevel
  <2> QED BY <1>11, <2>3, <2>4, <2>5 DEF ApplyLevel, TypeOK
<1>12. ASSUME NEW s \in Change, ApplyDefer(d, s)
       PROVE  TypeOK'
  <2> DEFINE n == IF deferred[d][s] < MaxDeferred THEN deferred[d][s] + 1 ELSE deferred[d][s]
  <2>1. n \in 0..MaxDeferred
    <3>1. deferred[d][s] \in 0..MaxDeferred
      BY DEF TypeOK
    <3>2. MaxDeferred \in Nat
      BY SyncAssumption
    <3> QED BY <3>1, <3>2
  <2>2. deferred' = [deferred EXCEPT ![d][s] = n] /\ page' = [page EXCEPT ![d] = @ \ {s}]
    BY <1>12 DEF ApplyDefer
  <2> HIDE DEF n
  <2>3. deferred' \in [Device -> [Change -> 0..MaxDeferred]]
    BY <2>1, <2>2 DEF TypeOK
  <2>4. page' \in [Device -> SUBSET Change]
    BY <2>2 DEF TypeOK
  <2>5. pc' \in [Device -> Labels]
    BY <1>1, <1>12 DEF ApplyDefer, Labels
  <2>6. faults' \in 0..MaxFaults
    BY <1>12, SyncAssumption DEF ApplyDefer, TypeOK
  <2> QED BY <1>12, <2>3, <2>4, <2>5, <2>6 DEF ApplyDefer, TypeOK
<1> QED BY <1>3, <1>4, <1>5, <1>7, <1>8, <1>10, <1>11, <1>12

LEMMA FailureType ==
    ASSUME TypeOK, NEW d \in Device, Failure(d)
    PROVE  TypeOK'
<1>1. Forget(d)
  BY DEF Failure, RequestLost, Crash
<1>2. edit' \in [Device -> Edit]
  <2>1. NoEdit \in Edit
    BY SyncAssumption DEF NoEdit, Edit
  <2> QED BY <2>1 DEF Failure, RequestLost, Crash, TypeOK
<1>3. pc' \in [Device -> Labels]
  BY <1>1 DEF Forget, Go, TypeOK, Labels
<1>4. faults' \in 0..MaxFaults
  BY <1>1, SyncAssumption DEF Forget, TypeOK
<1>5. reply' \in [Mut -> Answers]
  BY <1>1, RowTypes DEF Forget, TypeOK
<1>6. ghost' \in [Device -> SUBSET Mut] /\ wire' \in [Device -> SUBSET Mut]
  BY <1>1 DEF Forget, TypeOK
<1>7. /\ sent' \in [Device -> SUBSET Mut]
      /\ todo' \in [Device -> SUBSET Mut]
      /\ acked' \in [Device -> SUBSET Mut]
  BY <1>1 DEF Forget, TypeOK
<1>8. /\ page' \in [Device -> SUBSET Change]
      /\ upto' \in [Device -> Nat]
      /\ more' \in [Device -> BOOLEAN]
      /\ replaying' \in [Device -> BOOLEAN]
  BY <1>1 DEF Forget, TypeOK
<1> QED BY <1>1, <1>2, <1>3, <1>4, <1>5, <1>6, <1>7, <1>8
        DEF Forget, TypeOK, serverVars, outboxVars, replicaVars

\* The log only grows.
LEMMA LogGrows ==
    ASSUME TypeOK, NEW d \in Device,
           Cashier(d) \/ Writing(d) \/ Engine(d) \/ Server(d) \/ Failure(d)
    PROVE  log' = log \/ \E x : log' = Append(log, x)
<1> USE DEF serverVars
<1>1. CASE Cashier(d)
  BY <1>1, ZenonT(60) DEF Cashier, LocalCreate, LocalUpdate, LocalDelete, Write, ResolveServer, ResolveLocal
<1>2. CASE Writing(d)
  BY <1>2 DEF Writing, LocalLevel, Enqueue, CloseConflict
<1>3. CASE Engine(d)
  BY <1>3 DEF Engine, PushNothing, PushBatch, PushDone, AnswerAccepted, AnswerConflict,
     MarkConflict, AnswerRejected, MarkSent, Pull, PageDone, CycleDone, ApplySkip, ApplyStart,
     ApplyUpsert, ApplyLevel, ApplyDefer
<1>4. CASE Server(d)
  BY <1>4, ZenonT(60) DEF Server, ServerStep, ServeReplay, ServeThrow, ServeCreate, ServeUnknown,
     ServeDeleted, ServeDelete, ServeUpdate, ServeKeep, Publish, NothingWritten
<1>5. CASE Failure(d)
  BY <1>5 DEF Failure, RequestLost, Crash, Forget
<1> QED BY <1>1, <1>2, <1>3, <1>4, <1>5

\* What a step does to the changes a till holds: a pull and a replay bring in
\* entries of the log, every other step only takes away, or puts aside one of
\* those it holds.
LEMMA PublishedStep ==
    ASSUME TypeOK, TypeOK', Published, NEW d \in Device,
           Cashier(d) \/ Writing(d) \/ Engine(d) \/ Server(d) \/ Failure(d)
    PROVE  Published'
<1> USE DEF serverVars, netVars, outboxVars, replicaVars, pullVars, pushVars, tillVars
<1> DEFINE Held(b, s) == s \in page[b] \/ deferred[b][s] > 0
<1>1. \A n : n \in 1..Len(log) => n \in 1..Len(log')
  <2>1. log \in Seq(Entry) /\ log' \in Seq(Entry)
    BY DEF TypeOK
  <2>2. CASE log' = log
    BY <2>2
  <2>3. CASE \E x : log' = Append(log, x)
    <3>1. PICK x : log' = Append(log, x)
      BY <2>3
    <3>2. Len(log') = Len(log) + 1 /\ Len(log) \in Nat
      BY <2>1, <3>1
    <3> QED BY <3>2
  <2> QED BY <2>2, <2>3, LogGrows
<1>2. SUFFICES ASSUME NEW b \in Device, NEW s \in Change, Held(b, s)'
               PROVE  s \in 1..Len(log)'
  BY DEF Published
<1>3. Held(b, s) => s \in 1..Len(log)
  BY DEF Published
<1>4. SUFFICES Held(b, s) \/ s \in 1..Len(log)
  BY <1>1, <1>3
<1>5. CASE Cashier(d)
  BY <1>2, <1>5, ZenonT(60) DEF Cashier, LocalCreate, LocalUpdate, LocalDelete, Write, ResolveServer, ResolveLocal
<1>6. CASE Writing(d)
  BY <1>2, <1>6 DEF Writing, LocalLevel, Enqueue, CloseConflict
<1>7. CASE Server(d)
  BY <1>2, <1>7, ZenonT(60) DEF Server, ServerStep, ServeReplay, ServeThrow, ServeCreate, ServeUnknown,
     ServeDeleted, ServeDelete, ServeUpdate, ServeKeep, Commit
<1>8. CASE Failure(d)
  <2>1. page' = [page EXCEPT ![d] = {}] /\ deferred' = deferred
    BY <1>8 DEF Failure, RequestLost, Crash, Forget
  <2> QED BY <1>2, <2>1 DEF TypeOK
<1>9. CASE Engine(d)
  <2>1. CASE Pull(d)
    <3> DEFINE changes == FirstOf(Fresh(d), PageSize)
    <3>1. page' = [page EXCEPT ![d] = changes] /\ deferred' = deferred
      BY <2>1 DEF Pull
    <3>2. \A n \in changes : n \in Nat /\ n \in 1..Len(log)
      <4>1. Len(log) \in Nat /\ Change \subseteq Nat \ {0}
        <5>1. Len(log) \in Nat
          BY LenProperties DEF TypeOK
        <5>2. \A a \in Nat : 1..a \subseteq Nat \ {0}
          OBVIOUS
        <5>3. MaxMut \in Nat /\ Len(Seeded) \in Nat
          BY SyncAssumption, LenProperties
        <5> QED BY <5>1, <5>2, <5>3 DEF Change
      <4> QED BY <4>1 DEF FirstOf, Fresh
    <3> HIDE DEF changes
    <3> QED BY <1>2, <3>1, <3>2 DEF TypeOK
  <2>2. CASE PageDone(d)
    <3> DEFINE next == IF more[d] THEN {} ELSE Replayable(d)
    <3>1. page' = [page EXCEPT ![d] = next] /\ deferred' = deferred
      BY <2>2 DEF PageDone
    <3>2. \A n \in next : deferred[d][n] > 0
      <4>1. MaxDeferred \in Nat
        BY SyncAssumption
      <4>2. \A k \in 1..(MaxDeferred - 1) : k > 0
        BY <4>1
      <4> QED BY <4>2 DEF Replayable
    <3> HIDE DEF next
    <3>3. CASE b = d
      BY <1>2, <3>1, <3>2, <3>3 DEF TypeOK
    <3>4. CASE b # d
      BY <1>2, <3>1, <3>4 DEF TypeOK
    <3> QED BY <3>3, <3>4
  <2>3. ASSUME NEW n \in Change, Settled(d, n)
        PROVE  Held(b, s)
    <3>1. page'[b] \subseteq page[b]
      BY <2>3 DEF Settled, TypeOK
    <3>2. deferred'[b][s] > 0 => deferred[b][s] > 0
      <4>1. deferred \in [Device -> [Change -> 0..MaxDeferred]] /\ ~(0 > 0)
        BY DEF TypeOK
      <4>2. deferred' = [deferred EXCEPT ![d][n] = 0]
        BY <2>3 DEF Settled
      <4> QED BY <4>1, <4>2
    <3> QED BY <1>2, <3>1, <3>2
  <2>4. ASSUME NEW n \in Change, ApplyDefer(d, n)
        PROVE  Held(b, s)
    <3> DEFINE k == IF deferred[d][n] < MaxDeferred THEN deferred[d][n] + 1 ELSE deferred[d][n]
    <3>1. page' = [page EXCEPT ![d] = @ \ {n}] /\ deferred' = [deferred EXCEPT ![d][n] = k]
      BY <2>4 DEF ApplyDefer
    <3>2. n \in page[d]
      BY <2>4 DEF ApplyDefer, First
    <3> HIDE DEF k
    <3> QED BY <1>2, <3>1, <3>2 DEF TypeOK
  <2>5. ASSUME UNCHANGED <<page, deferred>>
        PROVE  Held(b, s)
    BY <1>2, <2>5
  <2>6. CASE CycleDone(d) \/ PushNothing(d) \/ PushBatch(d) \/ PushDone(d)
    BY <2>5, <2>6 DEF CycleDone, PushNothing, PushBatch, PushDone
  <2>7. CASE \E m \in Mut : \/ AnswerAccepted(d, m) \/ AnswerConflict(d, m)
                            \/ MarkConflict(d, m) \/ AnswerRejected(d, m) \/ MarkSent(d, m)
    BY <2>5, <2>7 DEF AnswerAccepted, AnswerConflict, MarkConflict, AnswerRejected, MarkSent
  <2>8. ASSUME NEW n \in Change,
               ApplySkip(d, n) \/ ApplyStart(d, n) \/ ApplyUpsert(d, n) \/ ApplyLevel(d, n)
        PROVE  Held(b, s)
    BY <2>3, <2>5, <2>8 DEF ApplySkip, ApplyStart, ApplyUpsert, ApplyLevel
  <2> QED BY <1>9, <2>1, <2>2, <2>4, <2>6, <2>7, <2>8 DEF Engine
<1> QED BY <1>5, <1>6, <1>7, <1>8, <1>9

\* TypeOK is not inductive alone: what a till applies must be in the log.
TypeInv == TypeOK /\ Published

LEMMA TypeStep ==
    ASSUME TypeInv, [Next]_vars
    PROVE  TypeInv'
<1>1. CASE UNCHANGED vars
  BY <1>1 DEF vars, serverVars, netVars, outboxVars, replicaVars, pullVars, pushVars,
     TypeInv, TypeOK, Published
<1>2. CASE Next
  <2>1. PICK d \in Device : Cashier(d) \/ Writing(d) \/ Engine(d) \/ Server(d) \/ Failure(d)
    BY <1>2 DEF Next
  <2>2. TypeOK'
    BY <2>1, CashierType, ServerType, PushType, PullType, FailureType DEF TypeInv, Engine
  <2> QED BY <2>1, <2>2, PublishedStep DEF TypeInv
<1> QED BY <1>1, <1>2

\* Every variable of the protocol keeps its type, whatever the tills, their
\* mutations and the failures.
THEOREM TypeCorrect == Spec => []TypeOK
<1>1. Init => TypeInv
  <2>1. Init => Published
    BY SyncAssumption DEF Init, Published
  <2> QED BY <2>1, InitType DEF TypeInv
<1>2. TypeInv /\ [Next]_vars => TypeInv'
  BY TypeStep
<1>3. TypeInv => TypeOK
  BY DEF TypeInv
<1> QED BY <1>1, <1>2, <1>3, PTL DEF Spec

-----------------------------------------------------------------------------
\* What a step may do to the server: nothing, or the commit of the first answer
\* of a mutation, alone or with one entry of the log, which counts a journal row
\* in its stock level only when it creates it.
Committed(m) ==
    /\ processed[m] = NoAnswer
    /\ \E a \in Answers : a.status # "none" /\ processed' = [processed EXCEPT ![m] = a]
    /\ \/ UNCHANGED <<srv, total, log>>
       \/ \E r \in Row, F \in SUBSET Field :
            /\ r.v > 0
            /\ Publish(m, r, F)
            /\ \/ UNCHANGED total
               \/ /\ srv[mut[m].ent].v = 0
                  /\ total' = [total EXCEPT ![mut[m].ent] = total[mut[m].ent] + 1]

LEMMA ServerCommits ==
    ASSUME TypeOK, NEW d \in Device, NEW m \in Mut, ServerStep(d, m)
    PROVE  UNCHANGED serverVars \/ Committed(m)
<1> DEFINE e == mut[m].ent
           cur == srv[e]
<1>1. mut[m] \in Mutation
  BY DEF TypeOK
<1>2. /\ e \in Entity /\ mut[m].val \in 0..MaxMut /\ mut[m].ts \in Nat
      /\ mut[m].fields \in SUBSET Field
  BY <1>1 DEF Mutation
<1>3. cur \in Row
  BY <1>2 DEF TypeOK
<1>4. cur.v \in Nat /\ cur.val \in [Field -> 0..MaxMut] /\ cur.ts \in Nat
  BY <1>3 DEF Row
<1>5. \A status \in Status, state \in Row :
        Answer(status, state) \in Answers /\ Answer(status, state).status = status
  BY DEF Answer, Answers
<1>6. Absent \in Row
  BY RowTypes
<1> HIDE DEF e, cur
<1>7. CASE ServeReplay(d, m) \/ ServeThrow(d, m)
  BY <1>7 DEF ServeReplay, ServeThrow
<1>8. CASE ServeCreate(d, m)
  <2> DEFINE r == FirstRow(mut[m].val, mut[m].ts)
             F == IF e \in Journal THEN {} ELSE Field
  <2>1. r \in Row /\ r.v > 0
    BY <1>2 DEF FirstRow, Row
  <2>2. F \in SUBSET Field
    OBVIOUS
  <2>3. /\ Publish(m, r, F)
        /\ srv[mut[m].ent].v = 0
        /\ total' = IF e \in Journal THEN [total EXCEPT ![e] = total[e] + 1] ELSE total
        /\ processed[m] = NoAnswer
        /\ processed' = [processed EXCEPT ![m] = Answer("applied", Absent)]
    BY <1>8 DEF ServeCreate, Commit, Counted, e
  <2> HIDE DEF r, F
  <2>4. \E a \in Answers : a.status # "none" /\ processed' = [processed EXCEPT ![m] = a]
    BY <1>5, <1>6, <2>3 DEF Status
  <2> QED BY <2>1, <2>2, <2>3, <2>4 DEF Committed, e
<1>9. CASE ServeUnknown(d, m)
  <2>1. \E a \in Answers : a.status # "none" /\ processed' = [processed EXCEPT ![m] = a]
    BY <1>5, <1>6, <1>9 DEF ServeUnknown, Commit, Status
  <2> QED BY <1>9, <2>1 DEF ServeUnknown, Commit, NothingWritten, Committed
<1>10. CASE ServeDeleted(d, m)
  <2> DEFINE a == Answer("ignored", IF mut[m].op = "create" THEN Absent ELSE cur)
  <2>1. a \in Answers /\ a.status # "none"
    BY <1>3, <1>5, <1>6 DEF Status
  <2>2. Commit(d, m, a) /\ NothingWritten
    BY <1>10 DEF ServeDeleted, cur, e
  <2> HIDE DEF a
  <2> QED BY <2>1, <2>2 DEF Commit, NothingWritten, Committed
<1>11. CASE ServeDelete(d, m)
  <2> DEFINE r == [v |-> cur.v + 1, val |-> cur.val, ts |-> cur.ts, del |-> TRUE]
  <2>1. r \in Row /\ r.v > 0
    BY <1>4 DEF Row
  <2>2. Publish(m, r, {}) /\ UNCHANGED total /\ Commit(d, m, Answer("applied", Absent))
    BY <1>11 DEF ServeDelete, cur, e
  <2> HIDE DEF r
  <2>3. \E a \in Answers : a.status # "none" /\ processed' = [processed EXCEPT ![m] = a]
    BY <1>5, <1>6, <2>2 DEF Commit, Status
  <2> QED BY <2>1, <2>2, <2>3 DEF Commit, Committed
<1>12. CASE ServeUpdate(d, m)
  <2> DEFINE out == Resolution(m)
             r == [v |-> cur.v + 1, ts |-> mut[m].ts, del |-> FALSE,
                   val |-> [f \in Field |-> IF f \in out.fields THEN mut[m].val ELSE cur.val[f]]]
             a == Answer(IF out.kind = "apply" THEN "applied" ELSE "merged", r)
  <2>1. out.fields \in SUBSET Field
    <3>1. out.fields \subseteq mut[m].fields
      BY ResolvedFields DEF Resolution
    <3> QED BY <1>2, <3>1
  <2>2. Publish(m, r, out.fields) /\ UNCHANGED total /\ Commit(d, m, a)
    BY <1>12 DEF ServeUpdate, cur, e
  <2> HIDE DEF out
  <2>3. [f \in Field |-> IF f \in out.fields THEN mut[m].val ELSE cur.val[f]]
             \in [Field -> 0..MaxMut]
    BY <1>2, <1>4
  <2>4. r \in Row /\ r.v > 0
    BY <1>2, <1>4, <2>3 DEF Row
  <2> HIDE DEF r
  <2>5. a \in Answers /\ a.status # "none"
    BY <1>5, <2>4 DEF Status
  <2> HIDE DEF a
  <2> QED BY <2>1, <2>2, <2>4, <2>5 DEF Commit, Committed
<1>13. CASE ServeKeep(d, m)
  <2> DEFINE a == Answer(IF Resolution(m).kind = "manual" THEN "conflict" ELSE "ignored", cur)
  <2>1. a \in Answers /\ a.status # "none"
    BY <1>3, <1>5 DEF Status
  <2>2. Commit(d, m, a) /\ NothingWritten
    BY <1>13 DEF ServeKeep, cur, e
  <2> HIDE DEF a
  <2> QED BY <2>1, <2>2 DEF Commit, NothingWritten, Committed
<1> QED BY <1>7, <1>8, <1>9, <1>10, <1>11, <1>12, <1>13 DEF ServerStep

\* Only the server's own steps touch its database.
LEMMA OnlyServerWrites ==
    ASSUME TypeOK, [Next]_vars
    PROVE  UNCHANGED serverVars \/ \E m \in Mut : Committed(m)
<1>1. CASE UNCHANGED vars
  BY <1>1 DEF vars
<1>2. ASSUME NEW d \in Device, Cashier(d)
      PROVE  UNCHANGED serverVars
  BY <1>2 DEF Cashier, LocalCreate, LocalUpdate, LocalDelete, Write, ResolveServer, ResolveLocal
<1>3. ASSUME NEW d \in Device, Writing(d)
      PROVE  UNCHANGED serverVars
  BY <1>3 DEF Writing, LocalLevel, Enqueue, CloseConflict
<1>4. ASSUME NEW d \in Device, Engine(d)
      PROVE  UNCHANGED serverVars
  BY <1>4 DEF Engine, PushNothing, PushBatch, PushDone, AnswerAccepted, AnswerConflict,
     MarkConflict, AnswerRejected, MarkSent, Pull, PageDone, CycleDone, ApplySkip, ApplyStart,
     ApplyUpsert, ApplyLevel, ApplyDefer
<1>5. ASSUME NEW d \in Device, Failure(d)
      PROVE  UNCHANGED serverVars
  BY <1>5 DEF Failure, RequestLost, Crash, Forget
<1> QED BY <1>1, <1>2, <1>3, <1>4, <1>5, ServerCommits DEF Next, Server

\* AppliedOnce is not inductive alone: a mutation in the log must have its answer
\* stored, which is what keeps it from being served anew, and a journal row must
\* be there once it is counted.
OnceInv ==
    /\ \A i \in 1..Len(log) : log[i].mut # 0 => processed[log[i].mut] # NoAnswer
    /\ \A e \in Entity : srv[e].v = 0 => total[e] = 0
    /\ AppliedOnce

LEMMA OnceStep ==
    ASSUME TypeOK, TypeOK', OnceInv, [Next]_vars
    PROVE  OnceInv'
<1>1. CASE UNCHANGED serverVars
  BY <1>1 DEF serverVars, OnceInv, AppliedOnce
<1>2. ASSUME NEW m \in Mut, Committed(m)
      PROVE  OnceInv'
  <2>1. PICK a \in Answers : a.status # "none" /\ processed' = [processed EXCEPT ![m] = a]
    BY <1>2 DEF Committed
  <2>2. NoAnswer.status = "none"
    BY DEF NoAnswer, Answer
  <2>3. processed[m] = NoAnswer
    BY <1>2 DEF Committed
  <2>4. processed'[m] # NoAnswer /\ \A n \in Mut : n # m => processed'[n] = processed[n]
    BY <2>1, <2>2 DEF TypeOK
  <2>5. \A i \in 1..Len(log) : log[i].mut \in 0..MaxMut
    <3>1. \A i \in 1..Len(log) : log[i] \in Entry
      BY ElementOfSeq DEF TypeOK
    <3> QED BY <3>1 DEF Entry
  <2>6. \A n \in 0..MaxMut : n # 0 => n \in Mut
    BY SyncAssumption DEF Mut
  <2>7. \A i \in 1..Len(log) : log[i].mut # 0 => log[i].mut # m /\ processed'[log[i].mut] # NoAnswer
    BY <2>3, <2>4, <2>5, <2>6 DEF OnceInv
  <2>8. CASE UNCHANGED <<srv, total, log>>
    BY <2>7, <2>8 DEF OnceInv, AppliedOnce
  <2>9. ASSUME NEW r \in Row, NEW F \in SUBSET Field, r.v > 0, Publish(m, r, F),
               \/ UNCHANGED total
               \/ /\ srv[mut[m].ent].v = 0
                  /\ total' = [total EXCEPT ![mut[m].ent] = total[mut[m].ent] + 1]
        PROVE  OnceInv'
    <3> DEFINE x == [ent |-> mut[m].ent, row |-> r, fields |-> F, dev |-> mut[m].dev, mut |-> m]
    <3>1. log' = Append(log, x) /\ srv' = [srv EXCEPT ![mut[m].ent] = r]
      BY <2>9 DEF Publish
    <3>2. x.mut = m
      OBVIOUS
    <3> HIDE DEF x
    <3>3. log \in Seq(Entry) /\ Len(log) \in Nat
      BY LenProperties DEF TypeOK
    <3>4. /\ Len(log') = Len(log) + 1
          /\ log'[Len(log) + 1] = x
          /\ \A i \in 1..Len(log) : log'[i] = log[i]
      BY <3>1, <3>3
    <3>5. \A i \in 1..Len(log') : i \in 1..Len(log) \/ i = Len(log) + 1
      BY <3>3, <3>4
    <3>6. \A i \in 1..Len(log') : log'[i].mut # 0 => processed'[log'[i].mut] # NoAnswer
      BY <2>4, <2>7, <3>2, <3>4, <3>5
    <3>7. \A i, j \in 1..Len(log') : log'[i].mut = log'[j].mut /\ log'[i].mut # 0 => i = j
      <4>1. SUFFICES ASSUME NEW i \in 1..Len(log'), NEW j \in 1..Len(log'),
                            log'[i].mut = log'[j].mut, log'[i].mut # 0
                     PROVE  i = j
        OBVIOUS
      <4>2. CASE i \in 1..Len(log) /\ j \in 1..Len(log)
        BY <3>4, <4>1, <4>2 DEF OnceInv, AppliedOnce
      <4>3. CASE i = Len(log) + 1 /\ j \in 1..Len(log)
        BY <2>7, <3>2, <3>4, <4>1, <4>3
      <4>4. CASE j = Len(log) + 1 /\ i \in 1..Len(log)
        BY <2>7, <3>2, <3>4, <4>1, <4>4
      <4> QED BY <3>5, <4>2, <4>3, <4>4
    <3>8. mut[m].ent \in Entity
      BY DEF TypeOK, Mutation
    <3>9. srv \in [Entity -> Row] /\ total \in [Entity -> Nat] /\ r.v \in Nat
      BY DEF TypeOK, Row
    <3>10. \A e \in Entity : total'[e] <= 1 /\ (srv'[e].v = 0 => total'[e] = 0)
      <4>1. SUFFICES ASSUME NEW e \in Entity
                     PROVE  total'[e] <= 1 /\ (srv'[e].v = 0 => total'[e] = 0)
        OBVIOUS
      <4>2. total[e] <= 1 /\ (srv[e].v = 0 => total[e] = 0) /\ total[e] \in Nat
        BY <3>9 DEF OnceInv, AppliedOnce
      <4>3. CASE e # mut[m].ent
        BY <2>9, <3>1, <3>8, <3>9, <4>2, <4>3
      <4>4. CASE e = mut[m].ent
        <5>1. srv'[e].v > 0
          BY <2>9, <3>1, <3>9, <4>4
        <5>2. total'[e] <= 1
          BY <2>9, <3>9, <4>2, <4>4
        <5> QED BY <3>9, <5>1, <5>2, <3>1, <4>4
      <4> QED BY <4>3, <4>4
    <3> QED BY <3>6, <3>7, <3>10 DEF OnceInv, AppliedOnce
  <2> QED BY <1>2, <2>8, <2>9 DEF Committed
<1> QED BY <1>1, <1>2, OnlyServerWrites

\* At the start the server has answered nothing.
LEMMA OnceInit == Init => OnceInv
<1> SUFFICES ASSUME Init PROVE OnceInv
  OBVIOUS
<1>1. Len(Seeded) \in Nat
  BY SyncAssumption, LenProperties
<1>2. Len(log) = Len(Seeded) /\ \A i \in 1..Len(log) : log[i].mut = 0
  BY <1>1 DEF Init
<1> QED BY <1>2 DEF Init, OnceInv, AppliedOnce

\* No mutation is published twice and no stock movement is counted twice by the
\* server, however often requests are lost, tills crash and mutations are sent
\* again.
THEOREM AppliedOnceCorrect == Spec => []AppliedOnce
<1>1. Init => TypeInv /\ OnceInv
  <2>1. Init => TypeInv
    <3>1. Init => Published
      BY SyncAssumption DEF Init, Published
    <3> QED BY <3>1, InitType DEF TypeInv
  <2> QED BY <2>1, OnceInit
<1>2. TypeInv /\ OnceInv /\ [Next]_vars => (TypeInv /\ OnceInv)'
  BY TypeStep, OnceStep DEF TypeInv
<1>3. OnceInv => AppliedOnce
  BY DEF OnceInv
<1> QED BY <1>1, <1>2, <1>3, PTL DEF Spec

-----------------------------------------------------------------------------
\* What the engine believes of an answer before it writes it down: an answer on
\* its way is the stored one, unless it is a rejection, which need not be stored;
\* so is what it has counted as accepted, or is about to mark as a conflict.
TrustInv ==
    /\ \A m \in Mut : reply[m].status \notin {"none", "rejected"} => processed[m] = reply[m]
    /\ \A d \in Device : \A m \in acked[d] : processed[m].status \in Accepted
    /\ \A d \in Device, m \in Mut :
         pc[d] = "conflict" /\ First(todo[d], m) => processed[m].status = "conflict"
    /\ OutboxAgreesWithServer

\* A stored answer stays: what is believed because of one goes on being true.
LEMMA AnswerStands ==
    ASSUME TypeOK, [Next]_vars, NEW m \in Mut, processed[m].status # "none"
    PROVE  processed'[m] = processed[m]
<1>1. NoAnswer.status = "none"
  BY DEF NoAnswer, Answer
<1>2. CASE UNCHANGED serverVars
  BY <1>2 DEF serverVars
<1>3. ASSUME NEW n \in Mut, Committed(n)
      PROVE  processed'[m] = processed[m]
  <2>1. processed[n] = NoAnswer /\ \E a \in Answers : processed' = [processed EXCEPT ![n] = a]
    BY <1>3 DEF Committed
  <2>2. n # m
    BY <1>1, <2>1
  <2> QED BY <2>1, <2>2 DEF TypeOK
<1> QED BY <1>2, <1>3, OnlyServerWrites

\* A step that leaves the answers, the outbox and the engine's beliefs alone, or
\* only makes it believe less, keeps the invariant.
LEMMA TrustKept ==
    ASSUME TypeOK, TypeOK', TrustInv, [Next]_vars,
           \A m \in Mut : reply'[m] \in {reply[m], NoAnswer},
           \A m \in Mut : st'[m] \in {st[m], "pending", "failed"},
           \A d \in Device : acked'[d] \subseteq acked[d],
           \A d \in Device : pc'[d] = "conflict" => pc[d] = "conflict" /\ todo'[d] = todo[d]
    PROVE  TrustInv'
<1>1. NoAnswer.status = "none"
  BY DEF NoAnswer, Answer
<1>2. ASSUME NEW m \in Mut
      PROVE  processed[m].status # "none" => processed'[m] = processed[m]
  BY AnswerStands
<1>3. "none" \notin Accepted
  BY DEF Accepted
<1>4. \A m \in Mut : reply'[m].status \notin {"none", "rejected"} => processed'[m] = reply'[m]
  BY <1>1, <1>2 DEF TrustInv
<1>5. \A d \in Device : \A m \in acked'[d] : processed'[m].status \in Accepted
  <2>1. SUFFICES ASSUME NEW d \in Device, NEW m \in acked'[d]
                 PROVE  processed'[m].status \in Accepted
    OBVIOUS
  <2>2. m \in acked[d] /\ m \in Mut
    BY DEF TypeOK
  <2>3. processed[m].status \in Accepted
    BY <2>2 DEF TrustInv
  <2> QED BY <1>2, <1>3, <2>2, <2>3
<1>6. \A d \in Device, m \in Mut :
        pc'[d] = "conflict" /\ First(todo'[d], m) => processed'[m].status = "conflict"
  <2>1. SUFFICES ASSUME NEW d \in Device, NEW m \in Mut, pc'[d] = "conflict", First(todo'[d], m)
                 PROVE  processed'[m].status = "conflict"
    OBVIOUS
  <2>2. processed[m].status = "conflict"
    BY <2>1 DEF TrustInv
  <2> QED BY <1>2, <2>2
<1>7. \A m \in Mut : /\ st'[m] = "done" => processed'[m].status \in Accepted
                     /\ st'[m] = "conflict" => processed'[m].status = "conflict"
  <2>1. SUFFICES ASSUME NEW m \in Mut
                 PROVE  /\ st'[m] = "done" => processed'[m].status \in Accepted
                        /\ st'[m] = "conflict" => processed'[m].status = "conflict"
    OBVIOUS
  <2>2. /\ st'[m] = "done" => processed[m].status \in Accepted
        /\ st'[m] = "conflict" => processed[m].status = "conflict"
    BY DEF TrustInv, OutboxAgreesWithServer
  <2> QED BY <1>2, <1>3, <2>2
<1> QED BY <1>4, <1>5, <1>6, <1>7 DEF TrustInv, OutboxAgreesWithServer, First

LEMMA TrustCashier ==
    ASSUME TypeOK, TypeOK', TrustInv, [Next]_vars, NEW d \in Device, Cashier(d) \/ Writing(d)
    PROVE  TrustInv'
<1> USE DEF serverVars, netVars, outboxVars, replicaVars, pullVars, pushVars
<1>1. UNCHANGED <<reply, acked, pc, todo>>
  <2>1. CASE Cashier(d)
    BY <2>1, ZenonT(60) DEF Cashier, LocalCreate, LocalUpdate, LocalDelete, Write, ResolveServer, ResolveLocal
  <2>2. CASE Writing(d)
    BY <2>2 DEF Writing, LocalLevel, Enqueue, CloseConflict
  <2> QED BY <2>1, <2>2
<1>2. \A m \in Mut : st'[m] \in {st[m], "pending", "failed"}
  <2>1. CASE Cashier(d)
    BY <2>1, ZenonT(60) DEF Cashier, LocalCreate, LocalUpdate, LocalDelete, Write, ResolveServer, ResolveLocal
  <2>2. CASE Enqueue(d)
    BY <2>2 DEF Enqueue, TypeOK
  <2>3. CASE LocalLevel(d) \/ CloseConflict(d)
    BY <2>3 DEF LocalLevel, CloseConflict
  <2> QED BY <2>1, <2>2, <2>3 DEF Writing
<1> QED BY <1>1, <1>2, TrustKept

LEMMA TrustServer ==
    ASSUME TypeOK, TypeOK', TrustInv, [Next]_vars, NEW d \in Device, Server(d)
    PROVE  TrustInv'
<1> USE DEF tillVars, outboxVars, pushVars
<1>1. PICK m \in Mut : ServerStep(d, m)
  BY DEF Server
<1>2. UNCHANGED <<st, acked, pc, todo>>
  BY <1>1 DEF ServerStep, ServeReplay, ServeThrow, ServeCreate, ServeUnknown, ServeDeleted,
     ServeDelete, ServeUpdate, ServeKeep, Commit
<1>3. \E a : /\ Serve(d, m, a)
             /\ a.status \notin {"none", "rejected"} => processed'[m] = a
  <2>1. CASE ServeReplay(d, m)
    BY <2>1 DEF ServeReplay, serverVars
  <2>2. CASE ServeThrow(d, m)
    BY <2>2 DEF ServeThrow, Answer
  <2>3. ASSUME NEW a, Commit(d, m, a)
        PROVE  Serve(d, m, a) /\ processed'[m] = a
    BY <2>3 DEF Commit, TypeOK
  <2> QED BY <1>1, <2>1, <2>2, <2>3 DEF ServerStep, ServeCreate, ServeUnknown, ServeDeleted,
             ServeDelete, ServeUpdate, ServeKeep
<1>4. PICK a : /\ Serve(d, m, a)
               /\ a.status \notin {"none", "rejected"} => processed'[m] = a
  BY <1>3
<1>5. \A n \in Mut : n # m => reply'[n] = reply[n]
  BY <1>4 DEF Serve, TypeOK
<1>6. reply'[m] = reply[m] \/ reply'[m] = a
  BY <1>4 DEF Serve, TypeOK
<1>7. ASSUME NEW n \in Mut
      PROVE  processed[n].status # "none" => processed'[n] = processed[n]
  BY AnswerStands
<1>8. \A n \in Mut : reply'[n].status \notin {"none", "rejected"} => processed'[n] = reply'[n]
  BY <1>4, <1>5, <1>6, <1>7 DEF TrustInv
<1>9. "none" \notin Accepted
  BY DEF Accepted
<1>10. \A b \in Device : \A n \in acked'[b] : processed'[n].status \in Accepted
  <2>1. \A b \in Device : acked[b] \subseteq Mut
    BY DEF TypeOK
  <2> QED BY <1>2, <1>7, <1>9, <2>1 DEF TrustInv
<1>11. \A b \in Device, n \in Mut :
         pc'[b] = "conflict" /\ First(todo'[b], n) => processed'[n].status = "conflict"
  BY <1>2, <1>7 DEF TrustInv
<1>12. \A n \in Mut : /\ st'[n] = "done" => processed'[n].status \in Accepted
                      /\ st'[n] = "conflict" => processed'[n].status = "conflict"
  BY <1>2, <1>7, <1>9 DEF TrustInv, OutboxAgreesWithServer
<1> QED BY <1>8, <1>10, <1>11, <1>12 DEF TrustInv, OutboxAgreesWithServer, First

LEMMA TrustAnswers ==
    ASSUME TypeOK, TypeOK', TrustInv, [Next]_vars, NEW d \in Device, NEW m \in Mut,
           \/ AnswerAccepted(d, m) \/ AnswerConflict(d, m) \/ MarkConflict(d, m)
           \/ AnswerRejected(d, m) \/ MarkSent(d, m)
    PROVE  TrustInv'
<1> USE DEF serverVars, netVars, outboxVars, pushVars
<1>1. NoAnswer.status = "none" /\ "none" \notin Accepted
  BY DEF NoAnswer, Answer, Accepted
<1>2. UNCHANGED processed
  BY DEF AnswerAccepted, AnswerConflict, MarkConflict, AnswerRejected, MarkSent
<1>3. CASE AnswerAccepted(d, m)
  <2>1. /\ reply' = [reply EXCEPT ![m] = NoAnswer]
        /\ acked' = [acked EXCEPT ![d] = @ \cup {m}]
        /\ todo' = [todo EXCEPT ![d] = @ \ {m}]
        /\ pc[d] = "sent" /\ UNCHANGED <<pc, st>>
        /\ reply[m].status \in Accepted
    BY <1>3 DEF AnswerAccepted, Handling, Handled
  <2>2. processed[m] = reply[m]
    BY <2>1 DEF TrustInv, Accepted
  <2>3. \A n \in Mut : reply'[n].status \notin {"none", "rejected"} => processed'[n] = reply'[n]
    BY <1>1, <1>2, <2>1 DEF TrustInv, TypeOK
  <2>4. \A b \in Device : \A n \in acked'[b] : processed'[n].status \in Accepted
    BY <1>2, <2>1, <2>2, SMTT(60) DEF TrustInv, TypeOK
  <2>5. \A b \in Device, n \in Mut :
          pc'[b] = "conflict" /\ First(todo'[b], n) => processed'[n].status = "conflict"
    <3>1. \A b \in Device : b # d => todo'[b] = todo[b]
      BY <2>1 DEF TypeOK
    <3> QED BY <1>2, <2>1, <3>1 DEF TrustInv
  <2> QED BY <1>2, <2>1, <2>3, <2>4, <2>5 DEF TrustInv, OutboxAgreesWithServer, First
<1>4. CASE AnswerConflict(d, m)
  <2>1. /\ pc' = [pc EXCEPT ![d] = "conflict"]
        /\ UNCHANGED <<reply, acked, todo, st>>
        /\ First(todo[d], m) /\ reply[m].status = "conflict"
    BY <1>4 DEF AnswerConflict, Handling, Go
  <2>2. processed[m].status = "conflict"
    BY <2>1 DEF TrustInv
  <2>3. \A n \in Mut : First(todo[d], n) => n = m
    <3>1. SUFFICES ASSUME NEW n \in Mut, First(todo[d], n)
                   PROVE  n = m
      OBVIOUS
    <3>2. n <= m /\ m <= n
      BY <2>1, <3>1 DEF First
    <3>3. n \in Nat /\ m \in Nat
      BY SyncAssumption DEF Mut
    <3> QED BY <3>2, <3>3
  <2>4. \A b \in Device, n \in Mut :
          pc'[b] = "conflict" /\ First(todo'[b], n) => processed'[n].status = "conflict"
    <3>1. SUFFICES ASSUME NEW b \in Device, NEW n \in Mut, pc'[b] = "conflict", First(todo[b], n)
                   PROVE  processed[n].status = "conflict"
      BY <1>2, <2>1 DEF First
    <3>2. CASE b = d
      BY <2>2, <2>3, <3>1, <3>2
    <3>3. CASE b # d
      BY <2>1, <3>1, <3>3 DEF TrustInv, TypeOK
    <3> QED BY <3>2, <3>3
  <2> QED BY <1>2, <2>1, <2>4 DEF TrustInv, OutboxAgreesWithServer, First
<1>5. CASE MarkConflict(d, m)
  <2>1. /\ pc[d] = "conflict" /\ pc' = [pc EXCEPT ![d] = "sent"]
        /\ First(todo[d], m) /\ todo' = [todo EXCEPT ![d] = @ \ {m}]
        /\ st' = [st EXCEPT ![m] = "conflict"]
        /\ reply' = [reply EXCEPT ![m] = NoAnswer]
        /\ UNCHANGED acked
    BY <1>5 DEF MarkConflict, Handled, Go
  <2>2. processed[m].status = "conflict"
    BY <2>1 DEF TrustInv
  <2>3. \A n \in Mut : reply'[n].status \notin {"none", "rejected"} => processed'[n] = reply'[n]
    BY <1>1, <1>2, <2>1, SMTT(60) DEF TrustInv, TypeOK
  <2>4. \A b \in Device, n \in Mut :
          pc'[b] = "conflict" /\ First(todo'[b], n) => processed'[n].status = "conflict"
    <3>1. \A b \in Device : b # d => todo'[b] = todo[b] /\ pc'[b] = pc[b]
      BY <2>1 DEF TypeOK
    <3>2. pc'[d] = "sent"
      BY <2>1 DEF TypeOK
    <3> QED BY <1>2, <3>1, <3>2 DEF TrustInv
  <2>5. \A n \in Mut : /\ st'[n] = "done" => processed'[n].status \in Accepted
                       /\ st'[n] = "conflict" => processed'[n].status = "conflict"
    BY <1>2, <2>1, <2>2 DEF TrustInv, OutboxAgreesWithServer, TypeOK
  <2> QED BY <1>2, <2>1, <2>3, <2>4, <2>5 DEF TrustInv, OutboxAgreesWithServer, First
<1>6. CASE AnswerRejected(d, m)
  <2>1. /\ reply' = [reply EXCEPT ![m] = NoAnswer]
        /\ st' = [st EXCEPT ![m] = "failed"]
        /\ pc[d] = "sent" /\ todo' = [todo EXCEPT ![d] = @ \ {m}]
        /\ UNCHANGED <<pc, acked>>
    BY <1>6 DEF AnswerRejected, Handling, Handled
  <2>2. /\ \A n \in Mut : reply'[n] \in {reply[n], NoAnswer}
        /\ \A n \in Mut : st'[n] \in {st[n], "pending", "failed"}
    BY <2>1 DEF TypeOK
  <2>3. \A b \in Device : pc'[b] = "conflict" => pc[b] = "conflict" /\ todo'[b] = todo[b]
    BY <2>1 DEF TypeOK
  <2> QED BY <2>1, <2>2, <2>3, TrustKept
<1>7. CASE MarkSent(d, m)
  <2>1. /\ m \in acked[d] /\ acked' = [acked EXCEPT ![d] = @ \ {m}]
        /\ st' = [st EXCEPT ![m] = "done"]
        /\ UNCHANGED <<reply, pc, todo>>
    BY <1>7 DEF MarkSent, First
  <2>2. processed[m].status \in Accepted
    BY <2>1 DEF TrustInv
  <2>3. \A b \in Device : acked'[b] \subseteq acked[b]
    BY <2>1 DEF TypeOK
  <2>4. \A n \in Mut : /\ st'[n] = "done" => processed'[n].status \in Accepted
                       /\ st'[n] = "conflict" => processed'[n].status = "conflict"
    BY <1>2, <2>1, <2>2 DEF TrustInv, OutboxAgreesWithServer, TypeOK
  <2> QED BY <1>2, <2>1, <2>3, <2>4 DEF TrustInv, OutboxAgreesWithServer, First
<1> QED BY <1>3, <1>4, <1>5, <1>6, <1>7

LEMMA TrustEngine ==
    ASSUME TypeOK, TypeOK', TrustInv, [Next]_vars, NEW d \in Device, Engine(d) \/ Failure(d)
    PROVE  TrustInv'
<1> USE DEF serverVars, netVars, outboxVars, replicaVars, pullVars, pushVars
<1>1. CASE \E m \in Mut : \/ AnswerAccepted(d, m) \/ AnswerConflict(d, m)
                          \/ MarkConflict(d, m) \/ AnswerRejected(d, m) \/ MarkSent(d, m)
  BY <1>1, TrustAnswers
<1>2. ASSUME NEW label \in Labels, label # "conflict", Go(d, label)
      PROVE  pc'[d] # "conflict" /\ \A b \in Device : b # d => pc'[b] = pc[b]
  BY <1>2 DEF Go, TypeOK
<1>3. CASE PushBatch(d) \/ Failure(d)
  <2>1. UNCHANGED st
    BY <1>3 DEF PushBatch, Failure, RequestLost, Crash, Forget
  <2>2. \A n \in Mut : reply'[n] \in {reply[n], NoAnswer}
    BY <1>3 DEF PushBatch, Failure, RequestLost, Crash, Forget, TypeOK
  <2>3. \A b \in Device : acked'[b] \subseteq acked[b]
    <3>1. UNCHANGED acked \/ acked' = [acked EXCEPT ![d] = {}]
      BY <1>3 DEF PushBatch, Failure, RequestLost, Crash, Forget
    <3> QED BY <3>1 DEF TypeOK
  <2>4. pc'[d] # "conflict" /\ \A b \in Device : b # d => pc'[b] = pc[b] /\ todo'[b] = todo[b]
    <3>1. \E label \in Labels : label # "conflict" /\ Go(d, label)
      BY <1>3 DEF PushBatch, Failure, RequestLost, Crash, Forget, Labels
    <3>2. \E S : todo' = [todo EXCEPT ![d] = S]
      BY <1>3 DEF PushBatch, Failure, RequestLost, Crash, Forget
    <3>3. \A b \in Device : b # d => todo'[b] = todo[b]
      BY <3>2 DEF TypeOK
    <3> QED BY <1>2, <3>1, <3>3
  <2> QED BY <2>1, <2>2, <2>3, <2>4, TrustKept
<1>4. CASE PushNothing(d) \/ PushDone(d) \/ Pull(d) \/ PageDone(d) \/ CycleDone(d)
  <2>1. UNCHANGED <<st, reply, acked, todo>>
    BY <1>4 DEF PushNothing, PushDone, Pull, PageDone, CycleDone
  <2>2. pc'[d] # "conflict" /\ \A b \in Device : b # d => pc'[b] = pc[b]
    BY <1>2, <1>4 DEF PushNothing, PushDone, Pull, PageDone, CycleDone, Labels
  <2> QED BY <2>1, <2>2, TrustKept
<1>5. ASSUME NEW s \in Change,
             \/ ApplySkip(d, s) \/ ApplyStart(d, s) \/ ApplyUpsert(d, s)
             \/ ApplyLevel(d, s) \/ ApplyDefer(d, s)
      PROVE  TrustInv'
  <2>1. UNCHANGED <<st, reply, acked, todo>>
    BY <1>5 DEF ApplySkip, ApplyStart, ApplyUpsert, ApplyLevel, ApplyDefer
  <2>2. UNCHANGED pc \/ (pc'[d] # "conflict" /\ \A b \in Device : b # d => pc'[b] = pc[b])
    BY <1>2, <1>5 DEF ApplySkip, ApplyStart, ApplyUpsert, ApplyLevel, ApplyDefer, Labels
  <2> QED BY <2>1, <2>2, TrustKept
<1> QED BY <1>1, <1>3, <1>4, <1>5 DEF Engine

LEMMA TrustInit == Init => TrustInv
BY DEF Init, TrustInv, OutboxAgreesWithServer, NoAnswer, Answer

LEMMA TrustStep ==
    ASSUME TypeInv, TypeInv', TrustInv, [Next]_vars
    PROVE  TrustInv'
<1>1. TypeOK /\ TypeOK'
  BY DEF TypeInv
<1>2. CASE UNCHANGED vars
  <2>1. UNCHANGED <<processed, reply, acked, pc, todo, st>>
    BY <1>2 DEF vars, serverVars, netVars, outboxVars, pushVars
  <2> QED BY <1>1, <2>1, TrustKept
<1>3. CASE Next
  BY <1>1, <1>3, TrustCashier, TrustServer, TrustEngine DEF Next
<1> QED BY <1>2, <1>3

\* A row leaves the outbox, as sent or for arbitration, only when the stored
\* answer of its mutation says so: nothing the till drops was refused, and
\* nothing it has handed over to the manager was written.
THEOREM OutboxTrustworthy == Spec => []OutboxAgreesWithServer
<1>1. Init => TypeInv /\ TrustInv
  <2>1. Init => Published
    BY SyncAssumption DEF Init, Published
  <2> QED BY <2>1, InitType, TrustInit DEF TypeInv
<1>2. TypeInv /\ TrustInv /\ [Next]_vars => (TypeInv /\ TrustInv)'
  BY TypeStep, TrustStep
<1>3. TrustInv => OutboxAgreesWithServer
  BY DEF TrustInv
<1> QED BY <1>1, <1>2, <1>3, PTL DEF Spec

-----------------------------------------------------------------------------
\* A deleted row is a row that was created: it is what keeps a create that comes
\* late from being taken for the first of its row.
DeletedInv == \A e \in Entity : srv[e].del => srv[e].v > 0

DeletedKept == DeletedInv' /\ \A e \in Entity : srv[e].del => srv'[e].del

\* Of what the server does of a mutation, only the update writes a live row, and
\* it is arbitrated only over a live one.
LEMMA DeletionServed ==
    ASSUME TypeOK, DeletedInv, NEW d \in Device, NEW m \in Mut, ServerStep(d, m)
    PROVE  DeletedKept
<1> DEFINE e == mut[m].ent
<1>1. e \in Entity /\ srv \in [Entity -> Row]
  BY DEF TypeOK, Mutation
<1>2. \A f \in Entity : srv[f].v \in Nat /\ srv[f].del \in BOOLEAN
  BY <1>1 DEF Row
<1>3. ASSUME UNCHANGED srv
      PROVE  DeletedKept
  BY <1>3 DEF DeletedKept, DeletedInv
<1>4. ASSUME NEW r, r.v > 0, srv[e].del => r.del, srv' = [srv EXCEPT ![e] = r]
      PROVE  DeletedKept
  <2>1. \A f \in Entity : srv'[f] = IF f = e THEN r ELSE srv[f]
    BY <1>1, <1>4
  <2> QED BY <1>4, <2>1 DEF DeletedKept, DeletedInv
<1>5. CASE ServeReplay(d, m) \/ ServeThrow(d, m) \/ ServeUnknown(d, m) \/ ServeDeleted(d, m)
           \/ ServeKeep(d, m)
  BY <1>3, <1>5 DEF ServeReplay, ServeThrow, ServeUnknown, ServeDeleted, ServeKeep,
     NothingWritten, serverVars
<1>6. CASE ServeCreate(d, m)
  <2> DEFINE r == FirstRow(mut[m].val, mut[m].ts)
  <2>1. r.v > 0 /\ ~srv[e].del
    BY <1>1, <1>2, <1>6 DEF ServeCreate, FirstRow, DeletedInv
  <2>2. srv' = [srv EXCEPT ![e] = r]
    BY <1>6 DEF ServeCreate, Publish
  <2> HIDE DEF r
  <2> QED BY <1>4, <2>1, <2>2
<1>7. CASE ServeDelete(d, m)
  <2> DEFINE r == [v |-> srv[e].v + 1, val |-> srv[e].val, ts |-> srv[e].ts, del |-> TRUE]
  <2>1. r.v > 0 /\ r.del
    BY <1>1, <1>2
  <2>2. srv' = [srv EXCEPT ![e] = r]
    BY <1>7 DEF ServeDelete, Publish
  <2> HIDE DEF r
  <2> QED BY <1>4, <2>1, <2>2
<1>8. CASE ServeUpdate(d, m)
  <2> DEFINE val == [f \in Field |-> IF f \in Resolution(m).fields THEN mut[m].val
                                     ELSE srv[e].val[f]]
             r == [v |-> srv[e].v + 1, ts |-> mut[m].ts, del |-> FALSE, val |-> val]
  <2>1. r.v > 0 /\ ~srv[e].del
    BY <1>1, <1>2, <1>8 DEF ServeUpdate, Arbitrable
  <2>2. srv' = [srv EXCEPT ![e] = r]
    BY <1>8 DEF ServeUpdate, Publish
  <2> HIDE DEF r
  <2> QED BY <1>4, <2>1, <2>2
<1> QED BY <1>5, <1>6, <1>7, <1>8 DEF ServerStep

\* Nobody but the server writes its rows.
LEMMA DeletionStep ==
    ASSUME TypeOK, DeletedInv, [Next]_vars
    PROVE  DeletedKept
<1>1. ASSUME UNCHANGED srv
      PROVE  DeletedKept
  BY <1>1 DEF DeletedKept, DeletedInv
<1>2. CASE UNCHANGED vars
  BY <1>1, <1>2 DEF vars, serverVars
<1>3. ASSUME NEW d \in Device, Cashier(d)
      PROVE  UNCHANGED srv
  BY <1>3 DEF Cashier, LocalCreate, LocalUpdate, LocalDelete, Write, ResolveServer, ResolveLocal,
     serverVars
<1>4. ASSUME NEW d \in Device, Writing(d)
      PROVE  UNCHANGED srv
  BY <1>4 DEF Writing, LocalLevel, Enqueue, CloseConflict, serverVars
<1>5. ASSUME NEW d \in Device, Engine(d)
      PROVE  UNCHANGED srv
  BY <1>5 DEF Engine, PushNothing, PushBatch, PushDone, AnswerAccepted, AnswerConflict,
     MarkConflict, AnswerRejected, MarkSent, Pull, PageDone, CycleDone, ApplySkip, ApplyStart,
     ApplyUpsert, ApplyLevel, ApplyDefer, serverVars
<1>6. ASSUME NEW d \in Device, Failure(d)
      PROVE  UNCHANGED srv
  BY <1>6 DEF Failure, RequestLost, Crash, Forget, serverVars
<1> QED BY <1>1, <1>2, <1>3, <1>4, <1>5, <1>6, DeletionServed DEF Next, Server

\* A row deleted on the server stays deleted, whatever arrives after: a create
\* that comes late, an update from before or of a till that has not heard of it,
\* a mutation sent again.
THEOREM DeletionStandsCorrect == Spec => DeletionStands
<1>1. Init => TypeInv /\ DeletedInv
  <2>1. Init => TypeInv
    <3>1. Init => Published
      BY SyncAssumption DEF Init, Published
    <3> QED BY <3>1, InitType DEF TypeInv
  <2>2. Init => DeletedInv
    BY DEF Init, DeletedInv, SeedRow, Seed, Absent
  <2> QED BY <2>1, <2>2
<1>2. TypeInv /\ DeletedInv /\ [Next]_vars => (TypeInv /\ DeletedInv)'
  BY TypeStep, DeletionStep DEF TypeInv, DeletedKept
<1>3. TypeInv /\ DeletedInv /\ [Next]_vars => [\A e \in Entity : srv[e].del => srv'[e].del]_vars
  BY DeletionStep DEF TypeInv, DeletedKept
<1> QED BY <1>1, <1>2, <1>3, PTL DEF Spec, DeletionStands

-----------------------------------------------------------------------------
(* Mutations and those who handle them.                                     *)

\* What d, its requests and the server's work for it hold of the outbox.
Handles(d) == wire[d] \cup ghost[d] \cup sent[d] \cup todo[d] \cup acked[d]

\* d issues mutation x: the one write to the outbox's rows.
Issues(d, x) ==
    /\ nextMut \in Mut /\ nextMut' = nextMut + 1
    /\ x.dev = d
    /\ mut' = [mut EXCEPT ![nextMut] = x]
    /\ \E b \in BOOLEAN, c \in 0..MaxMut :
         edit' = [edit EXCEPT ![d] = [mut |-> nextMut, bump |-> b, closes |-> c]]
    /\ UNCHANGED <<serverVars, netVars, pushVars, st, open>>

\* The local write a till was about to enqueue goes on, or is over.
EditsOnly == \A b \in Device : edit'[b].mut \in {0, edit[b].mut}

\* What a step may do to the outbox's rows and to the server's tables.
LEMMA StepKinds ==
    ASSUME TypeOK, Next
    PROVE  \/ UNCHANGED <<serverVars, mut, nextMut>> /\ EditsOnly
           \/ \E d \in Device, x \in Mutation : Issues(d, x)
           \/ /\ UNCHANGED <<mut, nextMut, edit>>
              /\ \E d \in Device, m \in Mut : ServerStep(d, m)
<1>0. edit \in [Device -> Edit]
  BY DEF TypeOK
<1>1. PICK d \in Device : Cashier(d) \/ Writing(d) \/ Engine(d) \/ Server(d) \/ Failure(d)
  BY DEF Next
<1>2. nextMut \in 1..(MaxMut + 1) /\ MaxMut \in Nat
  BY SyncAssumption DEF TypeOK
<1>3. ASSUME NEW e \in Entity, NEW r, NEW x, x.dev = d, Write(d, e, r, x)
      PROVE  Issues(d, x)
  <2>1. nextMut \in Mut /\ 0 \in 0..MaxMut /\ (e \in Journal) \in BOOLEAN
    BY <1>2, <1>3 DEF Write, Mut
  <2> QED BY <1>3, <2>1 DEF Write, Issues
<1>4. mut' \in [Mut -> Mutation] => \A x : Issues(d, x) => x \in Mutation
  BY DEF Issues, TypeOK
<1>5. CASE Cashier(d)
  <2>1. mut' \in [Mut -> Mutation]
    BY <1>5, CashierType DEF TypeOK
  <2>2. ASSUME NEW e \in Entity, NEW t \in Clock, LocalCreate(d, e, t)
        PROVE  \E x : Issues(d, x)
    <3> DEFINE x == [dev |-> d, ent |-> e, op |-> "create", base |-> 0, fields |-> Field,
                     val |-> nextMut, ts |-> t, saw |-> Absent.val]
    <3>1. Write(d, e, FirstRow(nextMut, t), x) /\ x.dev = d
      BY <2>2 DEF LocalCreate
    <3> HIDE DEF x
    <3> QED BY <1>3, <3>1
  <2>3. ASSUME NEW e \in Entity, NEW t \in Clock, LocalDelete(d, e, t)
        PROVE  \E x : Issues(d, x)
    <3> DEFINE x == [dev |-> d, ent |-> e, op |-> "delete", base |-> row[d][e].v, fields |-> {},
                     val |-> nextMut, ts |-> t, saw |-> row[d][e].val]
    <3>1. (\E r : Write(d, e, r, x)) /\ x.dev = d
      BY <2>3 DEF LocalDelete
    <3> HIDE DEF x
    <3> QED BY <1>3, <3>1
  <2>4. ASSUME NEW e \in Entity, NEW t \in Clock, NEW F \in SUBSET Field, LocalUpdate(d, e, F, t)
        PROVE  \E x : Issues(d, x)
    <3> DEFINE x == [dev |-> d, ent |-> e, op |-> "update", base |-> row[d][e].v, fields |-> F,
                     val |-> nextMut, ts |-> t, saw |-> row[d][e].val]
    <3>1. (\E r : Write(d, e, r, x)) /\ x.dev = d
      BY <2>4 DEF LocalUpdate
    <3> HIDE DEF x
    <3> QED BY <1>3, <3>1
  <2>5. ASSUME NEW m \in Mut, NEW t \in Clock, ResolveLocal(d, m, t)
        PROVE  \E x : Issues(d, x)
    <3> DEFINE theirs == processed[m].state
               x == [dev |-> d, ent |-> mut[m].ent, op |-> "update", base |-> theirs.v,
                     fields |-> mut[m].fields, val |-> mut[m].val, ts |-> t, saw |-> theirs.val]
    <3>1. /\ mut' = [mut EXCEPT ![nextMut] = x] /\ x.dev = d
          /\ nextMut <= MaxMut /\ nextMut' = nextMut + 1
          /\ edit' = [edit EXCEPT ![d] = [mut |-> nextMut, bump |-> FALSE, closes |-> m]]
          /\ UNCHANGED <<serverVars, netVars, pushVars, st, open>>
      BY <2>5 DEF ResolveLocal
    <3> HIDE DEF x
    <3>2. nextMut \in Mut /\ m \in 0..MaxMut
      BY <1>2, <3>1 DEF Mut
    <3> QED BY <3>1, <3>2 DEF Issues
  <2>6. ASSUME NEW m \in Mut, ResolveServer(d, m)
        PROVE  UNCHANGED <<serverVars, mut, nextMut>> /\ EditsOnly
    <3>1. /\ edit' = [edit EXCEPT ![d] = [mut |-> 0, bump |-> FALSE, closes |-> m]]
          /\ UNCHANGED <<serverVars, mut, nextMut>>
      BY <2>6 DEF ResolveServer, outboxVars
    <3> QED BY <1>0, <3>1 DEF EditsOnly
  <2> QED BY <1>4, <1>5, <2>1, <2>2, <2>3, <2>4, <2>5, <2>6 DEF Cashier
<1>6. CASE Writing(d)
  <2>1. \/ edit' = [edit EXCEPT ![d] = [mut |-> edit[d].mut, bump |-> FALSE, closes |-> 0]]
        \/ edit' = [edit EXCEPT ![d] = [mut |-> 0, bump |-> FALSE, closes |-> edit[d].closes]]
        \/ edit' = [edit EXCEPT ![d] = NoEdit]
    BY <1>6 DEF Writing, LocalLevel, Enqueue, CloseConflict
  <2>2. EditsOnly
    BY <1>0, <2>1 DEF NoEdit, EditsOnly
  <2> QED BY <1>6, <2>2 DEF Writing, LocalLevel, Enqueue, CloseConflict, outboxVars
<1>7. CASE Engine(d)
  BY <1>7 DEF Engine, PushNothing, PushBatch, PushDone, AnswerAccepted, AnswerConflict,
     MarkConflict, AnswerRejected, MarkSent, Pull, PageDone, CycleDone, ApplySkip, ApplyStart,
     ApplyUpsert, ApplyLevel, ApplyDefer, outboxVars, EditsOnly
<1>8. CASE Server(d)
  <2>1. PICK m \in Mut : ServerStep(d, m)
    BY <1>8 DEF Server
  <2>2. UNCHANGED <<mut, nextMut, edit>>
    BY <2>1 DEF ServerStep, ServeReplay, ServeThrow, ServeCreate, ServeUnknown, ServeDeleted,
       ServeDelete, ServeUpdate, ServeKeep, Commit, tillVars, outboxVars
  <2> QED BY <2>1, <2>2
<1>9. CASE Failure(d)
  <2>1. edit' = edit \/ edit' = [edit EXCEPT ![d] = NoEdit]
    BY <1>9 DEF Failure, RequestLost, Crash
  <2>2. EditsOnly
    BY <1>0, <2>1 DEF NoEdit, EditsOnly
  <2> QED BY <1>9, <2>2 DEF Failure, RequestLost, Crash, Forget, outboxVars
<1> QED BY <1>1, <1>5, <1>6, <1>7, <1>8, <1>9

\* Nobody comes to handle a mutation that is not in its outbox.
LEMMA HandlesOwn ==
    ASSUME TypeOK, Next
    PROVE  \A b \in Device : Handles(b)' \subseteq Handles(b) \cup Outbox(b)
<1>1. PICK d \in Device : Cashier(d) \/ Writing(d) \/ Engine(d) \/ Server(d) \/ Failure(d)
  BY DEF Next
<1> USE DEF netVars, pushVars
<1>0. /\ wire \in [Device -> SUBSET Mut] /\ ghost \in [Device -> SUBSET Mut]
      /\ sent \in [Device -> SUBSET Mut] /\ todo \in [Device -> SUBSET Mut]
      /\ acked \in [Device -> SUBSET Mut]
  BY DEF TypeOK
<1>2. CASE Cashier(d)
  BY <1>2, ZenonT(60) DEF Cashier, LocalCreate, LocalUpdate, LocalDelete, Write, ResolveServer,
     ResolveLocal, Handles
<1>3. CASE Writing(d)
  BY <1>3 DEF Writing, LocalLevel, Enqueue, CloseConflict, Handles
<1>4. CASE Server(d)
  <2>1. PICK m \in Mut : (\E a : Serve(d, m, a)) /\ UNCHANGED pushVars
    BY <1>4 DEF Server, ServerStep, ServeReplay, ServeThrow, ServeCreate, ServeUnknown,
       ServeDeleted, ServeDelete, ServeUpdate, ServeKeep, Commit, tillVars
  <2>2. /\ wire' = wire \/ wire' = [wire EXCEPT ![d] = wire[d] \ {m}]
        /\ ghost' = ghost \/ ghost' = [ghost EXCEPT ![d] = ghost[d] \ {m}]
    BY <2>1 DEF Serve
  <2>3. \A b \in Device : wire'[b] \subseteq wire[b] /\ ghost'[b] \subseteq ghost[b]
    BY <1>0, <2>2
  <2> QED BY <2>1, <2>3 DEF Handles
<1>5. CASE Failure(d)
  <2>1. /\ ghost' = [ghost EXCEPT ![d] = wire[d]]
        /\ wire' = [wire EXCEPT ![d] = {}]
        /\ sent' = [sent EXCEPT ![d] = {}]
        /\ todo' = [todo EXCEPT ![d] = {}]
        /\ acked' = [acked EXCEPT ![d] = {}]
    BY <1>5 DEF Failure, RequestLost, Crash, Forget
  <2> QED BY <2>1 DEF Handles, TypeOK
<1>6. CASE Engine(d)
  <2>1. CASE PushBatch(d)
    <3> DEFINE batch == FirstOf(Due(d), BatchSize)
    <3>1. /\ sent' = [sent EXCEPT ![d] = batch]
          /\ todo' = [todo EXCEPT ![d] = batch]
          /\ wire' = [wire EXCEPT ![d] = batch]
          /\ UNCHANGED <<ghost, acked>>
      BY <2>1 DEF PushBatch
    <3>2. batch \subseteq Outbox(d)
      BY DEF FirstOf, Due
    <3> HIDE DEF batch
    <3> QED BY <3>1, <3>2 DEF Handles, TypeOK
  <2>2. CASE \E m \in Mut : \/ AnswerAccepted(d, m) \/ AnswerConflict(d, m)
                            \/ MarkConflict(d, m) \/ AnswerRejected(d, m) \/ MarkSent(d, m)
    <3>1. PICK m \in Mut : \/ AnswerAccepted(d, m) \/ AnswerConflict(d, m)
                           \/ MarkConflict(d, m) \/ AnswerRejected(d, m) \/ MarkSent(d, m)
      BY <2>2
    <3>2. /\ UNCHANGED <<wire, ghost, sent>>
          /\ todo' = todo \/ todo' = [todo EXCEPT ![d] = todo[d] \ {m}]
          /\ \/ acked' = acked
             \/ acked' = [acked EXCEPT ![d] = acked[d] \ {m}]
             \/ m \in todo[d] /\ acked' = [acked EXCEPT ![d] = acked[d] \cup {m}]
      BY <3>1 DEF AnswerAccepted, AnswerConflict, MarkConflict, AnswerRejected, MarkSent,
         Handled, Handling, First
    <3>3. \A b \in Device : todo'[b] \subseteq todo[b]
      BY <1>0, <3>2
    <3>4. \A b \in Device : acked'[b] \subseteq acked[b] \cup todo[b]
      BY <1>0, <3>2
    <3> QED BY <3>2, <3>3, <3>4 DEF Handles
  <2>3. CASE PushDone(d)
    BY <2>3 DEF PushDone, Handles, TypeOK
  <2>4. CASE PushNothing(d) \/ Pull(d) \/ PageDone(d) \/ CycleDone(d)
    BY <2>4 DEF PushNothing, Pull, PageDone, CycleDone, Handles
  <2>5. CASE \E s \in Change : \/ ApplySkip(d, s) \/ ApplyStart(d, s) \/ ApplyUpsert(d, s)
                               \/ ApplyLevel(d, s) \/ ApplyDefer(d, s)
    BY <2>5 DEF ApplySkip, ApplyStart, ApplyUpsert, ApplyLevel, ApplyDefer, Handles
  <2> QED BY <1>6, <2>1, <2>2, <2>3, <2>4, <2>5 DEF Engine
<1> QED BY <1>1, <1>2, <1>3, <1>4, <1>5, <1>6

\* A mutation belongs to the till that issued it: it and the server handle no
\* other, and the log bears its name.
IssuedInv ==
    /\ \A m \in Mut : mut[m].dev \in Device <=> m < nextMut
    /\ \A d \in Device : \A m \in Handles(d) : mut[m].dev = d
    /\ \A d \in Device : edit[d].mut # 0 => mut[edit[d].mut].dev = d
    /\ \A m \in Mut : processed[m] # NoAnswer => mut[m].dev \in Device
    /\ \A i \in 1..Len(log) : log[i].mut # 0 =>
         /\ mut[log[i].mut].dev \in Device
         /\ log[i].dev = mut[log[i].mut].dev
         /\ log[i].ent = mut[log[i].mut].ent

\* Once issued, a mutation stays as it is.
LEMMA MutationStands ==
    ASSUME TypeOK, IssuedInv, Next, NEW m \in Mut, mut[m].dev \in Device
    PROVE  mut'[m] = mut[m]
<1>1. m < nextMut /\ m \in Nat /\ nextMut \in Nat
  BY SyncAssumption DEF IssuedInv, TypeOK, Mut
<1>2. CASE UNCHANGED mut
  BY <1>2
<1>3. ASSUME NEW d \in Device, NEW x \in Mutation, Issues(d, x)
      PROVE  mut'[m] = mut[m]
  <2>1. m # nextMut /\ mut' = [mut EXCEPT ![nextMut] = x]
    BY <1>1, <1>3 DEF Issues
  <2> QED BY <2>1 DEF TypeOK
<1> QED BY <1>2, <1>3, StepKinds

\* What the server does to its log, and for whom.
LEMMA LogStep ==
    ASSUME TypeOK, TypeOK', [Next]_vars
    PROVE  \/ UNCHANGED serverVars
           \/ \E m \in Mut :
                /\ Committed(m)
                /\ UNCHANGED <<mut, nextMut>>
                /\ \E d \in Device : m \in Handles(d)
<1>1. CASE UNCHANGED vars
  BY <1>1 DEF vars
<1>2. CASE \E d \in Device, x \in Mutation : Issues(d, x)
  BY <1>2 DEF Issues
<1>3. ASSUME NEW d \in Device, NEW m \in Mut, ServerStep(d, m)
      PROVE  m \in Handles(d)
  <2>1. \E a : Serve(d, m, a)
    BY <1>3 DEF ServerStep, ServeReplay, ServeThrow, ServeCreate, ServeUnknown, ServeDeleted,
       ServeDelete, ServeUpdate, ServeKeep, Commit
  <2> QED BY <2>1 DEF Serve, First, Handles
<1> QED BY <1>1, <1>2, <1>3, StepKinds, ServerCommits

\* The log after a commit: one more entry, or none.
LEMMA LogAfter ==
    ASSUME TypeOK, TypeOK', NEW m \in Mut, NEW r \in Row, NEW F \in SUBSET Field, Publish(m, r, F)
    PROVE  LET n == Len(log) + 1 IN
           /\ n \in Nat /\ Len(log) \in Nat /\ Len(log') = n
           /\ \A i \in 1..Len(log) : i \in 1..n /\ log'[i] = log[i]
           /\ \A i \in 1..n : i \in 1..Len(log) \/ i = n
           /\ /\ log'[n].ent = mut[m].ent /\ log'[n].row = r /\ log'[n].fields = F
              /\ log'[n].dev = mut[m].dev /\ log'[n].mut = m
           /\ mut[m].ent \in Entity
           /\ srv' = [srv EXCEPT ![mut[m].ent] = r]
<1> DEFINE x == [ent |-> mut[m].ent, row |-> r, fields |-> F, dev |-> mut[m].dev, mut |-> m]
<1>1. log' = Append(log, x) /\ srv' = [srv EXCEPT ![mut[m].ent] = r]
  BY DEF Publish
<1>2. /\ x.ent = mut[m].ent /\ x.row = r /\ x.fields = F /\ x.dev = mut[m].dev /\ x.mut = m
  OBVIOUS
<1> HIDE DEF x
<1>3. log \in Seq(Entry) /\ Len(log) \in Nat
  BY LenProperties DEF TypeOK
<1>4. /\ Len(log') = Len(log) + 1
      /\ log'[Len(log) + 1] = x
      /\ \A i \in 1..Len(log) : log'[i] = log[i]
  BY <1>1, <1>3
<1>5. mut[m].ent \in Entity
  BY DEF TypeOK, Mutation
<1> QED BY <1>1, <1>2, <1>3, <1>4, <1>5

LEMMA IssuedStep ==
    ASSUME TypeOK, TypeOK', IssuedInv, [Next]_vars
    PROVE  IssuedInv'
<1>0. CASE UNCHANGED vars
  BY <1>0 DEF vars, serverVars, netVars, outboxVars, pushVars, IssuedInv, Handles
<1>1. SUFFICES ASSUME Next PROVE IssuedInv'
  BY <1>0
<1>2. ASSUME NEW m \in Mut, mut[m].dev \in Device
      PROVE  mut'[m] = mut[m]
  BY <1>1, <1>2, MutationStands
<1>3. MaxMut \in Nat /\ Mut = 1..MaxMut /\ nextMut \in 1..(MaxMut + 1) /\ 0 \notin Device
  BY SyncAssumption DEF TypeOK, Mut
<1>4. \A m \in Mut : mut'[m].dev \in Device <=> m < nextMut'
  <2>1. CASE UNCHANGED <<mut, nextMut>>
    BY <2>1 DEF IssuedInv
  <2>2. ASSUME NEW d \in Device, NEW x \in Mutation, Issues(d, x)
        PROVE  \A m \in Mut : mut'[m].dev \in Device <=> m < nextMut'
    <3>1. nextMut \in Mut /\ nextMut' = nextMut + 1 /\ mut' = [mut EXCEPT ![nextMut] = x] /\ x.dev = d
      BY <2>2 DEF Issues
    <3>2. \A m \in Mut : mut'[m] = IF m = nextMut THEN x ELSE mut[m]
      BY <3>1 DEF TypeOK
    <3>3. \A m \in Mut : m < nextMut' <=> m < nextMut \/ m = nextMut
      BY <1>3, <3>1
    <3> QED BY <3>1, <3>2, <3>3 DEF IssuedInv
  <2> QED BY <1>1, <2>1, <2>2, StepKinds
<1>5. \A d \in Device : \A m \in Handles(d)' : mut'[m].dev = d
  <2>1. SUFFICES ASSUME NEW d \in Device, NEW m \in Handles(d)'
                 PROVE  mut'[m].dev = d
    OBVIOUS
  <2>2. m \in Handles(d) \/ m \in Outbox(d)
    BY <1>1, <2>1, HandlesOwn
  <2>3. m \in Mut /\ mut[m].dev = d
    BY <2>2 DEF IssuedInv, Outbox, Handles, TypeOK
  <2> QED BY <1>2, <2>3
<1>6. \A d \in Device : edit'[d].mut # 0 => mut'[edit'[d].mut].dev = d
  <2>0. edit \in [Device -> Edit] /\ edit' \in [Device -> Edit] /\ mut \in [Mut -> Mutation]
    BY DEF TypeOK
  <2>1. SUFFICES ASSUME NEW b \in Device, edit'[b].mut # 0
                 PROVE  mut'[edit'[b].mut].dev = b
    OBVIOUS
  <2>2. CASE edit'[b].mut = edit[b].mut
    <3>1. edit[b].mut \in 0..MaxMut
      BY <2>0 DEF Edit
    <3>2. edit[b].mut \in Mut /\ mut[edit[b].mut].dev = b
      BY <1>3, <2>1, <2>2, <3>1 DEF IssuedInv
    <3> QED BY <1>2, <2>2, <3>2
  <2>3. ASSUME NEW d \in Device, NEW x \in Mutation, Issues(d, x)
        PROVE  mut'[edit'[b].mut].dev = b
    <3>1. mut'[nextMut] = x /\ x.dev = d
      BY <2>0, <2>3 DEF Issues
    <3>2. b # d => edit'[b] = edit[b]
      BY <2>0, <2>3 DEF Issues
    <3>3. b = d => edit'[b].mut = nextMut
      BY <2>0, <2>3 DEF Issues
    <3> QED BY <2>2, <3>1, <3>2, <3>3
  <2>4. CASE edit'[b].mut \in {0, edit[b].mut}
    BY <2>1, <2>2, <2>4
  <2> QED BY <1>1, <2>3, <2>4, StepKinds DEF EditsOnly
<1>7. CASE UNCHANGED serverVars
  <2>1. /\ \A m \in Mut : processed'[m] # NoAnswer => mut'[m].dev \in Device
        /\ \A i \in 1..Len(log) : log[i].mut # 0 =>
             /\ mut'[log[i].mut].dev \in Device
             /\ log[i].dev = mut'[log[i].mut].dev
             /\ log[i].ent = mut'[log[i].mut].ent
    <3>1. \A i \in 1..Len(log) : log[i].mut # 0 => log[i].mut \in Mut
      <4>1. \A i \in 1..Len(log) : log[i] \in Entry
        BY ElementOfSeq DEF TypeOK
      <4> QED BY <1>3, <4>1 DEF Entry
    <3> QED BY <1>2, <1>7, <3>1 DEF serverVars, IssuedInv
  <2> QED BY <1>4, <1>5, <1>6, <1>7, <2>1 DEF serverVars, IssuedInv
<1>8. ASSUME NEW m \in Mut, Committed(m), UNCHANGED <<mut, nextMut>>,
             NEW d \in Device, m \in Handles(d)
      PROVE  IssuedInv'
  <2>1. mut[m].dev = d
    BY <1>8 DEF IssuedInv
  <2>2. \A n \in Mut : processed'[n] # NoAnswer => mut'[n].dev \in Device
    <3>1. \A n \in Mut : n # m => processed'[n] = processed[n]
      BY <1>8 DEF Committed, TypeOK
    <3> QED BY <1>8, <2>1, <3>1 DEF IssuedInv
  <2>3. CASE UNCHANGED log
    BY <1>4, <1>5, <1>6, <1>8, <2>2, <2>3 DEF IssuedInv
  <2>4. ASSUME NEW r \in Row, NEW F \in SUBSET Field, Publish(m, r, F)
        PROVE  IssuedInv'
    <3>1. \A i \in 1..Len(log') : log'[i].mut # 0 =>
             /\ mut'[log'[i].mut].dev \in Device
             /\ log'[i].dev = mut'[log'[i].mut].dev
             /\ log'[i].ent = mut'[log'[i].mut].ent
      BY <1>8, <2>1, <2>4, LogAfter DEF IssuedInv
    <3> QED BY <1>4, <1>5, <1>6, <2>2, <3>1 DEF IssuedInv
  <2> QED BY <1>8, <2>3, <2>4 DEF Committed
<1> QED BY <1>7, <1>8, LogStep

-----------------------------------------------------------------------------
(* The log.                                                                 *)

\* What the server makes of its row when it publishes mutation m: its first
\* version, after the rows it needs, or the next one, where only the fields F
\* differ; a sensitive field of them is one nobody has changed since the version
\* the author started from.
Rewrites(m, r, F) ==
    LET e == mut[m].ent IN
    /\ r.v = srv[e].v + 1
    /\ srv[e].v = 0 =>
         /\ mut[m].op = "create"
         /\ r = FirstRow(mut[m].val, mut[m].ts)
         /\ \A n \in Needs[e] : srv[n].v > 0
    /\ srv[e].v > 0 =>
         /\ mut[m].op # "create"
         /\ \A f \in Field \ F : r.val[f] = srv[e].val[f]
         /\ \A f \in Sensitive \cap F :
              mut[m].base = srv[e].v \/ f \notin FieldsChangedSince(e, mut[m].base)

\* An update the resolution lets through changes no sensitive field that was
\* changed since its base version, unless it starts from the current one.
LEMMA SensitiveLetThrough ==
    ASSUME NEW in, NEW sensitive, ResolveUpdate(in, sensitive).kind \in {"apply", "merge"}
    PROVE  /\ ~in.serverDeleted
           /\ \/ in.baseVersion = in.serverVersion
              \/ in.clientFields \cap in.fieldsSince \cap sensitive = {}
<1> DEFINE fields     == in.clientFields
           collisions == fields \cap in.fieldsSince
           upToDate   == in.baseVersion # 0 /\ in.baseVersion = in.serverVersion
<1>1. ResolveUpdate(in, sensitive).kind \notin {"ignore", "manual"}
  OBVIOUS
<1>2. CASE in.serverDeleted
  <2>1. ResolveUpdate(in, sensitive) = Outcome("ignore", {})
    BY <1>2 DEF ResolveUpdate
  <2> QED BY <1>1, <2>1 DEF Outcome
<1>3. CASE ~in.serverDeleted /\ fields = {}
  BY <1>3
<1>4. CASE ~in.serverDeleted /\ fields # {} /\ upToDate
  BY <1>4
<1>5. CASE ~in.serverDeleted /\ fields # {} /\ ~upToDate /\ collisions \cap sensitive # {}
  <2>1. ResolveUpdate(in, sensitive) = Outcome("manual", collisions \cap sensitive)
    BY <1>5 DEF ResolveUpdate
  <2> QED BY <1>1, <2>1 DEF Outcome
<1> QED BY <1>2, <1>3, <1>4, <1>5

LEMMA CommitWrites ==
    ASSUME TypeOK, NEW d \in Device, NEW m \in Mut, ServerStep(d, m)
    PROVE  \/ UNCHANGED <<srv, log>>
           \/ \E r \in Row, F \in SUBSET Field : Publish(m, r, F) /\ Rewrites(m, r, F)
<1> DEFINE e == mut[m].ent
           cur == srv[e]
<1>1. mut[m] \in Mutation
  BY DEF TypeOK
<1>2. /\ e \in Entity /\ mut[m].val \in 0..MaxMut /\ mut[m].ts \in Nat
      /\ mut[m].fields \in SUBSET Field /\ Sensitive \subseteq Field
  BY <1>1, SyncAssumption DEF Mutation
<1>3. cur \in Row
  BY <1>2 DEF TypeOK
<1>4. cur.v \in Nat /\ cur.val \in [Field -> 0..MaxMut] /\ cur.ts \in Nat
  BY <1>3 DEF Row
<1>5. CASE ServeReplay(d, m) \/ ServeThrow(d, m) \/ ServeUnknown(d, m) \/ ServeDeleted(d, m)
             \/ ServeKeep(d, m)
  BY <1>5 DEF ServeReplay, ServeThrow, ServeUnknown, ServeDeleted, ServeKeep, NothingWritten,
     serverVars
<1>6. CASE ServeCreate(d, m)
  <2> DEFINE r == FirstRow(mut[m].val, mut[m].ts)
             F == IF e \in Journal THEN {} ELSE Field
  <2>1. r \in Row /\ r.v = 1
    BY <1>2 DEF FirstRow, Row
  <2>2. F \in SUBSET Field
    OBVIOUS
  <2>3. /\ Publish(m, r, F)
        /\ mut[m].op = "create" /\ cur.v = 0
        /\ \A n \in Needs[e] : srv[n].v > 0
    BY <1>6 DEF ServeCreate
  <2>4. Rewrites(m, r, F)
    <3> HIDE DEF F
    <3> QED BY <2>1, <2>3 DEF Rewrites
  <2> HIDE DEF r, F
  <2> QED BY <2>1, <2>2, <2>3, <2>4
<1>7. CASE ServeDelete(d, m)
  <2> DEFINE r == [v |-> cur.v + 1, val |-> cur.val, ts |-> cur.ts, del |-> TRUE]
  <2>1. r \in Row
    BY <1>4 DEF Row
  <2>2. Publish(m, r, {}) /\ mut[m].op = "delete" /\ cur.v > 0
    BY <1>7 DEF ServeDelete
  <2>3. Rewrites(m, r, {})
    <3>1. r.v = cur.v + 1 /\ r.val = cur.val
      OBVIOUS
    <3> HIDE DEF r
    <3> QED BY <1>4, <2>2, <3>1 DEF Rewrites
  <2> HIDE DEF r
  <2> QED BY <2>1, <2>2, <2>3
<1>8. CASE ServeUpdate(d, m)
  <2> DEFINE out == Resolution(m)
             r == [v |-> cur.v + 1, ts |-> mut[m].ts, del |-> FALSE,
                   val |-> [f \in Field |-> IF f \in out.fields THEN mut[m].val ELSE cur.val[f]]]
  <2>1. out.fields \subseteq mut[m].fields
    BY ResolvedFields DEF Resolution
  <2>2. Publish(m, r, out.fields) /\ out.kind \in {"apply", "merge"} /\ Arbitrable(m)
    BY <1>8 DEF ServeUpdate
  <2>3. \/ mut[m].base = cur.v
        \/ mut[m].fields \cap FieldsChangedSince(e, mut[m].base) \cap Sensitive = {}
    <3> DEFINE in == [clientFields  |-> mut[m].fields,
                      fieldsSince   |-> FieldsChangedSince(e, mut[m].base),
                      baseVersion   |-> mut[m].base,
                      serverVersion |-> cur.v,
                      clientTs      |-> mut[m].ts,
                      serverTs      |-> cur.ts,
                      clientDev     |-> mut[m].dev,
                      serverDev     |-> LastWriter(e),
                      serverDeleted |-> FALSE]
    <3>1. out = ResolveUpdate(in, Sensitive)
      BY DEF Resolution
    <3>2. /\ in.baseVersion = mut[m].base /\ in.serverVersion = cur.v
          /\ in.clientFields = mut[m].fields /\ in.fieldsSince = FieldsChangedSince(e, mut[m].base)
      OBVIOUS
    <3> HIDE DEF in, out
    <3>3. in.baseVersion = in.serverVersion \/ in.clientFields \cap in.fieldsSince \cap Sensitive = {}
      BY <2>2, <3>1, SensitiveLetThrough
    <3> QED BY <3>2, <3>3
  <2> HIDE DEF out
  <2>4. r \in Row
    <3>1. [f \in Field |-> IF f \in out.fields THEN mut[m].val ELSE cur.val[f]]
             \in [Field -> 0..MaxMut]
      BY <1>2, <1>4
    <3> QED BY <1>2, <1>4, <3>1 DEF Row
  <2>5. r.v = cur.v + 1 /\ \A f \in Field \ out.fields : r.val[f] = cur.val[f]
    OBVIOUS
  <2> HIDE DEF r
  <2>6. Rewrites(m, r, out.fields)
    BY <1>4, <2>1, <2>2, <2>3, <2>5 DEF Rewrites, Arbitrable
  <2>7. out.fields \in SUBSET Field
    BY <1>2, <2>1
  <2> QED BY <2>2, <2>4, <2>6, <2>7
<1> QED BY <1>5, <1>6, <1>7, <1>8 DEF ServerStep

\* A step leaves the server's rows and log as they are, or publishes a mutation
\* that some till has issued.
LEMMA LogWrites ==
    ASSUME TypeOK, TypeOK', IssuedInv, [Next]_vars
    PROVE  \/ UNCHANGED <<srv, log>>
           \/ \E m \in Mut, r \in Row, F \in SUBSET Field :
                /\ Publish(m, r, F) /\ Rewrites(m, r, F)
                /\ UNCHANGED <<mut, nextMut>>
                /\ mut[m].dev \in Device
<1>1. CASE UNCHANGED vars
  BY <1>1 DEF vars, serverVars
<1>2. CASE \E d \in Device, x \in Mutation : Issues(d, x)
  BY <1>2 DEF Issues, serverVars
<1>3. ASSUME NEW d \in Device, NEW m \in Mut, ServerStep(d, m)
      PROVE  mut[m].dev \in Device
  <2>1. \E a : Serve(d, m, a)
    BY <1>3 DEF ServerStep, ServeReplay, ServeThrow, ServeCreate, ServeUnknown, ServeDeleted,
       ServeDelete, ServeUpdate, ServeKeep, Commit
  <2>2. m \in Handles(d)
    BY <2>1 DEF Serve, First, Handles
  <2> QED BY <2>2 DEF IssuedInv
<1> QED BY <1>1, <1>2, <1>3, StepKinds, CommitWrites DEF serverVars

\* The log tells every version of a row in order, the last being the row itself
\* (LogMirrorsRows), and between two versions every field that has changed; what
\* no mutation published was there at the start.
Rising == \A i, j \in 1..Len(log) :
            i < j /\ log[i].ent = log[j].ent => log[i].row.v < log[j].row.v
FieldsTold == \A i, j \in 1..Len(log), f \in Field :
                /\ i < j /\ log[i].ent = log[j].ent
                /\ \A k \in (i + 1)..j : log[k].ent = log[i].ent => f \notin log[k].fields
                => log[i].row.val[f] = log[j].row.val[f]
LogInv ==
    /\ \A i \in 1..Len(log) : log[i].row.v \in 1..srv[log[i].ent].v
    /\ \A e \in Entity : \A v \in 1..srv[e].v : \E i \in EntriesOf(e) : log[i].row.v = v
    /\ \A i \in 1..Len(log) : log[i].row.v = srv[log[i].ent].v => log[i].row = srv[log[i].ent]
    /\ \A i \in 1..Len(log) : log[i].mut = 0 => log[i].row = Seed
    /\ Rising
    /\ FieldsTold

LEMMA LogInit == Init => LogInv
<1> SUFFICES ASSUME Init PROVE LogInv
  OBVIOUS
<1>1. Len(Seeded) \in Nat /\ \A i \in 1..Len(Seeded) : Seeded[i] \in Entity
  BY SyncAssumption, ElementOfSeq, LenProperties
<1>2. /\ Len(log) = Len(Seeded)
      /\ \A i \in 1..Len(log) : log[i].ent = Seeded[i] /\ log[i].row = Seed
  BY <1>1 DEF Init
<1>3. \A i \in 1..Len(log) : IsSeeded(log[i].ent) /\ srv[log[i].ent] = Seed
  BY <1>1, <1>2 DEF Init, IsSeeded, SeedRow
<1>4. \A i, j \in 1..Len(log) : log[i].ent = log[j].ent => i = j
  BY <1>2, SyncAssumption
<1>5. Seed.v = 1 /\ Absent.v = 0
  BY DEF Seed, Absent
<1>6. \A i \in 1..Len(log) : log[i].row.v \in 1..srv[log[i].ent].v
  BY <1>2, <1>3, <1>5
<1>7. \A e \in Entity : \A v \in 1..srv[e].v : \E i \in EntriesOf(e) : log[i].row.v = v
  <2>1. SUFFICES ASSUME NEW e \in Entity, NEW v \in 1..srv[e].v
                 PROVE  \E i \in EntriesOf(e) : log[i].row.v = v
    OBVIOUS
  <2>2. srv[e] = SeedRow(e)
    BY DEF Init
  <2>3. CASE IsSeeded(e)
    <3>1. v = 1
      BY <1>5, <2>2, <2>3 DEF SeedRow
    <3>2. PICK i \in 1..Len(Seeded) : Seeded[i] = e
      BY <2>3 DEF IsSeeded
    <3> QED BY <1>2, <1>5, <3>1, <3>2 DEF EntriesOf
  <2>4. CASE ~IsSeeded(e)
    BY <1>5, <2>2, <2>4 DEF SeedRow
  <2> QED BY <2>3, <2>4
<1>8. Rising /\ FieldsTold
  BY <1>1, <1>2, <1>4 DEF Rising, FieldsTold
<1> QED BY <1>2, <1>3, <1>6, <1>7, <1>8 DEF LogInv

\* Of two entries of a row, the one of the current version is the last.
LEMMA LastEntry ==
    ASSUME TypeOK, LogInv, NEW e \in Entity, NEW i \in EntriesOf(e)
    PROVE  \E l \in EntriesOf(e) :
             /\ log[l].row = srv[e]
             /\ \A k \in EntriesOf(e) : k <= l
<1>1. log[i].row.v \in 1..srv[e].v /\ srv[e].v \in Nat
  BY DEF LogInv, EntriesOf, TypeOK, Row
<1>2. srv[e].v \in 1..srv[e].v
  BY <1>1
<1>3. PICK l \in EntriesOf(e) : log[l].row.v = srv[e].v
  BY <1>2 DEF LogInv
<1>4. l \in 1..Len(log) /\ log[l].ent = e
  BY <1>3 DEF EntriesOf
<1>5. log[l].row = srv[e]
  BY <1>3, <1>4 DEF LogInv
<1>6. ASSUME NEW k \in EntriesOf(e)
      PROVE  k <= l
  <2>1. k \in 1..Len(log) /\ log[k].ent = e
    BY DEF EntriesOf
  <2>2. Len(log) \in Nat
    BY LenProperties DEF TypeOK
  <2>3. log[k].row.v \in 1..srv[e].v
    BY <2>1 DEF LogInv
  <2>4. CASE l < k
    <3>1. log[l].row.v < log[k].row.v
      BY <1>4, <2>1, <2>4 DEF LogInv, Rising
    <3> QED BY <1>1, <1>3, <2>3, <3>1
  <2> QED BY <1>4, <2>1, <2>2, <2>4
<1> QED BY <1>4, <1>5, <1>6

LEMMA LogInvStep ==
    ASSUME TypeOK, TypeOK', IssuedInv, LogInv, [Next]_vars
    PROVE  LogInv'
<1>1. CASE UNCHANGED <<srv, log>>
  BY <1>1 DEF LogInv, Rising, FieldsTold, EntriesOf
<1>2. ASSUME NEW m \in Mut, NEW r \in Row, NEW F \in SUBSET Field,
             Publish(m, r, F), Rewrites(m, r, F)
      PROVE  LogInv'
  <2> DEFINE e == mut[m].ent
             n == Len(log) + 1
  <2>1. /\ n \in Nat /\ Len(log) \in Nat /\ Len(log') = n
        /\ \A i \in 1..Len(log) : i \in 1..n /\ log'[i] = log[i]
        /\ \A i \in 1..n : i \in 1..Len(log) \/ i = n
        /\ log'[n].ent = e /\ log'[n].row = r /\ log'[n].fields = F /\ log'[n].mut = m
        /\ e \in Entity
        /\ srv' = [srv EXCEPT ![e] = r]
    BY <1>2, LogAfter
  <2>2. srv \in [Entity -> Row] /\ \A x \in Entity : srv[x].v \in Nat
    BY DEF TypeOK, Row
  <2>3. r.v = srv[e].v + 1
    BY <1>2 DEF Rewrites
  <2>4. \A i \in 1..Len(log) : log[i].ent \in Entity
    <3>1. \A i \in 1..Len(log) : log[i] \in Entry
      BY ElementOfSeq DEF TypeOK
    <3> QED BY <3>1 DEF Entry
  <2>5. m # 0
    BY SyncAssumption DEF Mut
  <2>6. srv'[e] = r /\ \A x \in Entity : x # e => srv'[x] = srv[x]
    BY <2>1, <2>2
  <2>7. \A i \in 1..Len(log) : log[i].ent = e => log[i].row.v <= srv[e].v /\ log[i].row.v \in Nat
    BY <2>2, <2>4 DEF LogInv
  <2> HIDE DEF e, n
  <2>8. \A i \in 1..Len(log') : log'[i].row.v \in 1..srv'[log'[i].ent].v
    BY <2>1, <2>2, <2>3, <2>4, <2>6, <2>7, SMTT(30) DEF LogInv
  <2>9. \A x \in Entity : \A v \in 1..srv'[x].v : \E i \in EntriesOf(x)' : log'[i].row.v = v
    <3>1. SUFFICES ASSUME NEW x \in Entity, NEW v \in 1..srv'[x].v
                   PROVE  \E i \in EntriesOf(x)' : log'[i].row.v = v
      OBVIOUS
    <3>2. EntriesOf(x) \subseteq EntriesOf(x)' /\ \A i \in EntriesOf(x) : log'[i] = log[i]
      BY <2>1 DEF EntriesOf
    <3>3. CASE v \in 1..srv[x].v
      BY <3>2, <3>3 DEF LogInv
    <3>4. CASE v \notin 1..srv[x].v
      <4>1. x = e /\ v = r.v
        BY <2>2, <2>3, <2>6, <3>1, <3>4
      <4>2. n \in EntriesOf(x)'
        <5>1. n \in 1..n
          BY <2>1 DEF n
        <5> QED BY <2>1, <4>1, <5>1 DEF EntriesOf
      <4> QED BY <2>1, <4>1, <4>2
    <3> QED BY <3>3, <3>4
  <2>10. \A i \in 1..Len(log') : log'[i].row.v = srv'[log'[i].ent].v => log'[i].row = srv'[log'[i].ent]
    <3>1. SUFFICES ASSUME NEW i \in 1..n, log'[i].row.v = srv'[log'[i].ent].v
                   PROVE  log'[i].row = srv'[log'[i].ent]
      BY <2>1
    <3>2. CASE i = n
      BY <2>1, <2>6, <3>2
    <3>3. CASE i \in 1..Len(log) /\ log[i].ent = e
      BY <2>1, <2>2, <2>3, <2>6, <2>7, <3>1, <3>3
    <3>4. CASE i \in 1..Len(log) /\ log[i].ent # e
      BY <2>1, <2>4, <2>6, <3>1, <3>4 DEF LogInv
    <3> QED BY <2>1, <3>2, <3>3, <3>4
  <2>11. \A i \in 1..Len(log') : log'[i].mut = 0 => log'[i].row = Seed
    BY <2>1, <2>5 DEF LogInv
  <2>12. Rising'
    <3>1. SUFFICES ASSUME NEW i \in 1..n, NEW j \in 1..n, i < j, log'[i].ent = log'[j].ent
                   PROVE  log'[i].row.v < log'[j].row.v
      BY <2>1 DEF Rising
    <3>2. i \in 1..Len(log)
      BY <2>1, <3>1
    <3>3. CASE j = n
      BY <2>1, <2>2, <2>3, <2>7, <3>1, <3>2, <3>3
    <3>4. CASE j \in 1..Len(log)
      BY <2>1, <3>1, <3>2, <3>4 DEF LogInv, Rising
    <3> QED BY <2>1, <3>3, <3>4
  <2>13. FieldsTold'
    <3>1. SUFFICES ASSUME NEW i \in 1..n, NEW j \in 1..n, NEW f \in Field,
                          i < j, log'[i].ent = log'[j].ent,
                          \A k \in (i + 1)..j : log'[k].ent = log'[i].ent => f \notin log'[k].fields
                   PROVE  log'[i].row.val[f] = log'[j].row.val[f]
      BY <2>1 DEF FieldsTold
    <3>2. i \in 1..Len(log) /\ log'[i] = log[i] /\ i \in Nat /\ j \in Nat
      BY <2>1, <3>1
    <3>3. CASE j \in 1..Len(log)
      <4>1. log'[j] = log[j]
        BY <2>1, <3>3
      <4>2. \A k \in (i + 1)..j : k \in 1..Len(log)
        BY <2>1, <3>2, <3>3
      <4>3. \A k \in (i + 1)..j : log[k].ent = log[i].ent => f \notin log[k].fields
        BY <2>1, <3>1, <3>2, <4>2
      <4> QED BY <3>1, <3>2, <3>3, <4>1, <4>3 DEF LogInv, FieldsTold
    <3>4. CASE j = n
      <4>1. log[i].ent = e /\ i \in EntriesOf(e)
        BY <2>1, <3>1, <3>2, <3>4 DEF EntriesOf
      <4>2. PICK l \in EntriesOf(e) : log[l].row = srv[e] /\ \A k \in EntriesOf(e) : k <= l
        BY <2>1, <4>1, LastEntry
      <4>3. l \in 1..Len(log) /\ log[l].ent = e /\ i <= l
        BY <4>1, <4>2 DEF EntriesOf
      <4>4. log[i].row.val[f] = srv[e].val[f]
        <5>1. CASE i = l
          BY <4>2, <5>1
        <5>2. CASE i < l
          <6>1. \A k \in (i + 1)..l : k \in 1..Len(log) /\ k \in (i + 1)..j
            BY <2>1, <3>2, <3>4, <4>3
          <6>2. \A k \in (i + 1)..l : log[k].ent = log[i].ent => f \notin log[k].fields
            BY <2>1, <3>1, <3>2, <6>1
          <6>3. FieldsTold /\ log[i].ent = log[l].ent
            BY <4>1, <4>3 DEF LogInv
          <6>4. log[i].row.val[f] = log[l].row.val[f]
            BY <3>2, <4>3, <5>2, <6>2, <6>3 DEF FieldsTold
          <6> QED BY <4>2, <6>4
        <5> QED BY <2>1, <3>2, <4>3, <5>1, <5>2
      <4>5. j \in (i + 1)..j
        BY <3>1, <3>2
      <4>6. f \notin F
        BY <2>1, <3>1, <3>2, <3>4, <4>5
      <4>7. srv[e].v > 0
        <5>1. log[i].row.v \in 1..srv[e].v
          BY <3>2, <4>1 DEF LogInv
        <5> QED BY <2>1, <2>2, <5>1
      <4>8. r.val[f] = srv[e].val[f]
        BY <1>2, <4>6, <4>7 DEF Rewrites, e
      <4> QED BY <2>1, <3>2, <3>4, <4>4, <4>8
    <3> QED BY <2>1, <3>3, <3>4
  <2> QED BY <2>8, <2>9, <2>10, <2>11, <2>12, <2>13 DEF LogInv
<1> QED BY <1>1, <1>2, LogWrites

LEMMA IssuedInit == Init => IssuedInv
<1> SUFFICES ASSUME Init PROVE IssuedInv
  OBVIOUS
<1>1. 0 \notin Device /\ \A m \in Mut : ~(m < 1)
  BY SyncAssumption DEF Mut
<1>2. Len(log) = Len(Seeded) /\ \A i \in 1..Len(log) : log[i].mut = 0
  <2>1. Len(Seeded) \in Nat
    BY SyncAssumption, LenProperties
  <2> QED BY <2>1 DEF Init
<1>3. \A m \in Mut : mut[m].dev = 0
  BY DEF Init, Unissued, Nobody
<1>4. \A d \in Device : Handles(d) = {} /\ edit[d].mut = 0
  BY DEF Init, Handles, NoEdit
<1>5. \A m \in Mut : processed[m] = NoAnswer /\ nextMut = 1
  BY DEF Init
<1> QED BY <1>1, <1>2, <1>3, <1>4, <1>5 DEF IssuedInv

\* Everything the results on the log rest on.
RowsInv == TypeInv /\ IssuedInv /\ LogInv

LEMMA RowsInvInit == Init => RowsInv
<1>1. Init => Published
  BY SyncAssumption DEF Init, Published
<1> QED BY <1>1, InitType, IssuedInit, LogInit DEF RowsInv, TypeInv

LEMMA RowsInvStep == RowsInv /\ [Next]_vars => RowsInv'
<1> SUFFICES ASSUME RowsInv, [Next]_vars PROVE RowsInv'
  OBVIOUS
<1>1. TypeInv'
  BY TypeStep DEF RowsInv
<1>2. TypeOK /\ TypeOK'
  BY <1>1 DEF RowsInv, TypeInv
<1> QED BY <1>1, <1>2, IssuedStep, LogInvStep DEF RowsInv

\* The log misses no change of a row: every version is in it, in order, and the
\* last is the row of the server, however mutations are merged, ignored, sent
\* again or lost.
THEOREM LogMirrorsCorrect == Spec => []LogMirrorsRows
<1>1. ASSUME RowsInv
      PROVE  LogMirrorsRows
  <2>1. \A e \in Entity : \A i, j \in EntriesOf(e) : i < j => log[i].row.v < log[j].row.v
    BY <1>1 DEF RowsInv, LogInv, Rising, EntriesOf
  <2>2. \A e \in Entity : EntriesOf(e) # {} => \E i \in EntriesOf(e) : log[i].row = srv[e]
    BY <1>1, LastEntry DEF RowsInv, TypeInv
  <2> QED BY <1>1, <2>1, <2>2 DEF RowsInv, LogInv, LogMirrorsRows
<1> QED BY <1>1, RowsInvInit, RowsInvStep, PTL DEF Spec

-----------------------------------------------------------------------------
(* Sensitive fields.                                                        *)

\* A field that no entry since the base version has changed has the value the
\* author of a genuine update saw.
LEMMA SeenField ==
    ASSUME TypeOK, LogInv, NEW m \in Mut, NEW f \in Field, NEW g \in EntriesOf(mut[m].ent),
           log[g].row.v = mut[m].base, log[g].row.val = mut[m].saw,
           \/ mut[m].base = srv[mut[m].ent].v
           \/ f \notin FieldsChangedSince(mut[m].ent, mut[m].base)
    PROVE  srv[mut[m].ent].val[f] = mut[m].saw[f]
<1> DEFINE e == mut[m].ent
<1>1. g \in 1..Len(log) /\ log[g].ent = e /\ e \in Entity
  BY DEF EntriesOf, TypeOK, Mutation
<1>2. PICK l \in EntriesOf(e) : log[l].row = srv[e] /\ \A k \in EntriesOf(e) : k <= l
  BY <1>1, LastEntry
<1>3. l \in 1..Len(log) /\ log[l].ent = e /\ g <= l /\ Len(log) \in Nat
  BY <1>2, LenProperties DEF EntriesOf, TypeOK
<1>4. CASE g = l
  BY <1>2, <1>4
<1>5. CASE g < l
  <2>1. Rising /\ FieldsTold
    BY DEF LogInv
  <2>2. log[g].row.v < log[l].row.v /\ log[g].row.v \in Nat
    BY <1>1, <1>3, <1>5, <2>1 DEF Rising, LogInv
  <2>3. mut[m].base # srv[e].v
    BY <1>2, <2>2
  <2>4. ASSUME NEW k \in (g + 1)..l, log[k].ent = e
        PROVE  f \notin log[k].fields
    <3>1. k \in 1..Len(log) /\ g < k
      BY <1>1, <1>3
    <3>2. log[g].row.v < log[k].row.v
      BY <1>1, <2>1, <2>4, <3>1 DEF Rising
    <3>3. log[k].row.v \in Nat
      BY <3>1 DEF LogInv
    <3>4. k \in {t \in EntriesOf(e) : log[t].row.v > mut[m].base}
      BY <2>2, <2>4, <3>1, <3>2, <3>3 DEF EntriesOf
    <3> QED BY <2>3, <3>4 DEF FieldsChangedSince
  <2>5. log[g].row.val[f] = log[l].row.val[f]
    BY <1>1, <1>3, <1>5, <2>1, <2>4 DEF FieldsTold
  <2> QED BY <1>2, <2>5
<1> QED BY <1>1, <1>3, <1>4, <1>5

LEMMA SensitiveStep ==
    ASSUME TypeOK, TypeOK', IssuedInv, LogInv, LogInv', SensitiveArbitrated, Next
    PROVE  SensitiveArbitrated'
<1>0. Sensitive \subseteq Field /\ \A m \in Mut : m # 0
  BY SyncAssumption DEF Mut
<1>1. \A i \in 1..Len(log) : log[i].mut # 0 =>
        log[i].mut \in Mut /\ mut[log[i].mut].dev \in Device /\ mut'[log[i].mut] = mut[log[i].mut]
  <2>1. \A i \in 1..Len(log) : log[i] \in Entry
    BY ElementOfSeq DEF TypeOK
  <2>2. \A i \in 1..Len(log) : log[i].mut # 0 => log[i].mut \in Mut
    BY <2>1, SyncAssumption DEF Entry, Mut
  <2> QED BY <2>2, MutationStands DEF IssuedInv
<1>2. ASSUME Rising', NEW i \in 1..Len(log)', NEW j \in 1..Len(log)', i < j,
             log'[i].ent = log'[j].ent
      PROVE  log'[j].mut # 0
  <2>1. log'[i].row.v < log'[j].row.v /\ log'[i].row.v >= 1 /\ log'[i].row.v \in Nat
    BY <1>2 DEF Rising, LogInv
  <2>2. Seed.v = 1
    BY DEF Seed
  <2> QED BY <2>1, <2>2 DEF LogInv
<1>3. SUFFICES ASSUME NEW i \in 1..Len(log)', NEW j \in 1..Len(log)',
                      i < j, log'[i].ent = log'[j].ent,
                      \A k \in (i + 1)..(j - 1) : log'[k].ent # log'[i].ent,
                      Genuine(log[j].mut, j)',
                      NEW f \in Sensitive \cap log'[j].fields
               PROVE  log'[i].row.val[f] = mut'[log'[j].mut].saw[f]
  BY DEF SensitiveArbitrated
<1>4. log'[j].mut # 0
  BY <1>2, <1>3 DEF LogInv
<1>5. Len(log) \in Nat
  BY LenProperties DEF TypeOK
<1>6. CASE UNCHANGED <<srv, log>>
  <2>1. mut'[log[j].mut] = mut[log[j].mut]
    BY <1>1, <1>3, <1>4, <1>6
  <2>2. Genuine(log[j].mut, j)
    BY <1>3, <1>6, <2>1 DEF Genuine, EntriesOf
  <2> QED BY <1>3, <1>6, <2>1, <2>2 DEF SensitiveArbitrated
<1>7. ASSUME NEW m \in Mut, NEW r \in Row, NEW F \in SUBSET Field,
             Publish(m, r, F), Rewrites(m, r, F), UNCHANGED mut
      PROVE  log'[i].row.val[f] = mut'[log'[j].mut].saw[f]
  <2> DEFINE e == mut[m].ent
             n == Len(log) + 1
  <2>1. /\ n \in Nat /\ Len(log') = n
        /\ \A k \in 1..Len(log) : k \in 1..n /\ log'[k] = log[k]
        /\ \A k \in 1..n : k \in 1..Len(log) \/ k = n
        /\ log'[n].ent = e /\ log'[n].row = r /\ log'[n].fields = F /\ log'[n].mut = m
    BY <1>7, LogAfter
  <2> HIDE DEF n
  <2>2. PICK g \in EntriesOf(mut[log[j].mut].ent)' :
          g < j /\ log'[g].row.v = mut[log'[j].mut].base /\ log'[g].row.val = mut[log'[j].mut].saw
    BY <1>3, <1>7 DEF Genuine
  <2>3. g \in 1..n /\ log'[g].ent = mut[log'[j].mut].ent
    BY <1>7, <2>1, <2>2 DEF EntriesOf
  <2>4. i \in 1..Len(log) /\ g \in 1..Len(log)
    BY <1>3, <1>5, <2>1, <2>2, <2>3 DEF n
  <2>5. CASE j \in 1..Len(log)
    <3>1. log'[j] = log[j] /\ log'[i] = log[i] /\ log'[g] = log[g]
      BY <2>1, <2>4, <2>5
    <3>2. \A k \in (i + 1)..(j - 1) : k \in 1..Len(log)
      BY <1>5, <2>4, <2>5
    <3>3. \A k \in (i + 1)..(j - 1) : log[k].ent # log[i].ent
      BY <1>3, <2>1, <3>1, <3>2
    <3>4. Genuine(log[j].mut, j)
      BY <2>2, <2>3, <2>4, <3>1 DEF Genuine, EntriesOf
    <3> QED BY <1>3, <1>7, <2>4, <2>5, <3>1, <3>3, <3>4 DEF SensitiveArbitrated
  <2>6. CASE j = n
    <3>1. log[i].ent = e /\ log[g].ent = e /\ i \in EntriesOf(e) /\ g \in EntriesOf(e)
      BY <1>3, <2>1, <2>3, <2>4, <2>6 DEF EntriesOf
    <3>2. e \in Entity
      BY DEF TypeOK, Mutation
    <3>3. PICK l \in EntriesOf(e) : log[l].row = srv[e] /\ \A k \in EntriesOf(e) : k <= l
      BY <3>1, <3>2, LastEntry
    <3>4. l = i
      <4>1. l \in 1..Len(log) /\ log[l].ent = e /\ i <= l
        BY <3>1, <3>3 DEF EntriesOf
      <4>2. l <= j - 1
        BY <1>5, <2>6, <4>1 DEF n
      <4>3. ~(i + 1 <= l)
        BY <1>3, <1>5, <2>1, <2>4, <2>6, <3>1, <4>1, <4>2
      <4> QED BY <1>5, <2>4, <4>1, <4>3
    <3>5. srv[e].v > 0
      <4>1. log[i].row.v \in 1..srv[e].v /\ srv[e].v \in Nat
        BY <2>4, <3>1, <3>2 DEF LogInv, TypeOK, Row
      <4> QED BY <4>1
    <3>6. mut[m].base = srv[e].v \/ f \notin FieldsChangedSince(e, mut[m].base)
      BY <1>3, <1>7, <2>1, <2>6, <3>5 DEF Rewrites
    <3>7. log[g].row.v = mut[m].base /\ log[g].row.val = mut[m].saw
      BY <2>1, <2>2, <2>4, <2>6
    <3>8. srv[e].val[f] = mut[m].saw[f]
      BY <1>0, <3>1, <3>6, <3>7, SeenField
    <3> QED BY <1>7, <2>1, <2>4, <2>6, <3>3, <3>4, <3>8
  <2> QED BY <2>1, <2>5, <2>6
<1> QED BY <1>6, <1>7, LogWrites

\* Whatever tills push, merge, send again and settle, an update made from a version
\* the server had published never replaces a value of a sensitive field its author
\* had not seen.
THEOREM SensitiveArbitratedCorrect == Spec => []SensitiveArbitrated
<1>1. Init => SensitiveArbitrated
  <2> SUFFICES ASSUME Init PROVE SensitiveArbitrated
    OBVIOUS
  <2>1. Len(Seeded) \in Nat
    BY SyncAssumption, LenProperties
  <2>2. Len(log) = Len(Seeded) /\ \A i \in 1..Len(log) : log[i].ent = Seeded[i]
    BY <2>1 DEF Init
  <2>3. \A i, j \in 1..Len(log) : log[i].ent = log[j].ent => i = j
    BY <2>2, SyncAssumption
  <2>4. \A i \in 1..Len(log) : ~(i < i)
    BY <2>1, <2>2
  <2> QED BY <2>3, <2>4 DEF SensitiveArbitrated
<1>2. RowsInv /\ SensitiveArbitrated /\ [Next]_vars => SensitiveArbitrated'
  <2>1. ASSUME UNCHANGED vars, SensitiveArbitrated
        PROVE  SensitiveArbitrated'
    BY <2>1 DEF vars, serverVars, outboxVars, SensitiveArbitrated, Genuine, EntriesOf
  <2> QED BY <2>1, RowsInvStep, SensitiveStep DEF RowsInv, TypeInv
<1> QED BY <1>1, <1>2, RowsInvInit, RowsInvStep, PTL DEF Spec

-----------------------------------------------------------------------------
(* Who holds which row.                                                     *)

\* A till holds the rows of the mutations it has issued, a stored answer that
\* carries a state carries one of a row that is there and is not the answer to a
\* creation, a conflict on record is one the server has answered, and a row that
\* is anywhere was there at the start or has been issued by some till.
HeldInv ==
    /\ \A m \in Mut : mut[m].dev \in Device =>
         Holds(mut[m].dev, mut[m].ent) /\ (mut[m].op # "create" => mut[m].ent \notin Journal)
    /\ \A m \in Mut : processed[m].state # Absent =>
         processed[m].state.v > 0 /\ mut[m].op # "create"
    /\ \A m \in Mut : processed[m].status = "conflict" => processed[m].state # Absent
    /\ \A m \in Mut : open[m] > 0 => processed[m].status = "conflict"
    /\ \A e \in Entity : srv[e].v > 0 \/ (\E b \in Device : Holds(b, e)) =>
         IsSeeded(e) \/ \E m \in Mut : mut[m].dev \in Device /\ mut[m].ent = e
    /\ \A e \in Entity : IsSeeded(e) => srv[e].v > 0

\* A row the till holds gets another state.
Rewritten(d, e, r) ==
    /\ row' = [row EXCEPT ![d][e] = r]
    /\ r.v > 0 /\ Holds(d, e) /\ e \notin Journal
    /\ UNCHANGED serverVars

\* What a step may do to the tills' rows.
LEMMA RowSteps ==
    ASSUME TypeOK, IssuedInv, TrustInv, HeldInv, Next
    PROVE  \E d \in Device :
             \/ UNCHANGED row
             \/ \E e \in Entity, t \in Clock : LocalCreate(d, e, t)
             \/ \E e \in Entity, r \in Row : Rewritten(d, e, r)
             \/ \E s \in Change : ApplyUpsert(d, s)
<1>1. PICK d \in Device : Cashier(d) \/ Writing(d) \/ Engine(d) \/ Server(d) \/ Failure(d)
  BY DEF Next
<1>2. row \in [Device -> [Entity -> Row]] /\ mut \in [Mut -> Mutation]
  BY DEF TypeOK
<1>3. ASSUME NEW m \in Mut, mut[m].dev = d, processed[m].state # Absent
      PROVE  /\ Holds(d, mut[m].ent) /\ mut[m].ent \in Entity \ Journal
             /\ processed[m].state.v > 0 /\ processed[m].state \in Row
  BY <1>3 DEF HeldInv, TypeOK, Answers, Mutation
<1>4. \A m \in Mut : open[m] > 0 => processed[m].state # Absent
  BY DEF HeldInv
<1>5. \A m \in Handles(d) : m \in Mut /\ mut[m].dev = d
  BY DEF IssuedInv, Handles, TypeOK
<1>6. CASE Cashier(d)
  <2>0. row' \in [Device -> [Entity -> Row]]
    BY <1>6, CashierType DEF TypeOK
  <2>1. ASSUME NEW e \in Entity, NEW r, NEW x, Editable(d, e), r.v > 0, Write(d, e, r, x)
        PROVE  \E q \in Row : Rewritten(d, e, q)
    <3>1. row' = [row EXCEPT ![d][e] = r] /\ UNCHANGED serverVars
      BY <2>1 DEF Write
    <3>2. r \in Row
      BY <1>2, <2>0, <3>1
    <3> QED BY <2>1, <3>1, <3>2 DEF Rewritten, Editable
  <2>2. ASSUME NEW e \in Entity, NEW t \in Clock, NEW F, LocalUpdate(d, e, F, t)
        PROVE  \E q \in Row : Rewritten(d, e, q)
    <3> DEFINE r == [v |-> row[d][e].v + 1, ts |-> t, del |-> FALSE,
                     val |-> [f \in Field |-> IF f \in F THEN nextMut ELSE row[d][e].val[f]]]
    <3>1. r.v = row[d][e].v + 1 /\ row[d][e].v \in Nat
      BY <1>2 DEF Row
    <3>2. Editable(d, e) /\ \E x : Write(d, e, r, x)
      BY <2>2 DEF LocalUpdate
    <3> HIDE DEF r
    <3> QED BY <2>1, <3>1, <3>2
  <2>3. ASSUME NEW e \in Entity, NEW t \in Clock, LocalDelete(d, e, t)
        PROVE  \E q \in Row : Rewritten(d, e, q)
    <3> DEFINE r == [v |-> row[d][e].v + 1, val |-> row[d][e].val, ts |-> t, del |-> TRUE]
    <3>1. r.v = row[d][e].v + 1 /\ row[d][e].v \in Nat
      BY <1>2 DEF Row
    <3>2. Editable(d, e) /\ \E x : Write(d, e, r, x)
      BY <2>3 DEF LocalDelete
    <3> HIDE DEF r
    <3> QED BY <2>1, <3>1, <3>2
  <2>4. ASSUME NEW m \in Mut, ResolveServer(d, m)
        PROVE  \E e \in Entity, q \in Row : Rewritten(d, e, q)
    <3>1. /\ row' = [row EXCEPT ![d][mut[m].ent] = processed[m].state]
          /\ mut[m].dev = d /\ open[m] > 0 /\ UNCHANGED serverVars
      BY <2>4 DEF ResolveServer, Settles
    <3> QED BY <1>3, <1>4, <3>1 DEF Rewritten
  <2>5. ASSUME NEW m \in Mut, NEW t \in Clock, ResolveLocal(d, m, t)
        PROVE  \E e \in Entity, q \in Row : Rewritten(d, e, q)
    <3> DEFINE theirs == processed[m].state
               r == [v |-> theirs.v, ts |-> t, del |-> theirs.del,
                     val |-> [f \in Field |-> IF f \in mut[m].fields
                                              THEN mut[m].val ELSE theirs.val[f]]]
    <3>1. /\ row' = [row EXCEPT ![d][mut[m].ent] = r]
          /\ mut[m].dev = d /\ open[m] > 0 /\ UNCHANGED serverVars
      BY <2>5 DEF ResolveLocal, Settles
    <3>2. r.v = theirs.v
      OBVIOUS
    <3> HIDE DEF r
    <3>3. theirs.v > 0 /\ Holds(d, mut[m].ent) /\ mut[m].ent \in Entity \ Journal
      BY <1>3, <1>4, <3>1
    <3>4. r \in Row
      BY <1>2, <2>0, <3>1, <3>3
    <3> QED BY <3>1, <3>2, <3>3, <3>4 DEF Rewritten
  <2> QED BY <1>6, <2>2, <2>3, <2>4, <2>5 DEF Cashier
<1>7. CASE Writing(d)
  BY <1>7 DEF Writing, LocalLevel, Enqueue, CloseConflict, replicaVars
<1>8. CASE Server(d)
  BY <1>8 DEF Server, ServerStep, ServeReplay, ServeThrow, ServeCreate, ServeUnknown, ServeDeleted,
     ServeDelete, ServeUpdate, ServeKeep, Commit, tillVars, replicaVars
<1>9. CASE Failure(d)
  BY <1>9 DEF Failure, RequestLost, Crash, Forget, replicaVars
<1>10. CASE Engine(d)
  <2>1. ASSUME NEW m \in Mut, AnswerAccepted(d, m)
        PROVE  UNCHANGED row \/ \E e \in Entity, q \in Row : Rewritten(d, e, q)
    <3>1. /\ m \in todo[d] /\ reply[m].status \in Accepted
          /\ row' = IF reply[m].state = Absent THEN row
                    ELSE [row EXCEPT ![d][mut[m].ent] = reply[m].state]
          /\ UNCHANGED serverVars
      BY <2>1 DEF AnswerAccepted, Handling, First
    <3>2. processed[m] = reply[m] /\ mut[m].dev = d
      BY <1>5, <3>1 DEF TrustInv, Accepted, Handles
    <3> QED BY <1>3, <3>1, <3>2 DEF Rewritten
  <2>2. CASE \E s \in Change : ApplySkip(d, s) \/ ApplyStart(d, s) \/ ApplyLevel(d, s) \/ ApplyDefer(d, s)
    BY <2>2 DEF ApplySkip, ApplyStart, ApplyLevel, ApplyDefer, replicaVars
  <2>3. CASE \E m \in Mut : \/ AnswerConflict(d, m) \/ MarkConflict(d, m)
                            \/ AnswerRejected(d, m) \/ MarkSent(d, m)
    BY <2>3 DEF AnswerConflict, MarkConflict, AnswerRejected, MarkSent, replicaVars
  <2>4. CASE PushNothing(d) \/ PushBatch(d) \/ PushDone(d) \/ Pull(d) \/ PageDone(d) \/ CycleDone(d)
    BY <2>4 DEF PushNothing, PushBatch, PushDone, Pull, PageDone, CycleDone, replicaVars
  <2> QED BY <1>10, <2>1, <2>2, <2>3, <2>4 DEF Engine
<1> QED BY <1>1, <1>6, <1>7, <1>8, <1>9, <1>10

\* What a row becomes on a till.
LEMMA HoldsAfter ==
    ASSUME TypeInv, IssuedInv, LogInv, TrustInv, HeldInv, Next,
           NEW b \in Device, NEW e \in Entity
    PROVE  /\ Holds(b, e) => Holds(b, e)'
           /\ Holds(b, e)' => \/ Holds(b, e)
                              \/ srv[e].v > 0
                              \/ \E d \in Device, t \in Clock : LocalCreate(d, e, t)
<1> USE DEF TypeInv
<1>1. /\ row \in [Device -> [Entity -> Row]]
      /\ \A d \in Device, x \in Entity : row[d][x].v \in Nat
  <2>1. row \in [Device -> [Entity -> Row]]
    BY DEF TypeOK
  <2>2. \A d \in Device, x \in Entity : row[d][x] \in Row
    BY <2>1
  <2> QED BY <2>1, <2>2 DEF Row
<1>2. PICK d \in Device :
             \/ UNCHANGED row
             \/ \E x \in Entity, t \in Clock : LocalCreate(d, x, t)
             \/ \E x \in Entity, r \in Row : Rewritten(d, x, r)
             \/ \E s \in Change : ApplyUpsert(d, s)
  BY RowSteps
<1>3. CASE UNCHANGED row
  BY <1>3 DEF Holds
<1>4. ASSUME NEW x \in Entity, NEW t \in Clock, LocalCreate(d, x, t)
      PROVE  (Holds(b, e) => Holds(b, e)') /\ (Holds(b, e)' => Holds(b, e) \/ x = e)
  <2>1. row' = [row EXCEPT ![d][x] = FirstRow(nextMut, t)] /\ FirstRow(nextMut, t).v = 1
    BY <1>4 DEF LocalCreate, Write, FirstRow
  <2> QED BY <1>1, <2>1 DEF Holds
<1>5. ASSUME NEW x \in Entity, NEW r \in Row, Rewritten(d, x, r)
      PROVE  Holds(b, e) <=> Holds(b, e)'
  BY <1>1, <1>5 DEF Rewritten, Holds
<1>6. ASSUME NEW s \in Change, ApplyUpsert(d, s)
      PROVE  (Holds(b, e) => Holds(b, e)') /\ (Holds(b, e)' => Holds(b, e) \/ srv[e].v > 0)
  <2>1. /\ row' = [row EXCEPT ![d][log[s].ent] = log[s].row]
        /\ s \in page[d]
    BY <1>6 DEF ApplyUpsert, First
  <2>2. s \in 1..Len(log)
    BY <1>6, <2>1 DEF Published
  <2>3. log[s] \in Entry
    BY <2>2, ElementOfSeq DEF TypeOK
  <2>4. log[s].ent \in Entity /\ log[s].row.v \in 1..srv[log[s].ent].v /\ srv[log[s].ent].v \in Nat
    BY <2>2, <2>3 DEF LogInv, Entry, TypeOK, Row
  <2> QED BY <1>1, <2>1, <2>4 DEF Holds
<1> QED BY <1>2, <1>3, <1>4, <1>5, <1>6

\* A mutation is issued with the row it creates, or over one the till holds.
LEMMA NewMutation ==
    ASSUME TypeOK, IssuedInv, HeldInv, Next, NEW d \in Device, NEW x \in Mutation, Issues(d, x)
    PROVE  \/ /\ x.op = "create" /\ x.val = nextMut
              /\ \E t \in Clock : x.ts = t /\ LocalCreate(d, x.ent, t)
           \/ /\ x.op # "create" /\ x.ent \notin Journal
              /\ Holds(d, x.ent)
<1>1. /\ nextMut \in Mut /\ nextMut \in Nat /\ mut' = [mut EXCEPT ![nextMut] = x] /\ x.dev = d
      /\ mut \in [Mut -> Mutation]
  BY DEF Issues, TypeOK
<1>2. mut'[nextMut] = x /\ mut[nextMut].dev \notin Device
  BY <1>1 DEF IssuedInv
<1>3. \A y : mut' = [mut EXCEPT ![nextMut] = y] => y = x
  BY <1>1, <1>2
<1>4. PICK b \in Device : Cashier(b) \/ Writing(b) \/ Engine(b) \/ Server(b) \/ Failure(b)
  BY DEF Next
<1>5. ~UNCHANGED mut
  BY <1>1, <1>2
<1>6. Cashier(b)
  <2>1. ~Writing(b)
    BY <1>5 DEF Writing, LocalLevel, Enqueue, CloseConflict, outboxVars
  <2>2. ~Engine(b)
    BY <1>5 DEF Engine, PushNothing, PushBatch, PushDone, AnswerAccepted, AnswerConflict,
       MarkConflict, AnswerRejected, MarkSent, Pull, PageDone, CycleDone, ApplySkip, ApplyStart,
       ApplyUpsert, ApplyLevel, ApplyDefer, outboxVars
  <2>3. ~Server(b)
    BY <1>5 DEF Server, ServerStep, ServeReplay, ServeThrow, ServeCreate, ServeUnknown,
       ServeDeleted, ServeDelete, ServeUpdate, ServeKeep, Commit, tillVars, outboxVars
  <2>4. ~Failure(b)
    BY <1>5 DEF Failure, RequestLost, Crash, Forget, outboxVars
  <2> QED BY <1>4, <2>1, <2>2, <2>3, <2>4
<1>7. ASSUME NEW e \in Entity, NEW t \in Clock, LocalCreate(b, e, t)
      PROVE  /\ x.op = "create" /\ x.val = nextMut /\ x.ts = t /\ LocalCreate(d, x.ent, t)
  <2> DEFINE y == [dev |-> b, ent |-> e, op |-> "create", base |-> 0, fields |-> Field,
                   val |-> nextMut, ts |-> t, saw |-> Absent.val]
  <2>1. /\ mut' = [mut EXCEPT ![nextMut] = y]
        /\ y.dev = b /\ y.ent = e /\ y.op = "create" /\ y.val = nextMut /\ y.ts = t
    BY <1>7 DEF LocalCreate, Write
  <2> HIDE DEF y
  <2>2. y = x
    BY <1>3, <2>1
  <2> QED BY <1>1, <1>7, <2>1, <2>2
<1>8. ASSUME NEW e \in Entity, NEW t \in Clock, NEW F, LocalUpdate(b, e, F, t)
      PROVE  x.op # "create" /\ x.ent \notin Journal /\ Holds(d, x.ent)
  <2> DEFINE y == [dev |-> b, ent |-> e, op |-> "update", base |-> row[b][e].v, fields |-> F,
                   val |-> nextMut, ts |-> t, saw |-> row[b][e].val]
  <2>1. /\ mut' = [mut EXCEPT ![nextMut] = y]
        /\ y.dev = b /\ y.ent = e /\ y.op = "update"
        /\ Editable(b, e)
    BY <1>8 DEF LocalUpdate, Write
  <2> HIDE DEF y
  <2>2. y = x
    BY <1>3, <2>1
  <2> QED BY <1>1, <2>1, <2>2 DEF Editable
<1>9. ASSUME NEW e \in Entity, NEW t \in Clock, LocalDelete(b, e, t)
      PROVE  x.op # "create" /\ x.ent \notin Journal /\ Holds(d, x.ent)
  <2> DEFINE y == [dev |-> b, ent |-> e, op |-> "delete", base |-> row[b][e].v, fields |-> {},
                   val |-> nextMut, ts |-> t, saw |-> row[b][e].val]
  <2>1. /\ mut' = [mut EXCEPT ![nextMut] = y]
        /\ y.dev = b /\ y.ent = e /\ y.op = "delete"
        /\ Editable(b, e)
    BY <1>9 DEF LocalDelete, Write
  <2> HIDE DEF y
  <2>2. y = x
    BY <1>3, <2>1
  <2> QED BY <1>1, <2>1, <2>2 DEF Editable
<1>10. ASSUME NEW m \in Mut, NEW t \in Clock, ResolveLocal(b, m, t)
       PROVE  x.op # "create" /\ x.ent \notin Journal /\ Holds(d, x.ent)
  <2> DEFINE theirs == processed[m].state
             y == [dev |-> b, ent |-> mut[m].ent, op |-> "update", base |-> theirs.v,
                   fields |-> mut[m].fields, val |-> mut[m].val, ts |-> t, saw |-> theirs.val]
  <2>1. /\ mut' = [mut EXCEPT ![nextMut] = y]
        /\ y.dev = b /\ y.ent = mut[m].ent /\ y.op = "update"
        /\ mut[m].dev = b /\ open[m] > 0
    BY <1>10 DEF ResolveLocal, Settles
  <2> HIDE DEF y
  <2>2. y = x
    BY <1>3, <2>1
  <2>3. Holds(b, mut[m].ent) /\ mut[m].ent \notin Journal
    BY <2>1 DEF HeldInv
  <2> QED BY <1>1, <2>1, <2>2, <2>3
<1>11. ~\E m \in Mut : ResolveServer(b, m)
  BY <1>5 DEF ResolveServer, outboxVars
<1> QED BY <1>6, <1>7, <1>8, <1>9, <1>10, <1>11 DEF Cashier

\* What the server stores as the answer of a mutation.
LEMMA StoredAnswer ==
    ASSUME TypeOK, NEW d \in Device, NEW m \in Mut, ServerStep(d, m)
    PROVE  \/ UNCHANGED processed
           \/ \E a \in Answers :
                /\ processed' = [processed EXCEPT ![m] = a]
                /\ a.state # Absent => a.state.v > 0 /\ mut[m].op # "create"
                /\ a.status = "conflict" => a.state # Absent
<1> DEFINE e == mut[m].ent
           cur == srv[e]
<1>1. processed' \in [Mut -> Answers] => \A a : processed' = [processed EXCEPT ![m] = a] => a \in Answers
  BY DEF TypeOK
<1>2. processed' \in [Mut -> Answers]
  BY ServerType DEF TypeOK, Server
<1>3. \A status, state : Answer(status, state).status = status /\ Answer(status, state).state = state
  BY DEF Answer
<1>4. Absent.v = 0 /\ cur.v \in Nat
  BY DEF Absent, TypeOK, Mutation, Row
<1> DEFINE Stored == \E a \in Answers :
                /\ processed' = [processed EXCEPT ![m] = a]
                /\ a.state # Absent => a.state.v > 0 /\ mut[m].op # "create"
                /\ a.status = "conflict" => a.state # Absent
<1>5. ASSUME NEW status, NEW state, processed' = [processed EXCEPT ![m] = Answer(status, state)],
             state = Absent \/ (state.v > 0 /\ mut[m].op # "create"),
             status = "conflict" => state # Absent
      PROVE  Stored
  <2> DEFINE a == Answer(status, state)
  <2>1. a \in Answers /\ a.status = status /\ a.state = state
    BY <1>1, <1>2, <1>3, <1>5
  <2> HIDE DEF a
  <2> QED BY <1>5, <2>1 DEF a
<1> HIDE DEF Stored
<1>6. CASE ServeReplay(d, m) \/ ServeThrow(d, m)
  BY <1>6 DEF ServeReplay, ServeThrow, serverVars
<1>7. CASE ServeCreate(d, m) \/ ServeDelete(d, m) \/ ServeUnknown(d, m)
  <2>1. \E status \in {"applied", "rejected"} :
          processed' = [processed EXCEPT ![m] = Answer(status, Absent)]
    BY <1>7 DEF ServeCreate, ServeDelete, ServeUnknown, Commit
  <2>2. Stored
    BY <1>5, <2>1
  <2> QED BY <2>2 DEF Stored
<1>8. CASE ServeDeleted(d, m)
  <2> DEFINE state == IF mut[m].op = "create" THEN Absent ELSE cur
  <2>1. processed' = [processed EXCEPT ![m] = Answer("ignored", state)] /\ cur.v > 0
    BY <1>8 DEF ServeDeleted, Commit
  <2>2. state = Absent \/ (state.v > 0 /\ mut[m].op # "create")
    BY <2>1
  <2> HIDE DEF state
  <2>3. Stored
    BY <1>5, <2>1, <2>2
  <2> QED BY <2>3 DEF Stored
<1>9. CASE ServeUpdate(d, m)
  <2> DEFINE out == Resolution(m)
             state == [v |-> cur.v + 1, ts |-> mut[m].ts, del |-> FALSE,
                       val |-> [f \in Field |-> IF f \in out.fields THEN mut[m].val ELSE cur.val[f]]]
             status == IF out.kind = "apply" THEN "applied" ELSE "merged"
  <2>1. processed' = [processed EXCEPT ![m] = Answer(status, state)] /\ mut[m].op = "update"
    BY <1>9 DEF ServeUpdate, Commit, Arbitrable
  <2>2. state.v > 0 /\ status # "conflict"
    BY <1>4
  <2> HIDE DEF state, status
  <2>3. Stored
    BY <1>5, <2>1, <2>2
  <2> QED BY <2>3 DEF Stored
<1>10. CASE ServeKeep(d, m)
  <2> DEFINE status == IF Resolution(m).kind = "manual" THEN "conflict" ELSE "ignored"
  <2>1. processed' = [processed EXCEPT ![m] = Answer(status, cur)] /\ mut[m].op = "update" /\ cur.v > 0
    BY <1>10 DEF ServeKeep, Commit, Arbitrable
  <2> HIDE DEF status
  <2>2. cur # Absent
    BY <1>4, <2>1
  <2>3. Stored
    BY <1>5, <2>1, <2>2
  <2> QED BY <2>3 DEF Stored
<1> QED BY <1>6, <1>7, <1>8, <1>9, <1>10 DEF ServerStep

\* A conflict goes on record when its answer is handled.
LEMMA OpenStep ==
    ASSUME TypeOK, TrustInv, Next, NEW m \in Mut, open'[m] > 0
    PROVE  open[m] > 0 \/ processed[m].status = "conflict"
<1>1. PICK d \in Device : Cashier(d) \/ Writing(d) \/ Engine(d) \/ Server(d) \/ Failure(d)
  BY DEF Next
<1>2. open \in [Mut -> Nat]
  BY DEF TypeOK
<1>3. CASE UNCHANGED open
  BY <1>3
<1>4. CASE CloseConflict(d)
  <2>1. open' = [open EXCEPT ![edit[d].closes] =
                  IF open[edit[d].closes] > 0 THEN open[edit[d].closes] - 1 ELSE 0]
    BY <1>4 DEF CloseConflict
  <2> QED BY <1>2, <2>1
<1>5. ASSUME NEW n \in Mut, AnswerConflict(d, n)
      PROVE  open[m] > 0 \/ processed[m].status = "conflict"
  <2>1. open' = [open EXCEPT ![n] = open[n] + 1] /\ reply[n].status = "conflict"
    BY <1>5 DEF AnswerConflict
  <2>2. processed[n].status = "conflict"
    BY <2>1 DEF TrustInv
  <2> QED BY <1>2, <2>1, <2>2
<1>6. CASE Cashier(d)
  BY <1>3, <1>6 DEF Cashier, LocalCreate, LocalUpdate, LocalDelete, Write, ResolveServer, ResolveLocal
<1>7. CASE Writing(d)
  BY <1>3, <1>4, <1>7 DEF Writing, LocalLevel, Enqueue
<1>8. CASE Engine(d)
  BY <1>3, <1>5, <1>8 DEF Engine, PushNothing, PushBatch, PushDone, AnswerAccepted,
     MarkConflict, AnswerRejected, MarkSent, Pull, PageDone, CycleDone, ApplySkip, ApplyStart,
     ApplyUpsert, ApplyLevel, ApplyDefer
<1>9. CASE Server(d)
  BY <1>3, <1>9 DEF Server, ServerStep, ServeReplay, ServeThrow, ServeCreate, ServeUnknown,
     ServeDeleted, ServeDelete, ServeUpdate, ServeKeep, Commit, tillVars
<1>10. CASE Failure(d)
  BY <1>3, <1>10 DEF Failure, RequestLost, Crash, Forget
<1> QED BY <1>1, <1>6, <1>7, <1>8, <1>9, <1>10

\* A row of the server stays, and a new one comes from a mutation a till issued.
LEMMA ServerAfter ==
    ASSUME TypeOK, TypeOK', IssuedInv, LogInv, [Next]_vars, NEW e \in Entity
    PROVE  /\ srv[e].v > 0 => srv'[e].v > 0
           /\ srv'[e].v > 0 => \/ srv[e].v > 0
                               \/ \E m \in Mut : mut[m].dev \in Device /\ mut[m].ent = e
<1>1. CASE UNCHANGED srv
  BY <1>1
<1>2. ASSUME NEW m \in Mut, NEW r \in Row, NEW F \in SUBSET Field,
             Publish(m, r, F), Rewrites(m, r, F), mut[m].dev \in Device
      PROVE  /\ srv[e].v > 0 => srv'[e].v > 0
             /\ srv'[e].v > 0 => srv[e].v > 0 \/ mut[m].ent = e
  <2>1. srv' = [srv EXCEPT ![mut[m].ent] = r] /\ mut[m].ent \in Entity
    BY <1>2 DEF Publish, TypeOK, Mutation
  <2>2. r.v = srv[mut[m].ent].v + 1 /\ srv[mut[m].ent].v \in Nat
    BY <1>2, <2>1 DEF Rewrites, TypeOK, Row
  <2>3. srv'[e] = IF e = mut[m].ent THEN r ELSE srv[e]
    BY <2>1 DEF TypeOK
  <2>4. CASE e = mut[m].ent
    BY <2>2, <2>3, <2>4
  <2>5. CASE e # mut[m].ent
    BY <2>3, <2>5
  <2> QED BY <2>4, <2>5
<1> QED BY <1>1, <1>2, LogWrites

LEMMA HeldStep ==
    ASSUME TypeInv, TypeInv', IssuedInv, LogInv, TrustInv, HeldInv, Next
    PROVE  HeldInv'
<1> USE DEF TypeInv
<1>1. ASSUME NEW m \in Mut, mut[m].dev \in Device
      PROVE  mut'[m] = mut[m]
  BY <1>1, MutationStands
<1>2. \A b \in Device, e \in Entity : Holds(b, e) => Holds(b, e)'
  BY HoldsAfter
<1>3. /\ mut \in [Mut -> Mutation] /\ mut' \in [Mut -> Mutation]
      /\ \A m \in Mut : mut[m].ent \in Entity
  BY DEF TypeOK, Mutation
<1>4. \A m \in Mut : mut'[m].dev \in Device =>
        Holds(mut[m].dev, mut[m].ent)' /\ (mut'[m].op # "create" => mut'[m].ent \notin Journal)
  <2>1. SUFFICES ASSUME NEW m \in Mut, mut'[m].dev \in Device
                 PROVE  /\ Holds(mut[m].dev, mut[m].ent)'
                        /\ mut'[m].op # "create" => mut'[m].ent \notin Journal
    OBVIOUS
  <2>2. CASE mut[m].dev \in Device
    <3>1. mut'[m] = mut[m]
      BY <1>1, <2>2
    <3>2. Holds(mut[m].dev, mut[m].ent) /\ (mut[m].op # "create" => mut[m].ent \notin Journal)
      BY <2>2 DEF HeldInv
    <3>3. Holds(mut[m].dev, mut[m].ent)'
      <4>1. PICK d \in Device, e \in Entity : d = mut[m].dev /\ e = mut[m].ent
        BY <1>3, <2>2
      <4>2. Holds(d, e)'
        BY <1>2, <3>2, <4>1
      <4> QED BY <3>1, <4>1, <4>2 DEF Holds
    <3> QED BY <3>1, <3>2, <3>3 DEF Holds
  <2>3. ASSUME mut[m].dev \notin Device, NEW d \in Device, NEW x \in Mutation, Issues(d, x)
        PROVE  /\ Holds(mut[m].dev, mut[m].ent)'
               /\ mut'[m].op # "create" => mut'[m].ent \notin Journal
    <3>1. m = nextMut /\ mut'[m] = x /\ x.dev = d
      BY <1>3, <2>1, <2>3 DEF Issues
    <3>2. x.ent \in Entity
      BY DEF Mutation
    <3>3. x.op # "create" => x.ent \notin Journal
      BY <2>3, NewMutation
    <3>4. Holds(d, x.ent)'
      <4>1. CASE Holds(d, x.ent)
        BY <1>2, <3>2, <4>1
      <4>2. ASSUME NEW t \in Clock, LocalCreate(d, x.ent, t)
            PROVE  Holds(d, x.ent)'
        <5>1. row' = [row EXCEPT ![d][x.ent] = FirstRow(nextMut, t)] /\ FirstRow(nextMut, t).v = 1
          BY <4>2 DEF LocalCreate, Write, FirstRow
        <5>2. row'[d][x.ent].v = 1
          BY <3>2, <5>1 DEF TypeOK
        <5> QED BY <5>2 DEF Holds
      <4> QED BY <2>3, <4>1, <4>2, NewMutation
    <3> QED BY <3>1, <3>3, <3>4 DEF Holds
  <2> QED BY <2>1, <2>2, <2>3, StepKinds
<1>5. \A m \in Mut : /\ processed'[m].state # Absent =>
                          processed'[m].state.v > 0 /\ mut'[m].op # "create"
                     /\ processed'[m].status = "conflict" => processed'[m].state # Absent
  <2>0. NoAnswer.state = Absent
    BY DEF NoAnswer, Answer
  <2>1. ASSUME NEW m \in Mut, processed'[m] = processed[m]
        PROVE  /\ processed'[m].state # Absent =>
                    processed'[m].state.v > 0 /\ mut'[m].op # "create"
               /\ processed'[m].status = "conflict" => processed'[m].state # Absent
    <3>1. processed[m].state # Absent => mut'[m] = mut[m]
      BY <1>1, <2>0 DEF IssuedInv
    <3> QED BY <2>1, <3>1 DEF HeldInv
  <2>2. ASSUME NEW d \in Device, NEW m \in Mut, ServerStep(d, m), UNCHANGED mut, NEW n \in Mut
        PROVE  /\ processed'[n].state # Absent =>
                    processed'[n].state.v > 0 /\ mut'[n].op # "create"
               /\ processed'[n].status = "conflict" => processed'[n].state # Absent
    <3>1. CASE UNCHANGED processed
      BY <2>1, <3>1
    <3>2. ASSUME NEW a \in Answers,
                 processed' = [processed EXCEPT ![m] = a],
                 a.state # Absent => a.state.v > 0 /\ mut[m].op # "create",
                 a.status = "conflict" => a.state # Absent
          PROVE  /\ processed'[n].state # Absent =>
                      processed'[n].state.v > 0 /\ mut'[n].op # "create"
                 /\ processed'[n].status = "conflict" => processed'[n].state # Absent
      <4>1. processed'[n] = IF n = m THEN a ELSE processed[n]
        BY <3>2 DEF TypeOK
      <4> QED BY <2>1, <2>2, <3>2, <4>1
    <3> QED BY <2>2, <3>1, <3>2, StoredAnswer
  <2>3. CASE UNCHANGED serverVars
    BY <2>1, <2>3 DEF serverVars
  <2>4. CASE UNCHANGED mut /\ \E d \in Device, m \in Mut : ServerStep(d, m)
    BY <2>2, <2>4
  <2> QED BY <2>3, <2>4, StepKinds DEF Issues, serverVars
<1>6. \A m \in Mut : open'[m] > 0 => processed'[m].status = "conflict"
  <2>1. SUFFICES ASSUME NEW m \in Mut, open'[m] > 0
                 PROVE  processed'[m].status = "conflict"
    OBVIOUS
  <2>2. processed[m].status = "conflict"
    BY <2>1, OpenStep DEF HeldInv
  <2> QED BY <2>2, AnswerStands
<1>7. \A e \in Entity : srv'[e].v > 0 \/ (\E b \in Device : Holds(b, e)') =>
         IsSeeded(e) \/ \E m \in Mut : mut'[m].dev \in Device /\ mut'[m].ent = e
  <2>1. SUFFICES ASSUME NEW e \in Entity, srv'[e].v > 0 \/ (\E b \in Device : Holds(b, e)')
                 PROVE  IsSeeded(e) \/ \E m \in Mut : mut'[m].dev \in Device /\ mut'[m].ent = e
    OBVIOUS
  <2>2. (\E m \in Mut : mut[m].dev \in Device /\ mut[m].ent = e)
           => \E m \in Mut : mut'[m].dev \in Device /\ mut'[m].ent = e
    BY <1>1
  <2>3. CASE srv[e].v > 0 \/ \E b \in Device : Holds(b, e)
    BY <2>2, <2>3 DEF HeldInv
  <2>4. CASE srv'[e].v > 0
    BY <2>2, <2>3, <2>4, ServerAfter
  <2>5. ASSUME NEW b \in Device, Holds(b, e)'
        PROVE  IsSeeded(e) \/ \E m \in Mut : mut'[m].dev \in Device /\ mut'[m].ent = e
    <3>1. CASE Holds(b, e) \/ srv[e].v > 0
      BY <2>3, <3>1
    <3>2. ASSUME NEW d \in Device, NEW t \in Clock, LocalCreate(d, e, t)
          PROVE  \E m \in Mut : mut'[m].dev \in Device /\ mut'[m].ent = e
      <4> DEFINE y == [dev |-> d, ent |-> e, op |-> "create", base |-> 0, fields |-> Field,
                       val |-> nextMut, ts |-> t, saw |-> Absent.val]
      <4>1. mut' = [mut EXCEPT ![nextMut] = y] /\ y.dev = d /\ y.ent = e /\ nextMut <= MaxMut
        BY <3>2 DEF LocalCreate, Write
      <4> HIDE DEF y
      <4>2. nextMut \in Mut
        BY <4>1, SyncAssumption DEF TypeOK, Mut
      <4> QED BY <1>3, <4>1, <4>2
    <3> QED BY <2>5, <3>1, <3>2, HoldsAfter
  <2> QED BY <2>1, <2>4, <2>5
<1>8. \A e \in Entity : IsSeeded(e) => srv'[e].v > 0
  BY ServerAfter DEF HeldInv
<1> QED BY <1>4, <1>5, <1>6, <1>7, <1>8 DEF HeldInv, Holds

LEMMA HeldInit == Init => HeldInv
<1> SUFFICES ASSUME Init PROVE HeldInv
  OBVIOUS
<1>1. \A m \in Mut : mut[m].dev \notin Device
  BY SyncAssumption DEF Init, Unissued, Nobody
<1>2. \A m \in Mut : processed[m].state = Absent /\ processed[m].status # "conflict" /\ ~(open[m] > 0)
  BY DEF Init, NoAnswer, Answer
<1>3. \A e \in Entity : srv[e] = SeedRow(e) /\ \A b \in Device : row[b][e] = SeedRow(e)
  BY DEF Init
<1>4. \A e \in Entity : SeedRow(e).v > 0 <=> IsSeeded(e)
  BY DEF SeedRow, Seed, Absent
<1> QED BY <1>1, <1>2, <1>3, <1>4 DEF HeldInv, Holds

-----------------------------------------------------------------------------
(* The tables implement CausalRows.                                         *)

\* Everything the results on the rows rest on.
SpreadInv == RowsInv /\ TrustInv /\ HeldInv

LEMMA SpreadInit == Init => SpreadInv
BY RowsInvInit, TrustInit, HeldInit DEF SpreadInv

LEMMA SpreadStep == SpreadInv /\ [Next]_vars => SpreadInv'
<1> SUFFICES ASSUME SpreadInv, [Next]_vars PROVE SpreadInv'
  OBVIOUS
<1>1. RowsInv /\ RowsInv'
  BY RowsInvStep DEF SpreadInv
<1>2. TypeInv /\ TypeInv' /\ TypeOK /\ TypeOK' /\ IssuedInv /\ LogInv
  BY <1>1 DEF RowsInv, TypeInv
<1>3. TrustInv'
  BY <1>2, TrustStep DEF SpreadInv
<1>4. CASE UNCHANGED vars
  <2>1. HeldInv'
    BY <1>4 DEF vars, serverVars, outboxVars, replicaVars, SpreadInv, HeldInv, Holds
  <2> QED BY <1>1, <1>3, <2>1 DEF SpreadInv
<1>5. CASE Next
  BY <1>1, <1>2, <1>3, <1>5, HeldStep DEF SpreadInv
<1> QED BY <1>4, <1>5

\* A step of the protocol is a step of CausalRows or leaves its rows alone: a till
\* records a row nobody has, the server accepts one with those it references, or
\* one of the server's reaches a till that has them.
LEMMA StepSpreads ==
    ASSUME SpreadInv, SpreadInv', Next
    PROVE  [Rows!Next]_(Rows!rowVars)
<1> DEFINE Taken == {e \in Entity : srv[e].v > 0}
           Held(b)   == {e \in Entity : Holds(b, e)}
<1>1. TypeOK /\ TypeOK' /\ TypeInv /\ IssuedInv /\ LogInv /\ TrustInv /\ HeldInv
  BY DEF SpreadInv, RowsInv, TypeInv
<1>2. /\ row \in [Device -> [Entity -> Row]]
      /\ srv \in [Entity -> Row]
      /\ \A e \in Entity : srv[e].v \in Nat
  BY <1>1 DEF TypeOK, Row
<1>3. CASE UNCHANGED row
  <2>1. CASE UNCHANGED srv
    BY <1>3, <2>1 DEF Rows!rowVars, Holds
  <2>2. ASSUME NEW m \in Mut, NEW r \in Row, NEW F \in SUBSET Field,
               Publish(m, r, F), Rewrites(m, r, F), mut[m].dev \in Device
        PROVE  [Rows!Next]_(Rows!rowVars)
    <3> DEFINE e == mut[m].ent
    <3>1. srv' = [srv EXCEPT ![e] = r] /\ e \in Entity
      BY <1>1, <2>2 DEF Publish, TypeOK, Mutation
    <3>2. r.v = srv[e].v + 1
      BY <2>2 DEF Rewrites
    <3>3. Taken' = Taken \cup {e}
      BY <1>2, <3>1, <3>2
    <3>4. CASE srv[e].v > 0
      <4>1. Taken' = Taken
        BY <3>1, <3>3, <3>4
      <4> QED BY <1>3, <4>1 DEF Rows!rowVars, Holds
    <3>5. CASE srv[e].v = 0
      <4>1. Needs[e] \subseteq Taken
        BY <2>2, <3>1, <3>5, SyncAssumption DEF Rewrites
      <4>2. \E d \in Device : e \in Held(d)
        BY <1>1, <2>2, <3>1 DEF HeldInv
      <4>3. ASSUME NEW x \in Entity, x = e PROVE Rows!Accept(x)
        BY <1>3, <3>1, <3>3, <4>1, <4>2, <4>3 DEF Rows!Accept, Holds
      <4> HIDE DEF e
      <4>4. \E x \in Entity : Rows!Accept(x)
        BY <3>1, <4>3
      <4> QED BY <4>4 DEF Rows!Next
    <3> QED BY <1>2, <3>1, <3>4, <3>5
  <2> QED BY <1>1, <2>1, <2>2, LogWrites
<1>4. ASSUME NEW d \in Device, NEW e \in Entity, NEW t \in Clock, LocalCreate(d, e, t)
      PROVE  [Rows!Next]_(Rows!rowVars)
  <2>1. /\ row' = [row EXCEPT ![d][e] = FirstRow(nextMut, t)] /\ FirstRow(nextMut, t).v = 1
        /\ srv[e].v = 0 /\ UNCHANGED srv
        /\ NeedsMet(d, e)
        /\ \A m \in Issued : mut[m].ent # e
    BY <1>4 DEF LocalCreate, Write, FirstRow, serverVars
  <2>2. \A b \in Device : ~Holds(b, e)
    <3>1. ~IsSeeded(e)
      BY <1>1, <2>1 DEF HeldInv
    <3>2. \A m \in Mut : mut[m].dev \in Device => m \in Issued
      BY <1>1 DEF IssuedInv, Issued, TypeOK, Mut
    <3> QED BY <1>1, <2>1, <3>1, <3>2 DEF HeldInv
  <2>3. Held(d)' = Held(d) \cup {e} /\ \A b \in Device : b # d => Held(b)' = Held(b)
    BY <1>2, <2>1 DEF Holds
  <2>4. Needs[e] \subseteq Held(d)
    BY <2>1, SyncAssumption DEF NeedsMet
  <2>5. e \notin Taken /\ Taken' = Taken
    BY <2>1
  <2>6. Rows!Record(d, e)
    <3> HIDE DEF Held
    <3>1. [b \in Device |-> Held(b)]' = [[b \in Device |-> Held(b)] EXCEPT ![d] = @ \cup {e}]
      BY <2>3
    <3> QED BY <2>2, <2>4, <2>5, <3>1 DEF Rows!Record, Held
  <2> QED BY <2>6 DEF Rows!Next
<1>5. ASSUME NEW d \in Device, NEW e \in Entity, NEW r \in Row, Rewritten(d, e, r)
      PROVE  [Rows!Next]_(Rows!rowVars)
  <2>1. \A b \in Device, x \in Entity : Holds(b, x)' <=> Holds(b, x)
    BY <1>2, <1>5 DEF Rewritten, Holds
  <2> QED BY <1>5, <2>1 DEF Rewritten, Rows!rowVars, serverVars, Holds
<1>6. ASSUME NEW d \in Device, NEW s \in Change, ApplyUpsert(d, s)
      PROVE  [Rows!Next]_(Rows!rowVars)
  <2> DEFINE e == log[s].ent
  <2>1. /\ row' = [row EXCEPT ![d][e] = log[s].row]
        /\ s \in page[d] /\ NeedsMet(d, e) /\ UNCHANGED srv
    BY <1>6 DEF ApplyUpsert, First, serverVars
  <2>2. s \in 1..Len(log)
    BY <1>1, <2>1 DEF TypeInv, Published
  <2>3. log[s] \in Entry
    BY <1>1, <2>2, ElementOfSeq DEF TypeOK
  <2>4. e \in Entity /\ log[s].row.v \in 1..srv[e].v
    BY <1>1, <2>2, <2>3 DEF LogInv, Entry
  <2>5. srv[e].v > 0 /\ log[s].row.v > 0
    BY <1>2, <2>4
  <2> HIDE DEF e
  <2>6. Held(d)' = Held(d) \cup {e} /\ \A b \in Device : b # d => Held(b)' = Held(b)
    BY <1>2, <2>1, <2>4, <2>5 DEF Holds
  <2>7. Needs[e] \subseteq Held(d)
    BY <2>1, <2>4, SyncAssumption DEF NeedsMet
  <2>8. Rows!Deliver(d, e)
    <3> HIDE DEF Held
    <3>1. [b \in Device |-> Held(b)]' = [[b \in Device |-> Held(b)] EXCEPT ![d] = @ \cup {e}]
      BY <2>6
    <3> QED BY <2>1, <2>4, <2>5, <2>7, <3>1 DEF Rows!Deliver, Held
  <2> QED BY <2>4, <2>8 DEF Rows!Next
<1> QED BY <1>1, <1>3, <1>4, <1>5, <1>6, RowSteps

\* The tables of the server and of the tills implement CausalRows, whatever is
\* lost, put aside or sent again.
THEOREM RowsSpreadCorrect == Spec => RowsSpread
<1>1. Init => Rows!Init
  BY DEF Init, Rows!Init, SeedRow, Seed, Absent, Holds
<1>2. SpreadInv /\ SpreadInv' /\ [Next]_vars => [Rows!Next]_(Rows!rowVars)
  <2>1. UNCHANGED vars => UNCHANGED Rows!rowVars
    BY DEF vars, serverVars, replicaVars, Rows!rowVars, Holds
  <2> QED BY <2>1, StepSpreads
<1> QED BY <1>1, <1>2, SpreadInit, SpreadStep, PTL DEF Spec, RowsSpread, Rows!Spec

\* No step of CausalRows breaks its promise.
LEMMA NoOrphanStep == Rows!NoOrphan /\ [Rows!Next]_(Rows!rowVars) => Rows!NoOrphan'
<1> DEFINE At      == {e \in Entity : srv[e].v > 0}
           Held(b) == {e \in Entity : Holds(b, e)}
           Closed(S) == \A e \in S : Needs[e] \subseteq S
<1>1. Rows!NoOrphan <=> Closed(At) /\ \A b \in Device : Closed(Held(b))
  BY DEF Rows!NoOrphan
<1>2. Rows!NoOrphan' <=> Closed(At)' /\ \A b \in Device : Closed(Held(b))'
  BY DEF Rows!NoOrphan
<1>3. ASSUME NEW S, NEW e, Closed(S), Needs[e] \subseteq S
      PROVE  Closed(S \cup {e})
  BY <1>3
<1>4. CASE UNCHANGED Rows!rowVars
  <2>1. At' = At /\ \A b \in Device : Held(b)' = Held(b)
    BY <1>4 DEF Rows!rowVars
  <2> HIDE DEF At, Held
  <2> QED BY <1>1, <1>2, <2>1
<1>5. ASSUME NEW e \in Entity, Closed(At), \A b \in Device : Closed(Held(b)), Rows!Accept(e)
      PROVE  Closed(At)' /\ \A b \in Device : Closed(Held(b))'
  <2>1. At' = At \cup {e} /\ Needs[e] \subseteq At /\ \A b \in Device : Held(b)' = Held(b)
    BY <1>5 DEF Rows!Accept
  <2> HIDE DEF At, Held
  <2> QED BY <1>3, <1>5, <2>1
<1>6. ASSUME NEW e \in Entity, NEW d \in Device,
             Closed(At), \A b \in Device : Closed(Held(b)),
             Rows!Record(d, e) \/ Rows!Deliver(d, e)
      PROVE  Closed(At)' /\ \A b \in Device : Closed(Held(b))'
  <2>1. /\ At' = At /\ Needs[e] \subseteq Held(d)
        /\ [b \in Device |-> Held(b)]' = [[b \in Device |-> Held(b)] EXCEPT ![d] = @ \cup {e}]
    BY <1>6 DEF Rows!Record, Rows!Deliver
  <2> HIDE DEF At, Held
  <2>2. Held(d)' = Held(d) \cup {e} /\ \A b \in Device : b # d => Held(b)' = Held(b)
    BY <2>1
  <2> QED BY <1>3, <1>6, <2>1, <2>2
<1> QED BY <1>1, <1>2, <1>4, <1>5, <1>6 DEF Rows!Next

\* If what is there at the start is closed, no database ever holds a row without
\* those it references: what the foreign keys of both databases rest on, across
\* lost answers, crashes, conflicts and pages cut anywhere.
THEOREM NoOrphanCorrect ==
    ASSUME \A e \in Entity : IsSeeded(e) => \A n \in Needs[e] : IsSeeded(n)
    PROVE  Spec => []Rows!NoOrphan
<1>1. Rows!Init => Rows!NoOrphan
  BY SyncAssumption DEF Rows!Init, Rows!NoOrphan
<1> QED BY <1>1, NoOrphanStep, RowsSpreadCorrect, PTL DEF RowsSpread, Rows!Spec

-----------------------------------------------------------------------------
(* The rows of the journal.                                                 *)

\* A journal row is written by one mutation, and is what it wrote wherever it is.
FirstWritten(m) == FirstRow(mut[m].val, mut[m].ts)
OneAuthor ==
    \A m, n \in Mut : mut[m].dev \in Device /\ mut[n].dev \in Device /\ mut[m].ent \in Journal
                      /\ mut[m].ent = mut[n].ent => m = n
SameEverywhere ==
    \A m \in Mut : mut[m].dev \in Device /\ mut[m].ent \in Journal =>
        /\ srv[mut[m].ent].v > 0 => srv[mut[m].ent] = FirstWritten(m)
        /\ \A d \in Device : Holds(d, mut[m].ent) => row[d][mut[m].ent] = FirstWritten(m)

\* A till counts a journal row after it has written it, and once: as its author,
\* or on applying the change it was sent.
Uncounted(d, e) == e \in Journal /\ Holds(d, e) /\ level[d][e] = 0
CountedAt(d) ==
    /\ \A e \in Journal : level[d][e] <= row[d][e].v
    /\ edit[d].bump => edit[d].mut # 0 /\ Uncounted(d, mut[edit[d].mut].ent)
    /\ \A s \in Change : First(page[d], s) =>
         /\ pc[d] = "upsert" /\ log[s].ent \in Journal => ~Holds(d, log[s].ent)
         /\ pc[d] = "level" => Uncounted(d, log[s].ent)
CountedOnce == \A d \in Device : CountedAt(d)

\* Nothing is passed over: of the entries up to a cursor, or up to the end of the
\* page being gone through, the till holds the row, or the change itself.
PutAside(d, s) == s \in Change /\ deferred[d][s] > 0
Passed(d, n, P) ==
    \A s \in 1..Len(log) :
        s <= n /\ log[s].ent \in Journal /\ log[s].dev # d
            => s \in P \/ Holds(d, log[s].ent) \/ PutAside(d, s)
PassedAt(d) ==
    /\ \A s \in Change : s \in page[d] \/ PutAside(d, s) => log[s].dev # d
    /\ cursor[d] <= Len(log) /\ upto[d] <= Len(log)
    /\ Passed(d, cursor[d], {})
    /\ pc[d] \in {"apply", "upsert", "level"} /\ ~replaying[d] => Passed(d, upto[d], page[d])
NothingPassed == \A d \in Device : PassedAt(d)

\* What no mutation published was there at the start, and stands first.
SeededFirst ==
    \A i \in 1..Len(log) : log[i].mut = 0 => i <= Len(Seeded) /\ log[i].ent \notin Journal

JournalInv == OneAuthor /\ SameEverywhere /\ CountedOnce /\ NothingPassed /\ SeededFirst

\* What was logged stays as it was.
LEMMA LogStays ==
    ASSUME TypeOK, TypeOK', IssuedInv, [Next]_vars
    PROVE  /\ Len(log) \in Nat /\ Len(log') \in Nat /\ Len(log) <= Len(log')
           /\ \A i \in 1..Len(log) : i \in 1..Len(log') /\ log'[i] = log[i]
<1>1. Len(log) \in Nat
  BY LenProperties DEF TypeOK
<1>2. CASE UNCHANGED log
  BY <1>1, <1>2
<1>3. ASSUME NEW m \in Mut, NEW r \in Row, NEW F \in SUBSET Field, Publish(m, r, F)
      PROVE  /\ Len(log') \in Nat /\ Len(log) <= Len(log')
             /\ \A i \in 1..Len(log) : i \in 1..Len(log') /\ log'[i] = log[i]
  BY <1>1, <1>3, LogAfter
<1> QED BY <1>1, <1>2, <1>3, LogWrites

\* What an entry is made of.
LEMMA LogTypes ==
    ASSUME TypeOK, NEW i \in 1..Len(log)
    PROVE  /\ log[i].ent \in Entity /\ log[i].row \in Row /\ log[i].mut \in 0..MaxMut
           /\ log[i].dev \in Nat
<1>1. log[i] \in Entry
  BY ElementOfSeq DEF TypeOK
<1> QED BY <1>1 DEF Entry

\* A journal row keeps its one author: nobody writes a row that exists anew.
LEMMA AuthorStep ==
    ASSUME TypeOK, IssuedInv, HeldInv, OneAuthor, Next
    PROVE  OneAuthor'
<1>1. CASE UNCHANGED mut
  BY <1>1 DEF OneAuthor
<1>2. ASSUME NEW d \in Device, NEW x \in Mutation, Issues(d, x)
      PROVE  OneAuthor'
  <2>1. /\ nextMut \in Mut /\ nextMut \in Nat
        /\ \A k \in Mut : mut'[k] = IF k = nextMut THEN x ELSE mut[k]
    BY <1>2 DEF Issues, TypeOK
  <2>2. ASSUME NEW k \in Mut, k # nextMut, mut[k].dev \in Device, mut[k].ent = x.ent
        PROVE  x.ent \notin Journal
    <3>1. k \in Issued
      BY <2>1, <2>2, SyncAssumption DEF IssuedInv, Issued, Mut
    <3>2. ~\E t \in Clock : LocalCreate(d, x.ent, t)
      BY <2>2, <3>1 DEF LocalCreate
    <3> QED BY <1>2, <3>2, NewMutation
  <2> QED BY <2>1, <2>2 DEF OneAuthor
<1> QED BY <1>1, <1>2, StepKinds

\* The author of an entry of the journal.
LEMMA EntryAuthor ==
    ASSUME TypeOK, IssuedInv, SeededFirst, NEW i \in 1..Len(log), log[i].ent \in Journal
    PROVE  /\ log[i].mut \in Mut
           /\ mut[log[i].mut].dev \in Device /\ mut[log[i].mut].ent = log[i].ent
           /\ log[i].dev = mut[log[i].mut].dev
<1>1. log[i].mut # 0
  BY DEF SeededFirst
<1>2. log[i].mut \in Mut
  BY <1>1, LogTypes, SyncAssumption DEF Mut
<1> QED BY <1>1, <1>2 DEF IssuedInv

\* An entry of the journal bears the row its author wrote.
LEMMA EntryRow ==
    ASSUME TypeOK, IssuedInv, LogInv, SameEverywhere, SeededFirst,
           NEW i \in 1..Len(log), log[i].ent \in Journal
    PROVE  log[i].row = FirstWritten(log[i].mut) /\ srv[log[i].ent].v = 1
<1>1. /\ log[i].mut \in Mut
      /\ mut[log[i].mut].dev \in Device /\ mut[log[i].mut].ent = log[i].ent
  BY EntryAuthor
<1>2. log[i].row.v \in 1..srv[log[i].ent].v /\ srv[log[i].ent].v \in Nat
  BY LogTypes DEF LogInv, TypeOK, Row
<1>3. FirstWritten(log[i].mut).v = 1
  BY DEF FirstWritten, FirstRow
<1>4. srv[log[i].ent] = FirstWritten(log[i].mut)
  BY <1>1, <1>2 DEF SameEverywhere
<1> QED BY <1>2, <1>3, <1>4 DEF LogInv

\* The server and the tills take a journal row from its author's mutation.
LEMMA SameStep ==
    ASSUME TypeInv, TypeInv', IssuedInv, LogInv, TrustInv, HeldInv, OneAuthor, OneAuthor',
           SameEverywhere, SeededFirst, Next
    PROVE  SameEverywhere'
<1> USE DEF TypeInv
<1> SUFFICES ASSUME NEW m \in Mut, mut'[m].dev \in Device, mut'[m].ent \in Journal
             PROVE  /\ srv'[mut'[m].ent].v > 0 => srv'[mut'[m].ent] = FirstWritten(m)'
                    /\ \A d \in Device : Holds(d, mut[m].ent)'
                                             => row'[d][mut'[m].ent] = FirstWritten(m)'
  BY DEF SameEverywhere
<1> DEFINE e == mut'[m].ent
<1>1. /\ e \in Entity /\ e \in Journal
      /\ row \in [Device -> [Entity -> Row]] /\ mut \in [Mut -> Mutation]
  BY DEF TypeOK, Mutation
<1>2. ASSUME mut[m].dev \in Device
      PROVE  mut'[m] = mut[m] /\ FirstWritten(m)' = FirstWritten(m)
  BY <1>2, MutationStands DEF FirstWritten
<1>3. ASSUME mut[m].dev \notin Device
      PROVE  /\ m = nextMut /\ FirstWritten(m)' = FirstRow(mut'[m].val, mut'[m].ts)
             /\ UNCHANGED <<srv, log>>
             /\ \E d \in Device, t \in Clock :
                  LocalCreate(d, e, t) /\ FirstWritten(m)' = FirstRow(nextMut, t)
  <2>1. PICK d \in Device, x \in Mutation : Issues(d, x)
    BY <1>3, StepKinds
  <2>2. m = nextMut /\ mut'[m] = x
    BY <1>1, <1>3, <2>1 DEF Issues
  <2>3. PICK t \in Clock : x.op = "create" /\ x.val = nextMut /\ x.ts = t /\ LocalCreate(d, x.ent, t)
    BY <1>1, <2>1, <2>2, NewMutation
  <2> QED BY <2>1, <2>2, <2>3 DEF Issues, FirstWritten, serverVars
<1>4. srv'[e].v > 0 => srv'[e] = FirstWritten(m)'
  <2>1. CASE mut[m].dev \notin Device
    <3>1. PICK b \in Device, t \in Clock : LocalCreate(b, e, t)
      BY <1>3, <2>1
    <3>2. srv[e].v = 0
      BY <3>1 DEF LocalCreate
    <3> QED BY <1>3, <2>1, <3>2
  <2>2. CASE mut[m].dev \in Device /\ srv' = srv
    BY <1>1, <1>2, <2>2 DEF SameEverywhere
  <2>3. ASSUME mut[m].dev \in Device, NEW k \in Mut, NEW r \in Row, NEW F \in SUBSET Field,
               Publish(k, r, F), Rewrites(k, r, F), mut[k].dev \in Device, UNCHANGED mut
        PROVE  srv'[e].v > 0 => srv'[e] = FirstWritten(m)'
    <3>1. srv' = [srv EXCEPT ![mut[k].ent] = r] /\ srv[mut[k].ent].v \in Nat
      BY <2>3 DEF Publish, TypeOK, Mutation, Row
    <3>2. CASE mut[k].ent # e
      BY <1>1, <1>2, <2>3, <3>1, <3>2 DEF SameEverywhere, TypeOK
    <3>3. CASE mut[k].ent = e
      <4>1. k = m
        BY <1>1, <1>2, <2>3, <3>3 DEF OneAuthor
      <4>2. mut[k].op = "create"
        BY <1>1, <2>3, <3>3 DEF HeldInv
      <4>3. r = FirstWritten(m)
        BY <2>3, <3>1, <4>1, <4>2 DEF Rewrites, FirstWritten
      <4> QED BY <1>1, <1>2, <2>3, <3>1, <3>3, <4>3 DEF TypeOK
    <3> QED BY <3>2, <3>3
  <2> QED BY <2>1, <2>2, <2>3, LogWrites
<1>5. ASSUME NEW d \in Device, Holds(d, mut[m].ent)', row'[d][e] = row[d][e], Holds(d, e)
      PROVE  row'[d][e] = FirstWritten(m)'
  <2>1. mut[m].dev \in Device
    <3>1. SUFFICES ASSUME mut[m].dev \notin Device PROVE FALSE
      OBVIOUS
    <3>2. PICK b \in Device, t \in Clock : LocalCreate(b, e, t)
      BY <1>3, <3>1
    <3>3. srv[e].v = 0 /\ \A k \in Issued : mut[k].ent # e
      BY <3>2 DEF LocalCreate
    <3>4. PICK k \in Mut : mut[k].dev \in Device /\ mut[k].ent = e
      BY <1>1, <1>5, <3>3 DEF HeldInv
    <3>5. k < nextMut
      BY <3>4 DEF IssuedInv
    <3>7. nextMut \in Nat
      BY SyncAssumption DEF TypeOK
    <3>6. k \in Issued
      BY <3>5, <3>7, SyncAssumption DEF Issued, Mut
    <3> QED BY <3>3, <3>4, <3>6
  <2> QED BY <1>1, <1>2, <1>5, <2>1 DEF SameEverywhere
<1>6. ASSUME NEW d \in Device, Holds(d, mut[m].ent)'
      PROVE  row'[d][e] = FirstWritten(m)'
  <2>0. row'[d][e].v > 0
    BY <1>6 DEF Holds
  <2>1. CASE row'[d][e] = row[d][e]
    BY <1>5, <1>6, <2>0, <2>1 DEF Holds
  <2>2. ASSUME NEW b \in Device, NEW x \in Entity, NEW t \in Clock, LocalCreate(b, x, t)
        PROVE  row'[d][e] = row[d][e] \/ row'[d][e] = FirstWritten(m)'
    <3> DEFINE y == [dev |-> b, ent |-> x, op |-> "create", base |-> 0, fields |-> Field,
                     val |-> nextMut, ts |-> t, saw |-> Absent.val]
    <3>1. /\ row' = [row EXCEPT ![b][x] = FirstRow(nextMut, t)]
          /\ mut' = [mut EXCEPT ![nextMut] = y]
          /\ nextMut <= MaxMut
          /\ y.dev = b /\ y.ent = x /\ y.val = nextMut /\ y.ts = t
      BY <2>2 DEF LocalCreate, Write
    <3> HIDE DEF y
    <3>2. nextMut \in Mut
      BY <3>1, SyncAssumption DEF TypeOK, Mut
    <3>3. mut'[nextMut] = y
      BY <1>1, <3>1, <3>2
    <3>4. x = e => m = nextMut
      BY <1>1, <3>1, <3>2, <3>3 DEF OneAuthor
    <3>5. x = e => FirstWritten(m)' = FirstRow(nextMut, t)
      BY <3>1, <3>3, <3>4 DEF FirstWritten
    <3> QED BY <1>1, <3>1, <3>5
  <2>3. ASSUME NEW b \in Device, NEW x \in Entity, NEW r \in Row, Rewritten(b, x, r)
        PROVE  row'[d][e] = row[d][e]
    BY <1>1, <2>3 DEF Rewritten
  <2>4. ASSUME NEW b \in Device, NEW s \in Change, ApplyUpsert(b, s)
        PROVE  row'[d][e] = row[d][e] \/ row'[d][e] = FirstWritten(m)'
    <3>1. /\ row' = [row EXCEPT ![b][log[s].ent] = log[s].row]
          /\ s \in page[b] /\ UNCHANGED mut
      BY <2>4 DEF ApplyUpsert, First, outboxVars
    <3>2. s \in 1..Len(log)
      BY <3>1 DEF Published
    <3>3. CASE log[s].ent = e
      <4>1. log[s].mut = m /\ log[s].row = FirstWritten(log[s].mut)
        BY <1>1, <3>1, <3>2, <3>3, EntryAuthor, EntryRow DEF OneAuthor
      <4> QED BY <1>1, <3>1, <4>1 DEF FirstWritten
    <3> QED BY <1>1, <3>1, <3>3
  <2> QED BY <2>1, <2>2, <2>3, <2>4, RowSteps
<1> QED BY <1>4, <1>6

\* A step is of one till: the others keep their tables and their engine's memory.
Untouched(d) ==
    /\ row'[d] = row[d] /\ level'[d] = level[d] /\ edit'[d] = edit[d]
    /\ pc'[d] = pc[d] /\ page'[d] = page[d] /\ deferred'[d] = deferred[d]
    /\ cursor'[d] = cursor[d] /\ upto'[d] = upto[d] /\ replaying'[d] = replaying[d]

\* A step of a till, or of the server for it, leaves the others as they are.
LEMMA OthersKeep ==
    ASSUME TypeOK, NEW d \in Device,
           Cashier(d) \/ Writing(d) \/ Engine(d) \/ Server(d) \/ Failure(d),
           NEW b \in Device, b # d
    PROVE  Untouched(b)
<1> USE DEF Untouched, replicaVars, pullVars
<1>0. /\ row \in [Device -> [Entity -> Row]] /\ level \in [Device -> [Entity -> Nat]]
      /\ edit \in [Device -> Edit] /\ pc \in [Device -> Labels]
      /\ page \in [Device -> SUBSET Change] /\ cursor \in [Device -> Nat]
      /\ deferred \in [Device -> [Change -> 0..MaxDeferred]]
      /\ upto \in [Device -> Nat] /\ replaying \in [Device -> BOOLEAN]
  BY DEF TypeOK
<1>1. CASE Cashier(d)
  <2>1. /\ UNCHANGED <<level, pc, page, deferred, cursor, upto, replaying>>
        /\ \E e \in Entity : \E r : row' = [row EXCEPT ![d][e] = r]
        /\ \E x : edit' = [edit EXCEPT ![d] = x]
    <3>1. ASSUME NEW e \in Entity, NEW r, NEW x, Write(d, e, r, x)
          PROVE  /\ UNCHANGED <<level, pc, page, deferred, cursor, upto, replaying>>
                 /\ \E q : row' = [row EXCEPT ![d][e] = q]
                 /\ \E y : edit' = [edit EXCEPT ![d] = y]
      BY <3>1 DEF Write
    <3>2. ASSUME NEW m \in Mut, ResolveServer(d, m) \/ \E t \in Clock : ResolveLocal(d, m, t)
          PROVE  /\ UNCHANGED <<level, pc, page, deferred, cursor, upto, replaying>>
                 /\ \E q : row' = [row EXCEPT ![d][mut[m].ent] = q]
                 /\ \E y : edit' = [edit EXCEPT ![d] = y]
                 /\ mut[m].ent \in Entity
      <4>1. mut[m].ent \in Entity
        BY DEF TypeOK, Mutation
      <4> QED BY <3>2, <4>1 DEF ResolveServer, ResolveLocal
    <3>3. CASE \E m \in Mut : ResolveServer(d, m) \/ \E t \in Clock : ResolveLocal(d, m, t)
      BY <3>2, <3>3
    <3>4. CASE \E e \in Entity : \E r, x : Write(d, e, r, x)
      BY <3>1, <3>4
    <3> QED BY <1>1, <3>3, <3>4 DEF Cashier, LocalCreate, LocalUpdate, LocalDelete
  <2>2. row'[b] = row[b]
    BY <1>0, <2>1
  <2>3. edit'[b] = edit[b]
    BY <1>0, <2>1
  <2> QED BY <2>1, <2>2, <2>3
<1>2. CASE Writing(d)
  BY <1>0, <1>2 DEF Writing, LocalLevel, Enqueue, CloseConflict
<1>3. CASE Engine(d)
  <2>1. CASE PushNothing(d) \/ PushBatch(d) \/ PushDone(d)
    BY <1>0, <2>1 DEF PushNothing, PushBatch, PushDone, Go
  <2>2. ASSUME NEW m \in Mut, AnswerAccepted(d, m)
        PROVE  Untouched(b)
    <3>1. /\ row' = row \/ row' = [row EXCEPT ![d][mut[m].ent] = reply[m].state]
          /\ UNCHANGED <<level, edit, pc, page, deferred, cursor, upto, replaying>>
      BY <2>2 DEF AnswerAccepted
    <3> QED BY <1>0, <3>1
  <2>3. ASSUME NEW m \in Mut, AnswerConflict(d, m) \/ MarkConflict(d, m)
                              \/ AnswerRejected(d, m) \/ MarkSent(d, m)
        PROVE  Untouched(b)
    BY <1>0, <2>3 DEF AnswerConflict, MarkConflict, AnswerRejected, MarkSent, Go
  <2>4. CASE Pull(d) \/ PageDone(d) \/ CycleDone(d)
    BY <1>0, <2>4 DEF Pull, PageDone, CycleDone, Go
  <2>5. ASSUME NEW s \in Change, ApplySkip(d, s) \/ ApplyStart(d, s) \/ ApplyLevel(d, s) \/ ApplyDefer(d, s)
        PROVE  Untouched(b)
    BY <1>0, <2>5 DEF ApplySkip, ApplyStart, ApplyLevel, ApplyDefer, Go, Settled
  <2>6. ASSUME NEW s \in Change, ApplyUpsert(d, s)
        PROVE  Untouched(b)
    <3>1. /\ row' = [row EXCEPT ![d][log[s].ent] = log[s].row]
          /\ pc' = [pc EXCEPT ![d] = "level"] \/ pc' = [pc EXCEPT ![d] = "apply"]
          /\ UNCHANGED <<deferred, page>> \/ Settled(d, s)
          /\ UNCHANGED <<level, edit, cursor, upto, replaying>>
      BY <2>6 DEF ApplyUpsert, Go
    <3> QED BY <1>0, <3>1 DEF Settled
  <2> QED BY <1>3, <2>1, <2>2, <2>3, <2>4, <2>5, <2>6 DEF Engine
<1>4. CASE Server(d)
  BY <1>4, ZenonT(60) DEF Server, ServerStep, ServeReplay, ServeThrow, ServeCreate, ServeUnknown,
     ServeDeleted, ServeDelete, ServeUpdate, ServeKeep, Commit, tillVars
<1>5. CASE Failure(d)
  BY <1>0, <1>5 DEF Failure, RequestLost, Crash, Forget, Go
<1> QED BY <1>1, <1>2, <1>3, <1>4, <1>5

\* What holds of a till goes on holding while others work.
LEMMA CountedElsewhere ==
    ASSUME TypeInv, TypeInv', IssuedInv, [Next]_vars, NEW b \in Device, Untouched(b), CountedAt(b)
    PROVE  CountedAt(b)'
<1> USE DEF TypeInv
<1>1. /\ row'[b] = row[b] /\ level'[b] = level[b] /\ edit'[b] = edit[b]
      /\ pc'[b] = pc[b] /\ page'[b] = page[b]
  BY DEF Untouched
<1>3. \A s \in Change : First(page[b], s) => log'[s] = log[s]
  BY LogStays DEF Published, First
<1>4. edit[b].mut # 0 => mut'[edit[b].mut] = mut[edit[b].mut]
  <2>1. edit[b] \in Edit
    BY DEF TypeOK
  <2>2. edit[b].mut # 0 => edit[b].mut \in Mut /\ mut[edit[b].mut].dev \in Device
    BY <2>1, SyncAssumption DEF Edit, Mut, IssuedInv
  <2>3. CASE UNCHANGED vars
    BY <2>3 DEF vars, outboxVars
  <2>4. CASE Next
    BY <2>2, <2>4, MutationStands
  <2> QED BY <2>3, <2>4
<1>5. /\ \A e \in Journal : level'[b][e] <= row'[b][e].v
      /\ edit'[b].bump => edit'[b].mut # 0 /\ Uncounted(b, mut[edit[b].mut].ent)'
  BY <1>1, <1>4 DEF CountedAt, Uncounted, Holds
<1>6. \A s \in Change : First(page'[b], s) =>
         /\ pc'[b] = "upsert" /\ log'[s].ent \in Journal => ~Holds(b, log[s].ent)'
         /\ pc'[b] = "level" => Uncounted(b, log[s].ent)'
  BY <1>1, <1>3 DEF CountedAt, Uncounted, Holds
<1> QED BY <1>5, <1>6 DEF CountedAt

\* What a till has gone past stays held or put aside, as long as a step only takes
\* from its page what it then holds or puts aside.
Applying == {"apply", "upsert", "level"}
LEMMA PassedGoesOn ==
    ASSUME TypeInv, TypeInv', IssuedInv, LogInv, TrustInv, HeldInv, Next,
           NEW d \in Device, PassedAt(d),
           cursor'[d] = cursor[d], upto'[d] \in {0, upto[d]},
           \A s \in Change : s \in page'[d] \/ deferred'[d][s] > 0
                                 => s \in page[d] \/ deferred[d][s] > 0,
           \A s \in Change : deferred[d][s] > 0 /\ log[s].ent \in Journal
                                 => deferred'[d][s] > 0 \/ row'[d][log[s].ent].v > 0,
           pc'[d] \in Applying /\ ~replaying'[d] =>
              /\ pc[d] \in Applying /\ ~replaying[d] /\ upto'[d] = upto[d]
              /\ \A s \in page[d] : log[s].ent \in Journal
                     => s \in page'[d] \/ deferred'[d][s] > 0 \/ row'[d][log[s].ent].v > 0
    PROVE  PassedAt(d)'
<1> USE DEF TypeInv
<1>1. /\ Len(log) \in Nat /\ Len(log') \in Nat /\ Len(log) <= Len(log')
      /\ \A i \in 1..Len(log) : log'[i] = log[i]
  BY LogStays
<1>2. cursor[d] \in Nat /\ upto[d] \in Nat /\ page[d] \subseteq Change
  BY DEF TypeOK
<1>3. cursor[d] <= Len(log) /\ upto[d] <= Len(log)
  BY DEF PassedAt
<1>4. \A s \in Change : s \in page[d] \/ deferred[d][s] > 0 => s \in 1..Len(log)
  BY DEF Published
<1>5. \A s \in 1..Len(log) : row[d][log[s].ent].v > 0 => row'[d][log[s].ent].v > 0
  BY HoldsAfter, LogTypes DEF Holds
<1>6. \A s \in Change : s \in page'[d] \/ deferred'[d][s] > 0 => log'[s].dev # d
  BY <1>1, <1>4 DEF PassedAt, PutAside
<1>7. ASSUME NEW n \in Nat, n <= Len(log), NEW P \in SUBSET Change, Passed(d, n, P),
             \A s \in P : log[s].ent \in Journal
                 => s \in page'[d] \/ deferred'[d][s] > 0 \/ row'[d][log[s].ent].v > 0,
             NEW s \in 1..Len(log'), s <= n, log'[s].ent \in Journal, log'[s].dev # d
      PROVE  (s \in P /\ s \in page'[d]) \/ Holds(d, log[s].ent)' \/ PutAside(d, s)'
  <2>1. s \in 1..Len(log) /\ log'[s] = log[s]
    BY <1>1, <1>7
  <2>2. s \in P \/ row[d][log[s].ent].v > 0 \/ (s \in Change /\ deferred[d][s] > 0)
    BY <1>7, <2>1 DEF Passed, Holds, PutAside
  <2>3. row'[d][log[s].ent].v > 0 => Holds(d, log[s].ent)'
    BY <2>1 DEF Holds
  <2>4. s \in Change /\ deferred'[d][s] > 0 => PutAside(d, s)'
    BY DEF PutAside
  <2>5. CASE s \in P
    BY <1>7, <2>1, <2>3, <2>4, <2>5
  <2>6. CASE row[d][log[s].ent].v > 0
    BY <1>5, <2>1, <2>3, <2>6
  <2>7. CASE s \in Change /\ deferred[d][s] > 0
    BY <1>7, <2>1, <2>3, <2>4, <2>7
  <2> QED BY <2>2, <2>5, <2>6, <2>7
<1>8. Passed(d, cursor[d], {})'
  <2>1. SUFFICES ASSUME NEW s \in 1..Len(log'), s <= cursor[d], log'[s].ent \in Journal, log'[s].dev # d
                 PROVE  Holds(d, log[s].ent)' \/ PutAside(d, s)'
    BY DEF Passed
  <2>2. Passed(d, cursor[d], {}) /\ {} \in SUBSET Change
    BY DEF PassedAt
  <2>3. (s \in {} /\ s \in page'[d]) \/ Holds(d, log[s].ent)' \/ PutAside(d, s)'
    BY <1>2, <1>3, <1>7, <2>1, <2>2
  <2> QED BY <2>3
<1>9. pc'[d] \in Applying /\ ~replaying'[d] => Passed(d, upto[d], page[d])'
  <2>1. SUFFICES ASSUME pc'[d] \in Applying, ~replaying'[d]
                 PROVE  Passed(d, upto[d], page[d])'
    OBVIOUS
  <2>2. Passed(d, upto[d], page[d])
    BY <2>1 DEF PassedAt, Applying
  <2>3. ASSUME NEW s \in 1..Len(log'), s <= upto[d], log'[s].ent \in Journal, log'[s].dev # d
        PROVE  s \in page'[d] \/ Holds(d, log[s].ent)' \/ PutAside(d, s)'
    BY <1>2, <1>3, <1>7, <2>1, <2>2, <2>3
  <2> QED BY <2>1, <2>3 DEF Passed
<1>10. \A s \in Change : s \in page'[d] \/ PutAside(d, s)' => log'[s].dev # d
  BY <1>6 DEF PutAside
<1>11. cursor'[d] <= Len(log') /\ upto'[d] <= Len(log')
  BY <1>1, <1>2, <1>3
<1> QED BY <1>8, <1>9, <1>10, <1>11 DEF PassedAt, Applying

\* A step that leaves the engine's place in the log as it is.
LEMMA PassedStays ==
    ASSUME TypeInv, TypeInv', IssuedInv, LogInv, TrustInv, HeldInv, Next,
           NEW d \in Device, PassedAt(d),
           cursor'[d] = cursor[d], upto'[d] = upto[d], page'[d] = page[d],
           deferred'[d] = deferred[d], replaying'[d] = replaying[d],
           pc'[d] \in Applying => pc[d] \in Applying
    PROVE  PassedAt(d)'
<1>1. upto'[d] \in {0, upto[d]}
  OBVIOUS
<1>2. \A s \in Change : s \in page'[d] \/ deferred'[d][s] > 0 => s \in page[d] \/ deferred[d][s] > 0
  OBVIOUS
<1>3. \A s \in Change : deferred[d][s] > 0 /\ log[s].ent \in Journal
                            => deferred'[d][s] > 0 \/ row'[d][log[s].ent].v > 0
  OBVIOUS
<1>4. pc'[d] \in Applying /\ ~replaying'[d] =>
        /\ pc[d] \in Applying /\ ~replaying[d] /\ upto'[d] = upto[d]
        /\ \A s \in page[d] : log[s].ent \in Journal
               => s \in page'[d] \/ deferred'[d][s] > 0 \/ row'[d][log[s].ent].v > 0
  OBVIOUS
<1> QED BY <1>1, <1>2, <1>3, <1>4, PassedGoesOn

\* A change the till is done with: a row of the journal it holds, or one of
\* another table; or a change put aside.
LEMMA PassedSettled ==
    ASSUME TypeInv, TypeInv', IssuedInv, LogInv, TrustInv, HeldInv, Next,
           NEW d \in Device, PassedAt(d), NEW s \in Change,
           cursor'[d] = cursor[d], upto'[d] = upto[d], page'[d] = page[d] \ {s},
           replaying'[d] = replaying[d], pc[d] \in Applying, s \in page[d],
           \A t \in Change : t # s => deferred'[d][t] = deferred[d][t],
           \/ deferred'[d][s] > 0
           \/ deferred'[d][s] = 0 /\ (log[s].ent \in Journal => row'[d][log[s].ent].v > 0)
    PROVE  PassedAt(d)'
<1>1. upto'[d] \in {0, upto[d]} /\ page[d] \subseteq Change
  BY DEF TypeInv, TypeOK
<1>2. \A t \in Change : t \in page'[d] \/ deferred'[d][t] > 0 => t \in page[d] \/ deferred[d][t] > 0
  OBVIOUS
<1>3. \A t \in Change : deferred[d][t] > 0 /\ log[t].ent \in Journal
                            => deferred'[d][t] > 0 \/ row'[d][log[t].ent].v > 0
  OBVIOUS
<1>4. pc'[d] \in Applying /\ ~replaying'[d] =>
        /\ pc[d] \in Applying /\ ~replaying[d] /\ upto'[d] = upto[d]
        /\ \A t \in page[d] : log[t].ent \in Journal
               => t \in page'[d] \/ deferred'[d][t] > 0 \/ row'[d][log[t].ent].v > 0
  OBVIOUS
<1> QED BY <1>1, <1>2, <1>3, <1>4, PassedGoesOn

\* A page holds every change of another till up to its end.
LEMMA PassedPull ==
    ASSUME TypeInv, TypeInv', NEW d \in Device, PassedAt(d), Pull(d)
    PROVE  PassedAt(d)'
<1> USE DEF TypeInv
<1> DEFINE changes == FirstOf(Fresh(d), PageSize)
<1>1. Len(log) \in Nat /\ cursor[d] \in Nat
  BY LenProperties DEF TypeOK
<1>2. /\ cursor' = cursor /\ deferred' = deferred /\ row' = row /\ log' = log
      /\ page'[d] = changes /\ upto'[d] \in changes \cup {cursor[d]}
  BY DEF Pull, TypeOK, serverVars, replicaVars
<1>3. changes \subseteq Fresh(d)
  BY DEF FirstOf
<1>4. cursor[d] <= Len(log) /\ Passed(d, cursor[d], {})
      /\ \A s \in Change : PutAside(d, s) => log[s].dev # d
  BY DEF PassedAt
<1>5. upto'[d] <= Len(log)
  BY <1>2, <1>3, <1>4 DEF Fresh
<1>6. ASSUME NEW t \in 1..Len(log), t <= upto'[d], log[t].ent \in Journal, log[t].dev # d,
             ~(t <= cursor[d])
      PROVE  t \in changes
  <2>1. upto'[d] \in changes /\ upto'[d] \in Fresh(d)
    BY <1>2, <1>3, <1>6
  <2>2. /\ upto'[d] \in Change /\ MaxMut + Len(Seeded) \in Nat
        /\ Cardinality({y \in Fresh(d) : y < upto'[d]}) < PageSize
    <3>1. upto'[d] \in Change /\ Cardinality({y \in Fresh(d) : y < upto'[d]}) < PageSize
      BY <2>1 DEF FirstOf, Fresh
    <3>2. Len(Seeded) \in Nat /\ MaxMut \in Nat
      BY SyncAssumption, LenProperties
    <3> QED BY <3>1, <3>2
  <2>3. t \in Change /\ upto'[d] \in Nat
    BY <1>1, <1>6, <2>2 DEF Change
  <2>4. t \in Fresh(d)
    BY <1>1, <1>6, <2>3 DEF Fresh
  <2>5. {y \in Fresh(d) : y < t} \subseteq {y \in Fresh(d) : y < upto'[d]}
    BY <1>6, <2>3 DEF Fresh, Change
  <2>6. IsFiniteSet({y \in Fresh(d) : y < upto'[d]})
    <3>1. IsFiniteSet(Change) /\ {y \in Fresh(d) : y < upto'[d]} \subseteq Change
      BY <2>2, FS_Interval DEF Change, Fresh
    <3> QED BY <3>1, FS_Subset
  <2>7. IsFiniteSet({y \in Fresh(d) : y < t})
        /\ Cardinality({y \in Fresh(d) : y < t}) <= Cardinality({y \in Fresh(d) : y < upto'[d]})
    BY <2>5, <2>6, FS_Subset
  <2>8. Cardinality({y \in Fresh(d) : y < t}) < PageSize
    BY <2>2, <2>6, <2>7, FS_CardinalityType, SyncAssumption
  <2> QED BY <2>4, <2>8 DEF FirstOf
<1>7. Passed(d, upto[d], page[d])'
  <2>1. SUFFICES ASSUME NEW t \in 1..Len(log), t <= upto'[d], log[t].ent \in Journal, log[t].dev # d
                 PROVE  t \in changes \/ Holds(d, log[t].ent)' \/ PutAside(d, t)'
    BY <1>2 DEF Passed
  <2>2. CASE t <= cursor[d]
    BY <1>2, <1>4, <2>1, <2>2 DEF Passed, Holds, PutAside
  <2> QED BY <1>6, <2>1, <2>2
<1>8. Passed(d, cursor[d], {})'
  BY <1>2, <1>4 DEF Passed, Holds, PutAside
<1>9. \A s \in Change : s \in page'[d] \/ PutAside(d, s)' => log'[s].dev # d
  BY <1>2, <1>3, <1>4 DEF Fresh, PutAside
<1> QED BY <1>2, <1>4, <1>5, <1>7, <1>8, <1>9 DEF PassedAt

\* No step of the till passes over a row of the journal.
LEMMA PassedHere ==
    ASSUME TypeInv, TypeInv', IssuedInv, LogInv, TrustInv, HeldInv, Next, NEW d \in Device,
           Cashier(d) \/ Writing(d) \/ Engine(d) \/ Server(d) \/ Failure(d),
           PassedAt(d), CountedAt(d)
    PROVE  PassedAt(d)'
<1> USE DEF TypeInv
<1>0. /\ row \in [Device -> [Entity -> Row]] /\ pc \in [Device -> Labels]
      /\ page \in [Device -> SUBSET Change] /\ cursor \in [Device -> Nat]
      /\ deferred \in [Device -> [Change -> 0..MaxDeferred]]
      /\ upto \in [Device -> Nat] /\ replaying \in [Device -> BOOLEAN]
  BY DEF TypeOK
<1>1. ASSUME cursor'[d] = cursor[d], upto'[d] = upto[d], page'[d] = page[d],
             deferred'[d] = deferred[d], replaying'[d] = replaying[d],
             pc'[d] \in Applying => pc[d] \in Applying
      PROVE  PassedAt(d)'
  BY <1>1, PassedStays
<1>2. CASE Cashier(d) \/ Writing(d) \/ Server(d)
  <2>1. UNCHANGED <<pc, page, deferred, cursor, upto, replaying>>
    <3>1. CASE Cashier(d)
      BY <3>1, ZenonT(60) DEF Cashier, LocalCreate, LocalUpdate, LocalDelete, Write, ResolveServer,
         ResolveLocal, pullVars
    <3>2. CASE Writing(d)
      BY <3>2 DEF Writing, LocalLevel, Enqueue, CloseConflict, pullVars
    <3>3. CASE Server(d)
      BY <3>3, ZenonT(60) DEF Server, ServerStep, ServeReplay, ServeThrow, ServeCreate, ServeUnknown,
         ServeDeleted, ServeDelete, ServeUpdate, ServeKeep, Commit, tillVars, pullVars
    <3> QED BY <1>2, <3>1, <3>2, <3>3
  <2> QED BY <1>1, <2>1
<1>3. CASE Failure(d)
  <2>1. /\ cursor' = cursor /\ deferred' = deferred /\ pc'[d] = "idle"
        /\ page'[d] = {} /\ upto'[d] = 0
    BY <1>0, <1>3 DEF Failure, RequestLost, Crash, Forget, Go
  <2>2. pc'[d] \notin Applying
    BY <2>1 DEF Applying
  <2> QED BY <2>1, <2>2, PassedGoesOn
<1>4. CASE Engine(d)
  <2>1. CASE PushNothing(d) \/ PushBatch(d) \/ PushDone(d)
    <3>1. /\ UNCHANGED <<page, deferred, cursor, upto, replaying>>
          /\ pc'[d] \in {"pull", "sent", "push"}
      BY <1>0, <2>1 DEF PushNothing, PushBatch, PushDone, Go, pullVars
    <3> QED BY <1>1, <3>1 DEF Applying
  <2>2. ASSUME NEW m \in Mut, AnswerAccepted(d, m) \/ AnswerConflict(d, m) \/ MarkConflict(d, m)
                              \/ AnswerRejected(d, m) \/ MarkSent(d, m)
        PROVE  PassedAt(d)'
    <3>1. /\ UNCHANGED <<page, deferred, cursor, upto, replaying>>
          /\ pc' = pc \/ pc'[d] \in {"conflict", "sent"}
      BY <1>0, <2>2 DEF AnswerAccepted, AnswerConflict, MarkConflict, AnswerRejected, MarkSent, Go,
         pullVars
    <3> QED BY <1>1, <3>1 DEF Applying
  <2>3. CASE Pull(d)
    BY <2>3, PassedPull
  <2>4. CASE PageDone(d)
    <3>1. /\ page[d] = {} /\ ~replaying[d] /\ pc[d] = "apply"
          /\ cursor'[d] = upto[d] /\ upto'[d] = 0 /\ deferred' = deferred /\ row' = row /\ log' = log
          /\ page'[d] \subseteq Replayable(d)
          /\ ~(pc'[d] \in Applying /\ ~replaying'[d])
      BY <1>0, <2>4 DEF PageDone, Go, Applying, serverVars, replicaVars
    <3>2. Passed(d, upto[d], {}) /\ upto[d] <= Len(log) /\ 0 <= Len(log)
          /\ \A s \in Change : PutAside(d, s) => log[s].dev # d
      BY <3>1, LenProperties DEF PassedAt, TypeOK
    <3>3. Passed(d, cursor[d], {})'
      BY <3>1, <3>2 DEF Passed, Holds, PutAside
    <3>4. \A s \in Replayable(d) : PutAside(d, s)
      BY <1>0 DEF Replayable, PutAside
    <3>5. \A s \in Change : s \in page'[d] \/ PutAside(d, s)' => log'[s].dev # d
      BY <3>1, <3>2, <3>4 DEF PutAside
    <3> QED BY <3>1, <3>2, <3>3, <3>5 DEF PassedAt, Applying
  <2>5. CASE CycleDone(d)
    <3>1. /\ UNCHANGED <<page, deferred, cursor, upto>> /\ pc'[d] = "idle"
      BY <1>0, <2>5 DEF CycleDone, Go
    <3>2. pc'[d] \notin Applying
      BY <3>1 DEF Applying
    <3> QED BY <3>1, <3>2, PassedGoesOn
  <2>6. ASSUME NEW s \in Change, ApplySkip(d, s)
        PROVE  PassedAt(d)'
    <3>1. /\ UNCHANGED <<cursor, upto, replaying, row>> /\ pc[d] = "apply" /\ s \in page[d]
          /\ PassedOver(d, s) /\ Settled(d, s)
      BY <2>6 DEF ApplySkip, First, replicaVars
    <3>2. /\ page'[d] = page[d] \ {s} /\ deferred'[d][s] = 0
          /\ \A t \in Change : t # s => deferred'[d][t] = deferred[d][t]
      BY <1>0, <3>1 DEF Settled
    <3>3. log[s].ent \in Journal => row'[d][log[s].ent].v > 0
      BY <3>1 DEF PassedOver, Pending, Outbox, HeldInv, Holds
    <3> QED BY <3>1, <3>2, <3>3, PassedSettled DEF Applying
  <2>7. ASSUME NEW s \in Change, ApplyStart(d, s)
        PROVE  PassedAt(d)'
    <3>1. UNCHANGED <<page, deferred, cursor, upto, replaying>> /\ pc[d] = "apply"
      BY <2>7 DEF ApplyStart, pullVars
    <3> QED BY <1>1, <3>1 DEF Applying
  <2>8. ASSUME NEW s \in Change, ApplyUpsert(d, s)
        PROVE  PassedAt(d)'
    <3>1. /\ UNCHANGED <<cursor, upto, replaying>> /\ pc[d] = "upsert" /\ s \in page[d]
          /\ \/ log[s].ent \in Journal /\ UNCHANGED <<deferred, page>>
             \/ log[s].ent \notin Journal /\ Settled(d, s)
      BY <2>8 DEF ApplyUpsert, First
    <3>2. CASE UNCHANGED <<deferred, page>>
      BY <1>1, <3>1, <3>2 DEF Applying
    <3>3. CASE log[s].ent \notin Journal /\ Settled(d, s)
      <4>1. /\ page'[d] = page[d] \ {s} /\ deferred'[d][s] = 0
            /\ \A t \in Change : t # s => deferred'[d][t] = deferred[d][t]
        BY <1>0, <3>3 DEF Settled
      <4> QED BY <3>1, <3>3, <4>1, PassedSettled DEF Applying
    <3> QED BY <3>1, <3>2, <3>3
  <2>9. ASSUME NEW s \in Change, ApplyLevel(d, s)
        PROVE  PassedAt(d)'
    <3>1. /\ UNCHANGED <<cursor, upto, replaying, row>> /\ pc[d] = "level" /\ First(page[d], s)
          /\ Settled(d, s)
      BY <2>9 DEF ApplyLevel
    <3>2. /\ page'[d] = page[d] \ {s} /\ deferred'[d][s] = 0 /\ s \in page[d]
          /\ \A t \in Change : t # s => deferred'[d][t] = deferred[d][t]
      BY <1>0, <3>1 DEF Settled, First
    <3>3. row'[d][log[s].ent].v > 0
      BY <3>1 DEF CountedAt, Uncounted, Holds
    <3> QED BY <3>1, <3>2, <3>3, PassedSettled DEF Applying
  <2>10. ASSUME NEW s \in Change, ApplyDefer(d, s)
        PROVE  PassedAt(d)'
    <3>1. /\ UNCHANGED <<cursor, upto, replaying>> /\ pc[d] \in {"upsert", "level"} /\ s \in page[d]
          /\ page'[d] = page[d] \ {s} /\ deferred'[d][s] > 0
          /\ \A t \in Change : t # s => deferred'[d][t] = deferred[d][t]
      BY <1>0, <2>10, SyncAssumption DEF ApplyDefer, First
    <3> QED BY <3>1, PassedSettled DEF Applying
  <2> QED BY <1>4, <2>1, <2>2, <2>3, <2>4, <2>5, <2>6, <2>7, <2>8, <2>9, <2>10 DEF Engine
<1> QED BY <1>2, <1>3, <1>4

\* What is counted stays so when the till leaves its journal, its levels and the
\* change it is applying as they are.
LEMMA CountedStays ==
    ASSUME TypeInv, TypeInv', IssuedInv, Next, NEW d \in Device, CountedAt(d),
           level'[d] = level[d], \A e \in Journal : row'[d][e] = row[d][e],
           edit'[d].bump => edit'[d] = edit[d],
           pc'[d] \in {"upsert", "level"} => pc'[d] = pc[d] /\ page'[d] = page[d]
    PROVE  CountedAt(d)'
<1> USE DEF TypeInv
<1>1. \A s \in Change : First(page[d], s) => log'[s] = log[s] /\ log[s] \in Entry
  BY LogStays, ElementOfSeq DEF Published, First, TypeOK
<1>2. edit[d].mut # 0 => mut'[edit[d].mut] = mut[edit[d].mut] /\ mut[edit[d].mut].ent \in Entity
  <2>1. edit[d] \in Edit
    BY DEF TypeOK
  <2>2. edit[d].mut # 0 => edit[d].mut \in Mut /\ mut[edit[d].mut].dev \in Device
    BY <2>1, SyncAssumption DEF Edit, Mut, IssuedInv
  <2> QED BY <2>2, MutationStands DEF TypeOK, Mutation
<1>3. \A e \in Journal : Uncounted(d, e) <=> level'[d][e] = 0 /\ row'[d][e].v > 0
  BY DEF Uncounted, Holds
<1>4. edit'[d].bump => edit'[d].mut # 0 /\ Uncounted(d, mut[edit[d].mut].ent)'
  <2>1. SUFFICES ASSUME edit'[d].bump
                 PROVE  edit'[d].mut # 0 /\ Uncounted(d, mut[edit[d].mut].ent)'
    OBVIOUS
  <2>2. edit[d].mut # 0 /\ Uncounted(d, mut[edit[d].mut].ent) /\ edit'[d] = edit[d]
    BY <2>1 DEF CountedAt
  <2>3. mut'[edit'[d].mut].ent = mut[edit[d].mut].ent
    BY <1>2, <2>2
  <2>4. mut[edit[d].mut].ent \in Journal
    BY <2>2 DEF Uncounted
  <2> QED BY <1>3, <2>2, <2>3, <2>4 DEF Uncounted, Holds
<1>5. ASSUME NEW s \in Change, First(page[d], s)', pc'[d] \in {"upsert", "level"}
      PROVE  /\ pc'[d] = "upsert" /\ log'[s].ent \in Journal => ~Holds(d, log[s].ent)'
             /\ pc'[d] = "level" => Uncounted(d, log[s].ent)'
  <2>1. First(page[d], s) /\ pc'[d] = pc[d]
    BY <1>5 DEF First
  <2>2. log'[s] = log[s]
    BY <1>1, <2>1
  <2>3. pc[d] = "upsert" /\ log[s].ent \in Journal => ~(row[d][log[s].ent].v > 0)
    BY <2>1 DEF CountedAt, Holds
  <2>4. pc[d] = "level" => Uncounted(d, log[s].ent)
    BY <2>1 DEF CountedAt
  <2>5. pc'[d] = "level" => Uncounted(d, log[s].ent)'
    BY <1>3, <2>1, <2>2, <2>4 DEF Uncounted, Holds
  <2>6. pc'[d] = "upsert" /\ log'[s].ent \in Journal => ~Holds(d, log[s].ent)'
    BY <2>1, <2>2, <2>3 DEF Holds
  <2> QED BY <2>5, <2>6
<1>6. \A e \in Journal : level'[d][e] <= row'[d][e].v
  BY DEF CountedAt
<1> QED BY <1>4, <1>5, <1>6 DEF CountedAt

\* The row a cashier is writing is none of those the till is sent.
LEMMA NotSent ==
    ASSUME TypeInv, IssuedInv, OneAuthor, SeededFirst, NEW d \in Device, PassedAt(d),
           NEW s \in Change, s \in page[d], log[s].ent \in Journal,
           edit[d].mut # 0
    PROVE  mut[edit[d].mut].ent # log[s].ent
<1> USE DEF TypeInv
<1>1. edit[d].mut \in Mut /\ mut[edit[d].mut].dev = d
  <2>1. edit[d] \in Edit
    BY DEF TypeOK
  <2> QED BY <2>1, SyncAssumption DEF Edit, Mut, IssuedInv
<1>2. s \in 1..Len(log) /\ log[s].dev # d
  BY DEF PassedAt, Published
<1>3. /\ log[s].mut \in Mut /\ mut[log[s].mut].dev \in Device
      /\ mut[log[s].mut].ent = log[s].ent /\ log[s].dev = mut[log[s].mut].dev
  BY <1>2, EntryAuthor
<1> QED BY <1>1, <1>2, <1>3 DEF OneAuthor

\* No step of the till counts a row of the journal twice, or before it has it.
LEMMA CountedHere ==
    ASSUME TypeInv, TypeInv', IssuedInv, LogInv, TrustInv, HeldInv, OneAuthor, SameEverywhere,
           SeededFirst, Next, NEW d \in Device,
           Cashier(d) \/ Writing(d) \/ Engine(d) \/ Server(d) \/ Failure(d),
           PassedAt(d), CountedAt(d)
    PROVE  CountedAt(d)'
<1> USE DEF TypeInv
<1>0. /\ row \in [Device -> [Entity -> Row]] /\ level \in [Device -> [Entity -> Nat]]
      /\ pc \in [Device -> Labels] /\ edit \in [Device -> Edit]
      /\ page \in [Device -> SUBSET Change] /\ mut \in [Mut -> Mutation]
      /\ \A m \in Mut : mut[m].ent \in Entity
      /\ \A e \in Entity : row[d][e].v \in Nat /\ level[d][e] \in Nat
      /\ Journal \subseteq Entity
  <2>1. /\ row \in [Device -> [Entity -> Row]] /\ level \in [Device -> [Entity -> Nat]]
        /\ pc \in [Device -> Labels] /\ edit \in [Device -> Edit]
        /\ page \in [Device -> SUBSET Change] /\ mut \in [Mut -> Mutation]
    BY DEF TypeOK
  <2>2. \A m \in Mut : mut[m].ent \in Entity
    BY <2>1 DEF Mutation
  <2>3. \A e \in Entity : row[d][e] \in Row
    BY <2>1
  <2> QED BY <2>1, <2>2, <2>3, SyncAssumption DEF Row
<1>a. ASSUME level'[d] = level[d], \A e \in Journal : row'[d][e] = row[d][e],
             edit'[d].bump => edit'[d] = edit[d],
             pc'[d] \in {"upsert", "level"} => pc'[d] = pc[d] /\ page'[d] = page[d]
      PROVE  CountedAt(d)'
  BY <1>a, CountedStays
<1>b. edit[d].mut # 0 =>
        /\ mut'[edit[d].mut] = mut[edit[d].mut] /\ mut[edit[d].mut].ent \in Entity
        /\ edit[d].mut \in Mut
  <2>1. edit[d] \in Edit
    BY <1>0
  <2>2. edit[d].mut # 0 => edit[d].mut \in Mut /\ mut[edit[d].mut].dev \in Device
    BY <2>1, SyncAssumption DEF Edit, Mut, IssuedInv
  <2> QED BY <1>0, <2>2, MutationStands
<1>c. \A s \in Change : First(page[d], s) =>
         /\ log'[s] = log[s] /\ log[s].ent \in Entity /\ s \in 1..Len(log) /\ s \in page[d]
         /\ \A t \in Change : First(page[d], t) => t = s
  <2>1. \A s \in Change : First(page[d], s) => s \in 1..Len(log) /\ s \in page[d] /\ s \in Nat
    BY DEF First, Published
  <2> QED BY <2>1, LogStays, LogTypes DEF First
<1>1. CASE Cashier(d)
  <2>1. UNCHANGED <<level, pc, page, log>>
    BY <1>1, ZenonT(60) DEF Cashier, LocalCreate, LocalUpdate, LocalDelete, Write, ResolveServer,
       ResolveLocal, pullVars, serverVars, replicaVars
  <2>2. ASSUME NEW e \in Entity, e \notin Journal, NEW r, NEW x, Write(d, e, r, x)
        PROVE  CountedAt(d)'
    <3>1. /\ row' = [row EXCEPT ![d][e] = r]
          /\ edit' = [edit EXCEPT ![d] = [mut |-> nextMut, bump |-> e \in Journal, closes |-> 0]]
      BY <2>2 DEF Write
    <3>2. ~edit'[d].bump
      <4> DEFINE b == e \in Journal
      <4>1. edit' = [edit EXCEPT ![d] = [mut |-> nextMut, bump |-> b, closes |-> 0]]
        BY <3>1
      <4>2. ~b
        BY <2>2
      <4> HIDE DEF b
      <4> QED BY <1>0, <4>1, <4>2
    <3>3. \A k \in Journal : row'[d][k] = row[d][k]
      BY <1>0, <2>2, <3>1
    <3> QED BY <1>a, <2>1, <3>2, <3>3
  <2>3. ASSUME NEW m \in Mut, ResolveServer(d, m) \/ \E t \in Clock : ResolveLocal(d, m, t)
        PROVE  CountedAt(d)'
    <3>1. /\ \E r : row' = [row EXCEPT ![d][mut[m].ent] = r]
          /\ \E k, c : edit' = [edit EXCEPT ![d] = [mut |-> k, bump |-> FALSE, closes |-> c]]
          /\ Settles(d, m)
      BY <2>3 DEF ResolveServer, ResolveLocal
    <3>2. edit'[d].bump = FALSE
      BY <1>0, <3>1
    <3>3. mut[m].ent \notin Journal
      BY <3>1 DEF Settles, HeldInv
    <3>4. \A k \in Journal : row'[d][k] = row[d][k]
      BY <1>0, <3>1, <3>3
    <3> QED BY <1>a, <2>1, <3>2, <3>4
  <2>4. ASSUME NEW e \in Entity, NEW t \in Clock, LocalCreate(d, e, t), e \in Journal
        PROVE  CountedAt(d)'
    <3> DEFINE x == [dev |-> d, ent |-> e, op |-> "create", base |-> 0, fields |-> Field,
                     val |-> nextMut, ts |-> t, saw |-> Absent.val]
    <3>1. /\ row' = [row EXCEPT ![d][e] = FirstRow(nextMut, t)]
          /\ edit' = [edit EXCEPT ![d] = [mut |-> nextMut, bump |-> e \in Journal, closes |-> 0]]
          /\ mut' = [mut EXCEPT ![nextMut] = x] /\ x.ent = e
          /\ nextMut <= MaxMut /\ srv[e].v = 0 /\ \A m \in Issued : mut[m].ent # e
      BY <2>4 DEF LocalCreate, Write
    <3> HIDE DEF x
    <3>2. nextMut \in Mut /\ nextMut \in Nat /\ nextMut # 0
      BY <3>1, SyncAssumption DEF TypeOK, Mut
    <3>3. \A m \in Mut : mut[m].dev \in Device => mut[m].ent # e
      <4>1. \A m \in Mut : mut[m].dev \in Device => m \in Issued
        BY <3>2, SyncAssumption DEF IssuedInv, Issued, Mut
      <4> QED BY <3>1, <4>1
    <3>4. ~IsSeeded(e)
      BY <2>4, SyncAssumption, ElementOfSeq DEF IsSeeded
    <3>5. row[d][e].v = 0 /\ level[d][e] = 0
      <4>1. ~Holds(d, e)
        BY <3>3, <3>4 DEF HeldInv
      <4>2. level[d][e] <= row[d][e].v
        BY <2>4 DEF CountedAt
      <4> QED BY <1>0, <4>1, <4>2 DEF Holds
    <3>6. /\ row'[d][e].v = 1 /\ \A k \in Journal : k # e => row'[d][k] = row[d][k]
          /\ edit'[d].mut = nextMut /\ mut'[nextMut].ent = e /\ level' = level
      BY <1>0, <2>1, <3>1, <3>2 DEF FirstRow
    <3>7. \A k \in Journal : level'[d][k] <= row'[d][k].v
      BY <1>0, <3>5, <3>6 DEF CountedAt
    <3>8. edit'[d].mut # 0 /\ Uncounted(d, mut[edit[d].mut].ent)'
      BY <2>4, <3>2, <3>5, <3>6 DEF Uncounted, Holds
    <3>9. ASSUME NEW s \in Change, First(page[d], s)'
          PROVE  /\ pc'[d] = "upsert" /\ log'[s].ent \in Journal => ~Holds(d, log[s].ent)'
                 /\ pc'[d] = "level" => Uncounted(d, log[s].ent)'
      <4>1. First(page[d], s)
        BY <2>1, <3>9 DEF First
      <4>2. log[s].ent \in Journal => log[s].ent # e
        BY <1>c, <3>3, <4>1, EntryAuthor
      <4> QED BY <2>1, <3>6, <4>1, <4>2 DEF CountedAt, Uncounted, Holds
    <3> QED BY <3>7, <3>8, <3>9 DEF CountedAt
  <2>5. ASSUME NEW e \in Entity, NEW t \in Clock, LocalCreate(d, e, t), e \notin Journal
        PROVE  CountedAt(d)'
    BY <2>2, <2>5 DEF LocalCreate
  <2>6. ASSUME NEW e \in Entity, NEW t \in Clock, NEW F \in SUBSET Field,
               LocalUpdate(d, e, F, t) \/ LocalDelete(d, e, t)
        PROVE  CountedAt(d)'
    <3>1. e \notin Journal /\ \E r, x : Write(d, e, r, x)
      BY <2>6 DEF LocalUpdate, LocalDelete, Editable
    <3> QED BY <2>2, <3>1
  <2>7. {} \in SUBSET Field
    OBVIOUS
  <2> QED BY <1>1, <2>3, <2>4, <2>5, <2>6, <2>7 DEF Cashier
<1>2. CASE Writing(d)
  <2>1. CASE LocalLevel(d)
    <3> DEFINE e == mut[edit[d].mut].ent
    <3>1. /\ edit[d].mut # 0 /\ edit[d].bump
          /\ level' = [level EXCEPT ![d][e] = level[d][e] + 1]
          /\ edit'[d].bump = FALSE
          /\ UNCHANGED <<row, pc, page, log>>
      BY <1>0, <2>1 DEF LocalLevel, Counted, pullVars, serverVars
    <3>2. e \in Journal /\ row[d][e].v > 0 /\ level[d][e] = 0
      BY <3>1 DEF CountedAt, Uncounted, Holds
    <3>3. level'[d][e] = 1 /\ \A k \in Journal : k # e => level'[d][k] = level[d][k]
      BY <1>0, <3>1, <3>2
    <3>4. ASSUME NEW s \in Change, First(page[d], s), log[s].ent \in Journal
          PROVE  log[s].ent # e
      BY <1>c, <3>1, <3>4, NotSent
    <3> HIDE DEF e
    <3>5. \A k \in Journal : level'[d][k] <= row'[d][k].v
      BY <1>0, <3>1, <3>2, <3>3 DEF CountedAt
    <3>6. ASSUME NEW s \in Change, First(page[d], s)'
          PROVE  /\ pc'[d] = "upsert" /\ log'[s].ent \in Journal => ~Holds(d, log[s].ent)'
                 /\ pc'[d] = "level" => Uncounted(d, log[s].ent)'
      <4>1. First(page[d], s) /\ pc' = pc /\ log' = log /\ row' = row
        BY <3>1, <3>6 DEF First
      <4> QED BY <3>3, <3>4, <4>1 DEF CountedAt, Uncounted, Holds
    <3> QED BY <3>1, <3>5, <3>6 DEF CountedAt
  <2>2. CASE Enqueue(d) \/ CloseConflict(d)
    <3>1. edit'[d].bump = FALSE /\ UNCHANGED <<row, level, pc, page>>
      BY <1>0, <2>2 DEF Enqueue, CloseConflict, NoEdit, replicaVars, pullVars
    <3> QED BY <1>a, <3>1
  <2> QED BY <1>2, <2>1, <2>2 DEF Writing
<1>3. CASE Server(d)
  <2>1. UNCHANGED <<row, level, edit, pc, page>>
    BY <1>3, ZenonT(60) DEF Server, ServerStep, ServeReplay, ServeThrow, ServeCreate, ServeUnknown,
       ServeDeleted, ServeDelete, ServeUpdate, ServeKeep, Commit, tillVars, pullVars, replicaVars
  <2> QED BY <1>a, <2>1
<1>4. CASE Failure(d)
  <2>1. /\ UNCHANGED <<row, level>> /\ pc'[d] = "idle"
        /\ edit' = edit \/ edit' = [edit EXCEPT ![d] = NoEdit]
    BY <1>0, <1>4 DEF Failure, RequestLost, Crash, Forget, Go, replicaVars
  <2>2. edit'[d] = edit[d] \/ edit'[d].bump = FALSE
    BY <1>0, <2>1 DEF NoEdit
  <2> QED BY <1>a, <2>1, <2>2
<1>5. CASE Engine(d)
  <2>1. CASE PushNothing(d) \/ PushBatch(d) \/ PushDone(d) \/ Pull(d) \/ PageDone(d) \/ CycleDone(d)
    <3>1. /\ UNCHANGED <<row, level, edit>>
          /\ pc'[d] \in {"pull", "sent", "push", "apply", "idle"}
      BY <1>0, <2>1 DEF PushNothing, PushBatch, PushDone, Pull, PageDone, CycleDone, Go, replicaVars
    <3> QED BY <1>a, <3>1
  <2>2. ASSUME NEW m \in Mut, AnswerConflict(d, m) \/ MarkConflict(d, m)
                              \/ AnswerRejected(d, m) \/ MarkSent(d, m)
        PROVE  CountedAt(d)'
    <3>1. /\ UNCHANGED <<row, level, edit, page>>
          /\ pc' = pc \/ pc'[d] \in {"conflict", "sent"}
      BY <1>0, <2>2 DEF AnswerConflict, MarkConflict, AnswerRejected, MarkSent, Go,
         pullVars, replicaVars
    <3> QED BY <1>a, <3>1
  <2>3. ASSUME NEW m \in Mut, AnswerAccepted(d, m)
        PROVE  CountedAt(d)'
    <3>1. /\ UNCHANGED <<level, edit, page, pc>>
          /\ m \in todo[d] /\ reply[m].status \in Accepted
          /\ row' = row \/ (reply[m].state # Absent /\ row' = [row EXCEPT ![d][mut[m].ent] = reply[m].state])
      BY <2>3 DEF AnswerAccepted, Handling, First, pullVars
    <3>2. processed[m] = reply[m] /\ mut[m].dev = d
      BY <3>1 DEF TrustInv, Accepted, IssuedInv, Handles
    <3>3. reply[m].state # Absent => mut[m].ent \notin Journal
      BY <3>2 DEF HeldInv
    <3>4. \A k \in Journal : row'[d][k] = row[d][k]
      BY <1>0, <3>1, <3>3
    <3> QED BY <1>a, <3>1, <3>4
  <2>4. ASSUME NEW s \in Change, ApplySkip(d, s) \/ ApplyDefer(d, s)
        PROVE  CountedAt(d)'
    <3>1. UNCHANGED <<row, level, edit>> /\ pc'[d] = "apply"
      BY <1>0, <2>4 DEF ApplySkip, ApplyDefer, Go, replicaVars
    <3> QED BY <1>a, <3>1
  <2>5. ASSUME NEW s \in Change, ApplyStart(d, s)
        PROVE  CountedAt(d)'
    <3>1. /\ UNCHANGED <<row, level, edit, page, log, mut>> /\ pc'[d] = "upsert"
          /\ First(page[d], s) /\ ~PassedOver(d, s)
      BY <1>0, <2>5 DEF ApplyStart, Go, replicaVars, serverVars, outboxVars, pullVars
    <3>2. log[s].ent \in Journal => ~Holds(d, log[s].ent)
      BY <3>1 DEF PassedOver
    <3>3. \A t \in Change : First(page[d], t)' => t = s
      BY <1>c, <3>1 DEF First
    <3>4. \A t \in Change : First(page[d], t)' =>
             /\ pc'[d] = "upsert" /\ log'[t].ent \in Journal => ~Holds(d, log[t].ent)'
             /\ pc'[d] = "level" => Uncounted(d, log[t].ent)'
      BY <3>1, <3>2, <3>3 DEF Holds
    <3> QED BY <3>1, <3>4 DEF CountedAt, Uncounted, Holds
  <2>6. ASSUME NEW s \in Change, ApplyUpsert(d, s)
        PROVE  CountedAt(d)'
    <3> DEFINE e == log[s].ent
    <3>1. /\ UNCHANGED <<level, edit, log, mut>> /\ pc[d] = "upsert" /\ First(page[d], s)
          /\ row' = [row EXCEPT ![d][e] = log[s].row]
          /\ IF e \in Journal THEN pc'[d] = "level" /\ page' = page ELSE pc'[d] = "apply"
      BY <1>0, <2>6 DEF ApplyUpsert, Go, serverVars, outboxVars
    <3>2. CASE e \notin Journal
      <4>1. \A k \in Journal : row'[d][k] = row[d][k]
        BY <1>0, <3>1, <3>2
      <4> QED BY <1>a, <3>1, <3>2, <4>1
    <3>3. CASE e \in Journal
      <4>1. ~Holds(d, e) /\ level[d][e] <= row[d][e].v
        BY <3>1, <3>3 DEF CountedAt
      <4>2. row[d][e].v = 0 /\ level[d][e] = 0 /\ e \in Entity
        BY <1>0, <3>3, <4>1 DEF Holds
      <4>3. log[s].row.v = 1
        <5>1. log[s].row = FirstWritten(log[s].mut)
          BY <1>c, <3>1, <3>3, EntryRow
        <5> QED BY <5>1 DEF FirstWritten, FirstRow
      <4>4. row'[d][e].v = 1 /\ \A k \in Journal : k # e => row'[d][k] = row[d][k]
        BY <1>0, <3>1, <4>2, <4>3
      <4>5. \A k \in Journal : level'[d][k] <= row'[d][k].v
        BY <1>0, <3>1, <4>2, <4>4 DEF CountedAt
      <4>6. edit'[d].bump => edit'[d].mut # 0 /\ Uncounted(d, mut[edit[d].mut].ent)'
        BY <3>1, <4>4 DEF CountedAt, Uncounted, Holds
      <4>7. \A t \in Change : First(page[d], t)' => t = s
        BY <1>c, <3>1, <3>3 DEF First
      <4>8. Uncounted(d, log[s].ent)'
        BY <3>1, <3>3, <4>2, <4>4 DEF Uncounted, Holds
      <4>9. pc'[d] = "level"
        BY <3>1, <3>3
      <4> QED BY <4>5, <4>6, <4>7, <4>8, <4>9 DEF CountedAt
    <3> QED BY <3>2, <3>3
  <2>7. ASSUME NEW s \in Change, ApplyLevel(d, s)
        PROVE  CountedAt(d)'
    <3> DEFINE e == log[s].ent
    <3>1. /\ UNCHANGED <<row, edit, log, mut>> /\ pc[d] = "level" /\ First(page[d], s)
          /\ level' = [level EXCEPT ![d][e] = level[d][e] + 1]
          /\ pc'[d] = "apply"
      BY <1>0, <2>7 DEF ApplyLevel, Go, Counted, serverVars, outboxVars
    <3>2. e \in Journal /\ row[d][e].v > 0 /\ level[d][e] = 0
      BY <3>1 DEF CountedAt, Uncounted, Holds
    <3>3. level'[d][e] = 1 /\ \A k \in Journal : k # e => level'[d][k] = level[d][k]
      BY <1>0, <3>1, <3>2
    <3>4. \A k \in Journal : level'[d][k] <= row'[d][k].v
      BY <1>0, <3>1, <3>2, <3>3 DEF CountedAt
    <3>5. edit[d].bump => mut[edit[d].mut].ent # e
      BY <1>c, <3>1, <3>2, NotSent DEF CountedAt
    <3>6. edit'[d].bump => edit'[d].mut # 0 /\ Uncounted(d, mut[edit[d].mut].ent)'
      BY <3>1, <3>3, <3>5 DEF CountedAt, Uncounted, Holds
    <3> QED BY <3>1, <3>4, <3>6 DEF CountedAt
  <2> QED BY <1>5, <2>1, <2>2, <2>3, <2>4, <2>5, <2>6, <2>7 DEF Engine
<1> QED BY <1>1, <1>2, <1>3, <1>4, <1>5

\* What the server logs bears the mutation that wrote it.
LEMMA SeededStep ==
    ASSUME TypeOK, TypeOK', IssuedInv, SeededFirst, [Next]_vars
    PROVE  SeededFirst'
<1>1. CASE UNCHANGED log
  BY <1>1 DEF SeededFirst
<1>2. ASSUME NEW m \in Mut, NEW r \in Row, NEW F \in SUBSET Field, Publish(m, r, F)
      PROVE  SeededFirst'
  <2>1. m # 0
    BY SyncAssumption DEF Mut
  <2> QED BY <1>2, <2>1, LogAfter DEF SeededFirst
<1> QED BY <1>1, <1>2, LogWrites

\* At the start no journal row exists, and the cursors stand at the end of the log.
LEMMA JournalInit == Init => JournalInv
<1> SUFFICES ASSUME Init PROVE JournalInv
  OBVIOUS
<1>1. /\ Len(Seeded) \in Nat /\ 0 \notin Device /\ Journal \subseteq Entity
      /\ \A i \in 1..Len(Seeded) : Seeded[i] \in Entity \ Journal
  BY SyncAssumption, ElementOfSeq, LenProperties
<1>2. Len(log) = Len(Seeded) /\ \A i \in 1..Len(log) : log[i].ent = Seeded[i]
  BY <1>1 DEF Init
<1>3. OneAuthor /\ SameEverywhere
  BY <1>1 DEF Init, Unissued, Nobody, OneAuthor, SameEverywhere
<1>4. CountedOnce
  <2>1. \A d \in Device, e \in Journal : level[d][e] <= row[d][e].v
    <3>1. \A e \in Entity : SeedRow(e).v \in Nat
      BY DEF SeedRow, Seed, Absent
    <3>2. \A d \in Device, e \in Journal : level[d][e] = 0 /\ row[d][e] = SeedRow(e)
      BY <1>1 DEF Init
    <3> QED BY <1>1, <3>1, <3>2
  <2>2. \A d \in Device : ~edit[d].bump /\ page[d] = {}
    BY DEF Init, NoEdit
  <2> QED BY <2>1, <2>2 DEF CountedOnce, CountedAt, First
<1>5. NothingPassed
  <2>1. ASSUME NEW d \in Device
        PROVE  /\ cursor[d] = Len(log) /\ upto[d] = 0 /\ page[d] = {} /\ pc[d] = "idle"
               /\ \A s \in Change : deferred[d][s] = 0
    BY <1>2 DEF Init
  <2> QED BY <1>1, <1>2, <2>1 DEF NothingPassed, PassedAt, Passed, PutAside
<1>6. SeededFirst
  BY <1>1, <1>2 DEF SeededFirst
<1> QED BY <1>3, <1>4, <1>5, <1>6 DEF JournalInv

\* Every step keeps what the journal rests on.
LEMMA JournalStep == SpreadInv /\ JournalInv /\ [Next]_vars => JournalInv'
<1> SUFFICES ASSUME SpreadInv, JournalInv, [Next]_vars PROVE JournalInv'
  OBVIOUS
<1>1. SpreadInv'
  BY SpreadStep
<1>2. /\ TypeInv /\ TypeInv' /\ TypeOK /\ TypeOK' /\ IssuedInv /\ LogInv /\ TrustInv /\ HeldInv
      /\ OneAuthor /\ SameEverywhere /\ SeededFirst
  BY <1>1 DEF SpreadInv, RowsInv, TypeInv, JournalInv
<1>3. CASE UNCHANGED vars
  BY <1>3 DEF vars, serverVars, outboxVars, replicaVars, pullVars, JournalInv, OneAuthor,
     SameEverywhere, FirstWritten, CountedOnce, CountedAt, Uncounted, NothingPassed, PassedAt,
     Passed, PutAside, SeededFirst, Holds, First
<1>4. CASE Next
  <2>1. PICK d \in Device : Cashier(d) \/ Writing(d) \/ Engine(d) \/ Server(d) \/ Failure(d)
    BY <1>4 DEF Next
  <2>2. ASSUME NEW b \in Device
        PROVE  CountedAt(b)' /\ PassedAt(b)'
    <3>1. CountedAt(b) /\ PassedAt(b)
      BY DEF JournalInv, CountedOnce, NothingPassed
    <3>2. CASE b = d
      BY <1>2, <1>4, <2>1, <3>1, <3>2, CountedHere, PassedHere
    <3>3. CASE b # d
      <4>1. Untouched(b)
        BY <1>2, <2>1, <3>3, OthersKeep
      <4>2. CountedAt(b)'
        BY <1>2, <3>1, <4>1, CountedElsewhere
      <4>3. PassedAt(b)'
        BY <1>2, <1>4, <3>1, <4>1, PassedStays DEF Untouched
      <4> QED BY <4>2, <4>3
    <3> QED BY <3>2, <3>3
  <2>3. OneAuthor'
    BY <1>2, <1>4, AuthorStep
  <2>4. SameEverywhere'
    BY <1>2, <1>4, <2>3, SameStep
  <2> QED BY <1>2, <2>2, <2>3, <2>4, SeededStep DEF JournalInv, CountedOnce, NothingPassed
<1> QED BY <1>3, <1>4

\* Whatever is lost, put aside, sent again or cut by a crash, a till's cursor passes
\* no row of the journal that the till neither holds nor has put aside, the row is
\* the server's, and the till's stock level counts it at most once, after it has it.
THEOREM JournalWholeCorrect == Spec => []JournalWhole
<1>1. ASSUME SpreadInv, JournalInv
      PROVE  JournalWhole
  <2>1. JournalNeverSkipped
    BY <1>1 DEF JournalInv, NothingPassed, PassedAt, Passed, PutAside, JournalNeverSkipped
  <2>2. ASSUME NEW d \in Device, NEW e \in Journal
        PROVE  /\ Holds(d, e) /\ srv[e].v > 0 => row[d][e] = srv[e]
               /\ level[d][e] <= row[d][e].v
    <3>1. e \in Entity /\ ~IsSeeded(e)
      BY SyncAssumption, ElementOfSeq DEF IsSeeded
    <3>2. Holds(d, e) => \E m \in Mut : mut[m].dev \in Device /\ mut[m].ent = e
      BY <1>1, <3>1 DEF SpreadInv, HeldInv
    <3>3. SameEverywhere /\ CountedAt(d)
      BY <1>1 DEF JournalInv, CountedOnce
    <3> QED BY <3>2, <3>3 DEF SameEverywhere, CountedAt
  <2> QED BY <2>1, <2>2 DEF JournalWhole, JournalAgrees
<1> QED BY <1>1, SpreadInit, SpreadStep, JournalInit, JournalStep, PTL DEF Spec

-----------------------------------------------------------------------------
(* The rows converge.                                                     *)

\* d knows the answer of its mutation m, or waits for one of those on row e.
Answered(d, m) == st[m] = "done" \/ m \in acked[d]
Awaits(d, e) == \E m \in Own(d) : mut[m].ent = e /\ ~Answered(d, m)
Unsent(d, m) == processed[m] = NoAnswer /\ m \notin wire[d] \cup ghost[d]

\* The mutations of d were taken as they came: none deletes, none was refused or
\* lost before it was enqueued, and each of a row was answered after those before it.
Plain(d) ==
    /\ NoDeletion /\ InOrder(d)
    /\ \A m \in Own(d) :
         /\ att[m] = 0
         /\ processed[m].status \in Accepted \cup {"none"}
         /\ st[m] = "none" => edit[d].mut = m

\* The outbox and the request of a till.
Pushing == {"sent", "conflict"}
Pulling == {"pull", "apply", "upsert", "level"}
QueueAt(d) ==
    /\ edit[d].mut # 0 => /\ st[edit[d].mut] = "none"
                          /\ \A n \in Own(d) : n <= edit[d].mut
    /\ wire[d] \cup acked[d] \cup todo[d] \subseteq sent[d]
    /\ \A m \in todo[d] : m \notin acked[d]
    /\ \A m \in todo[d] \cup acked[d] : st[m] \in {"pending", "failed"}
    /\ pc[d] \notin Pushing => sent[d] = {}
    /\ \A m \in Handles(d) : st[m] # "none"
QueueInv ==
    /\ \A m \in Mut : st[m] # "none" => m \in Issued
    /\ \A m \in Mut : st[m] = "failed" => att[m] > 0
    /\ \A m \in Mut : st[m] = "none" => processed[m] = NoAnswer
    /\ \A d \in Device : QueueAt(d)

\* Its mutations go out in their order.
FlowAt(d) ==
    /\ \A m, n \in Own(d) : m < n => /\ st[n] = "done" => st[m] = "done"
                                     /\ Answered(d, n) => Answered(d, m)
    /\ pc[d] \in Pushing =>
         /\ \A m \in sent[d] : m \in todo[d] \/ Answered(d, m)
         /\ \A m \in Own(d), n \in sent[d] : m < n /\ st[m] # "done" => m \in sent[d]
         /\ Cardinality(sent[d]) < BatchSize =>
              \A m \in Own(d) : st[m] # "done" /\ m \notin sent[d] => Unsent(d, m)
    /\ pc[d] \in Pulling => \A m \in Own(d) : st[m] # "done" => Unsent(d, m)

\* What the server has made of the mutations.
TakenInv ==
    /\ \A m, n \in Issued : mut[m].op = "create" /\ mut[n].ent = mut[m].ent => m <= n
    /\ \A m \in Issued : mut[m].op = "create" /\ processed[m] = NoAnswer
                            => srv[mut[m].ent].v = 0
    /\ \A m \in Issued : processed[m].status \in Accepted =>
         /\ mut[m].op = "create" => \E s \in 1..Len(log) : log[s].mut = m
         /\ mut[m].op = "update" =>
              /\ processed[m].state.v > 0
              /\ \E s \in EntriesOf(mut[m].ent) : log[s].row = processed[m].state
    /\ \A s \in 1..Len(log) : log[s].mut # 0 =>
         /\ mut[log[s].mut].op = "create" => log[s].row = FirstWritten(log[s].mut)
         /\ mut[log[s].mut].op = "update" => log[s].row = processed[log[s].mut].state

\* What the till holds of a row it waits for nothing about: something the server has
\* published, no older than its own entries and those it has gone past.
Told(d, e) == row[d][e].v = 0 \/ \E s \in EntriesOf(e) : log[s].row = row[d][e]
Reached(d, e, n, P) ==
    \A s \in EntriesOf(e) :
        log[s].dev = d \/ (s <= n /\ s \notin P)
            => log[s].row.v <= row[d][e].v \/ (log[s].dev # d /\ PutAside(d, s))
Ahead(d, e) ==
    /\ Reached(d, e, cursor[d], {})
    /\ pc[d] \in Applying /\ ~replaying[d] => Reached(d, e, upto[d], page[d])

\* The answers of its mutations, once given, are no older than what it has gone past.
AnswersAhead(d) ==
    \A m \in Own(d) : st[m] # "done" /\ processed[m] # NoAnswer =>
        \A s \in EntriesOf(mut[m].ent) :
            s <= cursor[d] => log[s].row.v <= processed[m].state.v
\* The row it has created, and has done nothing else to, is as it created it.
Sole(d, m) == \A n \in Own(d) : mut[n].ent = mut[m].ent => n = m
CreatedShown(d) ==
    \A m \in Own(d) :
        mut[m].op = "create" /\ st[m] # "done" /\ Sole(d, m)
            => row[d][mut[m].ent] = FirstWritten(m)
\* What it is about to write is newer than what it holds, and what it has written no older
\* than what it was sent.
Fetched(d) ==
    \A s \in Change : First(page[d], s) /\ ~Awaits(d, log[s].ent) =>
        /\ pc[d] = "upsert" => row[d][log[s].ent].v < log[s].row.v
        /\ pc[d] = "level" => log[s].row.v <= row[d][log[s].ent].v
ShownRow(d, e) == Told(d, e) /\ (e \notin Journal => Ahead(d, e))
ShownAt(d) ==
    /\ AnswersAhead(d) /\ CreatedShown(d)
    /\ \A e \in Entity : ~Awaits(d, e) => ShownRow(d, e)
    /\ Fetched(d)

\* What the convergence of the rows adds to the invariants of the rows and the journal.
ConvergeInv ==
    /\ QueueInv
    /\ TakenInv
    /\ \A d \in Device : Plain(d) => FlowAt(d) /\ ShownAt(d)

\* The mutations issued so far.
LEMMA IssuedAre ==
    ASSUME TypeOK, IssuedInv
    PROVE  /\ nextMut \in Nat /\ nextMut \notin Issued
           /\ \A m \in Issued : m \in Mut /\ m \in Nat /\ m # 0 /\ m < nextMut /\ mut[m].dev \in Device
           /\ \A m \in Mut : m < nextMut => m \in Issued
<1>1. nextMut \in 1..(MaxMut + 1) /\ MaxMut \in Nat
  BY SyncAssumption DEF TypeOK
<1>2. \A m \in Issued : m \in Mut /\ m \in Nat /\ m # 0 /\ m < nextMut
  BY <1>1 DEF Issued, Mut
<1>3. nextMut \notin Issued /\ \A m \in Mut : m < nextMut => m \in Issued
  BY <1>1 DEF Issued, Mut
<1> QED BY <1>1, <1>2, <1>3 DEF IssuedInv

\* Of the mutations of a till.
LEMMA OwnAre ==
    ASSUME TypeOK, IssuedInv, NEW d \in Device
    PROVE  /\ \A m \in Own(d) : m \in Mut /\ m \in Nat /\ m \in Issued /\ mut[m].dev = d
                                /\ mut[m].ent \in Entity /\ mut[m].dev \in Device
           /\ \A m \in Mut : mut[m].dev = d => m \in Own(d)
           /\ \A m \in Mut : m \in Issued <=> mut[m].dev \in Device
           /\ Handles(d) \subseteq Own(d)
<1>1. nextMut \in 1..(MaxMut + 1) /\ MaxMut \in Nat
  BY SyncAssumption DEF TypeOK
<1>2. Issued \subseteq Mut /\ \A m \in Mut : m \in Nat /\ (m \in Issued <=> m < nextMut)
  BY <1>1 DEF Issued, Mut
<1>3. \A m \in Mut : mut[m].ent \in Entity
  BY DEF TypeOK, Mutation
<1>4. \A m \in Mut : mut[m].dev = d => m \in Own(d)
  BY <1>2 DEF Own, IssuedInv
<1>5. Handles(d) \subseteq Mut
  BY DEF TypeOK, Handles
<1> QED BY <1>2, <1>3, <1>4, <1>5 DEF Own, IssuedInv

\* They stay as they were issued, and are joined by the one a step issues.
LEMMA OwnAfter ==
    ASSUME TypeOK, TypeOK', IssuedInv, Next, NEW d \in Device
    PROVE  /\ \A m \in Own(d) : m \in Own(d)' /\ mut'[m] = mut[m]
           /\ \A m \in Own(d)' : \/ m \in Own(d)
                                 \/ /\ m = nextMut /\ m \notin Issued
                                    /\ \A n \in Issued : n < m
                                    /\ \E x \in Mutation : Issues(d, x) /\ mut'[m] = x
<1>1. nextMut \in 1..(MaxMut + 1) /\ MaxMut \in Nat
  BY SyncAssumption DEF TypeOK
<1>2. CASE UNCHANGED <<mut, nextMut>>
  BY <1>2, OwnAre DEF Own, Issued
<1>3. ASSUME NEW b \in Device, NEW x \in Mutation, Issues(b, x)
      PROVE  /\ \A m \in Own(d) : m \in Own(d)' /\ mut'[m] = mut[m]
             /\ \A m \in Own(d)' : m \in Own(d) \/ (m = nextMut /\ b = d /\ mut'[m] = x)
  <2>1. /\ nextMut \in Mut /\ nextMut' = nextMut + 1 /\ x.dev = b
        /\ mut' = [mut EXCEPT ![nextMut] = x] /\ mut \in [Mut -> Mutation]
    BY <1>3 DEF Issues, TypeOK
  <2>2. \A m \in Issued' : m \in Issued \/ m = nextMut
    BY <1>1, <2>1 DEF Issued
  <2>3. \A m \in Issued : m \in Issued' /\ m # nextMut /\ m \in Mut
    BY <1>1, <2>1 DEF Issued, Mut
  <2> QED BY <2>1, <2>2, <2>3 DEF Own
<1>4. nextMut \notin Issued /\ \A n \in Issued : n < nextMut
  BY <1>1 DEF Issued
<1> QED BY <1>2, <1>3, <1>4, StepKinds

\* What a step may do to a place in the outbox.
LEMMA PlaceSteps ==
    ASSUME TypeOK, IssuedInv, QueueInv, NEW d \in Device, NEW m \in Mut,
           Cashier(d) \/ Writing(d) \/ Engine(d) \/ Server(d) \/ Failure(d)
    PROVE  /\ \/ st'[m] = st[m]
              \/ st[m] = "none" /\ st'[m] = "pending" /\ edit[d].mut = m /\ Enqueue(d)
              \/ /\ st[m] \in {"pending", "failed"} /\ st'[m] \in {"failed", "conflict", "done"}
                 /\ m \in todo[d] \cup acked[d]
           /\ att'[m] >= att[m]
           /\ st'[m] # st[m] \/ att'[m] # att[m] => mut[m].dev = d
           /\ st'[m] = "failed" => st[m] = "failed" \/ att'[m] > 0
<1>2. st \in [Mut -> {"none", "pending", "failed", "conflict", "done"}] /\ att \in [Mut -> Nat]
  BY DEF TypeOK
<1> USE DEF outboxVars
<1>3. CASE UNCHANGED <<st, att>>
  BY <1>2, <1>3
<1>4. CASE Cashier(d) \/ Server(d) \/ Failure(d)
  <2>1. ASSUME Cashier(d) PROVE UNCHANGED <<st, att>>
    BY <2>1, ZenonT(60) DEF Cashier, LocalCreate, LocalUpdate, LocalDelete, Write, ResolveServer, ResolveLocal
  <2>2. ASSUME Server(d) PROVE UNCHANGED <<st, att>>
    BY <2>2, ZenonT(60) DEF Server, ServerStep, ServeReplay, ServeThrow, ServeCreate, ServeUnknown,
       ServeDeleted, ServeDelete, ServeUpdate, ServeKeep, Commit, tillVars
  <2>3. ASSUME Failure(d) PROVE UNCHANGED <<st, att>>
    BY <2>3 DEF Failure, RequestLost, Crash, Forget
  <2> QED BY <1>3, <1>4, <2>1, <2>2, <2>3
<1>5. CASE Writing(d)
  <2>1. CASE LocalLevel(d) \/ CloseConflict(d)
    BY <1>3, <2>1 DEF LocalLevel, CloseConflict
  <2>2. CASE Enqueue(d)
    <3>1. edit[d].mut # 0 /\ st' = [st EXCEPT ![edit[d].mut] = "pending"] /\ att' = att
      BY <2>2 DEF Enqueue
    <3>2. edit[d] \in Edit
      BY DEF TypeOK
    <3>3. edit[d].mut \in Mut /\ mut[edit[d].mut].dev = d /\ st[edit[d].mut] = "none"
      BY <3>1, <3>2, SyncAssumption DEF Edit, Mut, IssuedInv, QueueInv, QueueAt
    <3>4. CASE m = edit[d].mut
      BY <1>2, <2>2, <3>1, <3>3, <3>4
    <3>5. CASE m # edit[d].mut
      BY <1>2, <3>1, <3>3, <3>5
    <3> QED BY <3>4, <3>5
  <2> QED BY <1>5, <2>1, <2>2 DEF Writing
<1>6. CASE Engine(d)
  <2>1. \A n \in todo[d] \cup acked[d] : mut[n].dev = d /\ st[n] \in {"pending", "failed"}
    BY DEF IssuedInv, Handles, QueueInv, QueueAt
  <2>2. ASSUME NEW n \in Mut, MarkConflict(d, n)
        PROVE  /\ n \in todo[d] /\ att' = att /\ st' = [st EXCEPT ![n] = "conflict"]
    BY <2>2 DEF MarkConflict, First
  <2>3. ASSUME NEW n \in Mut, AnswerRejected(d, n)
        PROVE  /\ n \in todo[d] /\ att' = [att EXCEPT ![n] = att[n] + 1]
               /\ st' = [st EXCEPT ![n] = "failed"]
    BY <2>3 DEF AnswerRejected, Handling, First
  <2>4. ASSUME NEW n \in Mut, MarkSent(d, n)
        PROVE  /\ n \in acked[d] /\ att' = att /\ st' = [st EXCEPT ![n] = "done"]
    BY <2>4 DEF MarkSent, First
  <2>5. CASE \E n \in Mut : MarkConflict(d, n) \/ AnswerRejected(d, n) \/ MarkSent(d, n)
    <3>1. PICK n \in Mut : MarkConflict(d, n) \/ AnswerRejected(d, n) \/ MarkSent(d, n)
      BY <2>5
    <3>2. /\ n \in todo[d] \cup acked[d]
          /\ \E q \in {"failed", "conflict", "done"} :
               /\ st' = [st EXCEPT ![n] = q]
               /\ \/ att' = att /\ q # "failed"
                  \/ att' = [att EXCEPT ![n] = att[n] + 1]
      BY <2>2, <2>3, <2>4, <3>1
    <3>3. /\ att'[m] >= att[m] /\ (st'[m] = "failed" => st[m] = "failed" \/ att'[m] > 0)
          /\ m # n => st'[m] = st[m] /\ att'[m] = att[m]
      BY <1>2, <3>2
    <3>4. CASE m = n
      BY <1>2, <2>1, <3>2, <3>3, <3>4
    <3>5. CASE m # n
      BY <1>2, <3>2, <3>3, <3>5
    <3> QED BY <3>4, <3>5
  <2>6. CASE ~\E n \in Mut : MarkConflict(d, n) \/ AnswerRejected(d, n) \/ MarkSent(d, n)
    <3>1. UNCHANGED <<st, att>>
      BY <1>6, <2>6 DEF Engine, PushNothing, PushBatch, PushDone, AnswerAccepted, AnswerConflict,
         Pull, PageDone, CycleDone, ApplySkip, ApplyStart, ApplyUpsert, ApplyLevel, ApplyDefer
    <3> QED BY <1>3, <3>1
  <2> QED BY <2>5, <2>6
<1> QED BY <1>4, <1>5, <1>6

\* What the engine and the server hold for a till is its own affair.
Alone(b) ==
    /\ sent'[b] = sent[b] /\ todo'[b] = todo[b] /\ acked'[b] = acked[b]
    /\ wire'[b] = wire[b] /\ ghost'[b] = ghost[b]
    /\ Own(b)' = Own(b) /\ \A m \in Own(b) : st'[m] = st[m] /\ att'[m] = att[m] /\ mut'[m] = mut[m]

\* What a step of a till, or of the server for it, leaves to the others.
LEMMA OthersAlone ==
    ASSUME TypeOK, TypeOK', IssuedInv, QueueInv, Next, NEW d \in Device,
           Cashier(d) \/ Writing(d) \/ Engine(d) \/ Server(d) \/ Failure(d),
           NEW b \in Device, b # d
    PROVE  Alone(b)
<1> USE DEF netVars, pushVars
<1>0. /\ wire \in [Device -> SUBSET Mut] /\ ghost \in [Device -> SUBSET Mut]
      /\ sent \in [Device -> SUBSET Mut] /\ todo \in [Device -> SUBSET Mut]
      /\ acked \in [Device -> SUBSET Mut]
  BY DEF TypeOK
<1>1. \A m \in Own(b) : st'[m] = st[m] /\ att'[m] = att[m] /\ mut'[m] = mut[m]
  BY OwnAre, OwnAfter, PlaceSteps
<1>2. Own(b)' = Own(b)
  <2>1. ASSUME NEW x \in Mutation, Issues(b, x)
        PROVE  FALSE
    <3>1. edit'[b].mut = nextMut /\ nextMut \in Mut /\ nextMut' = nextMut + 1
      BY <2>1 DEF Issues, TypeOK
    <3>2. edit'[b] = edit[b]
      BY OthersKeep DEF Untouched
    <3>3. edit[b].mut < nextMut
      <4>1. edit[b].mut \in Mut /\ mut[edit[b].mut].dev = b
        BY <3>1, <3>2, SyncAssumption DEF Mut, IssuedInv
      <4> QED BY <4>1 DEF IssuedInv
    <3> QED BY <3>1, <3>2, <3>3, SyncAssumption DEF Mut
  <2> QED BY <2>1, OwnAfter
<1>3. /\ sent'[b] = sent[b] /\ todo'[b] = todo[b] /\ acked'[b] = acked[b]
      /\ wire'[b] = wire[b] /\ ghost'[b] = ghost[b]
  <2>1. CASE Cashier(d)
    BY <2>1, ZenonT(60) DEF Cashier, LocalCreate, LocalUpdate, LocalDelete, Write, ResolveServer,
       ResolveLocal
  <2>2. CASE Writing(d)
    BY <2>2 DEF Writing, LocalLevel, Enqueue, CloseConflict
  <2>3. CASE Server(d)
    <3>1. PICK m \in Mut : (\E a : Serve(d, m, a)) /\ UNCHANGED pushVars
      BY <2>3, ZenonT(60) DEF Server, ServerStep, ServeReplay, ServeThrow, ServeCreate, ServeUnknown,
         ServeDeleted, ServeDelete, ServeUpdate, ServeKeep, Commit, tillVars
    <3> QED BY <1>0, <3>1 DEF Serve
  <2>4. CASE Failure(d)
    BY <1>0, <2>4 DEF Failure, RequestLost, Crash, Forget
  <2>5. CASE Engine(d)
    <3>1. CASE \/ PushNothing(d) \/ Pull(d) \/ PageDone(d) \/ CycleDone(d)
               \/ \E s \in Change : \/ ApplySkip(d, s) \/ ApplyStart(d, s) \/ ApplyUpsert(d, s)
                                    \/ ApplyLevel(d, s) \/ ApplyDefer(d, s)
      BY <3>1 DEF PushNothing, Pull, PageDone, CycleDone, ApplySkip, ApplyStart, ApplyUpsert,
         ApplyLevel, ApplyDefer
    <3>2. CASE PushBatch(d) \/ PushDone(d)
      BY <1>0, <3>2 DEF PushBatch, PushDone
    <3>3. CASE \E m \in Mut : \/ AnswerAccepted(d, m) \/ AnswerConflict(d, m) \/ MarkConflict(d, m)
                              \/ AnswerRejected(d, m) \/ MarkSent(d, m)
      BY <1>0, <3>3 DEF AnswerAccepted, AnswerConflict, MarkConflict, AnswerRejected, MarkSent, Handled
    <3> QED BY <2>5, <3>1, <3>2, <3>3 DEF Engine
  <2> QED BY <2>1, <2>2, <2>3, <2>4, <2>5
<1> QED BY <1>1, <1>2, <1>3 DEF Alone

\* A stored answer was given to a mutation that was in its outbox.
LEMMA AnswerGiven ==
    ASSUME TypeOK, TypeOK', IssuedInv, QueueInv, Next, NEW m \in Mut, processed'[m] # processed[m]
    PROVE  st[m] # "none"
<1>1. PICK n \in Mut : Committed(n) /\ \E d \in Device : n \in Handles(d)
  BY LogStep DEF serverVars
<1>2. n = m
  BY <1>1 DEF Committed, TypeOK
<1> QED BY <1>1, <1>2 DEF QueueInv, QueueAt

\* Till d, whose mutations were taken as they came, was so before.
LEMMA PlainBefore ==
    ASSUME TypeOK, TypeOK', IssuedInv, QueueInv, Next, NEW d \in Device, Plain(d)'
    PROVE  Plain(d)
<1>1. PICK b \in Device : Cashier(b) \/ Writing(b) \/ Engine(b) \/ Server(b) \/ Failure(b)
  BY DEF Next
<1>2. \A m \in Own(d) : m \in Own(d)' /\ mut'[m] = mut[m] /\ m \in Mut
  BY OwnAre, OwnAfter
<1>3. NoAnswer.status = "none" /\ NoAnswer.state = Absent /\ Absent.v = 0
  BY DEF NoAnswer, Answer, Absent
<1>4. \A m \in Mut : processed[m] = NoAnswer \/ processed'[m] = processed[m]
  <2>1. \A m \in Mut : Committed(m) => \A n \in Mut : processed[n] = NoAnswer \/ processed'[n] = processed[n]
    BY DEF Committed, TypeOK
  <2> QED BY <2>1, OnlyServerWrites DEF serverVars
<1>5. NoDeletion
  <2>1. \A m \in Issued : m \in Issued' /\ mut'[m] = mut[m]
    <3>1. \A m \in Issued : m \in Mut /\ mut[m].dev \in Device
      BY IssuedAre
    <3>2. \A m \in Issued : mut'[m] = mut[m]
      BY <3>1, MutationStands
    <3>3. nextMut' = nextMut \/ nextMut' = nextMut + 1
      BY StepKinds DEF Issues
    <3>4. \A m \in Issued : m \in Issued'
      BY <3>3, IssuedAre DEF Issued
    <3> QED BY <3>2, <3>4
  <2> QED BY <2>1 DEF Plain, NoDeletion
<1>6. InOrder(d)
  <2>1. SUFFICES ASSUME NEW m \in Own(d), NEW n \in Own(d), m < n, mut[m].ent = mut[n].ent,
                        processed[n] # NoAnswer
                 PROVE  processed[m].state.v <= processed[n].state.v
    BY DEF InOrder
  <2>2. processed'[n] = processed[n] /\ processed'[m].state.v <= processed'[n].state.v
    BY <1>2, <1>4, <2>1 DEF Plain, InOrder
  <2>3. processed[n].state.v \in Nat
    BY <1>2 DEF TypeOK, Answers, Row
  <2> QED BY <1>2, <1>3, <1>4, <2>2, <2>3
<1>7. ASSUME NEW m \in Own(d)
      PROVE  /\ att[m] = 0 /\ processed[m].status \in Accepted \cup {"none"}
             /\ st[m] = "none" => edit[d].mut = m
  <2>1. /\ att'[m] = 0 /\ processed'[m].status \in Accepted \cup {"none"}
        /\ st'[m] = "none" => edit'[d].mut = m
    BY <1>2 DEF Plain
  <2>2. att[m] = 0
    <3>1. att[m] \in Nat /\ att'[m] >= att[m]
      BY <1>1, <1>2, PlaceSteps DEF TypeOK
    <3> QED BY <2>1, <3>1
  <2>3. processed[m].status \in Accepted \cup {"none"}
    BY <1>2, <1>3, <1>4, <2>1
  <2>4. ASSUME st[m] = "none"
        PROVE  edit[d].mut = m
    <3>1. m \in Issued /\ mut[m].dev = d /\ nextMut \notin Issued /\ m # 0
      BY OwnAre, IssuedAre
    <3>2. CASE st'[m] = "none"
      <4>1. edit'[d].mut = m
        BY <2>1, <3>2
      <4>2. \A c \in Device, x \in Mutation : Issues(c, x) => edit'[d].mut \in {nextMut, edit[d].mut}
        BY DEF Issues, TypeOK
      <4>3. edit'[d].mut \in {0, nextMut, edit[d].mut}
        BY <4>2, StepKinds DEF EditsOnly
      <4> QED BY <3>1, <4>1, <4>3
    <3>3. CASE st'[m] # "none"
      <4>1. edit[b].mut = m /\ mut[m].dev = b
        BY <1>1, <1>2, <2>4, <3>3, PlaceSteps
      <4> QED BY <3>1, <4>1
    <3> QED BY <3>2, <3>3
  <2> QED BY <2>2, <2>3, <2>4
<1> QED BY <1>5, <1>6, <1>7 DEF Plain

\* The write in progress is that of the till's last mutation, until it is enqueued.
LEMMA EditStep ==
    ASSUME TypeOK, TypeOK', IssuedInv, QueueInv, Next, NEW b \in Device, edit'[b].mut # 0
    PROVE  /\ st'[edit'[b].mut] = "none"
           /\ \A n \in Own(b)' : n <= edit'[b].mut
<1>1. PICK d \in Device : Cashier(d) \/ Writing(d) \/ Engine(d) \/ Server(d) \/ Failure(d)
  BY DEF Next
<1>2. edit \in [Device -> Edit] /\ 0 \notin Mut /\ MaxMut \in Nat
  BY SyncAssumption DEF TypeOK, Mut
<1>3. CASE edit'[b].mut = edit[b].mut /\ ~\E x \in Mutation : Issues(b, x)
  <2>1. edit[b].mut \in Mut /\ st[edit[b].mut] = "none" /\ \A n \in Own(b) : n <= edit[b].mut
    BY <1>2, <1>3 DEF Edit, Mut, QueueInv, QueueAt
  <2>2. ~(Enqueue(d) /\ edit[d].mut = edit[b].mut)
    <3>1. SUFFICES ASSUME Enqueue(d), edit[d].mut = edit[b].mut PROVE FALSE
      OBVIOUS
    <3>2. d = b
      BY <1>3, <3>1 DEF IssuedInv
    <3>3. edit'[d].mut = 0
      BY <1>2, <3>1 DEF Enqueue
    <3> QED BY <1>3, <3>2, <3>3
  <2>3. st'[edit[b].mut] = "none"
    BY <1>1, <2>1, <2>2, PlaceSteps
  <2> QED BY <1>3, <2>1, <2>3, OwnAfter
<1>4. ASSUME NEW x \in Mutation, Issues(b, x)
      PROVE  /\ st'[edit'[b].mut] = "none"
             /\ \A n \in Own(b)' : n <= edit'[b].mut
  <2>1. edit'[b].mut = nextMut /\ nextMut \in Mut /\ st' = st
    BY <1>2, <1>4 DEF Issues
  <2>2. st[nextMut] = "none"
    BY <2>1, IssuedAre DEF QueueInv
  <2>3. \A n \in Own(b) : n <= nextMut
    BY IssuedAre, OwnAre
  <2>4. \A n \in Own(b)' : n \in Own(b) \/ n = nextMut
    BY OwnAfter
  <2> QED BY <2>1, <2>2, <2>3, <2>4, IssuedAre
<1>5. edit'[b].mut = edit[b].mut \/ \E x \in Mutation : Issues(b, x)
  <2>1. CASE EditsOnly
    BY <2>1 DEF EditsOnly
  <2>2. ASSUME NEW c \in Device, NEW x \in Mutation, Issues(c, x), c # b
        PROVE  edit'[b] = edit[b]
    BY <1>2, <2>2 DEF Issues
  <2> QED BY <2>1, <2>2, StepKinds
<1> QED BY <1>3, <1>4, <1>5

\* The queues of the other tills stay as they are.
LEMMA QueueElsewhere ==
    ASSUME TypeOK, TypeOK', IssuedInv, QueueInv, Next, NEW b \in Device,
           Alone(b), pc'[b] = pc[b]
    PROVE  QueueAt(b)'
<1>1. QueueAt(b) /\ Handles(b) \subseteq Own(b)
  BY OwnAre DEF QueueInv
<1>2. Handles(b)' = Handles(b)
  BY DEF Alone, Handles
<1>3. \A m \in Handles(b) : st'[m] = st[m]
  BY <1>1 DEF Alone
<1>4. edit'[b].mut # 0 => /\ st'[edit'[b].mut] = "none"
                          /\ \A n \in Own(b)' : n <= edit'[b].mut
  BY EditStep
<1>5. \A m \in todo[b] \cup acked[b] : st'[m] \in {"pending", "failed"}
  BY <1>1, <1>3 DEF QueueAt, Handles
<1>6. \A m \in Handles(b)' : st'[m] # "none"
  BY <1>1, <1>2, <1>3 DEF QueueAt
<1> QED BY <1>1, <1>4, <1>5, <1>6 DEF QueueAt, Alone

\* The queue of the till a step is of.
LEMMA QueueHere ==
    ASSUME TypeOK, TypeOK', IssuedInv, QueueInv, Next, NEW d \in Device,
           Cashier(d) \/ Writing(d) \/ Engine(d) \/ Server(d) \/ Failure(d)
    PROVE  QueueAt(d)'
<1> DEFINE Sent == /\ wire'[d] \cup acked'[d] \cup todo'[d] \subseteq sent'[d]
                   /\ \A m \in todo'[d] : m \notin acked'[d]
                   /\ \A m \in todo'[d] \cup acked'[d] : st'[m] \in {"pending", "failed"}
                   /\ pc'[d] \notin Pushing => sent'[d] = {}
<1>0. /\ wire \in [Device -> SUBSET Mut] /\ ghost \in [Device -> SUBSET Mut]
      /\ sent \in [Device -> SUBSET Mut] /\ todo \in [Device -> SUBSET Mut]
      /\ acked \in [Device -> SUBSET Mut] /\ pc \in [Device -> Labels]
      /\ st \in [Mut -> {"none", "pending", "failed", "conflict", "done"}]
  BY DEF TypeOK
<1>1. /\ edit'[d].mut # 0 => /\ st'[edit'[d].mut] = "none"
                             /\ \A n \in Own(d)' : n <= edit'[d].mut
      /\ \A m \in Handles(d)' : st'[m] # "none"
  <2>1. \A m \in Handles(d)' : m \in Mut /\ st[m] # "none"
    <3>1. \A m \in Handles(d) : st[m] # "none"
      BY DEF QueueInv, QueueAt
    <3>2. \A m \in Outbox(d) : st[m] # "none"
      BY DEF Outbox
    <3>3. Handles(d)' \subseteq Mut
      BY DEF TypeOK, Handles
    <3> QED BY <3>1, <3>2, <3>3, HandlesOwn
  <2>2. \A m \in Handles(d)' : st'[m] # "none"
    BY <2>1, PlaceSteps
  <2> QED BY <2>2, EditStep
<1>2. SUFFICES Sent
  BY <1>1 DEF QueueAt
<1>3. /\ wire[d] \cup acked[d] \cup todo[d] \subseteq sent[d]
      /\ \A m \in todo[d] : m \notin acked[d]
      /\ \A m \in todo[d] \cup acked[d] : st[m] \in {"pending", "failed"} /\ m \in Mut
      /\ pc[d] \notin Pushing => sent[d] = {}
  BY <1>0 DEF QueueInv, QueueAt
<1> USE DEF netVars, pushVars, outboxVars
<1>4. ASSUME sent'[d] = sent[d], todo'[d] = todo[d], acked'[d] = acked[d], wire'[d] \subseteq wire[d],
             \A m \in Mut : st[m] = st'[m] \/ st'[m] = "pending",
             pc'[d] \notin Pushing => pc[d] \notin Pushing
      PROVE  Sent
  BY <1>3, <1>4
<1>5. CASE Cashier(d) \/ Writing(d)
  <2>1. UNCHANGED <<sent, todo, acked, wire, pc>>
    BY <1>5, ZenonT(60) DEF Cashier, LocalCreate, LocalUpdate, LocalDelete, Write, ResolveServer,
       ResolveLocal, Writing, LocalLevel, Enqueue, CloseConflict
  <2>2. \A m \in Mut : st[m] = st'[m] \/ st'[m] = "pending"
    BY <1>0, <1>5, ZenonT(60) DEF Cashier, LocalCreate, LocalUpdate, LocalDelete, Write, ResolveServer,
       ResolveLocal, Writing, LocalLevel, Enqueue, CloseConflict
  <2> QED BY <1>4, <2>1, <2>2
<1>6. CASE Server(d)
  <2>1. PICK m \in Mut : (\E a : Serve(d, m, a)) /\ UNCHANGED <<pushVars, pc, st>>
    BY <1>6, ZenonT(60) DEF Server, ServerStep, ServeReplay, ServeThrow, ServeCreate, ServeUnknown,
       ServeDeleted, ServeDelete, ServeUpdate, ServeKeep, Commit, tillVars
  <2>2. wire'[d] \subseteq wire[d]
    BY <1>0, <2>1 DEF Serve
  <2> QED BY <1>4, <2>1, <2>2
<1>7. CASE Failure(d)
  <2>1. /\ wire'[d] = {} /\ sent'[d] = {} /\ todo'[d] = {} /\ acked'[d] = {}
    BY <1>0, <1>7 DEF Failure, RequestLost, Crash, Forget
  <2> QED BY <2>1
<1>8. CASE Engine(d)
  <2>1. CASE \/ PushNothing(d) \/ Pull(d) \/ PageDone(d) \/ CycleDone(d)
             \/ \E s \in Change : \/ ApplySkip(d, s) \/ ApplyStart(d, s) \/ ApplyUpsert(d, s)
                                  \/ ApplyLevel(d, s) \/ ApplyDefer(d, s)
    <3>1. UNCHANGED <<sent, todo, acked, wire, st>>
      BY <2>1 DEF PushNothing, Pull, PageDone, CycleDone, ApplySkip, ApplyStart, ApplyUpsert,
         ApplyLevel, ApplyDefer
    <3>2. pc[d] \notin Pushing
      BY <2>1 DEF PushNothing, Pull, PageDone, CycleDone, ApplySkip, ApplyStart, ApplyUpsert,
         ApplyLevel, ApplyDefer, Pushing
    <3> QED BY <1>4, <3>1, <3>2
  <2>2. CASE PushBatch(d)
    <3> DEFINE batch == FirstOf(Due(d), BatchSize)
    <3>1. /\ sent'[d] = batch /\ todo'[d] = batch /\ wire'[d] = batch /\ acked' = acked /\ st' = st
          /\ pc[d] \notin Pushing /\ pc'[d] \in Pushing
      BY <1>0, <2>2 DEF PushBatch, Go, Pushing
    <3>2. \A m \in batch : st[m] \in {"pending", "failed"}
      BY DEF FirstOf, Due
    <3> HIDE DEF batch
    <3> QED BY <1>3, <3>1, <3>2
  <2>3. CASE PushDone(d)
    <3>1. sent'[d] = {} /\ UNCHANGED <<todo, acked, wire>> /\ acked[d] = {} /\ todo[d] = {} /\ wire[d] = {}
      BY <1>0, <2>3 DEF PushDone, AllHandled
    <3> QED BY <3>1
  <2>4. ASSUME NEW m \in Mut, AnswerAccepted(d, m)
        PROVE  Sent
    <3>1. /\ todo'[d] = todo[d] \ {m} /\ acked'[d] = acked[d] \cup {m} /\ m \in todo[d]
          /\ UNCHANGED <<sent, wire, st, pc>> /\ wire[d] = {}
      BY <1>0, <2>4 DEF AnswerAccepted, Handling, Handled, First
    <3> QED BY <1>3, <3>1
  <2>5. ASSUME NEW m \in Mut, AnswerConflict(d, m)
        PROVE  Sent
    <3>1. UNCHANGED <<sent, wire, st, todo, acked>> /\ pc'[d] \in Pushing
      BY <1>0, <2>5 DEF AnswerConflict, Go, Pushing
    <3> QED BY <1>4, <3>1
  <2>6. ASSUME NEW m \in Mut, MarkConflict(d, m)
        PROVE  Sent
    <3>1. /\ todo'[d] = todo[d] \ {m} /\ st' = [st EXCEPT ![m] = "conflict"] /\ m \in todo[d]
          /\ UNCHANGED <<sent, wire, acked>> /\ pc'[d] \in Pushing
      BY <1>0, <2>6 DEF MarkConflict, Handled, First, Go, Pushing
    <3> QED BY <1>0, <1>3, <3>1
  <2>7. ASSUME NEW m \in Mut, AnswerRejected(d, m)
        PROVE  Sent
    <3>1. /\ todo'[d] = todo[d] \ {m} /\ st' = [st EXCEPT ![m] = "failed"] /\ m \in todo[d]
          /\ UNCHANGED <<sent, wire, acked, pc>> /\ wire[d] = {}
      BY <1>0, <2>7 DEF AnswerRejected, Handling, Handled, First
    <3> QED BY <1>0, <1>3, <3>1
  <2>8. ASSUME NEW m \in Mut, MarkSent(d, m)
        PROVE  Sent
    <3>1. /\ acked'[d] = acked[d] \ {m} /\ st' = [st EXCEPT ![m] = "done"] /\ m \in acked[d]
          /\ UNCHANGED <<sent, wire, todo, pc>> /\ todo[d] = {}
      BY <1>0, <2>8 DEF MarkSent, AllHandled, First
    <3> QED BY <1>0, <1>3, <3>1
  <2> QED BY <1>8, <2>1, <2>2, <2>3, <2>4, <2>5, <2>6, <2>7, <2>8 DEF Engine
<1> QED BY <1>5, <1>6, <1>7, <1>8

\* Every step keeps the queues.
LEMMA QueueStep ==
    ASSUME TypeOK, TypeOK', IssuedInv, QueueInv, Next
    PROVE  QueueInv'
<1>1. PICK d \in Device : Cashier(d) \/ Writing(d) \/ Engine(d) \/ Server(d) \/ Failure(d)
  BY DEF Next
<1>2. ASSUME NEW m \in Mut, st'[m] # "none"
      PROVE  m \in Issued'
  <2>1. m \in Issued
    <3>1. st[m] # "none" \/ edit[d].mut = m
      BY <1>1, <1>2, PlaceSteps
    <3>2. CASE st[m] # "none"
      BY <3>2 DEF QueueInv
    <3>3. CASE edit[d].mut = m
      BY <3>3, IssuedAre, SyncAssumption DEF IssuedInv, Mut
    <3> QED BY <3>1, <3>2, <3>3
  <2>2. nextMut' = nextMut \/ nextMut' = nextMut + 1
    BY StepKinds DEF Issues
  <2> QED BY <2>1, <2>2, IssuedAre DEF Issued
<1>3. \A m \in Mut : st'[m] = "failed" => att'[m] > 0
  <2>1. ASSUME NEW m \in Mut, st'[m] = "failed"
        PROVE  att'[m] > 0
    <3>1. att[m] \in Nat /\ att'[m] \in Nat /\ (st[m] = "failed" => att[m] > 0)
      BY DEF TypeOK, QueueInv
    <3>2. att'[m] >= att[m] /\ (st[m] = "failed" \/ att'[m] > 0)
      BY <1>1, <2>1, PlaceSteps
    <3> QED BY <3>1, <3>2
  <2> QED BY <2>1
<1>4. \A m \in Mut : st'[m] = "none" => processed'[m] = NoAnswer
  <2>1. \A m \in Mut : st'[m] = "none" => st[m] = "none"
    BY <1>1, PlaceSteps
  <2> QED BY <2>1, AnswerGiven DEF QueueInv
<1>5. ASSUME NEW b \in Device
      PROVE  QueueAt(b)'
  <2>1. CASE b = d
    BY <1>1, <2>1, QueueHere
  <2>2. CASE b # d
    BY <1>1, <2>2, OthersAlone, OthersKeep, QueueElsewhere DEF Untouched
  <2> QED BY <2>1, <2>2
<1> QED BY <1>2, <1>3, <1>4, <1>5 DEF QueueInv

\* The answer the server stores with what it writes.
LEMMA ServedAnswer ==
    ASSUME TypeOK, NEW d \in Device, NEW m \in Mut, ServerStep(d, m)
    PROVE  \/ UNCHANGED serverVars
           \/ /\ processed[m] = NoAnswer
              /\ \E a : /\ processed' = [processed EXCEPT ![m] = a] /\ a.status # "none"
                        /\ \/ \E r \in Row, F \in SUBSET Field :
                                /\ Publish(m, r, F)
                                /\ \/ /\ mut[m].op = "create" /\ srv[mut[m].ent].v = 0
                                      /\ r = FirstWritten(m)
                                   \/ mut[m].op = "update" /\ srv[mut[m].ent].v > 0 /\ a.state = r /\ r.v > 0
                                   \/ mut[m].op = "delete" /\ srv[mut[m].ent].v > 0
                           \/ /\ UNCHANGED <<srv, log>>
                              /\ a.status \in Accepted =>
                                   /\ srv[mut[m].ent].v > 0
                                   /\ mut[m].op = "update" => a.state = srv[mut[m].ent]
<1> DEFINE e == mut[m].ent
           cur == srv[e]
<1>1. /\ e \in Entity /\ mut[m].val \in 0..MaxMut /\ mut[m].ts \in Nat
  BY DEF TypeOK, Mutation
<1>2. cur \in Row
  BY <1>1 DEF TypeOK
<1>3. cur.v \in Nat /\ cur.val \in [Field -> 0..MaxMut] /\ cur.ts \in Nat
  BY <1>2 DEF Row
<1>4. \A status, state : Answer(status, state).status = status /\ Answer(status, state).state = state
  BY DEF Answer
<1> DEFINE Written(a) == \/ \E r \in Row, F \in SUBSET Field :
                               /\ Publish(m, r, F)
                               /\ \/ mut[m].op = "create" /\ cur.v = 0 /\ r = FirstWritten(m)
                                  \/ mut[m].op = "update" /\ cur.v > 0 /\ a.state = r /\ r.v > 0
                                  \/ mut[m].op = "delete" /\ cur.v > 0
                         \/ /\ UNCHANGED <<srv, log>>
                            /\ a.status \in Accepted => cur.v > 0 /\ (mut[m].op = "update" => a.state = cur)
<1>5. SUFFICES ASSUME ~UNCHANGED serverVars
               PROVE  \E a : Commit(d, m, a) /\ a.status # "none" /\ Written(a)
  BY DEF Commit
<1> HIDE DEF Written
<1>6. ~(ServeReplay(d, m) \/ ServeThrow(d, m))
  BY <1>5 DEF ServeReplay, ServeThrow
<1>7. CASE ServeCreate(d, m)
  <2> DEFINE F == IF e \in Journal THEN {} ELSE Field
             a == Answer("applied", Absent)
  <2>1. F \in SUBSET Field
    OBVIOUS
  <2>2. FirstWritten(m) \in Row
    BY <1>1 DEF FirstWritten, FirstRow, Row
  <2>3. /\ Publish(m, FirstWritten(m), F) /\ Commit(d, m, a) /\ mut[m].op = "create" /\ cur.v = 0
    BY <1>7 DEF ServeCreate, FirstWritten
  <2> HIDE DEF F
  <2>4. Written(a)
    BY <2>1, <2>2, <2>3 DEF Written
  <2>5. a.status # "none"
    BY <1>4
  <2> QED BY <2>3, <2>4, <2>5
<1>8. CASE ServeUnknown(d, m)
  <2> DEFINE a == Answer("rejected", Absent)
  <2>1. Commit(d, m, a) /\ UNCHANGED <<srv, log>>
    BY <1>8 DEF ServeUnknown, NothingWritten
  <2>2. a.status = "rejected"
    BY <1>4
  <2>3. Written(a)
    BY <2>1, <2>2 DEF Written, Accepted
  <2> QED BY <2>1, <2>2, <2>3
<1>9. CASE ServeDeleted(d, m)
  <2> DEFINE a == Answer("ignored", IF mut[m].op = "create" THEN Absent ELSE cur)
  <2>1. Commit(d, m, a) /\ UNCHANGED <<srv, log>> /\ cur.v > 0
    BY <1>9 DEF ServeDeleted, NothingWritten
  <2>2. a.status = "ignored" /\ (mut[m].op = "update" => a.state = cur)
    BY <1>4
  <2> HIDE DEF a
  <2>3. Written(a)
    BY <2>1, <2>2 DEF Written
  <2> QED BY <2>1, <2>2, <2>3
<1>10. CASE ServeDelete(d, m)
  <2> DEFINE a == Answer("applied", Absent)
             r == [v |-> cur.v + 1, val |-> cur.val, ts |-> cur.ts, del |-> TRUE]
  <2>1. Commit(d, m, a) /\ Publish(m, r, {}) /\ mut[m].op = "delete" /\ cur.v > 0
    BY <1>10 DEF ServeDelete
  <2>2. r \in Row
    BY <1>3 DEF Row
  <2> HIDE DEF r
  <2>3. Written(a)
    BY <2>1, <2>2 DEF Written
  <2>4. a.status # "none"
    BY <1>4
  <2> QED BY <2>1, <2>3, <2>4
<1>11. CASE ServeUpdate(d, m)
  <2> DEFINE out == Resolution(m)
             r == [v |-> cur.v + 1, ts |-> mut[m].ts, del |-> FALSE,
                   val |-> [f \in Field |-> IF f \in out.fields THEN mut[m].val ELSE cur.val[f]]]
             a == Answer(IF out.kind = "apply" THEN "applied" ELSE "merged", r)
  <2>1. /\ Commit(d, m, a) /\ Publish(m, r, out.fields)
        /\ mut[m].op = "update" /\ cur.v > 0
    BY <1>11 DEF ServeUpdate, Arbitrable
  <2>2. a.state = r /\ a.status # "none"
    BY <1>4
  <2>3. out.fields \in SUBSET Field
    <3>1. mut[m].fields \in SUBSET Field
      BY DEF TypeOK, Mutation
    <3>2. out.fields \subseteq mut[m].fields
      BY ResolvedFields DEF Resolution
    <3> QED BY <3>1, <3>2
  <2> HIDE DEF out, a
  <2>4. r \in Row /\ r.v > 0
    <3>1. [f \in Field |-> IF f \in out.fields THEN mut[m].val ELSE cur.val[f]]
             \in [Field -> 0..MaxMut]
      BY <1>1, <1>3
    <3> QED BY <1>1, <1>3, <3>1 DEF Row
  <2> HIDE DEF r
  <2>5. Written(a)
    BY <2>1, <2>2, <2>3, <2>4 DEF Written
  <2> QED BY <2>1, <2>2, <2>5
<1>12. CASE ServeKeep(d, m)
  <2> DEFINE a == Answer(IF Resolution(m).kind = "manual" THEN "conflict" ELSE "ignored", cur)
  <2>1. Commit(d, m, a) /\ UNCHANGED <<srv, log>> /\ cur.v > 0
    BY <1>12 DEF ServeKeep, Arbitrable, NothingWritten
  <2>2. a.state = cur /\ a.status # "none"
    BY <1>4
  <2> HIDE DEF a
  <2>3. Written(a)
    BY <2>1, <2>2 DEF Written
  <2> QED BY <2>1, <2>2, <2>3
<1> QED BY <1>6, <1>7, <1>8, <1>9, <1>10, <1>11, <1>12 DEF ServerStep

\* A row is created once, before anything else is done to it, and an accepted mutation
\* is in the log: the creation, or the row the till was answered.
LEMMA TakenServer ==
    ASSUME TypeInv, TypeInv', IssuedInv, IssuedInv', LogInv, LogInv', AppliedOnce', OnceInv, TakenInv,
           NEW d \in Device, NEW m \in Mut, ServerStep(d, m), UNCHANGED <<mut, nextMut>>,
           ~UNCHANGED serverVars, Next
    PROVE  TakenInv'
<1> USE DEF TypeInv
<1>0. mut[m].ent \in Entity /\ Len(log) \in Nat /\ NoAnswer.status = "none" /\ "none" \notin Accepted
  BY LenProperties DEF TypeOK, Mutation, NoAnswer, Answer, Accepted
<1>1. PICK a : /\ processed' = [processed EXCEPT ![m] = a] /\ a.status # "none"
               /\ processed[m] = NoAnswer
               /\ \/ \E r \in Row, F \in SUBSET Field :
                       /\ Publish(m, r, F)
                       /\ \/ mut[m].op = "create" /\ srv[mut[m].ent].v = 0 /\ r = FirstWritten(m)
                          \/ mut[m].op = "update" /\ srv[mut[m].ent].v > 0 /\ a.state = r /\ r.v > 0
                          \/ mut[m].op = "delete" /\ srv[mut[m].ent].v > 0
                  \/ /\ UNCHANGED <<srv, log>>
                     /\ a.status \in Accepted =>
                          /\ srv[mut[m].ent].v > 0
                          /\ mut[m].op = "update" => a.state = srv[mut[m].ent]
  BY ServedAnswer
<1>2. /\ processed'[m] = a /\ processed'[m] # NoAnswer
      /\ \A n \in Mut : n # m => processed'[n] = processed[n]
  BY <1>0, <1>1 DEF TypeOK
<1>3. Issued' = Issued /\ mut' = mut /\ \A n \in Issued : n \in Mut /\ n \in Nat
  BY IssuedAre DEF Issued
<1>4. m \in Issued
  <2>1. mut'[m].dev \in Device
    BY <1>2 DEF IssuedInv
  <2> QED BY <2>1, IssuedAre DEF IssuedInv
<1>5. \A n \in Issued : mut[n].op = "create" /\ mut[n].ent = mut[m].ent => n <= m
  BY <1>4 DEF TakenInv
<1>6. \A i \in 1..Len(log) : i \in 1..Len(log') /\ log'[i] = log[i]
  BY LogStays
<1>7. \A i \in 1..Len(log) : log[i].mut # m
  BY <1>1, SyncAssumption DEF OnceInv, Mut
<1>8. CASE UNCHANGED <<srv, log>>
  <2>1. a.status \in Accepted => /\ srv[mut[m].ent].v > 0
                                 /\ mut[m].op = "update" => a.state = srv[mut[m].ent]
    <3>1. ASSUME NEW r, NEW F, Publish(m, r, F) PROVE FALSE
      <4>1. log' = Append(log, [ent |-> mut[m].ent, row |-> r, fields |-> F,
                           dev |-> mut[m].dev, mut |-> m])
        BY <3>1 DEF Publish
      <4> DEFINE y == [ent |-> mut[m].ent, row |-> r, fields |-> F, dev |-> mut[m].dev, mut |-> m]
      <4> HIDE DEF y
      <4>2. Len(Append(log, y)) = Len(log) + 1
        BY AppendProperties DEF TypeOK
      <4> QED BY <1>0, <1>8, <4>1, <4>2 DEF y
    <3> QED BY <1>1, <3>1
  <2>2. ~(a.status \in Accepted /\ mut[m].op = "create")
    <3>1. SUFFICES ASSUME a.status \in Accepted, mut[m].op = "create" PROVE FALSE
      OBVIOUS
    <3>2. srv[mut[m].ent].v = 0
      BY <1>1, <1>4, <3>1 DEF TakenInv
    <3> QED BY <2>1, <3>1, <3>2
  <2>3. a.status \in Accepted /\ mut[m].op = "update" =>
          /\ a.state.v > 0
          /\ \E s \in EntriesOf(mut[m].ent) : log[s].row = a.state
    <3>1. SUFFICES ASSUME a.status \in Accepted, mut[m].op = "update"
                   PROVE  /\ srv[mut[m].ent].v > 0
                          /\ \E s \in EntriesOf(mut[m].ent) : log[s].row = srv[mut[m].ent]
      BY <2>1
    <3>2. srv[mut[m].ent].v > 0 /\ srv[mut[m].ent].v \in Nat
      BY <1>0, <2>1, <3>1 DEF TypeOK, Row
    <3>3. PICK s \in EntriesOf(mut[m].ent) : log[s].row.v = srv[mut[m].ent].v
      BY <1>0, <3>2 DEF LogInv
    <3>4. log[s].row = srv[mut[m].ent]
      BY <3>3 DEF LogInv, EntriesOf
    <3> QED BY <3>2, <3>4
  <2>4. EntriesOf(mut[m].ent)' = EntriesOf(mut[m].ent) /\ \A n \in Mut : EntriesOf(mut[n].ent)' = EntriesOf(mut[n].ent)
    BY <1>3, <1>8 DEF EntriesOf
  <2>5. \A n \in Issued : mut[n].op = "create" /\ processed'[n] = NoAnswer => srv[mut[n].ent].v = 0
    BY <1>2, <1>3 DEF TakenInv
  <2>6. \A n \in Issued : processed'[n].status \in Accepted =>
          /\ mut[n].op = "create" => \E s \in 1..Len(log) : log[s].mut = n
          /\ mut[n].op = "update" =>
               /\ processed'[n].state.v > 0
               /\ \E s \in EntriesOf(mut[n].ent) : log[s].row = processed'[n].state
    BY <1>2, <1>3, <2>2, <2>3 DEF TakenInv
  <2>7. \A s \in 1..Len(log) : log[s].mut # 0 =>
         /\ mut[log[s].mut].op = "create" => log[s].row = FirstWritten(log[s].mut)
         /\ mut[log[s].mut].op = "update" => log[s].row = processed'[log[s].mut].state
    <3>1. \A s \in 1..Len(log) : log[s].mut # 0 => log[s].mut \in Mut
      BY LogTypes, SyncAssumption DEF Mut
    <3> QED BY <1>2, <1>7, <3>1 DEF TakenInv
  <2> QED BY <1>3, <1>8, <2>4, <2>5, <2>6, <2>7 DEF TakenInv, FirstWritten
<1>9. ASSUME NEW r \in Row, NEW F \in SUBSET Field, Publish(m, r, F),
             \/ mut[m].op = "create" /\ srv[mut[m].ent].v = 0 /\ r = FirstWritten(m)
             \/ mut[m].op = "update" /\ srv[mut[m].ent].v > 0 /\ a.state = r /\ r.v > 0
             \/ mut[m].op = "delete" /\ srv[mut[m].ent].v > 0
      PROVE  TakenInv'
  <2> DEFINE k == Len(log) + 1
  <2>1. /\ k \in 1..Len(log') /\ log'[k].ent = mut[m].ent /\ log'[k].row = r /\ log'[k].mut = m
        /\ \A i \in 1..Len(log') : i \in 1..Len(log) \/ i = k
        /\ srv' = [srv EXCEPT ![mut[m].ent] = r]
    BY <1>0, <1>9, LogAfter
  <2> HIDE DEF k
  <2>2. \A n \in Issued : mut[n].op = "create" /\ processed'[n] = NoAnswer => srv'[mut[n].ent].v = 0
    <3>1. SUFFICES ASSUME NEW n \in Issued, mut[n].op = "create", processed'[n] = NoAnswer
                   PROVE  srv'[mut[n].ent].v = 0
      OBVIOUS
    <3>2. n # m /\ processed[n] = NoAnswer /\ n \in Mut /\ m \in Nat /\ n \in Nat
      BY <1>2, <1>3, <1>4, <3>1
    <3>3. srv[mut[n].ent].v = 0
      BY <3>1, <3>2 DEF TakenInv
    <3>4. mut[n].ent # mut[m].ent
      <4>1. SUFFICES ASSUME mut[n].ent = mut[m].ent PROVE FALSE
        OBVIOUS
      <4>2. mut[m].op = "create"
        BY <1>9, <3>3, <4>1
      <4>3. m <= n /\ n <= m
        BY <1>4, <1>5, <3>1, <4>1, <4>2 DEF TakenInv
      <4> QED BY <3>2, <4>3
    <3> QED BY <2>1, <3>3, <3>4 DEF TypeOK
  <2>3. \A n \in Issued : processed'[n].status \in Accepted =>
          /\ mut[n].op = "create" => \E s \in 1..Len(log') : log'[s].mut = n
          /\ mut[n].op = "update" =>
               /\ processed'[n].state.v > 0
               /\ \E s \in EntriesOf(mut[n].ent)' : log'[s].row = processed'[n].state
    <3>1. SUFFICES ASSUME NEW n \in Issued, processed'[n].status \in Accepted
                   PROVE  /\ mut[n].op = "create" => \E s \in 1..Len(log') : log'[s].mut = n
                          /\ mut[n].op = "update" =>
                               /\ processed'[n].state.v > 0
                               /\ \E s \in EntriesOf(mut[n].ent)' : log'[s].row = processed'[n].state
      OBVIOUS
    <3>2. CASE n = m
      BY <1>2, <1>3, <1>9, <2>1, <3>2 DEF EntriesOf
    <3>3. CASE n # m
      <4>1. processed'[n] = processed[n]
        BY <1>2, <1>3, <3>3
      <4> QED BY <1>3, <1>6, <3>1, <4>1 DEF TakenInv, EntriesOf
    <3> QED BY <3>2, <3>3
  <2>4. \A s \in 1..Len(log') : log'[s].mut # 0 =>
         /\ mut[log'[s].mut].op = "create" => log'[s].row = FirstWritten(log'[s].mut)
         /\ mut[log'[s].mut].op = "update" => log'[s].row = processed'[log'[s].mut].state
    <3>1. \A s \in 1..Len(log) : log[s].mut # 0 => log[s].mut \in Mut
      BY LogTypes, SyncAssumption DEF Mut
    <3>2. \A s \in 1..Len(log) : log[s].mut # 0 =>
         /\ mut[log[s].mut].op = "create" => log[s].row = FirstWritten(log[s].mut)
         /\ mut[log[s].mut].op = "update" => log[s].row = processed'[log[s].mut].state
      BY <1>2, <1>7, <3>1 DEF TakenInv
    <3> QED BY <1>2, <1>6, <1>9, <2>1, <3>2
  <2>5. \A i : FirstWritten(i)' = FirstWritten(i)
    BY <1>3 DEF FirstWritten
  <2> QED BY <1>3, <2>2, <2>3, <2>4, <2>5 DEF TakenInv
<1> QED BY <1>1, <1>8, <1>9

\* Every step keeps what the server has made of the mutations.
LEMMA TakenStep ==
    ASSUME TypeInv, TypeInv', IssuedInv, IssuedInv', LogInv, LogInv', HeldInv, OnceInv, AppliedOnce',
           TakenInv, Next
    PROVE  TakenInv'
<1> USE DEF TypeInv
<1>1. CASE UNCHANGED <<serverVars, mut, nextMut>>
  BY <1>1 DEF TakenInv, serverVars, Issued, EntriesOf, FirstWritten
<1>2. ASSUME NEW d \in Device, NEW x \in Mutation, Issues(d, x)
      PROVE  TakenInv'
  <2>1. /\ nextMut \in Mut /\ mut' = [mut EXCEPT ![nextMut] = x] /\ nextMut' = nextMut + 1
        /\ UNCHANGED serverVars
    BY <1>2 DEF Issues
  <2>2. /\ mut'[nextMut] = x /\ \A m \in Issued : mut'[m] = mut[m] /\ m \in Mut /\ m \in Nat /\ m < nextMut
        /\ nextMut \in Nat
    BY <2>1, IssuedAre DEF TypeOK
  <2>3. \A m \in Issued' : m \in Issued \/ m = nextMut
    BY <2>1, <2>2 DEF Issued
  <2>4. \A s \in 1..Len(log) : log[s].mut # 0 => log[s].mut \in Issued /\ log[s].mut \in Mut
    <3>1. SUFFICES ASSUME NEW s \in 1..Len(log), log[s].mut # 0
                   PROVE  log[s].mut \in Issued /\ log[s].mut \in Mut
      OBVIOUS
    <3>2. log[s].mut \in Mut
      BY <3>1, LogTypes, SyncAssumption DEF Mut
    <3>3. mut[log[s].mut].dev \in Device
      BY <3>1 DEF IssuedInv
    <3> QED BY <3>2, <3>3, OwnAre
  <2>5. processed[nextMut] = NoAnswer /\ NoAnswer.status \notin Accepted
    BY <2>1, IssuedAre DEF IssuedInv, NoAnswer, Answer, Accepted
  <2>6. x.op = "create" => srv[x.ent].v = 0 /\ \A m \in Issued : mut[m].ent # x.ent
    BY <1>2, NewMutation DEF LocalCreate
  <2>7. \A m, n \in Issued' : mut'[m].op = "create" /\ mut'[n].ent = mut'[m].ent => m <= n
    BY <2>2, <2>3, <2>6 DEF TakenInv
  <2>8. \A m \in Issued' : mut'[m].op = "create" /\ processed'[m] = NoAnswer => srv'[mut'[m].ent].v = 0
    BY <2>1, <2>2, <2>3, <2>6 DEF TakenInv, serverVars
  <2>9. UNCHANGED <<srv, log, processed>> /\ \A e : EntriesOf(e)' = EntriesOf(e)
    BY <2>1 DEF EntriesOf, serverVars
  <2>10. \A m \in Issued' : processed'[m].status \in Accepted =>
          /\ mut'[m].op = "create" => \E s \in 1..Len(log') : log'[s].mut = m
          /\ mut'[m].op = "update" =>
               /\ processed'[m].state.v > 0
               /\ \E s \in EntriesOf(mut[m].ent)' : log'[s].row = processed'[m].state
    BY <2>2, <2>3, <2>5, <2>9 DEF TakenInv, EntriesOf
  <2>11. \A s \in 1..Len(log') : log'[s].mut # 0 =>
         /\ mut'[log'[s].mut].op = "create" => log'[s].row = FirstWritten(log[s].mut)'
         /\ mut'[log'[s].mut].op = "update" => log'[s].row = processed'[log'[s].mut].state
    BY <2>2, <2>4, <2>9 DEF TakenInv, FirstWritten
  <2> QED BY <2>7, <2>8, <2>10, <2>11 DEF TakenInv
<1>3. ASSUME NEW d \in Device, NEW m \in Mut, ServerStep(d, m), UNCHANGED <<mut, nextMut>>
      PROVE  TakenInv'
  BY <1>1, <1>3, TakenServer
<1> QED BY <1>1, <1>2, <1>3, StepKinds

\* The first of a set of numbers, if there are fewer than allowed, are all of them, and
\* those before one of them are of them.
LEMMA FirstAre ==
    ASSUME NEW S \in SUBSET Mut, NEW n \in Nat
    PROVE  /\ FirstOf(S, n) \subseteq S
           /\ \A x \in FirstOf(S, n), y \in S : y < x => y \in FirstOf(S, n)
           /\ Cardinality(FirstOf(S, n)) < n => FirstOf(S, n) = S
<1> DEFINE Before(x) == {y \in S : y < x}
<1>1. S \subseteq Nat /\ IsFiniteSet(S)
  <2>1. MaxMut \in Nat
    BY SyncAssumption
  <2>2. IsFiniteSet(Mut) /\ Mut \subseteq Nat
    BY <2>1, FS_Interval DEF Mut
  <2> QED BY <2>2, FS_Subset
<1>2. \A x \in S : IsFiniteSet(Before(x)) /\ Cardinality(Before(x)) \in Nat
  BY <1>1, FS_Subset, FS_CardinalityType
<1>3. \A x : x \in FirstOf(S, n) <=> x \in S /\ Cardinality(Before(x)) < n
  BY DEF FirstOf
<1>4. ASSUME NEW x \in S, NEW y \in S, Before(y) \subseteq Before(x)
      PROVE  Cardinality(Before(y)) <= Cardinality(Before(x))
  BY <1>2, <1>4, FS_Subset
<1>5. FirstOf(S, n) \subseteq S /\ IsFiniteSet(FirstOf(S, n))
  BY <1>1, <1>3, FS_Subset
<1>6. ASSUME NEW x \in FirstOf(S, n), NEW y \in S, y < x
      PROVE  y \in FirstOf(S, n)
  <2>1. x \in S /\ Cardinality(Before(x)) < n
    BY <1>3
  <2>2. Before(y) \subseteq Before(x)
    <3>1. x \in Nat /\ y \in Nat
      BY <1>1, <2>1
    <3>2. \A z \in S : z \in Nat /\ (z < y => z < x)
      BY <1>1, <1>6, <3>1
    <3> QED BY <3>2
  <2>3. Cardinality(Before(y)) <= Cardinality(Before(x))
    BY <1>4, <2>1, <2>2
  <2>4. Cardinality(Before(y)) \in Nat /\ Cardinality(Before(x)) \in Nat
    BY <1>2, <2>1
  <2>5. Cardinality(Before(y)) < n
    BY ONLY <2>1, <2>3, <2>4, n \in Nat
  <2> QED BY <1>3, <2>5
<1>7. ASSUME Cardinality(FirstOf(S, n)) < n, S \ FirstOf(S, n) # {}
      PROVE  FALSE
  <2> DEFINE T == S \ FirstOf(S, n)
             R == OpToRel(<, Nat)
  <2>1. PICK x \in T : \A y \in T : ~(<<y, x>> \in R)
    <3>1. IsWellFoundedOn(R, Nat) /\ T \subseteq Nat /\ T # {}
      BY <1>1, <1>7, NatLessThanWellFounded
    <3> HIDE DEF R, T
    <3> QED BY <3>1, WFMin
  <2>2. \A y \in T : ~(y < x)
    BY <1>1, <2>1 DEF OpToRel
  <2>3. Before(x) \subseteq FirstOf(S, n)
    BY <2>2
  <2>4. Cardinality(Before(x)) <= Cardinality(FirstOf(S, n))
    BY <1>5, <2>3, FS_Subset
  <2>5. Cardinality(FirstOf(S, n)) \in Nat /\ Cardinality(Before(x)) \in Nat
    BY <1>2, <1>5, FS_CardinalityType
  <2>6. Cardinality(Before(x)) < n
    BY ONLY <1>7, <2>4, <2>5, n \in Nat
  <2> QED BY <1>3, <2>6
<1> QED BY <1>5, <1>6, <1>7

\* What the server answers a till, it answers a request of that till.
LEMMA ServedOwn ==
    ASSUME TypeOK, NEW d \in Device, NEW m \in Mut,
           Cashier(d) \/ Writing(d) \/ Engine(d) \/ Server(d) \/ Failure(d),
           processed'[m] # processed[m]
    PROVE  Server(d) /\ m \in wire[d] \cup ghost[d]
<1>1. Server(d)
  <2>1. CASE Cashier(d) \/ Writing(d)
    BY <2>1, ZenonT(60) DEF Cashier, LocalCreate, LocalUpdate, LocalDelete, Write, ResolveServer,
       ResolveLocal, Writing, LocalLevel, Enqueue, CloseConflict, serverVars
  <2>2. CASE Failure(d)
    BY <2>2 DEF Failure, RequestLost, Crash, Forget, serverVars
  <2>3. CASE Engine(d)
    BY <2>3 DEF Engine, PushNothing, PushBatch, PushDone, AnswerAccepted, AnswerConflict, MarkConflict,
       AnswerRejected, MarkSent, Pull, PageDone, CycleDone, ApplySkip, ApplyStart, ApplyUpsert,
       ApplyLevel, ApplyDefer, serverVars
  <2> QED BY <2>1, <2>2, <2>3
<1>2. PICK n \in Mut : ServerStep(d, n)
  BY <1>1 DEF Server
<1>3. \E a : Serve(d, n, a)
  BY <1>2 DEF ServerStep, ServeReplay, ServeThrow, ServeCreate, ServeUnknown,
     ServeDeleted, ServeDelete, ServeUpdate, ServeKeep, Commit
<1>4. n \in wire[d] \cup ghost[d]
  BY <1>3 DEF Serve, First
<1>5. n = m
  <2>1. UNCHANGED processed \/ \E a : processed' = [processed EXCEPT ![n] = a]
    BY <1>2, ServedAnswer DEF serverVars
  <2> QED BY <2>1 DEF TypeOK
<1> QED BY <1>1, <1>4, <1>5

\* A mutation of a till that was taken as it came is on its way, or answered.
LEMMA OwnPlaces ==
    ASSUME TypeOK, IssuedInv, TrustInv, QueueInv, NEW d \in Device, Plain(d), NEW m \in Own(d)
    PROVE  /\ st[m] \in {"none", "pending", "done"}
           /\ st[m] = "none" => Unsent(d, m) /\ \A n \in Own(d) : n <= m
           /\ st[m] = "pending" => m \in Due(d)
<1>1. m \in Mut /\ mut[m].dev = d
  BY OwnAre
<1>2. att[m] = 0 /\ processed[m].status \in Accepted \cup {"none"} /\ (st[m] = "none" => edit[d].mut = m)
  BY DEF Plain
<1>3. st[m] # "failed"
  BY <1>1, <1>2 DEF QueueInv
<1>4. st[m] # "conflict"
  BY <1>1, <1>2 DEF TrustInv, OutboxAgreesWithServer, Accepted
<1>5. st[m] \in {"none", "pending", "done"}
  BY <1>1, <1>3, <1>4 DEF TypeOK
<1>6. ASSUME st[m] = "none"
      PROVE  Unsent(d, m) /\ \A n \in Own(d) : n <= m
  <2>1. processed[m] = NoAnswer
    BY <1>1, <1>6 DEF QueueInv
  <2>2. m \notin wire[d] \cup ghost[d]
    BY <1>6 DEF QueueInv, QueueAt, Handles
  <2>3. edit[d].mut = m /\ m # 0
    BY <1>1, <1>2, <1>6, IssuedAre, OwnAre
  <2>4. \A n \in Own(d) : n <= m
    BY <2>3 DEF QueueInv, QueueAt
  <2> QED BY <2>1, <2>2, <2>4 DEF Unsent
<1>7. st[m] = "pending" => m \in Due(d)
  BY <1>1 DEF Due, Outbox
<1> QED BY <1>5, <1>6, <1>7

\* A step that takes nothing up for d, and ends nothing.
LEMMA FlowStays ==
    ASSUME TypeOK, IssuedInv, NEW b \in Device, FlowAt(b),
           sent'[b] = sent[b], todo'[b] = todo[b], acked'[b] = acked[b],
           wire'[b] \cup ghost'[b] \subseteq wire[b] \cup ghost[b],
           \A m \in Own(b)' : \/ m \in Own(b) /\ (st'[m] = "done" <=> st[m] = "done")
                              \/ /\ \A n \in Own(b) : n < m
                                 /\ st'[m] # "done" /\ m \notin acked[b] /\ Unsent(b, m)',
           \A m \in Own(b) : m \in Own(b)',
           \A m \in Own(b) : Unsent(b, m) => Unsent(b, m)',
           pc'[b] \in Pushing => pc[b] \in Pushing,
           pc'[b] \in Pulling => pc[b] \in Pulling
    PROVE  FlowAt(b)'
<1>1. sent[b] \cup acked[b] \subseteq Own(b) /\ \A m \in Own(b) : m \in Nat
  BY OwnAre DEF Handles
<1>0. \A m \in Own(b)' : m \in Int
  BY DEF Own, Issued
<1>2. \A m \in Own(b)' : m \notin Own(b) => ~Answered(b, m)' /\ st'[m] # "done"
  BY DEF Answered
<1>3. \A m \in Own(b)' : m \in Own(b) => (Answered(b, m)' <=> Answered(b, m)) /\ (st'[m] = "done" <=> st[m] = "done")
  BY <1>1 DEF Answered
<1>4. \A m \in Own(b)', n \in Own(b) : m \in Own(b) \/ n < m
  OBVIOUS
<1>5. \A m, n \in Own(b)' : m < n => /\ st'[n] = "done" => st'[m] = "done"
                                     /\ Answered(b, n)' => Answered(b, m)'
  <2>1. SUFFICES ASSUME NEW m \in Own(b)', NEW n \in Own(b)', m < n
                 PROVE  /\ st'[n] = "done" => st'[m] = "done"
                        /\ Answered(b, n)' => Answered(b, m)'
    OBVIOUS
  <2>2. CASE n \notin Own(b)
    BY <1>2, <2>2
  <2>3. CASE n \in Own(b)
    <3>1. m \in Own(b)
      BY <1>0, <1>1, <1>4, <2>1, <2>3
    <3> QED BY <1>3, <2>1, <2>3, <3>1 DEF FlowAt
  <2> QED BY <2>2, <2>3
<1>6. pc'[b] \in Pushing =>
         /\ \A m \in sent'[b] : m \in todo'[b] \/ Answered(b, m)'
         /\ \A m \in Own(b)', n \in sent'[b] : m < n /\ st'[m] # "done" => m \in sent'[b]
         /\ Cardinality(sent'[b]) < BatchSize =>
              \A m \in Own(b)' : st'[m] # "done" /\ m \notin sent'[b] => Unsent(b, m)'
  <2>1. SUFFICES ASSUME pc[b] \in Pushing
                 PROVE  /\ \A m \in sent[b] : m \in todo[b] \/ Answered(b, m)'
                        /\ \A m \in Own(b)', n \in sent[b] : m < n /\ st'[m] # "done" => m \in sent[b]
                        /\ Cardinality(sent[b]) < BatchSize =>
                             \A m \in Own(b)' : st'[m] # "done" /\ m \notin sent[b] => Unsent(b, m)'
    OBVIOUS
  <2>2. \A m \in sent[b] : m \in todo[b] \/ Answered(b, m)'
    BY <1>1, <1>3, <2>1 DEF FlowAt
  <2>3. \A m \in Own(b)', n \in sent[b] : m < n /\ st'[m] # "done" => m \in sent[b]
    <3>1. SUFFICES ASSUME NEW m \in Own(b)', NEW n \in sent[b], m < n, st'[m] # "done"
                   PROVE  m \in sent[b]
      OBVIOUS
    <3>2. m \in Own(b)
      BY <1>0, <1>1, <1>4, <3>1
    <3> QED BY <1>3, <2>1, <3>1, <3>2 DEF FlowAt
  <2>4. Cardinality(sent[b]) < BatchSize =>
           \A m \in Own(b)' : st'[m] # "done" /\ m \notin sent[b] => Unsent(b, m)'
    BY <1>3, <2>1 DEF FlowAt
  <2> QED BY <2>2, <2>3, <2>4
<1>7. pc'[b] \in Pulling => \A m \in Own(b)' : st'[m] # "done" => Unsent(b, m)'
  BY <1>3 DEF FlowAt
<1> QED BY <1>5, <1>6, <1>7 DEF FlowAt

\* What the engine of a till that was taken as it came does to its own mutations.
LEMMA FlowEngine ==
    ASSUME TypeOK, TypeOK', IssuedInv, IssuedInv', TrustInv, QueueInv, NEW d \in Device,
           Plain(d), Plain(d)', FlowAt(d), Engine(d),
           Own(d)' = Own(d)
    PROVE  FlowAt(d)'
<1> USE DEF netVars, pushVars, outboxVars, serverVars
<1>0. /\ wire \in [Device -> SUBSET Mut] /\ ghost \in [Device -> SUBSET Mut]
      /\ sent \in [Device -> SUBSET Mut] /\ todo \in [Device -> SUBSET Mut]
      /\ acked \in [Device -> SUBSET Mut] /\ pc \in [Device -> Labels]
      /\ st \in [Mut -> {"none", "pending", "failed", "conflict", "done"}]
      /\ att \in [Mut -> Nat]
  BY DEF TypeOK
<1>1. /\ \A m \in Own(d) : m \in Nat /\ m \in Mut
      /\ wire[d] \cup ghost[d] \cup sent[d] \cup todo[d] \cup acked[d] \subseteq Own(d)
  BY OwnAre DEF Handles
<1>2. /\ wire[d] \cup acked[d] \cup todo[d] \subseteq sent[d]
      /\ \A m \in todo[d] : m \notin acked[d]
      /\ \A m \in todo[d] \cup acked[d] : st[m] \in {"pending", "failed"}
      /\ pc[d] \notin Pushing => sent[d] = {}
  BY DEF QueueInv, QueueAt
<1>3. \A m, n \in Own(d) : m < n => /\ st[n] = "done" => st[m] = "done"
                                    /\ Answered(d, n) => Answered(d, m)
  BY DEF FlowAt
<1>4. pc[d] \in Pushing =>
         /\ \A m \in sent[d] : m \in todo[d] \/ Answered(d, m)
         /\ \A m \in Own(d), n \in sent[d] : m < n /\ st[m] # "done" => m \in sent[d]
         /\ Cardinality(sent[d]) < BatchSize =>
              \A m \in Own(d) : st[m] # "done" /\ m \notin sent[d] => Unsent(d, m)
  BY DEF FlowAt
<1>5. \A m \in Own(d) : /\ st[m] \in {"none", "pending", "done"}
                        /\ st[m] = "none" => Unsent(d, m) /\ \A n \in Own(d) : n <= m
                        /\ st[m] = "pending" => m \in Due(d)
  BY OwnPlaces
<1>6. "pull" \in Pulling /\ "idle" \notin Pulling \cup Pushing /\ "push" \notin Pulling \cup Pushing
      /\ "pull" \notin Pushing /\ "sent" \in Pushing /\ "sent" \notin Pulling
  BY DEF Pulling, Pushing
<1>7. ASSUME UNCHANGED <<sent, todo, acked, wire, ghost, st, processed>>,
             pc'[d] \in Pushing => pc[d] \in Pushing,
             pc'[d] \in Pulling => pc[d] \in Pulling
      PROVE  FlowAt(d)'
  BY <1>7, FlowStays DEF Unsent
<1>8. CASE PushNothing(d)
  <2>1. UNCHANGED <<sent, todo, acked, wire, ghost, st, processed>> /\ pc'[d] = "pull" /\ Due(d) = {}
    BY <1>0, <1>8 DEF PushNothing, Go
  <2>2. \A m \in Own(d) : st[m] # "done" => Unsent(d, m)
    BY <1>5, <2>1
  <2>3. \A m \in Own(d) : Unsent(d, m)' <=> Unsent(d, m)
    BY <2>1 DEF Unsent
  <2>4. \A m \in Own(d) : Answered(d, m)' <=> Answered(d, m)
    BY <2>1 DEF Answered
  <2> QED BY <1>3, <1>6, <2>1, <2>2, <2>3, <2>4 DEF FlowAt
<1>9. CASE PushBatch(d)
  <2> DEFINE batch == FirstOf(Due(d), BatchSize)
  <2>1. /\ sent'[d] = batch /\ todo'[d] = batch /\ wire'[d] = batch /\ pc'[d] = "sent"
        /\ UNCHANGED <<ghost, acked, st, processed>> /\ pc[d] \in {"idle", "push"}
    BY <1>0, <1>9 DEF PushBatch, Go
  <2>2. acked[d] = {} /\ wire[d] = {}
    BY <1>2, <1>6, <2>1
  <2>3. /\ batch \subseteq Due(d) /\ \A x \in batch, y \in Due(d) : y < x => y \in batch
        /\ Cardinality(batch) < BatchSize => batch = Due(d)
    BY FirstAre, SyncAssumption DEF Due, Outbox
  <2>4. Due(d) \subseteq Own(d)
    BY OwnAre DEF Due, Outbox
  <2> HIDE DEF batch
  <2>5. \A m \in Own(d) : Answered(d, m)' <=> st[m] = "done"
    BY <2>1, <2>2 DEF Answered
  <2>6. \A m \in Own(d), n \in batch : m < n /\ st[m] # "done" => m \in batch
    <3>1. SUFFICES ASSUME NEW m \in Own(d), NEW n \in batch, m < n, st[m] # "done"
                   PROVE  m \in batch
      OBVIOUS
    <3>2. n \in Own(d) /\ ~(n <= m)
      BY <1>1, <2>3, <2>4, <3>1
    <3>3. st[m] = "pending"
      BY <1>5, <3>1, <3>2
    <3> QED BY <1>5, <2>3, <3>1, <3>3
  <2>7. Cardinality(batch) < BatchSize =>
           \A m \in Own(d) : st[m] # "done" /\ m \notin batch => Unsent(d, m)'
    <3>1. SUFFICES ASSUME batch = Due(d), NEW m \in Own(d), st[m] # "done", m \notin batch
                   PROVE  Unsent(d, m)'
      BY <2>3
    <3>2. Unsent(d, m)
      BY <1>5, <3>1
    <3> QED BY <2>1, <3>1, <3>2 DEF Unsent
  <2> QED BY <1>3, <1>6, <2>1, <2>5, <2>6, <2>7 DEF FlowAt
<1>10. ASSUME NEW m \in Mut, AnswerAccepted(d, m)
       PROVE  FlowAt(d)'
  <2>1. /\ todo'[d] = todo[d] \ {m} /\ acked'[d] = acked[d] \cup {m} /\ First(todo[d], m)
        /\ UNCHANGED <<sent, wire, ghost, st, processed, pc>> /\ pc[d] = "sent"
    BY <1>0, <1>10 DEF AnswerAccepted, Handling, Handled
  <2>2. m \in todo[d] /\ m \in sent[d] /\ m \in Own(d) /\ \A n \in todo[d] : m <= n
    BY <1>1, <1>2, <2>1 DEF First
  <2>3. \A n \in Own(d) : Answered(d, n)' <=> n = m \/ Answered(d, n)
    BY <2>1 DEF Answered
  <2>4. \A n \in Own(d) : n < m => Answered(d, n)
    <3>1. SUFFICES ASSUME NEW n \in Own(d), n < m PROVE Answered(d, n)
      OBVIOUS
    <3>2. n \in sent[d] \/ st[n] = "done"
      BY <1>4, <1>6, <2>1, <2>2, <3>1
    <3>3. n \notin todo[d]
      BY <1>1, <2>2, <3>1
    <3> QED BY <1>4, <1>6, <2>1, <3>2, <3>3 DEF Answered
  <2>5. \A n \in Own(d) : Unsent(d, n)' <=> Unsent(d, n)
    BY <2>1 DEF Unsent
  <2>6. \A n, k \in Own(d) : n < k => /\ st'[k] = "done" => st'[n] = "done"
                                      /\ Answered(d, k)' => Answered(d, n)'
    BY <1>3, <2>1, <2>3, <2>4
  <2>7. /\ \A n \in sent'[d] : n \in todo'[d] \/ Answered(d, n)'
        /\ \A n \in Own(d), k \in sent'[d] : n < k /\ st'[n] # "done" => n \in sent'[d]
        /\ Cardinality(sent'[d]) < BatchSize =>
             \A n \in Own(d) : st'[n] # "done" /\ n \notin sent'[d] => Unsent(d, n)'
    BY <1>1, <1>4, <1>6, <2>1, <2>3, <2>5
  <2> QED BY <1>6, <2>1, <2>6, <2>7 DEF FlowAt
<1>11. ASSUME NEW m \in Mut, AnswerConflict(d, m)
       PROVE  FlowAt(d)'
  <2>1. UNCHANGED <<sent, todo, acked, wire, ghost, st, processed>> /\ pc[d] = "sent" /\ pc'[d] = "conflict"
    BY <1>0, <1>11 DEF AnswerConflict, Handling, Go
  <2> QED BY <1>7, <2>1 DEF Pushing, Pulling
<1>12. ASSUME NEW m \in Mut, MarkConflict(d, m)
       PROVE  FALSE
  <2>1. pc[d] = "conflict" /\ First(todo[d], m)
    BY <1>12 DEF MarkConflict
  <2>2. processed[m].status = "conflict" /\ m \in Own(d)
    BY <1>1, <2>1 DEF TrustInv, First
  <2> QED BY <2>2 DEF Plain, Accepted
<1>13. ASSUME NEW m \in Mut, AnswerRejected(d, m)
       PROVE  FALSE
  <2>1. att'[m] = att[m] + 1 /\ m \in Own(d)
    BY <1>0, <1>1, <1>13 DEF AnswerRejected, Handling, First
  <2>2. att[m] = 0 /\ att'[m] = 0
    BY <2>1 DEF Plain
  <2> QED BY <2>1, <2>2
<1>14. ASSUME NEW m \in Mut, MarkSent(d, m)
       PROVE  FlowAt(d)'
  <2>1. /\ acked'[d] = acked[d] \ {m} /\ st' = [st EXCEPT ![m] = "done"] /\ First(acked[d], m)
        /\ UNCHANGED <<sent, todo, wire, ghost, processed, pc>> /\ pc[d] = "sent" /\ todo[d] = {}
    BY <1>0, <1>14 DEF MarkSent, AllHandled
  <2>2. m \in acked[d] /\ m \in Own(d) /\ \A n \in acked[d] : m <= n
    BY <1>1, <2>1 DEF First
  <2>3. \A n \in Own(d) : st'[n] = "done" <=> n = m \/ st[n] = "done"
    BY <1>0, <1>1, <2>1
  <2>4. \A n \in Own(d) : Answered(d, n)' <=> Answered(d, n)
    BY <2>1, <2>2, <2>3 DEF Answered
  <2>5. \A n \in Own(d) : n < m => st[n] = "done"
    <3>1. SUFFICES ASSUME NEW n \in Own(d), n < m PROVE st[n] = "done"
      OBVIOUS
    <3>2. Answered(d, m)
      BY <2>2 DEF Answered
    <3>3. Answered(d, n) /\ n \notin acked[d]
      BY <1>1, <1>3, <2>2, <3>1, <3>2
    <3> QED BY <3>3 DEF Answered
  <2>6. \A n \in Own(d) : Unsent(d, n)' <=> Unsent(d, n)
    BY <2>1 DEF Unsent
  <2>7. \A n, k \in Own(d) : n < k => /\ st'[k] = "done" => st'[n] = "done"
                                      /\ Answered(d, k)' => Answered(d, n)'
    BY <1>3, <2>3, <2>4, <2>5
  <2>8. /\ \A n \in sent'[d] : n \in todo'[d] \/ Answered(d, n)'
        /\ \A n \in Own(d), k \in sent'[d] : n < k /\ st'[n] # "done" => n \in sent'[d]
        /\ Cardinality(sent'[d]) < BatchSize =>
             \A n \in Own(d) : st'[n] # "done" /\ n \notin sent'[d] => Unsent(d, n)'
    BY <1>1, <1>4, <1>6, <2>1, <2>3, <2>4, <2>6
  <2> QED BY <1>6, <2>1, <2>7, <2>8 DEF FlowAt
<1>15. CASE PushDone(d)
  <2>1. /\ sent'[d] = {} /\ pc[d] = "sent" /\ acked[d] = {} /\ todo[d] = {} /\ wire[d] = {}
        /\ UNCHANGED <<todo, acked, wire, ghost, st, processed>>
        /\ pc'[d] = IF Cardinality(sent[d]) < BatchSize THEN "pull" ELSE "push"
    BY <1>0, <1>15 DEF PushDone, AllHandled, Go
  <2>2. \A n \in Own(d) : Unsent(d, n)' <=> Unsent(d, n)
    BY <2>1 DEF Unsent
  <2>3. \A n \in Own(d) : Answered(d, n)' <=> Answered(d, n)
    BY <2>1 DEF Answered
  <2>4. \A n \in sent[d] : st[n] = "done"
    BY <1>4, <1>6, <2>1 DEF Answered
  <2>5. Cardinality(sent[d]) < BatchSize => \A n \in Own(d) : st[n] # "done" => Unsent(d, n)
    BY <1>4, <1>6, <2>1, <2>4
  <2>6. pc'[d] \notin Pushing /\ (pc'[d] \in Pulling => Cardinality(sent[d]) < BatchSize)
    BY <1>6, <2>1
  <2> QED BY <1>3, <2>1, <2>2, <2>3, <2>5, <2>6 DEF FlowAt
<1>16. CASE \/ Pull(d) \/ PageDone(d) \/ CycleDone(d)
            \/ \E s \in Change : \/ ApplySkip(d, s) \/ ApplyStart(d, s) \/ ApplyUpsert(d, s)
                                 \/ ApplyLevel(d, s) \/ ApplyDefer(d, s)
  <2>1. UNCHANGED <<sent, todo, acked, wire, ghost, st, processed>>
    BY <1>16 DEF Pull, PageDone, CycleDone, ApplySkip, ApplyStart, ApplyUpsert,
       ApplyLevel, ApplyDefer
  <2>2. pc[d] \in Pulling /\ pc'[d] \in Pulling \cup {"idle"}
    BY <1>0, <1>16 DEF Pull, PageDone, CycleDone, ApplySkip, ApplyStart, ApplyUpsert,
       ApplyLevel, ApplyDefer, Go, Pulling
  <2> QED BY <1>6, <1>7, <2>1, <2>2 DEF Pushing, Pulling
<1> QED BY <1>8, <1>9, <1>10, <1>11, <1>12, <1>13, <1>14, <1>15, <1>16 DEF Engine

\* The mutations of a till that were taken as they came go out in their order.
LEMMA FlowStep ==
    ASSUME TypeOK, TypeOK', IssuedInv, IssuedInv', TrustInv, QueueInv, Next, NEW d \in Device,
           Cashier(d) \/ Writing(d) \/ Engine(d) \/ Server(d) \/ Failure(d),
           NEW b \in Device, Plain(b), Plain(b)', FlowAt(b)
    PROVE  FlowAt(b)'
<1> USE DEF netVars, pushVars, outboxVars, serverVars
<1>0. /\ wire \in [Device -> SUBSET Mut] /\ ghost \in [Device -> SUBSET Mut]
      /\ sent \in [Device -> SUBSET Mut] /\ todo \in [Device -> SUBSET Mut]
      /\ acked \in [Device -> SUBSET Mut] /\ pc \in [Device -> Labels]
      /\ st \in [Mut -> {"none", "pending", "failed", "conflict", "done"}]
  BY DEF TypeOK
<1>1. \A m \in Own(b) : m \in Mut /\ m \in Own(b)' /\ mut[m].dev = b
  BY OwnAre, OwnAfter
<1>2. CASE b # d
  <2>1. Alone(b) /\ pc'[b] = pc[b]
    BY <1>2, OthersAlone, OthersKeep DEF Untouched
  <2>2. \A m \in Own(b) : processed'[m] = processed[m]
    <3>1. \A m \in wire[d] \cup ghost[d] : mut[m].dev = d
      BY DEF IssuedInv, Handles
    <3> QED BY <1>1, <1>2, <3>1, ServedOwn
  <2>3. \A m \in Own(b) : Unsent(b, m) => Unsent(b, m)'
    BY <2>1, <2>2 DEF Alone, Unsent
  <2> QED BY <1>1, <2>1, <2>3, FlowStays DEF Alone
<1>3. ASSUME NEW x \in Mutation, Issues(d, x), b = d
      PROVE  FlowAt(b)'
  <2>1. /\ UNCHANGED <<wire, ghost, sent, todo, acked, st, processed>>
        /\ nextMut \in Mut
    BY <1>3 DEF Issues
  <2>2. pc' = pc
    <3>1. ~(Engine(d) \/ Server(d) \/ Failure(d) \/ Writing(d))
      <4>1. mut' # mut
        BY <1>3, <2>1, IssuedAre DEF Issues, IssuedInv, TypeOK
      <4>2. Engine(d) => mut' = mut
        BY DEF Engine, PushNothing, PushBatch, PushDone, AnswerAccepted, AnswerConflict, MarkConflict,
         AnswerRejected, MarkSent, Pull, PageDone, CycleDone, ApplySkip, ApplyStart, ApplyUpsert,
         ApplyLevel, ApplyDefer
      <4>3. Server(d) => mut' = mut
        BY ZenonT(60) DEF Server, ServerStep, ServeReplay, ServeThrow, ServeCreate, ServeUnknown,
          ServeDeleted, ServeDelete, ServeUpdate, ServeKeep, Commit, tillVars
      <4>4. Failure(d) \/ Writing(d) => mut' = mut
        BY DEF Failure, RequestLost, Crash, Forget, Writing, LocalLevel, Enqueue, CloseConflict
      <4> QED BY <4>1, <4>2, <4>3, <4>4
    <3> QED BY <3>1, ZenonT(60) DEF Cashier, LocalCreate, LocalUpdate, LocalDelete, Write, ResolveServer,
       ResolveLocal
  <2>a. PICK k : k = nextMut
    OBVIOUS
  <2>3. processed[k] = NoAnswer /\ k \notin Handles(b) /\ st[k] = "none"
    BY <2>a, <2>1, IssuedAre, OwnAre DEF IssuedInv, QueueInv
  <2>4. Unsent(b, k)' /\ k \notin acked[b]
    BY <2>1, <2>3 DEF Unsent, Handles
  <2>5. \A m \in Own(b) : m < k
    BY <2>a, IssuedAre, OwnAre
  <2>6. \A m \in Own(b)' : m \in Own(b) \/ m = k
    BY <2>a, OwnAfter
  <2>7. \A m \in Own(b) : Unsent(b, m) => Unsent(b, m)'
    BY <2>1 DEF Unsent
  <2>8. st'[k] # "done"
    BY <2>1, <2>3
  <2> QED BY <1>1, <2>1, <2>2, <2>8, <2>3, <2>4, <2>5, <2>6, <2>7, FlowStays
<1>4. CASE b = d /\ ~\E x \in Mutation : Issues(d, x)
  <2>1. Own(b)' = Own(b)
    <3>1. \A x \in Mutation, c \in Device : Issues(c, x) /\ c # d => \A m \in Own(b)' : m \in Own(b)
      BY <1>4, OwnAfter
    <3> QED BY <1>1, <1>4, OwnAfter
  <2>2. CASE Engine(d)
    BY <1>4, <2>1, <2>2, FlowEngine
  <2>3. CASE Cashier(d) \/ Writing(d)
    <3>1. /\ UNCHANGED <<wire, ghost, sent, todo, acked, processed, pc>>
          /\ st' = st \/ (Enqueue(d) /\ st' = [st EXCEPT ![edit[d].mut] = "pending"] /\ edit[d].mut # 0)
      BY <2>3, ZenonT(60) DEF Cashier, LocalCreate, LocalUpdate, LocalDelete, Write, ResolveServer,
       ResolveLocal, Writing, LocalLevel, Enqueue, CloseConflict
    <3>2. edit[d].mut # 0 => st[edit[d].mut] = "none"
      BY DEF QueueInv, QueueAt
    <3>3. \A m \in Own(b) : st'[m] = "done" <=> st[m] = "done"
      BY <1>0, <1>1, <3>1, <3>2
    <3>4. \A m \in Own(b) : Unsent(b, m) => Unsent(b, m)'
      BY <3>1 DEF Unsent
    <3> QED BY <2>1, <3>1, <3>3, <3>4, FlowStays
  <2>4. CASE Server(d)
    <3>1. PICK m \in Mut : (\E a : Serve(d, m, a)) /\ UNCHANGED <<pushVars, pc, st>>
      BY <2>4, ZenonT(60) DEF Server, ServerStep, ServeReplay, ServeThrow, ServeCreate, ServeUnknown,
         ServeDeleted, ServeDelete, ServeUpdate, ServeKeep, Commit, tillVars
    <3>2. wire'[d] \subseteq wire[d] /\ ghost'[d] \subseteq ghost[d]
      BY <1>0, <3>1 DEF Serve
    <3>3. \A n \in Own(b) : Unsent(b, n) => Unsent(b, n)'
      <4>1. \A n \in Own(b) : n \notin wire[d] \cup ghost[d] => processed'[n] = processed[n]
        BY <1>1, ServedOwn
      <4> QED BY <1>4, <3>2, <4>1 DEF Unsent
    <3>4. wire'[b] \cup ghost'[b] \subseteq wire[b] \cup ghost[b]
      BY <1>4, <3>2
    <3> QED BY <2>1, <3>1, <3>3, <3>4, FlowStays
  <2>5. CASE Failure(d)
    <3>1. /\ sent'[d] = {} /\ acked'[d] = {} /\ pc'[d] = "idle" /\ st' = st
      BY <1>0, <2>5 DEF Failure, RequestLost, Crash, Forget, Go
    <3>2. \A m \in Own(b) : Answered(b, m)' <=> st[m] = "done"
      BY <1>4, <3>1 DEF Answered
    <3>3. \A m, n \in Own(b) : m < n => /\ st'[n] = "done" => st'[m] = "done"
                                        /\ Answered(b, n)' => Answered(b, m)'
      BY <3>1, <3>2 DEF FlowAt
    <3> QED BY <1>4, <2>1, <3>1, <3>3 DEF FlowAt, Pushing, Pulling
  <2> QED BY <2>2, <2>3, <2>4, <2>5
<1> QED BY <1>2, <1>3, <1>4

\* What the log holds after a step.
LEMMA EntriesAfter ==
    ASSUME TypeOK, TypeOK', IssuedInv, Next, NEW e \in Entity
    PROVE  /\ \A s \in EntriesOf(e) : s \in EntriesOf(e)' /\ log'[s] = log[s] /\ log[s].row.v \in Nat
           /\ \A s \in EntriesOf(e)' : s <= Len(log) => s \in EntriesOf(e)
           /\ \A s \in EntriesOf(e)' : s \in Nat /\ s > 0
           /\ Len(log) \in Nat
<1>1. /\ Len(log) \in Nat /\ Len(log') \in Nat
      /\ \A i \in 1..Len(log) : i \in 1..Len(log') /\ log'[i] = log[i]
  BY LogStays
<1>2. \A i \in 1..Len(log) : log[i].row.v \in Nat
  BY LogTypes DEF Row
<1> QED BY <1>1, <1>2 DEF EntriesOf

\* A row of a till keeps what was said of it, as long as a step brings an older version
\* neither back to it nor past it.
LEMMA ShownGoesOn ==
    ASSUME TypeInv, TypeInv', IssuedInv, Next, NEW b \in Device, PassedAt(b),
           NEW e \in Entity, ShownRow(b, e),
           \/ row'[b][e] = row[b][e]
           \/ row[b][e].v <= row'[b][e].v /\ \E s \in EntriesOf(e) : log[s].row = row'[b][e],
           cursor'[b] = cursor[b],
           \A s \in EntriesOf(e)' : s > Len(log) => log'[s].dev # b,
           \A s \in EntriesOf(e) : e \notin Journal /\ PutAside(b, s)
                => PutAside(b, s)' \/ log[s].row.v <= row'[b][e].v,
           pc'[b] \in Applying /\ ~replaying'[b] =>
              /\ pc[b] \in Applying /\ ~replaying[b] /\ upto'[b] = upto[b]
              /\ \A s \in EntriesOf(e) : e \notin Journal /\ s \in page[b]
                    => s \in page'[b] \/ PutAside(b, s)' \/ log[s].row.v <= row'[b][e].v
    PROVE  ShownRow(b, e)'
<1> USE DEF TypeInv
<1>1. /\ \A s \in EntriesOf(e) : s \in EntriesOf(e)' /\ log'[s] = log[s] /\ log[s].row.v \in Nat
      /\ \A s \in EntriesOf(e)' : s <= Len(log) => s \in EntriesOf(e)
      /\ \A s \in EntriesOf(e)' : s \in Nat /\ s > 0
      /\ Len(log) \in Nat
  BY EntriesAfter
<1>2. /\ cursor[b] \in Nat /\ upto[b] \in Nat /\ cursor[b] <= Len(log) /\ upto[b] <= Len(log)
      /\ row[b][e].v \in Nat /\ row'[b][e].v \in Nat
  <2>1. row[b][e] \in Row /\ row'[b][e] \in Row
    BY DEF TypeOK
  <2>2. \A r \in Row : r.v \in Nat
    BY DEF Row
  <2> QED BY <2>1, <2>2 DEF TypeOK, PassedAt
<1>3. row[b][e].v <= row'[b][e].v
  BY <1>2
<1>4. Told(b, e)'
  BY <1>1 DEF Told, ShownRow
<1>5. ASSUME e \notin Journal, NEW n \in Nat, n <= Len(log), NEW P, NEW Q, Reached(b, e, n, P),
             \A s \in EntriesOf(e) : s \in P
                    => s \in Q \/ PutAside(b, s)' \/ log[s].row.v <= row'[b][e].v,
             \A s \in EntriesOf(e) : s \in P => log[s].dev # b,
             NEW s \in EntriesOf(e)', log'[s].dev = b \/ (s <= n /\ s \notin Q)
      PROVE  log'[s].row.v <= row'[b][e].v \/ (log'[s].dev # b /\ PutAside(b, s)')
  <2>1. s \in EntriesOf(e) /\ log'[s] = log[s] /\ log[s].row.v \in Nat
    BY <1>1, <1>5
  <2>2. CASE s \in P
    BY <1>5, <2>1, <2>2
  <2>3. CASE s \notin P
    <3>1. log[s].row.v <= row[b][e].v \/ (log[s].dev # b /\ PutAside(b, s))
      BY <1>5, <2>1, <2>3 DEF Reached
    <3>2. CASE log[s].row.v <= row[b][e].v
      BY <1>2, <1>3, <2>1, <3>2
    <3>3. CASE log[s].dev # b /\ PutAside(b, s)
      BY <1>5, <2>1, <3>3
    <3> QED BY <3>1, <3>2, <3>3
  <2> QED BY <2>2, <2>3
<1>6. e \notin Journal => Reached(b, e, cursor[b], {})'
  <2>1. SUFFICES ASSUME e \notin Journal, NEW s \in EntriesOf(e)', log'[s].dev = b \/ s <= cursor[b]
                 PROVE  log'[s].row.v <= row'[b][e].v \/ (log'[s].dev # b /\ PutAside(b, s)')
    BY DEF Reached
  <2>2. Reached(b, e, cursor[b], {})
    BY <2>1 DEF ShownRow, Ahead
  <2>3. s \in EntriesOf(e) /\ log'[s] = log[s] /\ log[s].row.v \in Nat
    BY <1>1, <1>2, <2>1
  <2>4. log[s].row.v <= row[b][e].v \/ (log[s].dev # b /\ PutAside(b, s))
    BY <2>1, <2>2, <2>3 DEF Reached
  <2>5. CASE log[s].row.v <= row[b][e].v
    BY <1>2, <1>3, <2>3, <2>5
  <2>6. CASE log[s].dev # b /\ PutAside(b, s)
    BY <2>1, <2>3, <2>6
  <2> QED BY <2>4, <2>5, <2>6
<1>7. ASSUME e \notin Journal, pc'[b] \in Applying, ~replaying'[b]
      PROVE  Reached(b, e, upto[b], page[b])'
  <2>1. SUFFICES ASSUME NEW s \in EntriesOf(e)', log'[s].dev = b \/ (s <= upto[b] /\ s \notin page'[b])
                 PROVE  log'[s].row.v <= row'[b][e].v \/ (log'[s].dev # b /\ PutAside(b, s)')
    BY <1>7 DEF Reached
  <2>2. Reached(b, e, upto[b], page[b])
    BY <1>7 DEF ShownRow, Ahead
  <2>3. \A t \in EntriesOf(e) : t \in page[b] => log[t].dev # b
    BY DEF PassedAt, TypeOK
  <2>4. \A t \in EntriesOf(e) : t \in page[b]
                    => t \in page'[b] \/ PutAside(b, t)' \/ log[t].row.v <= row'[b][e].v
    BY <1>7
  <2> QED BY <1>2, <1>5, <1>7, <2>1, <2>2, <2>3, <2>4
<1> QED BY <1>4, <1>6, <1>7 DEF ShownRow, Ahead

\* What the till is about to write.
LEMMA FetchedStays ==
    ASSUME TypeInv, TypeInv', IssuedInv, Next, NEW b \in Device, Fetched(b),
           \A e \in Entity : ~Awaits(b, e)' => ~Awaits(b, e) /\ row'[b][e] = row[b][e],
           pc'[b] \in Applying => pc'[b] = pc[b] /\ page'[b] = page[b]
    PROVE  Fetched(b)'
<1> USE DEF TypeInv
<1>1. SUFFICES ASSUME NEW s \in Change, First(page'[b], s), pc'[b] \in {"upsert", "level"},
                      ~Awaits(b, log[s].ent)'
               PROVE  /\ pc'[b] = "upsert" => row'[b][log'[s].ent].v < log'[s].row.v
                      /\ pc'[b] = "level" => log'[s].row.v <= row'[b][log'[s].ent].v
  BY DEF Fetched, Awaits
<1>2. pc'[b] = pc[b] /\ page'[b] = page[b]
  BY <1>1 DEF Applying
<1>3. s \in 1..Len(log)
  BY <1>1, <1>2 DEF First, Published
<1>4. log'[s] = log[s] /\ log[s].ent \in Entity
  BY <1>3, LogStays, LogTypes
<1>5. PICK e \in Entity : e = log[s].ent
  BY <1>4
<1>6. ~Awaits(b, e)'
  BY <1>1, <1>4, <1>5 DEF Awaits
<1>7. ~Awaits(b, e) /\ row'[b][e] = row[b][e]
  BY <1>6
<1> QED BY <1>1, <1>2, <1>4, <1>5, <1>7 DEF Fetched

\* A step that neither writes a row of the till, nor goes through its page, nor answers it.
LEMMA ShownStays ==
    ASSUME TypeInv, TypeInv', IssuedInv, Next, NEW b \in Device, PassedAt(b), ShownAt(b),
           Own(b)' = Own(b), \A m \in Own(b) : mut'[m] = mut[m] /\ processed'[m] = processed[m],
           \A m \in Own(b) : st[m] = "done" => st'[m] = "done",
           \A m \in Own(b) : Answered(b, m)' => Answered(b, m),
           row'[b] = row[b], cursor'[b] = cursor[b], deferred'[b] = deferred[b],
           \A s \in 1..Len(log') : s > Len(log) => log'[s].dev # b,
           pc'[b] \in Applying => /\ pc'[b] = pc[b] /\ page'[b] = page[b] /\ upto'[b] = upto[b]
                                  /\ replaying'[b] = replaying[b]
    PROVE  ShownAt(b)'
<1> USE DEF TypeInv
<1>1. \A m \in Own(b) : m \in Mut /\ mut[m].ent \in Entity
  BY OwnAre
<1>2. cursor[b] \in Nat /\ cursor[b] <= Len(log)
  BY DEF TypeOK, PassedAt
<1>3. AnswersAhead(b)'
  <2>1. SUFFICES ASSUME NEW m \in Own(b), st[m] # "done", processed[m] # NoAnswer,
                        NEW s \in EntriesOf(mut[m].ent)', s <= cursor[b]
                 PROVE  log'[s].row.v <= processed[m].state.v
    <3>1. \A m \in Own(b) : EntriesOf(mut'[m].ent) = EntriesOf(mut[m].ent)
      OBVIOUS
    <3>2. \A m \in Own(b) : EntriesOf(mut[m].ent)' = {s \in 1..Len(log') : log'[s].ent = mut[m].ent}
      BY DEF EntriesOf
    <3> QED BY <3>2 DEF AnswersAhead, EntriesOf
  <2>2. s \in EntriesOf(mut[m].ent) /\ log'[s] = log[s]
    BY <1>1, <1>2, <2>1, EntriesAfter
  <2> QED BY <2>1, <2>2 DEF ShownAt, AnswersAhead
<1>4. CreatedShown(b)'
  BY DEF ShownAt, CreatedShown, Sole, FirstWritten
<1>5. ASSUME NEW e \in Entity, ~Awaits(b, e)'
      PROVE  ShownRow(b, e)'
  <2>1. ~Awaits(b, e)
    BY <1>5 DEF Awaits
  <2>2. ShownRow(b, e)
    BY <2>1 DEF ShownAt
  <2>3. \A s \in EntriesOf(e)' : s > Len(log) => log'[s].dev # b
    BY DEF EntriesOf
  <2>4. \A s : PutAside(b, s)' <=> PutAside(b, s)
    BY DEF PutAside
  <2> QED BY <2>2, <2>3, <2>4, ShownGoesOn
<1>6. Fetched(b)'
  <2>1. \A e \in Entity : ~Awaits(b, e)' => ~Awaits(b, e)
    BY DEF Awaits
  <2> QED BY <2>1, FetchedStays DEF ShownAt
<1> QED BY <1>3, <1>4, <1>5, <1>6 DEF ShownAt

\* The server's work for a till says nothing of a row the till does not wait for, and its
\* answer bears the latest version.
LEMMA ShownServer ==
    ASSUME TypeInv, TypeInv', IssuedInv, LogInv, LogInv', TrustInv, QueueInv, TakenInv,
           Next, NEW d \in Device, Server(d), Plain(d), Plain(d)', PassedAt(d), ShownAt(d)
    PROVE  ShownAt(d)'
<1> USE DEF TypeInv
<1>1. UNCHANGED <<mut, nextMut, st, acked, row, cursor, deferred, pc, page, upto, replaying>>
  BY DEF Server, ServerStep, ServeReplay, ServeThrow, ServeCreate, ServeUnknown, ServeDeleted,
     ServeDelete, ServeUpdate, ServeKeep, Commit, tillVars, outboxVars, replicaVars, pullVars, pushVars
<1>2. /\ Own(d)' = Own(d)
      /\ \A n \in Own(d) : n \in Mut /\ mut[n].ent \in Entity /\ (Answered(d, n)' <=> Answered(d, n))
  BY <1>1, OwnAre DEF Own, Issued, Answered
<1>3. PICK m \in Mut : ServerStep(d, m)
  BY DEF Server
<1>4. CASE UNCHANGED serverVars
  BY <1>1, <1>2, <1>4, ShownStays DEF serverVars
<1>5. CASE ~UNCHANGED serverVars
  <2>0. PICK e : e = mut[m].ent
    OBVIOUS
  <2>1. PICK a : /\ processed' = [processed EXCEPT ![m] = a] /\ a.status # "none"
                 /\ processed[m] = NoAnswer
                 /\ \/ \E r \in Row, F \in SUBSET Field :
                         /\ Publish(m, r, F)
                         /\ \/ mut[m].op = "create" /\ srv[e].v = 0 /\ r = FirstWritten(m)
                            \/ mut[m].op = "update" /\ srv[e].v > 0 /\ a.state = r /\ r.v > 0
                            \/ mut[m].op = "delete" /\ srv[e].v > 0
                    \/ /\ UNCHANGED <<srv, log>>
                       /\ a.status \in Accepted => srv[e].v > 0 /\ (mut[m].op = "update" => a.state = srv[e])
    BY <1>3, <1>5, <2>0, ServedAnswer
  <2>2. NoAnswer.status = "none" /\ "none" \notin Accepted
    BY DEF NoAnswer, Answer, Accepted
  <2>3. /\ processed'[m] = a /\ processed'[m] # processed[m]
        /\ \A n \in Mut : n # m => processed'[n] = processed[n]
    BY <2>1, <2>2 DEF TypeOK
  <2>4. m \in Own(d)
    <3>1. m \in wire[d] \cup ghost[d]
      BY <2>3, ServedOwn
    <3> QED BY <3>1, OwnAre DEF Handles
  <2>5. e \in Entity /\ mut[m].op \in {"create", "update"}
    <3>1. mut[m].op \in {"create", "update", "delete"}
      BY DEF TypeOK, Mutation
    <3>2. mut[m].op # "delete"
      BY <2>4 DEF Plain, NoDeletion, Own
    <3> QED BY <1>2, <2>0, <2>4, <3>1, <3>2
  <2>6. ~Answered(d, m)
    BY <2>1, <2>2 DEF Answered, TrustInv, OutboxAgreesWithServer
  <2>7. a.status \in Accepted
    <3>1. processed'[m].status \in Accepted \cup {"none"}
      BY <1>2, <2>4 DEF Plain
    <3> QED BY <2>1, <2>3, <3>1
  <2>8. \A s \in EntriesOf(e) : log[s].row.v <= a.state.v
    <3>1. SUFFICES ASSUME NEW s \in EntriesOf(e) PROVE log[s].row.v <= a.state.v
      OBVIOUS
    <3>2. s \in EntriesOf(e)' /\ log'[s] = log[s] /\ log[s].row.v \in Nat
      BY <2>5, EntriesAfter
    <3>2a. log[s].row.v \in 1..srv[e].v
      BY <2>5 DEF LogInv, EntriesOf
    <3>2b. log'[s].row.v \in 1..srv'[e].v
      BY <2>5, <3>2 DEF LogInv, EntriesOf
    <3>2c. srv[e].v \in Nat /\ srv'[e].v \in Nat
      BY <2>5 DEF TypeOK, Row
    <3>3. CASE mut[m].op = "update"
      <4>1. srv'[e] = a.state
        <5>1. ASSUME NEW r \in Row, NEW F \in SUBSET Field, Publish(m, r, F), a.state = r
              PROVE  srv'[e] = a.state
          BY <2>0, <2>5, <5>1 DEF Publish, TypeOK
        <5>2. ASSUME UNCHANGED srv, a.state = srv[e]
              PROVE  srv'[e] = a.state
          BY <5>2
        <5> QED BY <2>1, <2>7, <3>3, <5>1, <5>2
      <4> QED BY <3>2, <3>2b, <3>2c, <4>1
    <3>4. CASE mut[m].op = "create"
      <4>1. srv[e].v = 0
        BY <2>0, <2>1, <2>4, <3>4 DEF TakenInv, Own
      <4> QED BY <3>2a, <3>2c, <4>1
    <3> QED BY <2>5, <3>3, <3>4
  <2>9. \A s \in 1..Len(log') : s > Len(log) => log'[s].ent = e
    <3>1. ASSUME NEW r \in Row, NEW F \in SUBSET Field, Publish(m, r, F)
          PROVE  \A s \in 1..Len(log') : s > Len(log) => log'[s].ent = e
      BY <2>0, <3>1, LogAfter
    <3>2. ASSUME UNCHANGED log
          PROVE  \A s \in 1..Len(log') : s > Len(log) => log'[s].ent = e
      BY <3>2, LenProperties DEF TypeOK
    <3> QED BY <2>1, <3>1, <3>2
  <2>10. cursor[d] \in Nat /\ cursor[d] <= Len(log)
    BY DEF TypeOK, PassedAt
  <2>11. AnswersAhead(d)'
    <3>1. SUFFICES ASSUME NEW n \in Own(d), st[n] # "done", processed'[n] # NoAnswer,
                          NEW s \in EntriesOf(mut[n].ent)', s <= cursor[d]
                   PROVE  log'[s].row.v <= processed'[n].state.v
      BY <1>1, <1>2 DEF AnswersAhead, EntriesOf
    <3>2. s \in EntriesOf(mut[n].ent) /\ log'[s] = log[s]
      BY <1>1, <1>2, <2>10, <3>1, EntriesAfter
    <3>3. CASE n = m
      BY <2>0, <2>3, <2>8, <3>2, <3>3
    <3>4. CASE n # m
      BY <1>2, <2>3, <3>1, <3>2, <3>4 DEF ShownAt, AnswersAhead
    <3> QED BY <3>3, <3>4
  <2>12. CreatedShown(d)'
    BY <1>1, <1>2 DEF ShownAt, CreatedShown, Sole, FirstWritten
  <2>13. \A x \in Entity : ~Awaits(d, x)' => ~Awaits(d, x) /\ x # e
    BY <1>1, <1>2, <2>0, <2>4, <2>6 DEF Awaits
  <2>14. ASSUME NEW x \in Entity, ~Awaits(d, x)'
         PROVE  ShownRow(d, x)'
    <3>1. ShownRow(d, x) /\ x # e
      BY <2>13, <2>14 DEF ShownAt
    <3>2. \A s \in EntriesOf(x)' : s > Len(log) => log'[s].dev # d
      BY <2>9, <3>1 DEF EntriesOf
    <3>3. \A s : PutAside(d, s)' <=> PutAside(d, s)
      BY <1>1 DEF PutAside
    <3> QED BY <1>1, <3>1, <3>2, <3>3, ShownGoesOn
  <2>15. Fetched(d)'
    BY <1>1, <2>13, FetchedStays DEF ShownAt
  <2> QED BY <2>11, <2>12, <2>14, <2>15 DEF ShownAt
<1> QED BY <1>4, <1>5

\* A till waits for the answer about what it writes.
LEMMA ShownWritten ==
    ASSUME TypeInv, TypeInv', IssuedInv, HeldInv, QueueInv, Next, NEW d \in Device,
           Cashier(d), Plain(d), Plain(d)', PassedAt(d), ShownAt(d)
    PROVE  ShownAt(d)'
<1> USE DEF TypeInv
<1>1. \E e \in Entity : \E r, x :
        /\ Write(d, e, r, x) /\ x \in Mutation /\ x.dev = d /\ x.ent = e
        /\ x.op = "create" => r = FirstRow(x.val, x.ts)
  <2>1. ASSUME NEW m \in Mut, Settles(d, m) PROVE FALSE
    <3>1. processed[m].status = "conflict" /\ mut[m].dev = d
      BY <2>1 DEF Settles, HeldInv
    <3> QED BY <3>1, OwnAre DEF Plain, Accepted
  <2>2. ASSUME NEW e \in Entity, NEW t \in Clock, LocalDelete(d, e, t) PROVE FALSE
    <3>1. nextMut \in Mut /\ mut' = [mut EXCEPT ![nextMut] =
             [dev |-> d, ent |-> e, op |-> "delete", base |-> row[d][e].v,
              fields |-> {}, val |-> nextMut, ts |-> t, saw |-> row[d][e].val]]
          /\ nextMut' = nextMut + 1
      BY <2>2, SyncAssumption DEF LocalDelete, Write, TypeOK, Mut
    <3>2. mut'[nextMut].op = "delete" /\ nextMut \in Issued'
      BY <3>1, SyncAssumption DEF TypeOK, Issued, Mut
    <3> QED BY <3>2 DEF Plain, NoDeletion
  <2>3. ASSUME NEW e \in Entity, NEW t \in Clock, LocalCreate(d, e, t)
        PROVE  \E r, x : /\ Write(d, e, r, x) /\ x.dev = d /\ x.ent = e
                         /\ x.op = "create" => r = FirstRow(x.val, x.ts)
    <3> DEFINE x == [dev |-> d, ent |-> e, op |-> "create", base |-> 0, fields |-> Field,
                     val |-> nextMut, ts |-> t, saw |-> Absent.val]
    <3>1. Write(d, e, FirstRow(nextMut, t), x)
      BY <2>3 DEF LocalCreate
    <3>2. x.dev = d /\ x.ent = e /\ x.val = nextMut /\ x.ts = t
      OBVIOUS
    <3> HIDE DEF x
    <3> QED BY <3>1, <3>2
  <2>4. ASSUME NEW e \in Entity, NEW t \in Clock, NEW F \in SUBSET Field, LocalUpdate(d, e, F, t)
        PROVE  \E r, x : /\ Write(d, e, r, x) /\ x.dev = d /\ x.ent = e
                         /\ x.op = "create" => r = FirstRow(x.val, x.ts)
    <3> DEFINE cur == row[d][e]
               r == [v |-> cur.v + 1, ts |-> t, del |-> FALSE,
                     val |-> [f \in Field |-> IF f \in F THEN nextMut ELSE cur.val[f]]]
               x == [dev |-> d, ent |-> e, op |-> "update", base |-> cur.v,
                     fields |-> F, val |-> nextMut, ts |-> t, saw |-> cur.val]
    <3>1. Write(d, e, r, x)
      BY <2>4 DEF LocalUpdate
    <3>2. x.dev = d /\ x.ent = e /\ x.op # "create"
      OBVIOUS
    <3> HIDE DEF x, r
    <3> QED BY <3>1, <3>2
  <2>5. PICK e \in Entity : \E r, x :
          /\ Write(d, e, r, x) /\ x.dev = d /\ x.ent = e
          /\ x.op = "create" => r = FirstRow(x.val, x.ts)
    BY <2>1, <2>2, <2>3, <2>4 DEF Cashier, ResolveServer, ResolveLocal
  <2>6. PICK r, x :
          /\ Write(d, e, r, x) /\ x.dev = d /\ x.ent = e
          /\ x.op = "create" => r = FirstRow(x.val, x.ts)
    BY <2>5
  <2>7. x \in Mutation
    <3>1. nextMut \in Mut /\ mut' = [mut EXCEPT ![nextMut] = x]
      BY <2>6, SyncAssumption DEF Write, TypeOK, Mut
    <3>2. mut'[nextMut] = x /\ mut' \in [Mut -> Mutation]
      BY <3>1 DEF TypeOK
    <3> QED BY <3>1, <3>2
  <2> QED BY <2>6, <2>7
<1>1a. PICK e \in Entity : \E r, x :
        /\ Write(d, e, r, x) /\ x \in Mutation /\ x.dev = d /\ x.ent = e
        /\ x.op = "create" => r = FirstRow(x.val, x.ts)
  BY <1>1
<1>1b. PICK r, x :
        /\ Write(d, e, r, x) /\ x \in Mutation /\ x.dev = d /\ x.ent = e
        /\ x.op = "create" => r = FirstRow(x.val, x.ts)
  BY <1>1a
<1>2. PICK k : k = nextMut
  OBVIOUS
<1>3. /\ k \in Mut /\ row' = [row EXCEPT ![d][e] = r] /\ mut' = [mut EXCEPT ![k] = x]
      /\ nextMut' = k + 1
      /\ UNCHANGED <<srv, log, processed, st, acked, cursor, deferred, pc, page, upto, replaying>>
  BY <1>1b, <1>2, SyncAssumption DEF Write, TypeOK, Mut, serverVars, pullVars, pushVars
<1>4. /\ mut'[k] = x /\ row'[d][e] = r /\ \A y \in Entity : y # e => row'[d][y] = row[d][y]
      /\ \A n \in Mut : n # k => mut'[n] = mut[n]
  BY <1>3 DEF TypeOK
<1>5. /\ k \in Own(d)' /\ k \notin Own(d) /\ st[k] = "none" /\ k \notin acked[d]
      /\ processed[k] = NoAnswer
  <2>1. k \in Issued'
    BY <1>3, SyncAssumption DEF Issued, Mut
  <2>2. k \notin Issued
    BY <1>2, IssuedAre
  <2>3. k \notin Own(d) /\ k \notin acked[d]
    BY <2>2, OwnAre DEF Handles
  <2> QED BY <1>1b, <1>3, <1>4, <2>1, <2>2, <2>3 DEF Own, QueueInv
<1>6. \A n \in Own(d)' : n = k \/ (n \in Own(d) /\ mut'[n] = mut[n])
  BY <1>2, OwnAfter
<1>7. \A n \in Own(d) : n \in Own(d)' /\ mut'[n] = mut[n] /\ n # k /\ n \in Mut /\ mut[n].ent \in Entity
  BY <1>5, OwnAre, OwnAfter
<1>8. Awaits(d, e)'
  <2>1. ~Answered(d, k)'
    BY <1>3, <1>5 DEF Answered
  <2> QED BY <1>1b, <1>4, <1>5, <2>1 DEF Awaits
<1>9. \A y \in Entity : ~Awaits(d, y)' => ~Awaits(d, y) /\ y # e
  <2>1. \A n \in Own(d) : Answered(d, n)' <=> Answered(d, n)
    BY <1>3 DEF Answered
  <2>2. \A y \in Entity : Awaits(d, y) => Awaits(d, y)'
    BY <1>7, <2>1 DEF Awaits
  <2> QED BY <1>8, <2>2
<1>10. AnswersAhead(d)'
  <2>1. \A n \in Own(d)' : processed[n] # NoAnswer => n \in Own(d) /\ mut'[n] = mut[n]
    BY <1>5, <1>6
  <2> QED BY <1>3, <2>1 DEF ShownAt, AnswersAhead, EntriesOf
<1>11. CreatedShown(d)'
  <2>1. SUFFICES ASSUME NEW n \in Own(d)', mut'[n].op = "create", st[n] # "done", Sole(d, n)'
                 PROVE  row'[d][mut'[n].ent] = FirstRow(mut'[n].val, mut'[n].ts)
    BY <1>3 DEF CreatedShown, FirstWritten
  <2>2. CASE n = k
    BY <1>1b, <1>4, <2>1, <2>2
  <2>3. CASE n # k
    <3>1. n \in Own(d) /\ mut'[n] = mut[n] /\ mut[n].ent \in Entity
      BY <1>6, <1>7, <2>3
    <3>2. mut[n].ent # e
      BY <1>1b, <1>4, <1>5, <2>1, <2>3, <3>1 DEF Sole
    <3>3. Sole(d, n)
      BY <1>7, <2>1, <3>1 DEF Sole
    <3> QED BY <1>4, <2>1, <3>1, <3>2, <3>3 DEF ShownAt, CreatedShown, FirstWritten
  <2> QED BY <2>2, <2>3
<1>12. ASSUME NEW y \in Entity, ~Awaits(d, y)'
       PROVE  ShownRow(d, y)'
  <2>1. ShownRow(d, y) /\ y # e
    BY <1>9, <1>12 DEF ShownAt
  <2>2. \A s \in EntriesOf(y)' : s > Len(log) => log'[s].dev # d
    <3>1. \A s \in EntriesOf(y)' : s \in 1..Len(log) /\ Len(log) \in Nat
      BY <1>3, LenProperties DEF EntriesOf, TypeOK
    <3> QED BY <3>1
  <2>3. \A s : PutAside(d, s)' <=> PutAside(d, s)
    BY <1>3 DEF PutAside
  <2> QED BY <1>3, <1>4, <2>1, <2>2, <2>3, ShownGoesOn
<1>13. Fetched(d)'
  BY <1>3, <1>4, <1>9, FetchedStays DEF ShownAt
<1> QED BY <1>10, <1>11, <1>12, <1>13 DEF ShownAt

\* An answer brings the row up to what the till has sent, and no further back than what it
\* has gone past.
LEMMA AnswerShown ==
    ASSUME TypeInv, TypeInv', IssuedInv, LogInv, TrustInv, HeldInv, QueueInv, TakenInv, Next,
           NEW d \in Device, NEW m \in Mut, AnswerAccepted(d, m),
           Plain(d), FlowAt(d), PassedAt(d), ShownAt(d)
    PROVE  ShownAt(d)'
<1> USE DEF TypeInv
<1>0. PICK e : e = mut[m].ent
  OBVIOUS
<1>1. /\ UNCHANGED <<srv, log, processed, mut, nextMut, st, cursor, deferred, pc, page, upto, replaying>>
      /\ pc[d] = "sent" /\ m \in todo[d] /\ acked' = [acked EXCEPT ![d] = @ \cup {m}]
      /\ row' = IF reply[m].state = Absent THEN row ELSE [row EXCEPT ![d][e] = reply[m].state]
      /\ reply[m].status \in Accepted
  BY <1>0 DEF AnswerAccepted, Handling, First, serverVars, outboxVars, pullVars
<1>2. /\ processed[m] = reply[m] /\ processed[m].status \in Accepted /\ processed[m] # NoAnswer
      /\ processed[m].state \in Row
  <2>1. "none" \notin Accepted /\ "rejected" \notin Accepted /\ NoAnswer.status = "none"
    BY DEF Accepted, NoAnswer, Answer
  <2>2. processed[m] = reply[m]
    BY <1>1, <2>1 DEF TrustInv
  <2> QED BY <1>1, <2>1, <2>2 DEF TypeOK, Answers
<1>3. /\ m \in Own(d) /\ m \in Issued /\ e \in Entity /\ m \in Nat
      /\ st[m] # "done" /\ m \notin acked[d] /\ ~Answered(d, m)
  <2>1. m \in Own(d)
    BY <1>1, OwnAre DEF Handles
  <2>2. st[m] # "done" /\ m \notin acked[d]
    BY <1>1 DEF QueueInv, QueueAt
  <2> QED BY <1>0, <2>1, <2>2, OwnAre DEF Answered
<1>4. /\ Own(d)' = Own(d)
      /\ \A k \in Own(d) : k # m => (Answered(d, k)' <=> Answered(d, k))
  <2>1. \A k : k \in acked'[d] <=> k \in acked[d] \/ k = m
    BY <1>1 DEF TypeOK
  <2> QED BY <1>1, <2>1 DEF Own, Issued, Answered
<1>5. \A k \in Own(d) : k \in Mut /\ k \in Nat /\ k \in Issued /\ mut[k].ent \in Entity
  BY OwnAre
<1>6. \A y \in Entity : y # e => row'[d][y] = row[d][y]
  BY <1>1 DEF TypeOK
<1>7. row'[d][e] = IF processed[m].state = Absent THEN row[d][e] ELSE processed[m].state
  BY <1>1, <1>2, <1>3 DEF TypeOK
<1>8. mut[m].op \in {"create", "update"}
  <2>1. mut[m].op \in {"create", "update", "delete"}
    BY DEF TypeOK, Mutation
  <2> QED BY <1>3, <2>1 DEF Plain, NoDeletion
<1>9. mut[m].op = "create" => row'[d][e] = row[d][e] /\ processed[m].state = Absent
  BY <1>7 DEF HeldInv
<1>10. Absent.v = 0 /\ Seed.v = 1 /\ \A k \in Mut : FirstWritten(k).v = 1
  BY DEF Absent, Seed, FirstWritten, FirstRow
<1>11. AnswersAhead(d)'
  BY <1>1, <1>4 DEF ShownAt, AnswersAhead, EntriesOf
<1>12. CreatedShown(d)'
  <2>1. SUFFICES ASSUME NEW k \in Own(d), mut[k].op = "create", st[k] # "done", Sole(d, k)
                 PROVE  row'[d][mut[k].ent] = FirstWritten(k)
    BY <1>1, <1>4 DEF CreatedShown, Sole, FirstWritten
  <2>2. row[d][mut[k].ent] = FirstWritten(k)
    BY <2>1 DEF ShownAt, CreatedShown
  <2>3. CASE mut[k].ent = e
    <3>1. k = m
      BY <1>0, <1>3, <2>1, <2>3 DEF Sole
    <3> QED BY <1>9, <2>1, <2>2, <2>3, <3>1
  <2>4. CASE mut[k].ent # e
    BY <1>5, <1>6, <2>2, <2>4
  <2> QED BY <2>3, <2>4
<1>13. ASSUME NEW y \in Entity, ~Awaits(d, y)', y # e
       PROVE  ShownRow(d, y)'
  <2>1. ~Awaits(d, y)
    <3>1. \A k \in Own(d) : mut[k].ent = y => k # m
      BY <1>0, <1>13
    <3>2. \A k \in Own(d) : mut[k].ent = y => Answered(d, k)'
      BY <1>1, <1>4, <1>13 DEF Awaits
    <3> QED BY <1>4, <3>1, <3>2 DEF Awaits
  <2>2. ShownRow(d, y)
    BY <2>1 DEF ShownAt
  <2>3. \A s \in EntriesOf(y)' : s > Len(log) => log'[s].dev # d
    <3>1. \A s \in EntriesOf(y)' : s \in 1..Len(log) /\ Len(log) \in Nat
      BY <1>1, LenProperties DEF EntriesOf, TypeOK
    <3> QED BY <3>1
  <2>4. \A s : PutAside(d, s)' <=> PutAside(d, s)
    BY <1>1 DEF PutAside
  <2> QED BY <1>1, <1>6, <1>13, <2>2, <2>3, <2>4, ShownGoesOn
<1>14. ASSUME ~Awaits(d, e)'
       PROVE  ShownRow(d, e)'
  <2>1. \A k \in Own(d) : mut[k].ent = e /\ k # m => Answered(d, k) /\ k < m
    <3>1. SUFFICES ASSUME NEW k \in Own(d), mut[k].ent = e, k # m
                   PROVE  Answered(d, k) /\ k < m
      OBVIOUS
    <3>2. Answered(d, k)
      BY <1>1, <1>4, <1>14, <3>1 DEF Awaits
    <3>3. ~(m < k)
      BY <1>3, <3>2 DEF FlowAt
    <3> QED BY <1>3, <1>5, <3>1, <3>2, <3>3
  <2>2. \A s \in EntriesOf(e) : log[s].row.v \in Nat /\ log[s].ent = e /\ s \in 1..Len(log)
    BY <1>3, EntriesAfter DEF EntriesOf
  <2>3. ASSUME NEW s \in EntriesOf(e), log[s].dev = d, log[s].mut # 0
        PROVE  log[s].mut \in Own(d) /\ mut[log[s].mut].ent = e /\ log[s].mut \in Mut
    <3>1. log[s].mut \in Mut
      BY <2>2, <2>3, LogTypes, SyncAssumption DEF Mut
    <3>2. mut[log[s].mut].dev = d /\ mut[log[s].mut].ent = e
      BY <2>2, <2>3 DEF IssuedInv
    <3> QED BY <3>1, <3>2, OwnAre
  <2>4. \A s \in EntriesOf(e) : log[s].mut = 0 => log[s].row.v = 1
    BY <1>10, <2>2 DEF LogInv
  <2>5. \A s \in EntriesOf(e) : s <= cursor[d] => log[s].row.v <= processed[m].state.v
    BY <1>0, <1>2, <1>3 DEF ShownAt, AnswersAhead
  <2>6. processed[m].state.v \in Nat
    BY <1>2 DEF Row
  <2>7. CASE mut[m].op = "create"
    <3>1. Sole(d, m)
      <4>1. \A k \in Own(d) : mut[k].ent = e => m <= k
        BY <1>0, <1>3, <1>5, <2>7 DEF TakenInv
      <4>2. \A k \in Own(d) : mut[k].ent = e /\ k # m => m <= k /\ k < m /\ k \in Nat
        BY <1>5, <2>1, <4>1
      <4>3. \A k \in Own(d) : mut[k].ent = e => k = m
        BY <1>3, <4>2
      <4> QED BY <1>0, <4>3 DEF Sole
    <3>2. row'[d][e] = FirstWritten(m)
      BY <1>0, <1>3, <1>9, <2>7, <3>1 DEF ShownAt, CreatedShown
    <3>3. PICK s \in 1..Len(log) : log[s].mut = m
      BY <1>2, <1>3, <2>7 DEF TakenInv
    <3>4. s \in EntriesOf(e) /\ log[s].row = FirstWritten(m)
      <4>1. log[s].mut # 0
        BY <3>3, SyncAssumption DEF Mut
      <4>2. log[s].ent = e
        BY <1>0, <3>3, <4>1 DEF IssuedInv
      <4> QED BY <2>7, <3>3, <4>1, <4>2 DEF EntriesOf, TakenInv
    <3>5. Told(d, e)'
      BY <1>1, <3>2, <3>4 DEF Told, EntriesOf
    <3>6. ASSUME NEW t \in EntriesOf(e), log[t].dev = d \/ t <= cursor[d]
          PROVE  log[t].row.v <= row'[d][e].v
      <4>1. CASE log[t].dev = d /\ log[t].mut # 0
        <5>1. log[t].mut = m
          BY <1>0, <2>3, <3>1, <4>1 DEF Sole
        <5>2. log[t].row = FirstWritten(m)
          BY <2>2, <2>7, <4>1, <5>1 DEF TakenInv
        <5> QED BY <1>10, <3>2, <5>2
      <4>2. CASE log[t].mut = 0
        BY <1>10, <2>4, <3>2, <4>2
      <4>3. CASE t <= cursor[d]
        BY <1>9, <1>10, <2>2, <2>5, <2>7, <3>2, <4>3
      <4> QED BY <3>6, <4>1, <4>2, <4>3
    <3>7. Ahead(d, e)'
      BY <1>1, <3>6 DEF Ahead, Reached, EntriesOf, Applying
    <3> QED BY <3>5, <3>7 DEF ShownRow
  <2>8. CASE mut[m].op = "update"
    <3>1. /\ processed[m].state.v > 0
          /\ \E s \in EntriesOf(e) : log[s].row = processed[m].state
      BY <1>0, <1>2, <1>3, <2>8 DEF TakenInv
    <3>2. row'[d][e] = processed[m].state
      BY <1>7, <1>10, <3>1
    <3>3. Told(d, e)'
      BY <1>1, <3>1, <3>2 DEF Told, EntriesOf
    <3>4. ASSUME NEW t \in EntriesOf(e), log[t].dev = d \/ t <= cursor[d]
          PROVE  log[t].row.v <= row'[d][e].v
      <4>1. CASE log[t].dev = d /\ log[t].mut # 0
        <5>1. PICK k \in Own(d) : k = log[t].mut /\ mut[k].ent = e /\ k \in Mut
          BY <2>3, <4>1
        <5>2. mut[k].op \in {"create", "update"}
          <6>1. mut[k].op \in {"create", "update", "delete"}
            BY <5>1 DEF TypeOK, Mutation
          <6> QED BY <1>5, <6>1 DEF Plain, NoDeletion
        <5>3. CASE mut[k].op = "create"
          <6>1. log[t].row = FirstWritten(k)
            BY <2>2, <4>1, <5>1, <5>3 DEF TakenInv
          <6>2. log[t].row.v = 1
            BY <1>10, <5>1, <6>1
          <6> QED BY <2>6, <3>1, <3>2, <6>2
        <5>4. CASE mut[k].op = "update"
          <6>1. log[t].row = processed[k].state
            BY <2>2, <4>1, <5>1, <5>4 DEF TakenInv
          <6>2. processed[k].state.v <= processed[m].state.v
            <7>1. CASE k = m
              BY <2>6, <7>1
            <7>2. CASE k # m
              BY <1>0, <1>2, <1>3, <2>1, <5>1, <7>2 DEF Plain, InOrder
            <7> QED BY <7>1, <7>2
          <6> QED BY <3>2, <6>1, <6>2
        <5> QED BY <5>2, <5>3, <5>4
      <4>2. CASE log[t].mut = 0
        BY <2>4, <2>6, <3>1, <3>2, <4>2
      <4>3. CASE t <= cursor[d]
        BY <2>5, <3>2, <4>3
      <4> QED BY <3>4, <4>1, <4>2, <4>3
    <3>5. Ahead(d, e)'
      BY <1>1, <3>4 DEF Ahead, Reached, EntriesOf, Applying
    <3> QED BY <3>3, <3>5 DEF ShownRow
  <2> QED BY <1>8, <2>7, <2>8
<1>15. Fetched(d)'
  BY <1>1 DEF Fetched
<1> QED BY <1>11, <1>12, <1>13, <1>14, <1>15 DEF ShownAt

\* Change t of the page, or put aside, is not needed any more, or is put aside again.
Caught(d, t) ==
    \/ log[t].ent \in Journal \/ Awaits(d, log[t].ent)
    \/ PutAside(d, t)' \/ log[t].row.v <= row'[d][log[t].ent].v

\* What the changes of a page, applied one by one, leave.
LEMMA ShownApplying ==
    ASSUME TypeInv, TypeInv', IssuedInv, Next, NEW b \in Device, PassedAt(b), ShownAt(b),
           UNCHANGED <<log, processed, mut, nextMut, st, acked, cursor, upto, replaying>>,
           pc[b] \in Applying,
           \A e \in Entity : ~Awaits(b, e) =>
               \/ row'[b][e] = row[b][e]
               \/ row[b][e].v <= row'[b][e].v /\ \E s \in EntriesOf(e) : log[s].row = row'[b][e],
           \A m \in Own(b) : mut[m].op = "create" /\ st[m] # "done"
               => row'[b][mut[m].ent] = row[b][mut[m].ent],
           \A t \in Change : t \in page[b] => t \in page'[b] \/ Caught(b, t),
           \A t \in Change : PutAside(b, t) => Caught(b, t)
    PROVE  AnswersAhead(b)' /\ CreatedShown(b)' /\ \A e \in Entity : ~Awaits(b, e)' => ShownRow(b, e)'
<1> USE DEF TypeInv
<1>1. Own(b)' = Own(b) /\ \A m \in Own(b) : Answered(b, m)' <=> Answered(b, m)
  BY DEF Own, Issued, Answered
<1>2. AnswersAhead(b)'
  BY <1>1 DEF ShownAt, AnswersAhead, EntriesOf
<1>3. CreatedShown(b)'
  BY <1>1 DEF ShownAt, CreatedShown, Sole, FirstWritten
<1>4. ASSUME NEW e \in Entity, ~Awaits(b, e)'
      PROVE  ShownRow(b, e)'
  <2>1. ~Awaits(b, e)
    BY <1>1, <1>4 DEF Awaits
  <2>2. ShownRow(b, e)
    BY <2>1 DEF ShownAt
  <2>3. \A s \in EntriesOf(e)' : s > Len(log) => log'[s].dev # b
    <3>1. \A s \in EntriesOf(e)' : s \in 1..Len(log) /\ Len(log) \in Nat
      BY LenProperties DEF EntriesOf, TypeOK
    <3> QED BY <3>1
  <2>4. /\ \A s \in EntriesOf(e) : log[s].ent = e
        /\ \A s : s \in page[b] \/ PutAside(b, s) => s \in Change
    BY DEF EntriesOf, TypeOK, PutAside
  <2>5. \A s \in EntriesOf(e) : e \notin Journal /\ PutAside(b, s)
            => PutAside(b, s)' \/ log[s].row.v <= row'[b][e].v
    BY <2>1, <2>4 DEF Caught
  <2>6. \A s \in EntriesOf(e) : e \notin Journal /\ s \in page[b]
            => s \in page'[b] \/ PutAside(b, s)' \/ log[s].row.v <= row'[b][e].v
    BY <2>1, <2>4 DEF Caught
  <2>7. \/ row'[b][e] = row[b][e]
        \/ row[b][e].v <= row'[b][e].v /\ \E s \in EntriesOf(e) : log[s].row = row'[b][e]
    BY <2>1
  <2> QED BY <2>2, <2>3, <2>5, <2>6, <2>7, ShownGoesOn
<1> QED BY <1>2, <1>3, <1>4

\* A page holds every change of another till up to its end.
LEMMA PulledAll ==
    ASSUME TypeOK, NEW d \in Device, Pull(d), cursor[d] <= Len(log), upto'[d] <= Len(log)
    PROVE  /\ upto'[d] \in Nat
           /\ \A t \in 1..Len(log) : t <= upto'[d] /\ ~(t <= cursor[d]) /\ log[t].dev # d => t \in page'[d]
<1> DEFINE changes == FirstOf(Fresh(d), PageSize)
<1>1. Len(log) \in Nat /\ cursor[d] \in Nat /\ PageSize \in Nat
  BY LenProperties, SyncAssumption DEF TypeOK
<1>2. page'[d] = changes /\ upto'[d] \in changes \cup {cursor[d]}
  BY DEF Pull, TypeOK
<1>3. changes \subseteq Fresh(d) /\ Fresh(d) \subseteq Change
  BY DEF FirstOf, Fresh
<1>4. Change \subseteq Nat /\ IsFiniteSet(Change)
  <2>1. Len(Seeded) \in Nat /\ MaxMut \in Nat
    BY SyncAssumption, LenProperties
  <2>2. MaxMut + Len(Seeded) \in Nat
    BY <2>1
  <2> QED BY <2>2, FS_Interval DEF Change
<1>5. upto'[d] \in Nat
  BY <1>1, <1>2, <1>3, <1>4
<1>6. SUFFICES ASSUME NEW t \in 1..Len(log), t <= upto'[d], ~(t <= cursor[d]), log[t].dev # d
               PROVE  t \in changes
  BY <1>2, <1>5
<1>7. PICK l \in changes : l = upto'[d] /\ l \in Fresh(d) /\ l \in Change /\ l \in Nat
                         /\ Cardinality({y \in Fresh(d) : y < l}) < PageSize
  <2>1. upto'[d] \in changes
    BY <1>1, <1>2, <1>6
  <2>2. \A x \in changes : x \in Fresh(d) /\ Cardinality({y \in Fresh(d) : y < x}) < PageSize
    BY DEF FirstOf
  <2> HIDE DEF changes
  <2> QED BY <1>3, <1>4, <2>1, <2>2
<1>8. t \in Fresh(d)
  <2>1. t \in Change
    <3>1. \A k \in Nat : \A i \in 1..k : \A j \in 1..Len(log) : j <= i => j \in 1..k
      BY <1>1
    <3>2. MaxMut + Len(Seeded) \in Nat
      BY SyncAssumption, LenProperties
    <3> QED BY <1>6, <1>7, <3>1, <3>2 DEF Change
  <2> QED BY <1>1, <1>6, <2>1 DEF Fresh
<1> DEFINE Before(x) == {y \in Fresh(d) : y < x}
<1>9. Cardinality(Before(l)) < PageSize
  BY <1>7
<1>10. Before(t) \subseteq Before(l) /\ Before(l) \subseteq Change
  BY <1>1, <1>3, <1>4, <1>6, <1>7
<1>11. IsFiniteSet(Before(l))
  BY <1>4, <1>10, FS_Subset
<1>12. /\ IsFiniteSet(Before(t)) /\ Cardinality(Before(t)) <= Cardinality(Before(l))
       /\ Cardinality(Before(t)) \in Nat /\ Cardinality(Before(l)) \in Nat
  BY <1>10, <1>11, FS_Subset, FS_CardinalityType
<1> HIDE DEF Before
<1>13. Cardinality(Before(t)) < PageSize
  BY <1>1, <1>9, <1>12
<1> QED BY <1>8, <1>13 DEF FirstOf, Before

\* Pulling a page, and going past it.
LEMMA ShownPages ==
    ASSUME TypeInv, TypeInv', IssuedInv, LogInv, Next, NEW d \in Device, Pull(d) \/ PageDone(d),
           FlowAt(d), PassedAt(d), PassedAt(d)', ShownAt(d)
    PROVE  ShownAt(d)'
<1> USE DEF TypeInv
<1>1. UNCHANGED <<log, processed, mut, nextMut, st, acked, row, deferred>>
  BY DEF Pull, PageDone, serverVars, outboxVars, replicaVars, pushVars
<1>2. Own(d)' = Own(d) /\ (\A m \in Own(d) : Answered(d, m)' <=> Answered(d, m))
  BY <1>1 DEF Own, Issued, Answered
<1>3. CreatedShown(d)'
  BY <1>1, <1>2 DEF ShownAt, CreatedShown, Sole, FirstWritten
<1>4. /\ Len(log) \in Nat /\ cursor[d] <= Len(log) /\ upto[d] <= Len(log) /\ upto'[d] <= Len(log)
      /\ cursor[d] \in Nat /\ upto[d] \in Nat
      /\ pc \in [Device -> Labels] /\ cursor \in [Device -> Nat] /\ replaying \in [Device -> BOOLEAN]
      /\ page \in [Device -> SUBSET Change]
  BY <1>1, LenProperties DEF PassedAt, TypeOK
<1>6. CASE Pull(d)
  <2>1. pc[d] = "pull" /\ pc'[d] = "apply" /\ cursor' = cursor
    BY <1>4, <1>6 DEF Pull, Go
  <2>2. AnswersAhead(d)'
    BY <1>1, <1>2, <2>1 DEF ShownAt, AnswersAhead, EntriesOf
  <2>3. Fetched(d)'
    BY <2>1 DEF Fetched
  <2>4. ASSUME NEW e \in Entity, ~Awaits(d, e)'
        PROVE  ShownRow(d, e)'
    <3>1. ~Awaits(d, e)
      BY <1>1, <1>2, <2>4 DEF Awaits
    <3>2. Told(d, e) /\ (e \notin Journal => Reached(d, e, cursor[d], {}))
      BY <3>1 DEF ShownAt, ShownRow, Ahead
    <3>3. Told(d, e)'
      BY <1>1, <3>2 DEF Told, EntriesOf
    <3>4. Reached(d, e, cursor[d], {}) => Reached(d, e, cursor[d], {})'
      BY <1>1, <2>1 DEF Reached, EntriesOf, PutAside
    <3>5. Reached(d, e, cursor[d], {}) => Reached(d, e, upto[d], page[d])'
      <4>1. SUFFICES ASSUME Reached(d, e, cursor[d], {}), NEW s \in EntriesOf(e),
                            log[s].dev = d \/ (s <= upto'[d] /\ s \notin page'[d])
                     PROVE  log[s].row.v <= row[d][e].v \/ (log[s].dev # d /\ PutAside(d, s))
        BY <1>1 DEF Reached, EntriesOf, PutAside
      <4>2. s \in 1..Len(log)
        BY DEF EntriesOf
      <4>3. log[s].dev = d \/ s <= cursor[d]
        BY <1>4, <1>6, <4>1, <4>2, PulledAll
      <4> QED BY <4>1, <4>3 DEF Reached
    <3> QED BY <3>2, <3>3, <3>4, <3>5 DEF ShownRow, Ahead
  <2> QED BY <1>3, <2>2, <2>3, <2>4 DEF ShownAt
<1>7. CASE PageDone(d)
  <2>1. /\ pc[d] = "apply" /\ page[d] = {} /\ ~replaying[d] /\ cursor'[d] = upto[d]
        /\ pc'[d] \in {"pull", "apply"} /\ (pc'[d] = "apply" => replaying'[d])
    BY <1>4, <1>7 DEF PageDone, Go
  <2>2. AnswersAhead(d)'
    <3>1. \A m \in Own(d) : st[m] # "done" => processed[m] = NoAnswer
      BY <2>1 DEF FlowAt, Pulling, Unsent
    <3> QED BY <1>1, <1>2, <3>1 DEF AnswersAhead
  <2>3. Fetched(d)'
    BY <2>1 DEF Fetched
  <2>4. ASSUME NEW e \in Entity, ~Awaits(d, e)'
        PROVE  ShownRow(d, e)'
    <3>1. ~Awaits(d, e)
      BY <1>1, <1>2, <2>4 DEF Awaits
    <3>2. Told(d, e) /\ (e \notin Journal => Reached(d, e, upto[d], {}))
      BY <2>1, <3>1 DEF ShownAt, ShownRow, Ahead, Applying
    <3>3. Told(d, e)'
      BY <1>1, <3>2 DEF Told, EntriesOf
    <3>4. Reached(d, e, upto[d], {}) => Reached(d, e, cursor[d], {})'
      BY <1>1, <2>1 DEF Reached, EntriesOf, PutAside
    <3>5. ~(pc'[d] \in Applying /\ ~replaying'[d])
      BY <2>1 DEF Applying
    <3> QED BY <3>2, <3>3, <3>4, <3>5 DEF ShownRow, Ahead
  <2> QED BY <1>3, <2>2, <2>3, <2>4 DEF ShownAt
<1> QED BY <1>6, <1>7

\* Applying the changes of a page.
LEMMA ShownApplied ==
    ASSUME TypeInv, TypeInv', IssuedInv, LogInv, HeldInv, QueueInv, TakenInv, Next,
           NEW d \in Device, NEW s \in Change,
           \/ ApplySkip(d, s) \/ ApplyStart(d, s) \/ ApplyUpsert(d, s)
           \/ ApplyLevel(d, s) \/ ApplyDefer(d, s),
           FlowAt(d), PassedAt(d), ShownAt(d)
    PROVE  ShownAt(d)'
<1> USE DEF TypeInv
<1>0. /\ row \in [Device -> [Entity -> Row]] /\ pc \in [Device -> Labels]
      /\ page \in [Device -> SUBSET Change]
      /\ deferred \in [Device -> [Change -> 0..MaxDeferred]]
  BY DEF TypeOK
<1>1. /\ UNCHANGED <<srv, log, processed, mut, nextMut, st, acked, sent, cursor, upto, replaying>>
      /\ pc[d] \in Applying /\ First(page[d], s)
  BY DEF ApplySkip, ApplyStart, ApplyUpsert, ApplyLevel, ApplyDefer, serverVars, outboxVars, pullVars,
     pushVars, Applying
<1>2. PICK e \in Entity : e = log[s].ent /\ s \in 1..Len(log) /\ s \in EntriesOf(e)
  <2>1. s \in 1..Len(log)
    BY <1>1 DEF First, Published
  <2> QED BY <2>1, LogTypes DEF EntriesOf
<1>3. /\ row[d][e].v \in Nat /\ log[s].row.v \in Nat /\ srv[e].v \in Nat
      /\ log[s].row.v > 0 /\ srv[e].v > 0
  <2>1. log[s].row.v \in 1..srv[e].v
    BY <1>2 DEF LogInv
  <2>2. row[d][e] \in Row /\ srv[e] \in Row
    BY DEF TypeOK
  <2>3. \A r \in Row : r.v \in Nat
    BY DEF Row
  <2> QED BY <2>1, <2>2, <2>3
<1>4. \A t \in Change : First(page[d], t) => t = s
  <2>1. Change \subseteq Nat
    BY DEF Change
  <2> QED BY <1>1, <2>1 DEF First
<1>5. ASSUME row'[d] = row[d],
             \A t \in Change : t # s => (t \in page[d] => t \in page'[d]) /\ deferred'[d][t] = deferred[d][t],
             (s \in page'[d] /\ deferred'[d][s] = deferred[d][s]) \/ Caught(d, s)
      PROVE  AnswersAhead(d)' /\ CreatedShown(d)' /\ \A y \in Entity : ~Awaits(d, y)' => ShownRow(d, y)'
  <2>1. \A t \in Change : t \in page[d] => t \in page'[d] \/ Caught(d, t)
    BY <1>5
  <2>2. \A t \in Change : PutAside(d, t) => Caught(d, t)
    BY <1>5 DEF PutAside, Caught
  <2> QED BY <1>1, <1>5, <2>1, <2>2, ShownApplying
<1>6. ASSUME Settled(d, s)
      PROVE  /\ \A t \in Change : t # s => (t \in page[d] => t \in page'[d]) /\ deferred'[d][t] = deferred[d][t]
             /\ page'[d] = page[d] \ {s}
  BY <1>0, <1>6 DEF Settled
<1>7. ASSUME ApplySkip(d, s)
      PROVE  ShownAt(d)'
  <2>1. /\ row' = row /\ pc'[d] = "apply" /\ pc[d] = "apply" /\ PassedOver(d, s) /\ Settled(d, s)
    BY <1>0, <1>7 DEF ApplySkip, replicaVars
  <2>2. Caught(d, s)
    <3>1. CASE Pending(d, e)
      <4>1. PICK m \in Outbox(d) : mut[m].ent = e /\ st[m] \in {"pending", "failed"}
        BY <3>1 DEF Pending
      <4>2. m \in Own(d)
        BY <4>1, OwnAre DEF Outbox
      <4>3. acked[d] = {}
        BY <2>1 DEF QueueInv, QueueAt, Pushing
      <4> QED BY <1>2, <4>1, <4>2, <4>3 DEF Caught, Awaits, Answered
    <3>2. CASE ~Pending(d, e)
      BY <1>2, <2>1, <3>2 DEF PassedOver, Caught
    <3> QED BY <3>1, <3>2
  <2>3. Fetched(d)'
    BY <2>1 DEF Fetched
  <2> QED BY <1>5, <1>6, <2>1, <2>2, <2>3 DEF ShownAt
<1>8. ASSUME ApplyStart(d, s)
      PROVE  ShownAt(d)'
  <2>1. /\ UNCHANGED <<row, page, deferred>> /\ pc'[d] = "upsert" /\ ~PassedOver(d, s)
    BY <1>0, <1>8 DEF ApplyStart, replicaVars, pullVars, Go
  <2>2. row[d][e].v < log[s].row.v
    <3>1. ~Holds(d, e) \/ ~(log[s].row.v <= row[d][e].v)
      BY <1>2, <2>1 DEF PassedOver
    <3>2. CASE ~Holds(d, e)
      BY <1>3, <3>2 DEF Holds
    <3>3. CASE ~(log[s].row.v <= row[d][e].v)
      BY <1>3, <3>3
    <3> QED BY <3>1, <3>2, <3>3
  <2>3. Fetched(d)'
    BY <1>1, <1>2, <1>4, <2>1, <2>2 DEF Fetched
  <2>4. s \in page[d]
    BY <1>1 DEF First
  <2> QED BY <1>5, <2>1, <2>3, <2>4 DEF ShownAt
<1>9. ASSUME ApplyUpsert(d, s)
      PROVE  ShownAt(d)'
  <2>1. /\ pc[d] = "upsert" /\ row' = [row EXCEPT ![d][e] = log[s].row]
        /\ \/ e \in Journal /\ pc'[d] = "level" /\ UNCHANGED <<deferred, page>>
           \/ e \notin Journal /\ pc'[d] = "apply" /\ Settled(d, s)
    BY <1>0, <1>2, <1>9 DEF ApplyUpsert, Go
  <2>2. row'[d][e] = log[s].row /\ \A y \in Entity : y # e => row'[d][y] = row[d][y]
    BY <1>0, <2>1
  <2>3. ~Awaits(d, e) => row[d][e].v < log[s].row.v
    BY <1>1, <1>2, <2>1 DEF ShownAt, Fetched
  <2>4. \A y \in Entity : ~Awaits(d, y) =>
           \/ row'[d][y] = row[d][y]
           \/ row[d][y].v <= row'[d][y].v /\ \E t \in EntriesOf(y) : log[t].row = row'[d][y]
    BY <1>2, <1>3, <2>2, <2>3
  <2>5. \A m \in Own(d) : mut[m].op = "create" /\ st[m] # "done"
                              => row'[d][mut[m].ent] = row[d][mut[m].ent]
    <3>1. SUFFICES ASSUME NEW m \in Own(d), mut[m].op = "create", st[m] # "done", mut[m].ent = e
                   PROVE  FALSE
      BY <2>2, OwnAre
    <3>2. processed[m] = NoAnswer
      BY <2>1, <3>1 DEF FlowAt, Pulling, Unsent
    <3>3. srv[e].v = 0
      BY <3>1, <3>2, OwnAre DEF TakenInv
    <3> QED BY <1>3, <3>3
  <2>6. CASE e \in Journal
    <3>1. Caught(d, s) /\ pc'[d] = "level" /\ UNCHANGED <<deferred, page>>
      BY <1>2, <2>1, <2>6 DEF Caught
    <3>2. \A t \in Change : t \in page[d] => t \in page'[d] \/ Caught(d, t)
      BY <3>1
    <3>3. \A t \in Change : PutAside(d, t) => Caught(d, t)
      BY <3>1 DEF PutAside, Caught
    <3>4. AnswersAhead(d)' /\ CreatedShown(d)' /\ \A y \in Entity : ~Awaits(d, y)' => ShownRow(d, y)'
      BY <1>1, <2>4, <2>5, <3>2, <3>3, ShownApplying
    <3>5. Fetched(d)'
      BY <1>1, <1>2, <1>3, <1>4, <2>2, <3>1 DEF Fetched
    <3> QED BY <3>4, <3>5 DEF ShownAt
  <2>7. CASE e \notin Journal
    <3>1. pc'[d] = "apply" /\ Settled(d, s)
      BY <2>1, <2>7
    <3>2. Caught(d, s)
      BY <1>2, <1>3, <2>2 DEF Caught
    <3>3. \A t \in Change : t \in page[d] => t \in page'[d] \/ Caught(d, t)
      BY <1>6, <3>1, <3>2
    <3>4. \A t \in Change : PutAside(d, t) => Caught(d, t)
      BY <1>6, <3>1, <3>2 DEF PutAside, Caught
    <3>5. AnswersAhead(d)' /\ CreatedShown(d)' /\ \A y \in Entity : ~Awaits(d, y)' => ShownRow(d, y)'
      BY <1>1, <2>4, <2>5, <3>3, <3>4, ShownApplying
    <3>6. Fetched(d)'
      BY <3>1 DEF Fetched
    <3> QED BY <3>5, <3>6 DEF ShownAt
  <2> QED BY <2>6, <2>7
<1>10. ASSUME ApplyLevel(d, s)
       PROVE  ShownAt(d)'
  <2>1. row' = row /\ pc'[d] = "apply" /\ pc[d] = "level" /\ Settled(d, s)
    BY <1>0, <1>10 DEF ApplyLevel, Go
  <2>2. Caught(d, s)
    BY <1>1, <1>2, <2>1 DEF ShownAt, Fetched, Caught
  <2>3. Fetched(d)'
    BY <2>1 DEF Fetched
  <2> QED BY <1>5, <1>6, <2>1, <2>2, <2>3 DEF ShownAt
<1>11. ASSUME ApplyDefer(d, s)
       PROVE  ShownAt(d)'
  <2>1. /\ row' = row /\ pc'[d] = "apply" /\ page'[d] = page[d] \ {s} /\ deferred'[d][s] > 0
        /\ \A t \in Change : t # s => deferred'[d][t] = deferred[d][t]
    BY <1>0, <1>11, SyncAssumption DEF ApplyDefer, Go, replicaVars
  <2>2. Caught(d, s)
    BY <2>1 DEF Caught, PutAside
  <2>3. Fetched(d)'
    BY <2>1 DEF Fetched
  <2> QED BY <1>5, <2>1, <2>2, <2>3 DEF ShownAt
<1> QED BY <1>7, <1>8, <1>9, <1>10, <1>11

\* A step of another till, or of the engine between two answers or two pages.
LEMMA ShownEngine ==
    ASSUME TypeInv, TypeInv', IssuedInv, LogInv, TrustInv, HeldInv, QueueInv, TakenInv, Next,
           NEW d \in Device, Engine(d),
           Plain(d), Plain(d)', FlowAt(d), PassedAt(d), PassedAt(d)', ShownAt(d)
    PROVE  ShownAt(d)'
<1> USE DEF TypeInv
<1>0. /\ acked \in [Device -> SUBSET Mut] /\ pc \in [Device -> Labels] /\ att \in [Mut -> Nat]
      /\ st \in [Mut -> {"none", "pending", "failed", "conflict", "done"}]
  BY DEF TypeOK
<1>1. ASSUME UNCHANGED <<log, processed, mut, nextMut, row, cursor, deferred>>,
             \A m \in Own(d) : st[m] = "done" => st'[m] = "done",
             \A m \in Own(d) : Answered(d, m)' => Answered(d, m),
             pc'[d] \notin Applying
      PROVE  ShownAt(d)'
  <2>1. Own(d)' = Own(d)
    BY <1>1 DEF Own, Issued
  <2>2. \A s \in 1..Len(log') : s > Len(log) => log'[s].dev # d
    BY <1>1, LenProperties DEF TypeOK
  <2> QED BY <1>1, <2>1, <2>2, ShownStays
<1>2. CASE PushNothing(d) \/ PushBatch(d) \/ PushDone(d) \/ CycleDone(d)
           \/ \E m \in Mut : AnswerConflict(d, m)
  <2>1. /\ UNCHANGED <<log, processed, mut, nextMut, row, cursor, deferred, st, acked>>
        /\ pc'[d] \in {"pull", "sent", "push", "idle", "conflict"}
    BY <1>0, <1>2 DEF PushNothing, PushBatch, PushDone, CycleDone, AnswerConflict, Go, serverVars,
       outboxVars, replicaVars, pushVars
  <2>2. \A m \in Own(d) : Answered(d, m)' => Answered(d, m)
    BY <2>1 DEF Answered
  <2> QED BY <1>1, <2>1, <2>2 DEF Applying
<1>3. ASSUME NEW m \in Mut, MarkSent(d, m)
      PROVE  ShownAt(d)'
  <2>1. /\ UNCHANGED <<log, processed, mut, nextMut, row, cursor, deferred, pc>>
        /\ pc[d] = "sent" /\ m \in acked[d]
        /\ st' = [st EXCEPT ![m] = "done"] /\ acked'[d] = acked[d] \ {m}
    BY <1>0, <1>3 DEF MarkSent, AllHandled, First, serverVars, replicaVars
  <2>2. \A n \in Mut : st'[n] = IF n = m THEN "done" ELSE st[n]
    BY <1>0, <2>1
  <2>3. \A n \in Own(d) : Answered(d, n)' => Answered(d, n)
    BY <2>1, <2>2, OwnAre DEF Answered
  <2>4. \A n \in Own(d) : st[n] = "done" => st'[n] = "done"
    BY <2>2, OwnAre
  <2> QED BY <1>1, <2>1, <2>3, <2>4 DEF Applying
<1>4. ASSUME NEW m \in Mut, MarkConflict(d, m) \/ AnswerRejected(d, m)
      PROVE  FALSE
  <2>1. m \in Own(d)
    BY <1>4, OwnAre DEF MarkConflict, AnswerRejected, Handling, First, Handles
  <2>2. CASE MarkConflict(d, m)
    <3>1. processed[m].status = "conflict"
      BY <2>2 DEF MarkConflict, TrustInv
    <3> QED BY <2>1, <3>1 DEF Plain, Accepted
  <2>3. CASE AnswerRejected(d, m)
    <3>1. att'[m] = att[m] + 1 /\ UNCHANGED <<mut, nextMut>> /\ att[m] \in Nat
      BY <1>0, <2>3 DEF AnswerRejected
    <3>2. m \in Own(d)'
      BY <2>1, <3>1 DEF Own, Issued
    <3>3. att'[m] = 0
      BY <3>2 DEF Plain
    <3> QED BY <3>1, <3>3
  <2> QED BY <1>4, <2>2, <2>3
<1>5. ASSUME NEW m \in Mut, AnswerAccepted(d, m)
      PROVE  ShownAt(d)'
  BY <1>5, AnswerShown
<1>6. CASE Pull(d) \/ PageDone(d)
  BY <1>6, ShownPages
<1>7. ASSUME NEW s \in Change, \/ ApplySkip(d, s) \/ ApplyStart(d, s) \/ ApplyUpsert(d, s)
                               \/ ApplyLevel(d, s) \/ ApplyDefer(d, s)
      PROVE  ShownAt(d)'
  BY <1>7, ShownApplied
<1> QED BY <1>2, <1>3, <1>4, <1>5, <1>6, <1>7 DEF Engine

\* What a till shows goes on being no older than what it has sent and gone past.
LEMMA ShownStep ==
    ASSUME TypeInv, TypeInv', IssuedInv, LogInv, LogInv', TrustInv, HeldInv, QueueInv, TakenInv, Next,
           NEW d \in Device, Cashier(d) \/ Writing(d) \/ Engine(d) \/ Server(d) \/ Failure(d),
           NEW b \in Device, Plain(b), Plain(b)', FlowAt(b), PassedAt(b), PassedAt(b)', ShownAt(b)
    PROVE  ShownAt(b)'
<1> USE DEF TypeInv
<1>0. /\ acked \in [Device -> SUBSET Mut] /\ pc \in [Device -> Labels]
      /\ st \in [Mut -> {"none", "pending", "failed", "conflict", "done"}]
  BY DEF TypeOK
<1>1. CASE b # d
  <2>1. Alone(b) /\ Untouched(b)
    BY <1>1, OthersAlone, OthersKeep
  <2>2. \A m \in Own(b) : m \in Mut /\ mut[m].dev = b
    BY OwnAre
  <2>3. \A m \in Own(b) : processed'[m] = processed[m]
    <3>1. \A m \in wire[d] \cup ghost[d] : mut[m].dev = d
      BY DEF IssuedInv, Handles
    <3> QED BY <1>1, <2>2, <3>1, ServedOwn
  <2>4. \A s \in 1..Len(log') : s > Len(log) => log'[s].dev # b
    <3>1. Len(log) \in Nat
      BY LenProperties DEF TypeOK
    <3>2. CASE UNCHANGED log
      BY <3>1, <3>2
    <3>3. ASSUME NEW m \in Mut, processed'[m] # processed[m],
                 NEW r \in Row, NEW F \in SUBSET Field, Publish(m, r, F)
          PROVE  \A s \in 1..Len(log') : s > Len(log) => log'[s].dev # b
      <4>1. mut[m].dev = d
        BY <3>3, ServedOwn DEF IssuedInv, Handles
      <4>2. \A s \in 1..Len(log') : s > Len(log) => log'[s].dev = mut[m].dev
        BY <3>3, LogAfter
      <4> QED BY <1>1, <4>1, <4>2
    <3>4. ASSUME NEW m \in Mut, Committed(m), ~UNCHANGED log
          PROVE  /\ processed'[m] # processed[m]
                 /\ \E r \in Row, F \in SUBSET Field : Publish(m, r, F)
      <4>1. NoAnswer.status = "none"
        BY DEF NoAnswer, Answer
      <4> QED BY <3>4, <4>1 DEF Committed, TypeOK
    <3> QED BY <3>2, <3>3, <3>4, LogStep DEF serverVars
  <2>5. \A m \in Own(b) : Answered(b, m)' => Answered(b, m)
    BY <2>1 DEF Alone, Answered
  <2> QED BY <2>1, <2>3, <2>4, <2>5, ShownStays DEF Alone, Untouched
<1>2. CASE b = d
  <2>1. CASE Cashier(d)
    BY <1>2, <2>1, ShownWritten
  <2>2. CASE Engine(d)
    BY <1>2, <2>2, ShownEngine
  <2>3. CASE Server(d)
    BY <1>2, <2>3, ShownServer
  <2>4. ASSUME UNCHANGED <<log, processed, mut, nextMut, row, cursor, deferred>>,
               \A m \in Own(b) : st'[m] = "done" <=> st[m] = "done",
               acked'[b] \subseteq acked[b],
               pc'[b] \in Applying => UNCHANGED <<pc, page, upto, replaying>>
        PROVE  ShownAt(b)'
    <3>1. Own(b)' = Own(b)
      BY <2>4 DEF Own, Issued
    <3>2. \A s \in 1..Len(log') : s > Len(log) => log'[s].dev # b
      BY <2>4, LenProperties DEF TypeOK
    <3>3. \A m \in Own(b) : Answered(b, m)' => Answered(b, m)
      BY <2>4 DEF Answered
    <3> QED BY <2>4, <3>1, <3>2, <3>3, ShownStays
  <2>5. CASE Writing(d)
    <3>1. /\ UNCHANGED <<log, processed, mut, nextMut, row, cursor, deferred, acked, pc, page, upto, replaying>>
          /\ \/ st' = st
             \/ st' = [st EXCEPT ![edit[d].mut] = "pending"] /\ edit[d].mut # 0
      BY <2>5 DEF Writing, LocalLevel, Enqueue, CloseConflict, serverVars, outboxVars, pullVars,
         pushVars, replicaVars
    <3>2. edit[d].mut # 0 => st[edit[d].mut] = "none"
      BY DEF QueueInv, QueueAt
    <3>3. \A m \in Own(b) : st'[m] = "done" <=> st[m] = "done"
      BY <1>0, <3>1, <3>2, OwnAre
    <3> QED BY <2>4, <3>1, <3>3
  <2>6. CASE Failure(d)
    <3>1. /\ UNCHANGED <<log, processed, mut, nextMut, row, cursor, deferred, st>>
          /\ acked'[d] = {} /\ pc'[d] = "idle"
      BY <1>0, <2>6 DEF Failure, RequestLost, Crash, Forget, Go, serverVars, outboxVars, replicaVars
    <3> QED BY <1>2, <2>4, <3>1 DEF Applying
  <2> QED BY <2>1, <2>2, <2>3, <2>5, <2>6
<1> QED BY <1>1, <1>2

\* Every entry of the log has its number among those a till looks for.
LEMMA LogFits ==
    ASSUME TypeOK, SeededFirst, AppliedOnce
    PROVE  1..Len(log) \subseteq Change
<1>0. PICK o \in Int : o = 1
  OBVIOUS
<1> DEFINE n == Len(Seeded)
           S == (n + 1)..Len(log)
           T == o..MaxMut
           f == [i \in S |-> log[i].mut]
<1>1. n \in Nat /\ Len(log) \in Nat /\ MaxMut \in Nat /\ MaxMut \in Int
  BY SyncAssumption, LenProperties DEF TypeOK
<1>2. \A i \in S : i \in 1..Len(log) /\ log[i].mut \in T
  <2>1. SUFFICES ASSUME NEW i \in S PROVE i \in 1..Len(log) /\ log[i].mut \in T
    OBVIOUS
  <2>2. i \in 1..Len(log) /\ ~(i <= n)
    BY <1>1
  <2>3. log[i].mut # 0
    BY <2>2 DEF SeededFirst
  <2>4. log[i].mut \in 0..MaxMut
    BY <2>2, LogTypes
  <2> QED BY <1>0, <1>1, <2>2, <2>3, <2>4
<1>3. f \in [S -> T] /\ \A i, j \in S : f[i] = f[j] => i = j
  <2>1. \A i, j \in S : log[i].mut = log[j].mut => i = j
    <3>1. \A i \in S : i \in 1..Len(log) /\ log[i].mut # 0
      BY <1>0, <1>1, <1>2
    <3> HIDE DEF S
    <3> QED BY <3>1 DEF AppliedOnce
  <2> HIDE DEF S, T
  <2> QED BY <1>2, <2>1
<1>4. ASSUME NEW a \in Int, NEW b \in Int
      PROVE  IsFiniteSet(a..b) /\ Cardinality(a..b) = IF a > b THEN 0 ELSE b - a + 1
  BY <1>4, FS_Interval, Zenon
<1>5. /\ IsFiniteSet(T) /\ Cardinality(T) = IF o > MaxMut THEN 0 ELSE MaxMut - o + 1
      /\ IsFiniteSet(S) /\ Cardinality(S) = IF n + 1 > Len(log) THEN 0 ELSE Len(log) - (n + 1) + 1
  <2>1. IsFiniteSet(T) /\ Cardinality(T) = IF o > MaxMut THEN 0 ELSE MaxMut - o + 1
    BY <1>1, <1>4, Zenon
  <2>2. n + 1 \in Int /\ Len(log) \in Int
    BY <1>1
  <2>3. IsFiniteSet(S) /\ Cardinality(S) = IF n + 1 > Len(log) THEN 0 ELSE Len(log) - (n + 1) + 1
    BY <2>2, <1>4, Zenon
  <2> QED BY <2>1, <2>3
<1> HIDE DEF S, T, f
<1>6. ASSUME Cardinality(T) < Cardinality(S)
      PROVE  FALSE
  <2>1. \E i, j \in S : i # j /\ f[i] = f[j]
    BY <1>3, <1>5, <1>6, FS_PigeonHole
  <2> QED BY <1>3, <2>1
<1>7. Len(log) <= MaxMut + n
  BY <1>0, <1>1, <1>5, <1>6
<1> QED BY <1>1, <1>7 DEF Change

\* At the start nothing has been written.
LEMMA ConvergeInit == Init => ConvergeInv
<1> SUFFICES ASSUME Init PROVE ConvergeInv
  OBVIOUS
<1>1. /\ Len(Seeded) \in Nat /\ Len(log) = Len(Seeded) /\ Issued = {} /\ 0 \notin Device
      /\ \A i \in 1..Len(log) : log[i].ent = Seeded[i] /\ log[i].row = Seed /\ log[i].mut = 0
  BY SyncAssumption, LenProperties DEF Init, Issued
<1>2. \A m \in Mut : st[m] = "none" /\ processed[m] = NoAnswer
  BY DEF Init
<1>3. QueueInv
  BY <1>2 DEF Init, QueueInv, QueueAt, Handles, NoEdit
<1>4. TakenInv
  BY <1>1, <1>2 DEF TakenInv
<1>5. ASSUME NEW d \in Device
      PROVE  FlowAt(d) /\ ShownAt(d)
  <2>1. /\ Own(d) = {} /\ pc[d] = "idle" /\ page[d] = {} /\ cursor[d] = Len(log)
        /\ row[d] = [e \in Entity |-> SeedRow(e)]
    BY <1>1 DEF Init, Own
  <2>2. FlowAt(d)
    BY <2>1 DEF FlowAt, Pushing, Pulling
  <2>3. ASSUME NEW e \in Entity
        PROVE  ShownRow(d, e)
    <3>1. row[d][e] = SeedRow(e)
      BY <2>1
    <3>2. \A s \in EntriesOf(e) : IsSeeded(e) /\ log[s].row = Seed
      BY <1>1 DEF EntriesOf, IsSeeded
    <3>3. Told(d, e)
      <4>1. CASE IsSeeded(e)
        <5>1. PICK i \in 1..Len(Seeded) : Seeded[i] = e
          BY <4>1 DEF IsSeeded
        <5>2. i \in EntriesOf(e) /\ log[i].row = row[d][e]
          BY <1>1, <3>1, <4>1, <5>1 DEF EntriesOf, SeedRow
        <5> QED BY <5>2 DEF Told
      <4>2. CASE ~IsSeeded(e)
        BY <3>1, <4>2 DEF Told, SeedRow, Absent
      <4> QED BY <4>1, <4>2
    <3>4. \A s \in EntriesOf(e) : log[s].row.v <= row[d][e].v
      BY <3>1, <3>2 DEF SeedRow, Seed
    <3>5. Ahead(d, e)
      BY <2>1, <3>4 DEF Ahead, Reached, Applying
    <3> QED BY <3>3, <3>5 DEF ShownRow
  <2>4. AnswersAhead(d) /\ CreatedShown(d) /\ Fetched(d)
    BY <2>1 DEF AnswersAhead, CreatedShown, Fetched
  <2> QED BY <2>2, <2>3, <2>4 DEF ShownAt
<1> QED BY <1>3, <1>4, <1>5 DEF ConvergeInv

\* Everything the convergence of the rows rests on.
CaughtUpInv == SpreadInv /\ JournalInv /\ OnceInv /\ ConvergeInv

\* Every step keeps it all.
LEMMA CaughtUpStep == CaughtUpInv /\ [Next]_vars => CaughtUpInv'
<1> SUFFICES ASSUME CaughtUpInv, [Next]_vars PROVE CaughtUpInv'
  OBVIOUS
<1>1. SpreadInv /\ SpreadInv' /\ JournalInv /\ JournalInv' /\ OnceInv /\ ConvergeInv
  BY SpreadStep, JournalStep DEF CaughtUpInv
<1>2. /\ TypeInv /\ TypeInv' /\ TypeOK /\ TypeOK' /\ IssuedInv /\ IssuedInv' /\ LogInv /\ LogInv'
      /\ TrustInv /\ HeldInv /\ NothingPassed /\ NothingPassed' /\ QueueInv /\ TakenInv
  BY <1>1 DEF SpreadInv, RowsInv, TypeInv, JournalInv, ConvergeInv
<1>3. OnceInv' /\ AppliedOnce'
  BY <1>1, <1>2, OnceStep DEF OnceInv
<1>4. CASE UNCHANGED vars
  <2>1. UNCHANGED <<srv, log, processed, wire, ghost, row, mut, st, att, cursor, deferred, edit, pc,
                    sent, todo, acked, page, upto, replaying, nextMut>>
    BY <1>4 DEF vars, serverVars, netVars, outboxVars, replicaVars, pullVars, pushVars
  <2>2. /\ QueueInv'
        /\ TakenInv'
    BY <1>2, <2>1 DEF QueueInv, QueueAt, Handles, Issued, Own, TakenInv, EntriesOf, FirstWritten
  <2>3. ASSUME NEW d \in Device, Plain(d)'
        PROVE  FlowAt(d)' /\ ShownAt(d)'
    <3>1. Plain(d)
      BY <2>1, <2>3 DEF Plain, NoDeletion, InOrder, Own, Issued
    <3>2. FlowAt(d) /\ ShownAt(d)
      BY <1>1, <3>1 DEF ConvergeInv
    <3>3. FlowAt(d)'
      BY <2>1, <3>2 DEF FlowAt, Own, Issued, Answered, Unsent
    <3>4. ShownAt(d)'
      BY <2>1, <3>2 DEF ShownAt, AnswersAhead, CreatedShown, Sole, Fetched, ShownRow, Told, Ahead, Reached,
         Own, Issued, Answered, Awaits, EntriesOf, FirstWritten, PutAside, First
    <3> QED BY <3>3, <3>4
  <2> QED BY <1>1, <1>3, <2>2, <2>3 DEF CaughtUpInv, ConvergeInv
<1>5. CASE Next
  <2>1. PICK d \in Device : Cashier(d) \/ Writing(d) \/ Engine(d) \/ Server(d) \/ Failure(d)
    BY <1>5 DEF Next
  <2>2. QueueInv'
    BY <1>2, <1>5, QueueStep
  <2>3. TakenInv'
    BY <1>1, <1>2, <1>3, <1>5, TakenStep
  <2>4. ASSUME NEW b \in Device, Plain(b)'
        PROVE  FlowAt(b)' /\ ShownAt(b)'
    <3>1. Plain(b)
      BY <1>2, <1>5, <2>4, PlainBefore
    <3>2. FlowAt(b) /\ ShownAt(b) /\ PassedAt(b) /\ PassedAt(b)'
      BY <1>1, <1>2, <3>1 DEF ConvergeInv, NothingPassed
    <3>3. FlowAt(b)'
      BY <1>2, <1>5, <2>1, <2>4, <3>1, <3>2, FlowStep
    <3>4. ShownAt(b)'
      BY <1>2, <1>5, <2>1, <2>4, <3>1, <3>2, ShownStep
    <3> QED BY <3>3, <3>4
  <2> QED BY <1>1, <1>3, <2>2, <2>3, <2>4 DEF CaughtUpInv, ConvergeInv
<1> QED BY <1>4, <1>5

\* A till that has caught up holds what the server does.
LEMMA RowsEqual ==
    ASSUME CaughtUpInv, JournalAgrees, NoDeletion, NEW d \in Device, Quiet(d), OwnAccepted(d), InOrder(d),
           \A m \in Own(d) : att[m] = 0,
           NEW e \in Entity
    PROVE  row[d][e] = srv[e] \/ (row[d][e].v = 0 /\ srv[e].v = 0)
<1>1. /\ TypeOK /\ IssuedInv /\ LogInv /\ TrustInv /\ HeldInv /\ PassedAt(d) /\ SeededFirst /\ AppliedOnce
  BY DEF CaughtUpInv, SpreadInv, RowsInv, TypeInv, JournalInv, NothingPassed, OnceInv
<1>2. \A m \in Own(d) : m \in Mut /\ st[m] = "done"
  BY <1>1, OwnAre DEF OwnAccepted
<1>3. Plain(d)
  BY <1>1, <1>2 DEF Plain, TrustInv, OutboxAgreesWithServer
<1>4. ShownRow(d, e)
  BY <1>2, <1>3 DEF CaughtUpInv, ConvergeInv, ShownAt, Awaits, Answered
<1>5. /\ srv[e].v \in Nat /\ row[d][e].v \in Nat
      /\ \A s \in EntriesOf(e) : s \in 1..Len(log) /\ log[s].ent = e /\ log[s].row.v \in 1..srv[e].v
  <2>1. srv[e] \in Row /\ row[d][e] \in Row
    BY <1>1 DEF TypeOK
  <2>2. \A r \in Row : r.v \in Nat
    BY DEF Row
  <2> QED BY <1>1, <2>1, <2>2 DEF LogInv, EntriesOf
<1>6. Told(d, e) /\ (e \notin Journal => Reached(d, e, cursor[d], {}))
  BY <1>4 DEF ShownRow, Ahead
<1>7. \A s \in EntriesOf(e) : log[s].dev = d \/ s <= cursor[d]
  <2>1. SUFFICES ASSUME NEW s \in EntriesOf(e), log[s].dev # d, ~(s <= cursor[d])
                 PROVE  FALSE
    OBVIOUS
  <2>2. s \in Change /\ Len(log) \in Nat /\ cursor[d] \in Nat /\ s \in 1..Len(log)
    BY <1>1, <1>5, LogFits, LenProperties DEF TypeOK
  <2>3. s \in Fresh(d)
    BY <2>1, <2>2 DEF Fresh
  <2> QED BY <2>3 DEF Quiet
<1>8. \A s : ~PutAside(d, s)
  BY DEF Quiet, PutAside
<1>9. CASE srv[e].v = 0
  <2>1. EntriesOf(e) = {}
    BY <1>5, <1>9
  <2> QED BY <1>6, <1>9, <2>1 DEF Told
<1>10. CASE srv[e].v > 0
  <2>1. PICK i \in EntriesOf(e) : log[i].row.v = srv[e].v
    <3>1. srv[e].v \in 1..srv[e].v
      BY <1>5, <1>10
    <3> QED BY <1>1, <3>1 DEF LogInv
  <2>2. CASE e \in Journal
    <3>1. Holds(d, e)
      <4>1. CASE log[i].dev = d
        <5>1. /\ log[i].mut \in Mut /\ mut[log[i].mut].dev \in Device
              /\ mut[log[i].mut].ent = e /\ d = mut[log[i].mut].dev
          BY <1>1, <1>5, <2>2, <4>1, EntryAuthor
        <5> QED BY <1>1, <5>1 DEF HeldInv
      <4>2. CASE log[i].dev # d
        BY <1>1, <1>5, <1>7, <1>8, <2>2, <4>2 DEF PassedAt, Passed
      <4> QED BY <4>1, <4>2
    <3> QED BY <1>10, <2>2, <3>1 DEF JournalAgrees
  <2>3. CASE e \notin Journal
    <3>1. srv[e].v <= row[d][e].v
      BY <1>6, <1>7, <1>8, <2>1, <2>3 DEF Reached
    <3>2. PICK s \in EntriesOf(e) : log[s].row = row[d][e]
      BY <1>5, <1>6, <1>10, <3>1 DEF Told
    <3>3. log[s].row.v = srv[e].v
      BY <1>5, <3>1, <3>2
    <3> QED BY <1>1, <1>5, <3>2, <3>3 DEF LogInv
  <2> QED BY <2>2, <2>3
<1> QED BY <1>5, <1>9, <1>10

\* The log tells every version of a row, and a till whose mutations were taken in their order
\* and that has caught up shows what the server holds: whatever was lost, sent again, put
\* aside, edited during a cycle or overtaken on the way.
THEOREM RowsConvergeCorrect == Spec => []RowsConverge
<1>1. Init => CaughtUpInv
  BY SpreadInit, JournalInit, OnceInit, ConvergeInit DEF CaughtUpInv
<1>2. ASSUME CaughtUpInv, JournalAgrees
      PROVE  UpdatesConverge
  <2>1. ASSUME NoDeletion, NEW d \in Device, Quiet(d), OwnAccepted(d), InOrder(d),
               \A m \in Own(d) : att[m] = 0, NEW e \in Entity
        PROVE  Shown(row[d][e]) = Shown(srv[e])
    BY <1>2, <2>1, RowsEqual DEF Shown
  <2> QED BY <2>1 DEF UpdatesConverge
<1>3. JournalWhole => JournalAgrees
  BY DEF JournalWhole
<1>4. LogMirrorsRows /\ UpdatesConverge => RowsConverge
  BY DEF RowsConverge
<1> QED BY <1>1, <1>2, <1>3, <1>4, CaughtUpStep, JournalWholeCorrect, LogMirrorsCorrect, PTL DEF Spec
=============================================================================
