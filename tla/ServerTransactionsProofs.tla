---------------------- MODULE ServerTransactionsProofs ----------------------
(***************************************************************************)
(* Proofs about ServerTransactions, for any number of tills, sendings and  *)
(* failures: the key of processed_mutation is what makes a mutation happen *)
(* once, though the look-up that precedes it is not locked; the lock of    *)
(* the row is what makes its log one history.                              *)
(***************************************************************************)
EXTENDS ServerTransactions, WellFoundedInduction, TLAPS

\* The resolution has one of four outcomes.
Kinds == {"apply", "merge", "manual", "ignore"}
LEMMA ResolvedKind ==
    ASSUME NEW in, NEW S
    PROVE  ResolveUpdate(in, S).kind \in Kinds
<1> DEFINE fields     == in.clientFields
           collisions == fields \cap in.fieldsSince
           upToDate   == in.baseVersion # 0 /\ in.baseVersion = in.serverVersion
           wins       == ClientWins(in.clientTs, in.serverTs, in.clientDev, in.serverDev)
           kept       == IF wins \/ collisions = {} THEN Outcome("merge", fields)
                         ELSE IF fields \ collisions = {} THEN Outcome("ignore", {})
                         ELSE Outcome("merge", fields \ collisions)
<1>1. \A k \in Kinds : \A F : Outcome(k, F).kind \in Kinds
  BY DEF Outcome
<1>2. kept.kind \in Kinds
  <2>1. CASE wins \/ collisions = {}
    BY <2>1 DEF Outcome, Kinds
  <2>2. CASE ~(wins \/ collisions = {}) /\ fields \ collisions = {}
    BY <2>2 DEF Outcome, Kinds
  <2>3. CASE ~(wins \/ collisions = {}) /\ fields \ collisions # {}
    BY <2>3 DEF Outcome, Kinds
  <2> QED  BY <2>1, <2>2, <2>3
<1> HIDE DEF kept
<1>3. \/ ResolveUpdate(in, S) = Outcome("ignore", {})
      \/ ResolveUpdate(in, S) = Outcome("apply", fields)
      \/ ResolveUpdate(in, S) = Outcome("manual", collisions \cap S)
      \/ ResolveUpdate(in, S) = kept
  <2>1. CASE in.serverDeleted
    BY <2>1 DEF ResolveUpdate
  <2>2. CASE ~in.serverDeleted /\ fields = {}
    BY <2>2 DEF ResolveUpdate
  <2>3. CASE ~in.serverDeleted /\ fields # {} /\ upToDate
    BY <2>3 DEF ResolveUpdate
  <2>4. CASE ~in.serverDeleted /\ fields # {} /\ ~upToDate /\ collisions \cap S # {}
    BY <2>4 DEF ResolveUpdate
  <2>5. CASE ~in.serverDeleted /\ fields # {} /\ ~upToDate /\ collisions \cap S = {}
    BY <2>5 DEF ResolveUpdate, kept
  <2> QED  BY <2>1, <2>2, <2>3, <2>4, <2>5
<1> QED  BY <1>1, <1>2, <1>3 DEF Kinds

Writes(r) == out[r].kind \in {"apply", "merge"}

\* A transaction holds a lock exactly while it has a row written and not yet
\* committed; one that is about to commit is alone under its key.
LockInv ==
    /\ lock \in [Entity -> Request \cup {Free}]
    /\ pc \in [Request -> Labels]
    /\ DOMAIN out = Request
    /\ \A r \in Request : out[r].kind \in Kinds
    /\ DOMAIN work = Request
    /\ \A r \in Request :
         /\ pc[r] \in {"unsent", "sent", "new", "found", "weighed", "done"} => ~Wrote(r)
         /\ pc[r] = "weighed" => Writes(r)
         /\ pc[r] = "written" => Writes(r) /\ Wrote(r)
         /\ pc[r] \in {"logged", "stored"} => (Wrote(r) <=> Writes(r))
         /\ Wrote(r) => work[r].dev = r[1]
         /\ pc[r] = "stored" => processed[r[1]] = "none"
    /\ \A r, s \in Request : pc[r] = "stored" /\ pc[s] = "stored" /\ r[1] = s[1] => r = s

OnceInv ==
    /\ LockInv
    /\ processed \in [Device -> Answer]
    /\ DOMAIN reply = Request
    /\ \A r \in Request : reply[r] \in {"none", "rejected", processed[r[1]]}
    /\ PublishedOnce

LEMMA OnceInit == Init => OnceInv
<1> SUFFICES ASSUME Init PROVE OnceInv
  OBVIOUS
<1>1. \A d \in Device : d # Nobody
  BY ServerAssumption DEF Nobody
<1>2. \A r \in Request : r # Free
  BY <1>1 DEF Request, Free
<1>3. \A r \in Request : ~Wrote(r)
  BY <1>2 DEF Init, Wrote
<1>4. LockInv
  <2>1. lock \in [Entity -> Request \cup {Free}] /\ pc \in [Request -> Labels]
    BY DEF Init, Labels
  <2>2. \A r \in Request : out[r].kind \in Kinds
    BY DEF Init, Outcome, Kinds
  <2> QED  BY <1>3, <2>1, <2>2 DEF Init, LockInv
<1>5. PublishedOnce
  BY <1>1 DEF Init, PublishedOnce, SeedEntry
<1> QED  BY <1>4, <1>5 DEF Init, OnceInv, Answer

\* A step that neither locks nor commits, and takes r from one statement to the
\* next, keeps the invariant when r is still where its lock says it is.
LEMMA MoveKeeps ==
    ASSUME OnceInv, NEW r \in Request, NEW l \in Labels,
           pc' = [pc EXCEPT ![r] = l],
           UNCHANGED <<processed, log, lock>>,
           DOMAIN work' = Request, \A s \in Request : work'[s].dev = work[s].dev,
           DOMAIN out' = Request,
           \A s \in Request : s # r => out'[s] = out[s],
           out'[r].kind \in Kinds,
           l \in {"sent", "new", "found", "weighed", "done"} => ~Wrote(r),
           l = "weighed" => out'[r].kind \in {"apply", "merge"},
           l \notin {"unsent", "written", "stored"},
           l = "logged" => (Wrote(r) <=> out'[r].kind \in {"apply", "merge"}),
           DOMAIN reply' = Request,
           \A s \in Request : reply'[s] \in {"none", "rejected", processed[s[1]]}
    PROVE  OnceInv'
<1>1. /\ \A s \in Request : s # r => pc'[s] = pc[s]
      /\ pc'[r] = l
      /\ pc' \in [Request -> Labels]
  BY DEF OnceInv, LockInv
<1>2. \A s \in Request : Wrote(s)' = Wrote(s)
  BY DEF Wrote
<1>3. LockInv'
  <2>1. ASSUME NEW s \in Request
        PROVE  /\ pc'[s] \in {"unsent", "sent", "new", "found", "weighed", "done"} => ~Wrote(s)'
               /\ pc'[s] = "weighed" => Writes(s)'
               /\ pc'[s] = "written" => Writes(s)' /\ Wrote(s)'
               /\ pc'[s] \in {"logged", "stored"} => (Wrote(s)' <=> Writes(s)')
               /\ Wrote(s)' => work'[s].dev = s[1]
               /\ pc'[s] = "stored" => processed'[s[1]] = "none"
    <3>1. CASE s = r
      BY <1>1, <1>2, <3>1 DEF OnceInv, LockInv, Writes
    <3>2. CASE s # r
      BY <1>1, <1>2, <3>2 DEF OnceInv, LockInv, Writes
    <3> QED  BY <3>1, <3>2
  <2>2. \A s \in Request : out'[s].kind \in Kinds
    BY DEF OnceInv, LockInv
  <2>3. \A s, t \in Request : pc'[s] = "stored" /\ pc'[t] = "stored" /\ s[1] = t[1] => s = t
    BY <1>1 DEF OnceInv, LockInv
  <2>4. lock' \in [Entity -> Request \cup {Free}]
    BY DEF OnceInv, LockInv
  <2> QED  BY <1>1, <2>1, <2>2, <2>3, <2>4 DEF LockInv
<1>4. PublishedOnce'
  BY DEF OnceInv, PublishedOnce
<1> QED  BY <1>3, <1>4 DEF OnceInv

\* The moves: sending, looking up, reading, weighing, logging.
LEMMA MoveStep ==
    ASSUME OnceInv, NEW r \in Request,
           \/ Send(r[1], r[2]) \/ Dedupe(r) \/ Find(r) \/ Weigh(r) \/ LogChange(r)
    PROVE  OnceInv'
<1> USE DEF Labels
<1>1. CASE Send(r[1], r[2])
  <2>1. r = <<r[1], r[2]>>
    BY DEF Request
  <2>2. ~Wrote(r)
    BY <1>1, <2>1 DEF Send, OnceInv, LockInv
  <2>3. pc' = [pc EXCEPT ![r] = "sent"] /\ UNCHANGED <<dbVars, lock, out, work, reply>>
    BY <1>1, <2>1 DEF Send, Go
  <2> QED  BY <2>2, <2>3, MoveKeeps DEF dbVars, OnceInv, LockInv
<1>2. CASE Dedupe(r)
  <2>1. ~Wrote(r) /\ UNCHANGED <<dbVars, lock, out, work>>
    BY <1>2 DEF Dedupe, OnceInv, LockInv
  <2>2. CASE processed[r[1]] # "none"
    <3>1. pc' = [pc EXCEPT ![r] = "done"] /\ reply' = [reply EXCEPT ![r] = processed[r[1]]]
      BY <1>2, <2>2 DEF Dedupe, Reply, Go
    <3> QED  BY <2>1, <3>1, MoveKeeps DEF dbVars, OnceInv, LockInv
  <2>3. CASE processed[r[1]] = "none"
    <3>1. pc' = [pc EXCEPT ![r] = "new"] /\ UNCHANGED reply
      BY <1>2, <2>3 DEF Dedupe, Go
    <3> QED  BY <2>1, <3>1, MoveKeeps DEF dbVars, OnceInv, LockInv
  <2> QED  BY <2>2, <2>3
<1>3. CASE Find(r)
  <2> DEFINE e    == edit[r[1]]
             kept == \/ e.op = "create" /\ r[1] \in journal
                     \/ e.op # "create" /\ row.del
             kind == IF kept THEN "ignore" ELSE "apply"
             l    == CASE kept -> "logged"
                       [] ~kept /\ e.op = "update" -> "found"
                       [] OTHER -> "weighed"
  <2>1. ~Wrote(r) /\ UNCHANGED <<dbVars, lock, work, reply>>
    BY <1>3 DEF Find, OnceInv, LockInv
  <2>2. out' = [out EXCEPT ![r] = Outcome(kind, e.fields)] /\ pc' = [pc EXCEPT ![r] = l]
    BY <1>3 DEF Find, Go
  <2>3. out'[r].kind = kind
    BY <2>2 DEF Outcome, OnceInv, LockInv
  <2>4. /\ l \in {"found", "weighed", "logged"}
        /\ l = "logged" <=> kind = "ignore"
        /\ kind \in {"apply", "ignore"}
    <3>1. CASE kept
      BY <3>1
    <3>2. CASE ~kept
      BY <3>2
    <3> QED  BY <3>1, <3>2
  <2> HIDE DEF kind, l
  <2> QED  BY <2>1, <2>2, <2>3, <2>4, MoveKeeps DEF dbVars, OnceInv, LockInv, Kinds
<1>4. CASE Weigh(r)
  <2>1. ~Wrote(r) /\ UNCHANGED <<dbVars, lock, work, reply>>
    BY <1>4 DEF Weigh, OnceInv, LockInv
  <2>2. PICK in : /\ out' = [out EXCEPT ![r] = ResolveUpdate(in, Sensitive)]
                  /\ pc' = [pc EXCEPT ![r] = IF ResolveUpdate(in, Sensitive).kind
                                                  \in {"apply", "merge"}
                                             THEN "weighed" ELSE "logged"]
    BY <1>4 DEF Weigh, Go
  <2>3. out'[r] = ResolveUpdate(in, Sensitive)
    BY <2>2 DEF OnceInv, LockInv
  <2>4. out'[r].kind \in Kinds
    BY <2>3, ResolvedKind
  <2>5. CASE out'[r].kind \in {"apply", "merge"}
    <3>1. pc' = [pc EXCEPT ![r] = "weighed"]
      BY <2>2, <2>3, <2>5
    <3> QED  BY <2>1, <2>2, <2>4, <2>5, <3>1, MoveKeeps, ZenonT(60) DEF dbVars, OnceInv, LockInv
  <2>6. CASE out'[r].kind \notin {"apply", "merge"}
    <3>1. pc' = [pc EXCEPT ![r] = "logged"]
      BY <2>2, <2>3, <2>6
    <3>2. Wrote(r) <=> out'[r].kind \in {"apply", "merge"}
      BY <2>1, <2>6
    <3>3. /\ DOMAIN out' = Request /\ \A s \in Request : s # r => out'[s] = out[s]
          /\ DOMAIN work' = Request /\ DOMAIN reply' = Request
      BY <2>1, <2>2 DEF OnceInv, LockInv
    <3> QED  BY <2>1, <2>4, <3>1, <3>2, <3>3, MoveKeeps DEF dbVars, OnceInv
  <2> QED  BY <2>5, <2>6
<1>5. CASE LogChange(r)
  <2>1. /\ Wrote(r) /\ Writes(r)
        /\ UNCHANGED <<dbVars, lock, out, reply>>
        /\ pc' = [pc EXCEPT ![r] = "logged"]
        /\ work' = [work EXCEPT ![r].seq = seq + 1]
    BY <1>5 DEF LogChange, Go, OnceInv, LockInv
  <2>2. DOMAIN work' = Request /\ \A s \in Request : work'[s].dev = work[s].dev
    BY <2>1 DEF OnceInv, LockInv
  <2> QED  BY <2>1, <2>2, MoveKeeps DEF dbVars, OnceInv, LockInv, Writes
<1> QED  BY <1>1, <1>2, <1>3, <1>4, <1>5

\* The row is locked by the request that writes it, and by nobody else.
LEMMA WriteStep ==
    ASSUME OnceInv, NEW r \in Request, WriteRow(r)
    PROVE  OnceInv'
<1> DEFINE e == Target(r[1])
<1>1. /\ pc[r] = "weighed" /\ lock[e] = Free
      /\ lock' = [lock EXCEPT ![e] = r]
      /\ pc' = [pc EXCEPT ![r] = "written"]
      /\ UNCHANGED <<dbVars, out, reply>>
  BY DEF WriteRow, Go
<1>2. e \in Entity /\ r[1] \in Device
  BY DEF Target, Entity, Product, Request
<1>3. work'[r].dev = r[1] /\ DOMAIN work' = Request
      /\ \A s \in Request : s # r => work'[s] = work[s]
  BY DEF WriteRow, OnceInv, LockInv
<1>4. lock'[e] = r /\ (\A x \in Entity : x # e => lock'[x] = lock[x])
      /\ lock' \in [Entity -> Request \cup {Free}]
  BY <1>1, <1>2 DEF OnceInv, LockInv
<1>5. \A d \in Device : d # Nobody
  BY ServerAssumption DEF Nobody
<1>6. \A s \in Request : s # Free
  BY <1>5 DEF Request, Free
<1>7. Wrote(r)' /\ \A s \in Request : s # r => (Wrote(s)' <=> Wrote(s))
  <2>1. Wrote(r)'
    BY <1>2, <1>4 DEF Wrote
  <2>2. ASSUME NEW s \in Request, s # r PROVE Wrote(s)' <=> Wrote(s)
    <3>1. lock'[e] # s /\ lock[e] # s
      BY <1>1, <1>4, <1>6, <2>2
    <3> QED  BY <1>4, <3>1 DEF Wrote
  <2> QED  BY <2>1, <2>2
<1>8. pc' \in [Request -> Labels] /\ pc'[r] = "written"
      /\ \A s \in Request : s # r => pc'[s] = pc[s]
  BY <1>1 DEF OnceInv, LockInv, Labels
<1>9. LockInv'
  <2>1. ASSUME NEW s \in Request
        PROVE  /\ pc'[s] \in {"unsent", "sent", "new", "found", "weighed", "done"} => ~Wrote(s)'
               /\ pc'[s] = "weighed" => Writes(s)'
               /\ pc'[s] = "written" => Writes(s)' /\ Wrote(s)'
               /\ pc'[s] \in {"logged", "stored"} => (Wrote(s)' <=> Writes(s)')
               /\ Wrote(s)' => work'[s].dev = s[1]
               /\ pc'[s] = "stored" => processed'[s[1]] = "none"
    <3>0. Writes(s)' <=> Writes(s)
      BY <1>1 DEF Writes
    <3>1. CASE s = r
      BY <1>1, <1>3, <1>7, <1>8, <3>0, <3>1 DEF OnceInv, LockInv
    <3>2. CASE s # r
      BY <1>1, <1>3, <1>7, <1>8, <3>0, <3>2 DEF OnceInv, LockInv, dbVars
    <3> QED  BY <3>1, <3>2
  <2>2. /\ DOMAIN out' = Request /\ \A s \in Request : out'[s].kind \in Kinds
    BY <1>1 DEF OnceInv, LockInv
  <2>3. \A s, t \in Request : pc'[s] = "stored" /\ pc'[t] = "stored" /\ s[1] = t[1] => s = t
    BY <1>8 DEF OnceInv, LockInv
  <2> QED  BY <1>3, <1>4, <1>8, <2>1, <2>2, <2>3 DEF LockInv
<1>10. PublishedOnce'
  BY <1>1 DEF OnceInv, PublishedOnce, dbVars
<1> QED  BY <1>1, <1>9, <1>10 DEF OnceInv, dbVars

\* The key is given to one sending of a mutation at a time, while none has
\* committed it.
LEMMA StoreStep ==
    ASSUME OnceInv, NEW r \in Request, StoreAnswer(r)
    PROVE  OnceInv'
<1>1. /\ pc[r] = "logged" /\ KeyFree(r[1]) /\ processed[r[1]] = "none"
      /\ pc' = [pc EXCEPT ![r] = "stored"]
      /\ UNCHANGED <<dbVars, lock, out, work, reply>>
  BY DEF StoreAnswer, Storable, Go
<1>2. pc' \in [Request -> Labels] /\ pc'[r] = "stored"
      /\ \A s \in Request : s # r => pc'[s] = pc[s]
  BY <1>1 DEF OnceInv, LockInv, Labels
<1>3. \A s \in Request : s[1] = r[1] => pc[s] # "stored"
  <2>1. \A s \in Request : s = <<s[1], s[2]>> /\ s[2] \in 1..MaxSends
    BY DEF Request
  <2> QED  BY <1>1, <2>1 DEF KeyFree
<1>4. \A s \in Request : (Wrote(s)' <=> Wrote(s)) /\ (Writes(s)' <=> Writes(s))
  BY <1>1 DEF Wrote, Writes
<1>5. LockInv'
  <2>1. ASSUME NEW s \in Request
        PROVE  /\ pc'[s] \in {"unsent", "sent", "new", "found", "weighed", "done"} => ~Wrote(s)'
               /\ pc'[s] = "weighed" => Writes(s)'
               /\ pc'[s] = "written" => Writes(s)' /\ Wrote(s)'
               /\ pc'[s] \in {"logged", "stored"} => (Wrote(s)' <=> Writes(s)')
               /\ Wrote(s)' => work'[s].dev = s[1]
               /\ pc'[s] = "stored" => processed'[s[1]] = "none"
    <3>1. CASE s = r
      BY <1>1, <1>2, <1>4, <3>1 DEF OnceInv, LockInv, dbVars
    <3>2. CASE s # r
      BY <1>1, <1>2, <1>4, <3>2 DEF OnceInv, LockInv, dbVars
    <3> QED  BY <3>1, <3>2
  <2>2. \A s, t \in Request : pc'[s] = "stored" /\ pc'[t] = "stored" /\ s[1] = t[1] => s = t
    BY <1>2, <1>3 DEF OnceInv, LockInv
  <2> QED  BY <1>1, <1>2, <2>1, <2>2 DEF OnceInv, LockInv
<1>6. PublishedOnce'
  BY <1>1 DEF OnceInv, PublishedOnce, dbVars
<1> QED  BY <1>1, <1>5, <1>6 DEF OnceInv, dbVars

\* The end of a transaction frees its locks and no other's.
LEMMA ReleasedLocks ==
    ASSUME OnceInv, NEW r \in Request, Released(r)
    PROVE  /\ lock' \in [Entity -> Request \cup {Free}]
           /\ ~Wrote(r)'
           /\ \A s \in Request : s # r => (Wrote(s)' <=> Wrote(s))
<1>1. \A s \in Request : s # Free
  <2>1. \A d \in Device : d # Nobody
    BY ServerAssumption DEF Nobody
  <2> QED  BY <2>1 DEF Request, Free
<1> QED  BY <1>1 DEF Released, Wrote, OnceInv, LockInv

\* A request that is done leaves the others where they are, as long as what it
\* commits is not under the key of one about to commit.
LEMMA EndKeeps ==
    ASSUME OnceInv, NEW r \in Request, Released(r),
           pc' = [pc EXCEPT ![r] = "done"], UNCHANGED <<out, work>>,
           \A s \in Request : s # r /\ pc[s] = "stored" => processed'[s[1]] = processed[s[1]]
    PROVE  LockInv'
<1>1. pc' \in [Request -> Labels] /\ pc'[r] = "done"
      /\ \A s \in Request : s # r => pc'[s] = pc[s]
  BY DEF OnceInv, LockInv, Labels
<1>2. /\ lock' \in [Entity -> Request \cup {Free}]
      /\ ~Wrote(r)'
      /\ \A s \in Request : s # r => (Wrote(s)' <=> Wrote(s))
  BY ReleasedLocks
<1>3. ASSUME NEW s \in Request
      PROVE  /\ pc'[s] \in {"unsent", "sent", "new", "found", "weighed", "done"} => ~Wrote(s)'
             /\ pc'[s] = "weighed" => Writes(s)'
             /\ pc'[s] = "written" => Writes(s)' /\ Wrote(s)'
             /\ pc'[s] \in {"logged", "stored"} => (Wrote(s)' <=> Writes(s)')
             /\ Wrote(s)' => work'[s].dev = s[1]
             /\ pc'[s] = "stored" => processed'[s[1]] = "none"
  <2>0. Writes(s)' <=> Writes(s)
    BY DEF Writes
  <2>1. CASE s = r
    BY <1>1, <1>2, <2>1
  <2>2. CASE s # r
    BY <1>1, <1>2, <2>0, <2>2 DEF OnceInv, LockInv
  <2> QED  BY <2>1, <2>2
<1>4. \A s, t \in Request : pc'[s] = "stored" /\ pc'[t] = "stored" /\ s[1] = t[1] => s = t
  BY <1>1 DEF OnceInv, LockInv
<1> QED  BY <1>1, <1>2, <1>3, <1>4 DEF OnceInv, LockInv

LEMMA CommitStep ==
    ASSUME OnceInv, NEW r \in Request, CommitTx(r)
    PROVE  OnceInv'
<1> DEFINE d == r[1]
           a == AnswerOf(r)
<1>1. /\ pc[r] = "stored"
      /\ log' = IF Wrote(r) THEN log \cup {work[r]} ELSE log
      /\ processed' = [processed EXCEPT ![d] = a]
      /\ Released(r)
      /\ pc' = [pc EXCEPT ![r] = "done"]
      /\ reply' = [reply EXCEPT ![r] = a]
      /\ UNCHANGED <<out, work>>
  BY DEF CommitTx, Reply, Go
<1>2. d \in Device
  BY DEF Request
<1>3. /\ processed[d] = "none"
      /\ Wrote(r) <=> Writes(r)
      /\ Wrote(r) => work[r].dev = d
      /\ \A s \in Request : s # r /\ pc[s] = "stored" => s[1] # d
  BY <1>1 DEF OnceInv, LockInv
<1>4. a \in Answer /\ (a \in {"applied", "merged"} <=> Writes(r))
  BY DEF AnswerOf, Answer, Writes, OnceInv, LockInv, Kinds
<1> HIDE DEF a
<1>5. /\ processed' \in [Device -> Answer] /\ processed'[d] = a
      /\ \A b \in Device : b # d => processed'[b] = processed[b]
  BY <1>1, <1>2, <1>4 DEF OnceInv
<1>6. \A s \in Request : s[1] \in Device
  BY DEF Request
<1>7. LockInv'
  BY <1>1, <1>3, <1>5, <1>6, EndKeeps
<1>8. DOMAIN reply' = Request
      /\ \A s \in Request : reply'[s] \in {"none", "rejected", processed'[s[1]]}
  <2>1. ASSUME NEW s \in Request PROVE reply'[s] \in {"none", "rejected", processed'[s[1]]}
    <3>1. CASE s = r
      BY <1>1, <1>5, <3>1 DEF OnceInv
    <3>2. CASE s # r /\ s[1] = d
      BY <1>1, <1>3, <3>2 DEF OnceInv
    <3>3. CASE s # r /\ s[1] # d
      BY <1>1, <1>5, <1>6, <3>3 DEF OnceInv
    <3> QED  BY <3>1, <3>2, <3>3
  <2> QED  BY <1>1, <2>1 DEF OnceInv
<1>9. PublishedOnce'
  <2>1. \A x \in log : x.dev # d
    BY <1>2, <1>3 DEF OnceInv, PublishedOnce
  <2>2. ASSUME NEW b \in Device
        PROVE  /\ \A x, y \in log' : x.dev = b /\ y.dev = b => x = y
               /\ (\E x \in log' : x.dev = b) <=> processed'[b] \in {"applied", "merged"}
    <3>1. CASE b = d /\ Wrote(r)
      BY <1>1, <1>3, <1>4, <1>5, <2>1, <3>1
    <3>2. CASE b = d /\ ~Wrote(r)
      BY <1>1, <1>3, <1>4, <1>5, <2>1, <3>2
    <3>3. CASE b # d
      <4>1. \A x \in log' : x.dev = b => x \in log
        BY <1>1, <1>3, <3>3
      <4>2. log \subseteq log'
        BY <1>1
      <4> QED  BY <1>5, <3>3, <4>1, <4>2 DEF OnceInv, PublishedOnce
    <3> QED  BY <3>1, <3>2, <3>3
  <2> QED  BY <2>2 DEF PublishedOnce
<1> QED  BY <1>5, <1>7, <1>8, <1>9 DEF OnceInv

LEMMA ThrowStep ==
    ASSUME OnceInv, NEW r \in Request, Throw(r)
    PROVE  OnceInv'
<1>1. /\ Released(r)
      /\ pc' = [pc EXCEPT ![r] = "done"]
      /\ reply' = [reply EXCEPT ![r] = "rejected"]
      /\ UNCHANGED <<out, work, dbVars>>
  BY DEF Throw, Reply, Go
<1>2. LockInv'
  BY <1>1, EndKeeps DEF dbVars
<1>3. PublishedOnce'
  BY <1>1 DEF OnceInv, PublishedOnce, dbVars
<1> QED  BY <1>1, <1>2, <1>3 DEF OnceInv, dbVars

LEMMA OnceStep == OnceInv /\ [Next]_vars => OnceInv'
<1> SUFFICES ASSUME OnceInv, [Next]_vars PROVE OnceInv'
  OBVIOUS
<1>1. ASSUME UNCHANGED <<processed, log, lock, pc, out, work, reply>> PROVE OnceInv'
  BY <1>1 DEF OnceInv, LockInv, PublishedOnce, Wrote, Writes
<1>2. CASE UNCHANGED vars
  BY <1>1, <1>2 DEF vars, dbVars
<1>3. ASSUME NEW d \in Device, Pull(d) PROVE OnceInv'
  BY <1>1, <1>3 DEF Pull, dbVars
<1>4. ASSUME NEW r \in Request, Handle(r) \/ Send(r[1], r[2]) PROVE OnceInv'
  BY <1>4, MoveStep, WriteStep, StoreStep, CommitStep, ThrowStep DEF Handle
<1> QED  BY <1>2, <1>3, <1>4 DEF Next

\* However the transactions of any number of sendings interleave, wait for one
\* another and fail, a mutation is published at most once, and it is published
\* when, and only when, its stored answer says that it was written; and a till
\* that is answered several times for one mutation is told the same.
THEOREM AnsweredOnceCorrect == Spec => []AnsweredOnce
<1>1. OnceInv => AnsweredOnce
  BY DEF OnceInv, AnsweredOnce, AnswersAgree, Request
<1> QED  BY <1>1, OnceInit, OnceStep, PTL DEF Spec

-----------------------------------------------------------------------------
\* One history: types, versions, deletions, and what a pull skips.

LEMMA Greatest ==
    ASSUME NEW S \in SUBSET Nat, NEW n \in Nat, S # {}, \A s \in S : s <= n
    PROVE  \E m \in S : \A s \in S : s <= m
<1> DEFINE T == {k \in Nat : \A s \in S : s <= k}
           R == OpToRel(<, Nat)
<1>1. T \subseteq Nat /\ T # {}
  OBVIOUS
<1>2. PICK k \in T : \A j \in T : ~(<<j, k>> \in R)
  <2>1. IsWellFoundedOn(R, Nat)
    BY NatLessThanWellFounded
  <2> HIDE DEF R, T
  <2> QED  BY <1>1, <2>1, WFMin
<1>3. \A j \in Nat : j < k => j \notin T
  BY <1>1, <1>2 DEF OpToRel
<1>4. k \in S
  <2>1. SUFFICES ASSUME k \notin S PROVE FALSE
    OBVIOUS
  <2>2. PICK s \in S : TRUE
    OBVIOUS
  <2>3. k \in Nat /\ \A t \in S : t <= k /\ t # k
    BY <2>1
  <2>4. k - 1 \in Nat /\ \A t \in S : t <= k - 1
    BY <2>2, <2>3
  <2> QED  BY <2>4, <1>3
<1> QED  BY <1>4

LEMMA Resolution ==
    ASSUME NEW in, NEW S, in.clientFields \subseteq Field, S \subseteq Field
    PROVE  ResolveUpdate(in, S) \in [kind : Kinds, fields : SUBSET Field]
<1> DEFINE fields     == in.clientFields
           collisions == fields \cap in.fieldsSince
           upToDate   == in.baseVersion # 0 /\ in.baseVersion = in.serverVersion
           wins       == ClientWins(in.clientTs, in.serverTs, in.clientDev, in.serverDev)
           kept       == IF wins \/ collisions = {} THEN Outcome("merge", fields)
                         ELSE IF fields \ collisions = {} THEN Outcome("ignore", {})
                         ELSE Outcome("merge", fields \ collisions)
<1>1. \A k \in Kinds : \A F \in SUBSET Field :
        Outcome(k, F) \in [kind : Kinds, fields : SUBSET Field]
  BY DEF Outcome
<1>2. kept \in {Outcome("ignore", {}), Outcome("merge", fields),
                Outcome("merge", fields \ collisions)}
  OBVIOUS
<1> HIDE DEF kept
<1>3. \/ ResolveUpdate(in, S) = Outcome("ignore", {})
      \/ ResolveUpdate(in, S) = Outcome("apply", fields)
      \/ ResolveUpdate(in, S) = Outcome("manual", collisions \cap S)
      \/ ResolveUpdate(in, S) = kept
  <2>1. CASE in.serverDeleted
    BY <2>1 DEF ResolveUpdate
  <2>2. CASE ~in.serverDeleted /\ fields = {}
    BY <2>2 DEF ResolveUpdate
  <2>3. CASE ~in.serverDeleted /\ fields # {} /\ upToDate
    BY <2>3 DEF ResolveUpdate
  <2>4. CASE ~in.serverDeleted /\ fields # {} /\ ~upToDate /\ collisions \cap S # {}
    BY <2>4 DEF ResolveUpdate
  <2>5. CASE ~in.serverDeleted /\ fields # {} /\ ~upToDate /\ collisions \cap S = {}
    BY <2>5 DEF ResolveUpdate, kept
  <2> QED  BY <2>1, <2>2, <2>3, <2>4, <2>5
<1>4. /\ fields \in SUBSET Field /\ collisions \cap S \in SUBSET Field
      /\ fields \ collisions \in SUBSET Field /\ {} \in SUBSET Field
  OBVIOUS
<1>5. {"ignore", "apply", "manual", "merge"} \subseteq Kinds
  BY DEF Kinds
<1> HIDE DEF fields, collisions
<1> QED  BY <1>1, <1>2, <1>3, <1>4, <1>5

\* A request whose entry has its number, not committed yet.
Numbered(r) == Wrote(r) /\ pc[r] \in {"logged", "stored"}

\* What a transaction has under way: a lock is on its own row, its write of the product is
\* the next version, and its number comes after those of the product that are committed; a
\* cursor that has passed it knows that it was overtaken.
PendingInv ==
    /\ \A e \in Entity, r \in Request : lock[e] = r => e = Target(r[1]) /\ work[r].ent = e
    /\ \A r \in Request : lock[Product] = r =>
         work[r].row.v = row.v + 1 /\ (row.del => work[r].row.del)
    /\ \A x \in log : x.seq <= seq
    /\ \A d \in Device : cursor[d] <= seq
    /\ \A r \in Request : Numbered(r) =>
         /\ work[r].seq <= seq
         /\ \A x \in log : x.seq # work[r].seq
         /\ lock[Product] = r => \A x \in ProductEntries : x.seq < work[r].seq
         /\ \A d \in Device \ {r[1]} : work[r].seq <= cursor[d] => work[r].seq \in overtaken[d]
    /\ \A r, s \in Request : Numbered(r) /\ Numbered(s) /\ r # s => work[r].seq # work[s].seq

HistoryInv == LogFollowsVersions /\ DeletionWins /\ SkipsOnlyOvertaken

VersionInv == OnceInv /\ TypeOK /\ PendingInv /\ HistoryInv

LEMMA NotFree == \A r \in Request : r # Free /\ r[1] \in Device /\ r[1] # Nobody
<1>1. \A d \in Device : d # Nobody
  BY ServerAssumption DEF Nobody
<1> QED  BY <1>1 DEF Request, Free

LEMMA SeedTyped == Seed \in Row /\ SeedEntry \in Entry
  BY DEF Seed, Row, SeedEntry, Entry, Entity, Nobody

LEMMA VersionInit == Init => VersionInv
<1> SUFFICES ASSUME Init PROVE VersionInv
  OBVIOUS
<1>1. TypeOK
  <2>1. edit \in [Device -> Mutation]
    <3>1. Edits \subseteq Mutation
      BY ServerAssumption DEF Edits, Mutation
    <3> QED  BY <3>1 DEF Init
  <2>2. /\ row \in Row /\ log \subseteq Entry /\ found \in [Request -> Row]
        /\ work \in [Request -> Entry]
    BY SeedTyped DEF Init
  <2>3. out \in [Request -> [kind : {"apply", "merge", "manual", "ignore"}, fields : SUBSET Field]]
    BY DEF Init, Outcome
  <2>4. 0 \in 0..MaxAborts
    BY ServerAssumption
  <2> QED  BY <2>1, <2>2, <2>3, <2>4 DEF Init, TypeOK, Answer, Labels
<1>2. \A r \in Request : \A e \in Entity : lock[e] # r
  BY NotFree DEF Init
<1>3. PendingInv
  <2>1. \A r \in Request : ~Numbered(r)
    BY DEF Init, Numbered
  <2>2. Product \in Entity
    BY DEF Entity
  <2> QED  BY <1>2, <2>1, <2>2 DEF Init, PendingInv, SeedEntry
<1>4. ProductEntries = {SeedEntry} /\ SeedEntry.row = Seed /\ SeedEntry.seq = 1 /\ Seed.v = 1
  BY DEF Init, ProductEntries, SeedEntry, Seed
<1>5. HistoryInv
  BY <1>4 DEF Init, HistoryInv, LogFollowsVersions, DeletionWins, SkipsOnlyOvertaken
<1> QED  BY <1>1, <1>3, <1>5, OnceInit DEF VersionInv

\* What is written of a row is a row.
LEMMA RowTyped ==
    ASSUME TypeOK, NEW r \in Request
    PROVE  /\ Written(r) \in Row
           /\ edit[r[1]].op # "create" => Written(r).v = row.v + 1 /\ (row.del => Written(r).del)
<1> DEFINE e == edit[r[1]]
<1>1. r[1] \in Device /\ e \in Mutation /\ row \in Row /\ out[r].fields \subseteq Field
  BY NotFree DEF TypeOK
<1>2. e.ts \in Nat /\ e.op \in {"create", "update", "delete"}
  BY <1>1 DEF Mutation
<1>3. CASE e.op = "create"
  <2>1. Written(r) = [Seed EXCEPT !.ts = e.ts]
    BY <1>3 DEF Written, RowOver
  <2> QED  BY <2>1, <1>2, <1>3, SeedTyped DEF Row
<1>4. CASE e.op = "delete"
  <2>1. Written(r) = [row EXCEPT !.v = row.v + 1, !.del = TRUE]
    BY <1>4 DEF Written, RowOver
  <2>2. Written(r) = [v |-> row.v + 1, val |-> row.val, ts |-> row.ts, del |-> TRUE]
    BY <2>1, <1>1 DEF Row
  <2> QED  BY <2>2, <1>1 DEF Row
<1>5. CASE e.op = "update"
  <2> DEFINE new == [f \in Field |-> IF f \in out[r].fields THEN r[1] ELSE row.val[f]]
  <2>1. Written(r) = [row EXCEPT !.v = row.v + 1, !.ts = e.ts, !.val = new]
    BY <1>5 DEF Written, RowOver
  <2>2. new \in [Field -> Device \cup {Nobody}]
    BY <1>1 DEF Row
  <2> HIDE DEF new
  <2>3. Written(r) = [v |-> row.v + 1, val |-> new, ts |-> e.ts, del |-> row.del]
    BY <2>1, <1>1 DEF Row
  <2> QED  BY <2>2, <2>3, <1>1, <1>2 DEF Row
<1> QED  BY <1>2, <1>3, <1>4, <1>5

\* A pull gives the till the latest number of what it had not seen.
LEMMA PullTakes ==
    ASSUME VersionInv, NEW d \in Device, Pull(d)
    PROVE  /\ cursor' \in [Device -> Nat] /\ \A b \in Device : b # d => cursor'[b] = cursor[b]
           /\ got' \in [Device -> SUBSET Nat] /\ \A b \in Device : got[b] \subseteq got'[b]
           /\ overtaken' \in [Device -> SUBSET Nat]
           /\ \A b \in Device : overtaken[b] \subseteq overtaken'[b]
           /\ \E x \in Fresh(d) : cursor'[d] = x.seq
           /\ \A x \in Fresh(d) : x.seq \in got'[d]
           /\ \A s \in InFlight(d) : s < cursor'[d] => s \in overtaken'[d]
<1> DEFINE S == {x.seq : x \in Fresh(d)}
           most == CHOOSE s \in S : \A x \in Fresh(d) : x.seq <= s
<1>1. /\ Fresh(d) # {}
      /\ got' = [got EXCEPT ![d] = @ \cup S]
      /\ cursor' = [cursor EXCEPT ![d] = most]
      /\ overtaken' = [overtaken EXCEPT ![d] = @ \cup {s \in InFlight(d) : s < cursor'[d]}]
  BY DEF Pull
<1>2. /\ cursor \in [Device -> Nat] /\ got \in [Device -> SUBSET Nat]
      /\ overtaken \in [Device -> SUBSET Nat] /\ seq \in Nat
  BY DEF VersionInv, TypeOK
<1>3. \A x \in log : x.seq \in Nat /\ x.seq <= seq
  BY DEF VersionInv, TypeOK, PendingInv, Entry
<1>4. Fresh(d) \subseteq log
  BY DEF Fresh
<1>5. S \in SUBSET Nat /\ S # {} /\ \A s \in S : s <= seq
  BY <1>1, <1>3, <1>4
<1>6. \E s \in S : \A t \in S : t <= s
  <2> HIDE DEF S
  <2> QED  BY <1>2, <1>5, Greatest
<1>7. most \in S
  <2>1. \E s \in S : \A x \in Fresh(d) : x.seq <= s
    BY <1>6
  <2> QED  BY <2>1
<1>8. most \in Nat /\ \E x \in Fresh(d) : most = x.seq
  BY <1>5, <1>7
<1> HIDE DEF most
<1>9. InFlight(d) \subseteq Nat
  BY DEF InFlight, VersionInv, TypeOK, Entry
<1>10. cursor'[d] = most /\ cursor' \in [Device -> Nat]
       /\ \A b \in Device : b # d => cursor'[b] = cursor[b]
  BY <1>1, <1>2, <1>8
<1>11. /\ got' \in [Device -> SUBSET Nat] /\ \A b \in Device : got[b] \subseteq got'[b]
       /\ S \subseteq got'[d]
  BY <1>1, <1>2, <1>5
<1>12. /\ overtaken' \in [Device -> SUBSET Nat]
       /\ \A b \in Device : overtaken[b] \subseteq overtaken'[b]
       /\ \A s \in InFlight(d) : s < cursor'[d] => s \in overtaken'[d]
  BY <1>1, <1>2, <1>9
<1> QED  BY <1>8, <1>10, <1>11, <1>12

LEMMA TypeStep == VersionInv /\ [Next]_vars => TypeOK'
<1> SUFFICES ASSUME VersionInv, [Next]_vars PROVE TypeOK'
  OBVIOUS
<1>0. TypeOK /\ OnceInv
  BY DEF VersionInv
<1>1. CASE UNCHANGED vars
  BY <1>0, <1>1 DEF TypeOK, vars, dbVars, pullVars
<1>2. ASSUME NEW d \in Device, Pull(d) PROVE TypeOK'
  <2>1. UNCHANGED <<edit, dbVars, seq, lock, pc, found, out, work, reply, aborts>>
    BY <1>2 DEF Pull
  <2> QED  BY <1>0, <1>2, <2>1, PullTakes DEF TypeOK, dbVars
<1>3. ASSUME NEW r \in Request, Send(r[1], r[2]) PROVE TypeOK'
  <2>1. r = <<r[1], r[2]>>
    BY DEF Request
  <2>2. pc' = [pc EXCEPT ![r] = "sent"]
    BY <1>3, <2>1 DEF Send, Go
  <2> QED  BY <1>0, <1>3, <2>2 DEF Send, TypeOK, dbVars, pullVars, Labels
<1>4. ASSUME NEW r \in Request, Dedupe(r) PROVE TypeOK'
  <2>1. r[1] \in Device
    BY NotFree
  <2> QED  BY <1>0, <1>4, <2>1 DEF Dedupe, Reply, Go, TypeOK, dbVars, pullVars, Labels
<1>5. ASSUME NEW r \in Request, Find(r) PROVE TypeOK'
  <2>1. PICK kind \in {"ignore", "apply"}, l \in Labels :
          out' = [out EXCEPT ![r] = Outcome(kind, edit[r[1]].fields)] /\ pc' = [pc EXCEPT ![r] = l]
    <3> DEFINE e    == edit[r[1]]
               kept == \/ e.op = "create" /\ r[1] \in journal
                       \/ e.op # "create" /\ row.del
               l    == CASE kept -> "logged"
                         [] ~kept /\ e.op = "update" -> "found"
                         [] OTHER -> "weighed"
    <3>1. l \in Labels
      <4>1. CASE kept
        BY <4>1 DEF Labels
      <4>2. CASE ~kept
        BY <4>2 DEF Labels
      <4> QED  BY <4>1, <4>2
    <3>2. /\ out' = [out EXCEPT ![r] = Outcome(IF kept THEN "ignore" ELSE "apply", e.fields)]
          /\ pc' = [pc EXCEPT ![r] = l]
      BY <1>5 DEF Find, Go
    <3> HIDE DEF l
    <3> QED  BY <3>1, <3>2
  <2>2. edit[r[1]].fields \in SUBSET Field
    BY <1>0, NotFree DEF TypeOK, Mutation
  <2>3. /\ out' \in [Request -> [kind : {"apply", "merge", "manual", "ignore"}, fields : SUBSET Field]]
        /\ pc' \in [Request -> Labels]
    BY <1>0, <2>1, <2>2 DEF TypeOK, Outcome
  <2>4. found' = [found EXCEPT ![r] = row]
        /\ UNCHANGED <<edit, dbVars, seq, lock, work, reply, pullVars, aborts>>
    BY <1>5 DEF Find
  <2> QED  BY <1>0, <2>3, <2>4 DEF TypeOK, dbVars, pullVars
<1>6. ASSUME NEW r \in Request, Weigh(r) PROVE TypeOK'
  <2>1. PICK in : /\ in.clientFields = edit[r[1]].fields
                  /\ out' = [out EXCEPT ![r] = ResolveUpdate(in, Sensitive)]
                  /\ \E l \in Labels : pc' = [pc EXCEPT ![r] = l]
    <3> DEFINE e  == edit[r[1]]
               in == [clientFields  |-> e.fields,
                      fieldsSince   |-> FieldsChangedSince(1),
                      baseVersion   |-> 1,
                      serverVersion |-> found[r].v,
                      clientTs      |-> e.ts,
                      serverTs      |-> found[r].ts,
                      clientDev     |-> r[1],
                      serverDev     |-> LastWriter,
                      serverDeleted |-> FALSE]
               l  == IF ResolveUpdate(in, Sensitive).kind \in {"apply", "merge"}
                     THEN "weighed" ELSE "logged"
    <3>1. in.clientFields = e.fields
      OBVIOUS
    <3>2. l \in Labels
      BY DEF Labels
    <3>3. out' = [out EXCEPT ![r] = ResolveUpdate(in, Sensitive)] /\ pc' = [pc EXCEPT ![r] = l]
      BY <1>6 DEF Weigh, Go
    <3> HIDE DEF in, l
    <3> QED  BY <3>1, <3>2, <3>3
  <2>2. edit[r[1]].fields \subseteq Field
    BY <1>0, NotFree DEF TypeOK, Mutation
  <2>3. ResolveUpdate(in, Sensitive) \in [kind : Kinds, fields : SUBSET Field]
    BY <2>1, <2>2, Resolution, ServerAssumption
  <2>4. UNCHANGED <<edit, dbVars, seq, lock, found, work, reply, pullVars, aborts>>
    BY <1>6 DEF Weigh
  <2> QED  BY <1>0, <2>1, <2>3, <2>4 DEF TypeOK, dbVars, pullVars, Kinds
<1>7. ASSUME NEW r \in Request, WriteRow(r) PROVE TypeOK'
  <2> DEFINE e == Target(r[1])
             entry == [seq |-> 0, dev |-> r[1], ent |-> e, row |-> Written(r),
                       fields |-> out[r].fields]
  <2>1. /\ lock' = [lock EXCEPT ![e] = r] /\ pc' = [pc EXCEPT ![r] = "written"]
        /\ work' = [work EXCEPT ![r] = entry]
        /\ UNCHANGED <<edit, dbVars, seq, found, out, reply, pullVars, aborts>>
    BY <1>7 DEF WriteRow, Go
  <2>2. e \in Entity /\ r[1] \in Device
    BY NotFree DEF Target, Entity, Product
  <2>3. entry \in Entry
    BY <1>0, <2>2, RowTyped DEF Entry, TypeOK
  <2> HIDE DEF e, entry
  <2> QED  BY <1>0, <2>1, <2>2, <2>3 DEF TypeOK, dbVars, pullVars, Labels
<1>8. ASSUME NEW r \in Request, LogChange(r) PROVE TypeOK'
  <2>1. /\ seq' = seq + 1 /\ pc' = [pc EXCEPT ![r] = "logged"]
        /\ work' = [work EXCEPT ![r].seq = seq + 1]
        /\ UNCHANGED <<edit, dbVars, lock, found, out, reply, pullVars, aborts>>
    BY <1>8 DEF LogChange, Go
  <2>2. seq + 1 \in Nat /\ work \in [Request -> Entry]
    BY <1>0 DEF TypeOK
  <2>3. work' \in [Request -> Entry]
    BY <2>1, <2>2 DEF Entry
  <2> QED  BY <1>0, <2>1, <2>2, <2>3 DEF TypeOK, dbVars, pullVars, Labels
<1>9. ASSUME NEW r \in Request, StoreAnswer(r) PROVE TypeOK'
  BY <1>0, <1>9 DEF StoreAnswer, Go, TypeOK, dbVars, pullVars, Labels
<1>10. ASSUME NEW r \in Request, CommitTx(r) PROVE TypeOK'
  <2>1. r[1] \in Device /\ Product \in Entity
    BY NotFree DEF Entity
  <2>2. AnswerOf(r) \in Answer
    BY DEF AnswerOf, Answer
  <2>3. lock' \in [Entity -> Request \cup {Free}]
    BY <1>0, <1>10, ReleasedLocks DEF CommitTx
  <2>4. work[r] \in Entry /\ work[r].row \in Row
    BY <1>0 DEF TypeOK, Entry
  <2>5. row' \in Row /\ journal' \subseteq Device /\ log' \subseteq Entry
    BY <1>0, <1>10, <2>1, <2>4 DEF CommitTx, TypeOK
  <2>6. processed' \in [Device -> Answer] /\ reply' \in [Request -> Answer]
        /\ pc' \in [Request -> Labels]
    BY <1>0, <1>10, <2>2 DEF CommitTx, Reply, Go, TypeOK, Labels
  <2>7. UNCHANGED <<edit, seq, found, out, work, pullVars, aborts>>
    BY <1>10 DEF CommitTx
  <2> QED  BY <1>0, <2>3, <2>5, <2>6, <2>7 DEF TypeOK, pullVars
<1>11. ASSUME NEW r \in Request, Throw(r) PROVE TypeOK'
  <2>1. lock' \in [Entity -> Request \cup {Free}]
    BY <1>0, <1>11, ReleasedLocks DEF Throw
  <2>2. aborts' \in 0..MaxAborts
    BY <1>0, <1>11, ServerAssumption DEF Throw, TypeOK
  <2>3. reply' \in [Request -> Answer] /\ pc' \in [Request -> Labels]
    BY <1>0, <1>11 DEF Throw, Reply, Go, TypeOK, Labels, Answer
  <2>4. UNCHANGED <<edit, dbVars, seq, found, out, work, pullVars>>
    BY <1>11 DEF Throw
  <2> QED  BY <1>0, <2>1, <2>2, <2>3, <2>4 DEF TypeOK, dbVars, pullVars
<1> QED  BY <1>1, <1>2, <1>3, <1>4, <1>5, <1>6, <1>7, <1>8, <1>9, <1>10, <1>11 DEF Next, Handle

\* Steps that write no row, and number and lock nothing that was not.
LEMMA QuietKeeps ==
    ASSUME VersionInv,
           UNCHANGED <<edit, row, log, seq, work, cursor, got, overtaken>>,
           \A e \in Entity, s \in Request : lock'[e] = s => lock[e] = s,
           \A s \in Request : Numbered(s)' => Numbered(s)
    PROVE  PendingInv' /\ HistoryInv'
<1>1. Product \in Entity
  BY DEF Entity
<1>2. PendingInv'
  BY <1>1 DEF VersionInv, PendingInv, Target, ProductEntries
<1>3. HistoryInv'
  BY DEF VersionInv, HistoryInv, LogFollowsVersions, DeletionWins, SkipsOnlyOvertaken, ProductEntries
<1> QED  BY <1>2, <1>3

LEMMA QuietStep ==
    ASSUME VersionInv, NEW r \in Request,
           \/ Send(r[1], r[2]) \/ Dedupe(r) \/ Find(r) \/ Weigh(r) \/ StoreAnswer(r) \/ Throw(r)
    PROVE  PendingInv' /\ HistoryInv'
<1>0. OnceInv /\ pc \in [Request -> Labels]
  BY DEF VersionInv, TypeOK
<1>1. CASE Throw(r)
  <2>1. /\ Released(r) /\ pc' = [pc EXCEPT ![r] = "done"]
        /\ UNCHANGED <<edit, row, log, seq, work, cursor, got, overtaken>>
    BY <1>1 DEF Throw, Reply, Go, dbVars, pullVars
  <2>2. \A e \in Entity, s \in Request : lock'[e] = s => lock[e] = s
    BY <2>1, NotFree DEF Released
  <2>3. \A s \in Request : Numbered(s)' => Numbered(s)
    BY <1>0, <2>1, <2>2 DEF Numbered, Wrote
  <2> QED  BY <2>1, <2>2, <2>3, QuietKeeps
<1>2. CASE ~Throw(r)
  <2>1. UNCHANGED <<edit, row, log, seq, lock, work, cursor, got, overtaken>>
    BY <1>2 DEF Send, Dedupe, Find, Weigh, StoreAnswer, dbVars, pullVars
  <2>2. \A s \in Request : Wrote(s)' <=> Wrote(s)
    BY <2>1 DEF Wrote
  <2>3. PICK l : pc' = [pc EXCEPT ![r] = l]
    <3>1. r = <<r[1], r[2]>>
      BY DEF Request
    <3> QED  BY <1>2, <3>1 DEF Send, Dedupe, Find, Weigh, StoreAnswer, Reply, Go
  <2>4. \A s \in Request : s # r => pc'[s] = pc[s]
    BY <1>0, <2>3
  <2>5. Numbered(r)' => Numbered(r)
    <3>1. CASE StoreAnswer(r)
      BY <2>2, <3>1 DEF StoreAnswer, Storable, Numbered
    <3>2. CASE ~StoreAnswer(r)
      <4>1. r = <<r[1], r[2]>>
        BY DEF Request
      <4>2. pc[r] \in {"unsent", "sent", "new", "found"}
        BY <1>2, <3>2, <4>1 DEF Send, Dedupe, Find, Weigh
      <4>3. ~Wrote(r)
        BY <1>0, <4>2 DEF OnceInv, LockInv
      <4> QED  BY <2>2, <4>3 DEF Numbered
    <3> QED  BY <3>1, <3>2
  <2>6. \A s \in Request : Numbered(s)' => Numbered(s)
    BY <2>2, <2>4, <2>5 DEF Numbered
  <2> QED  BY <2>1, <2>6, QuietKeeps
<1> QED  BY <1>1, <1>2

\* The lock taken is the request's own, over the row as it is.
LEMMA WriteKeeps ==
    ASSUME VersionInv, NEW r \in Request, WriteRow(r)
    PROVE  PendingInv' /\ HistoryInv'
<1> DEFINE e == Target(r[1])
<1>0. /\ OnceInv /\ PendingInv /\ HistoryInv /\ pc \in [Request -> Labels]
      /\ work \in [Request -> Entry] /\ lock \in [Entity -> Request \cup {Free}]
  BY DEF VersionInv, TypeOK
<1>1. /\ lock[e] = Free /\ pc[r] = "weighed"
      /\ lock' = [lock EXCEPT ![e] = r] /\ pc' = [pc EXCEPT ![r] = "written"]
      /\ work' = [work EXCEPT ![r] = [seq |-> 0, dev |-> r[1], ent |-> e, row |-> Written(r),
                                      fields |-> out[r].fields]]
      /\ UNCHANGED <<edit, row, log, seq, cursor, got, overtaken>>
  BY DEF WriteRow, Go, dbVars, pullVars
<1>2. e \in Entity /\ Product \in Entity
  BY NotFree DEF Target, Entity
<1>3. /\ work'[r].ent = e /\ work'[r].row = Written(r) /\ pc'[r] = "written"
      /\ \A s \in Request : s # r => work'[s] = work[s] /\ pc'[s] = pc[s]
  BY <1>0, <1>1
<1>4. lock'[e] = r /\ \A x \in Entity : x # e => lock'[x] = lock[x]
  BY <1>0, <1>1, <1>2
<1>5. ~Wrote(r)
  BY <1>0, <1>1 DEF OnceInv, LockInv
<1>6. \A x \in Entity, s \in Request : lock'[x] = s =>
        \/ s = r /\ x = e
        \/ s # r /\ lock[x] = s
  BY <1>4, <1>5 DEF Wrote
<1>7. \A s \in Request : Numbered(s)' => s # r /\ Numbered(s)
  BY <1>3, <1>6 DEF Numbered, Wrote
<1>8. e = Product => Written(r).v = row.v + 1 /\ (row.del => Written(r).del)
  <2>1. e = Product => edit[r[1]].op # "create"
    BY NotFree DEF Target, Product, Nobody
  <2> QED  BY <2>1, RowTyped DEF VersionInv
<1>9. \A d \in Device : Target(d)' = Target(d)
  BY <1>1 DEF Target
<1>10. PendingInv'
  <2>1. \A x \in Entity, s \in Request : lock'[x] = s => x = Target(s[1])' /\ work'[s].ent = x
    BY <1>0, <1>3, <1>6, <1>9, NotFree DEF PendingInv
  <2>2. \A s \in Request : lock'[Product] = s =>
          work'[s].row.v = row'.v + 1 /\ (row'.del => work'[s].row.del)
    BY <1>0, <1>1, <1>2, <1>3, <1>6, <1>8 DEF PendingInv
  <2>3. ProductEntries' = ProductEntries
    BY <1>1 DEF ProductEntries
  <2>4. ASSUME NEW s \in Request, Numbered(s)'
        PROVE  /\ work'[s].seq <= seq'
               /\ \A x \in log' : x.seq # work'[s].seq
               /\ lock'[Product] = s => \A x \in ProductEntries' : x.seq < work'[s].seq
               /\ \A d \in Device \ {s[1]} :
                    work'[s].seq <= cursor'[d] => work'[s].seq \in overtaken'[d]
    BY <1>0, <1>1, <1>2, <1>3, <1>6, <1>7, <2>3, <2>4 DEF PendingInv
  <2>5. \A s, t \in Request :
          Numbered(s)' /\ Numbered(t)' /\ s # t => work'[s].seq # work'[t].seq
    BY <1>0, <1>3, <1>7 DEF PendingInv
  <2> QED  BY <1>0, <1>1, <2>1, <2>2, <2>4, <2>5 DEF PendingInv
<1>11. HistoryInv'
  BY <1>0, <1>1 DEF HistoryInv, LogFollowsVersions, DeletionWins, SkipsOnlyOvertaken, ProductEntries
<1> QED  BY <1>10, <1>11

\* The number drawn is greater than any that was.
LEMMA LogKeeps ==
    ASSUME VersionInv, NEW r \in Request, LogChange(r)
    PROVE  PendingInv' /\ HistoryInv'
<1>0. /\ OnceInv /\ PendingInv /\ HistoryInv /\ pc \in [Request -> Labels] /\ seq \in Nat
      /\ work \in [Request -> Entry] /\ log \subseteq Entry /\ cursor \in [Device -> Nat]
  BY DEF VersionInv, TypeOK
<1>1. /\ seq' = seq + 1 /\ pc[r] = "written" /\ pc' = [pc EXCEPT ![r] = "logged"]
      /\ work' = [work EXCEPT ![r].seq = seq + 1]
      /\ UNCHANGED <<edit, row, log, lock, cursor, got, overtaken>>
  BY DEF LogChange, Go, dbVars, pullVars
<1>2. /\ work'[r].seq = seq + 1 /\ work'[r].ent = work[r].ent /\ work'[r].row = work[r].row
      /\ \A s \in Request : s # r => work'[s] = work[s] /\ pc'[s] = pc[s]
  BY <1>0, <1>1 DEF Entry
<1>3. \A s \in Request : Numbered(s)' /\ s # r => Numbered(s)
  BY <1>1, <1>2 DEF Numbered, Wrote
<1>4. (\A x \in log : x.seq \in Nat) /\ (\A s \in Request : work[s].seq \in Nat)
  BY <1>0 DEF Entry
<1>5. ProductEntries' = ProductEntries /\ ProductEntries \subseteq log
  BY <1>1 DEF ProductEntries
<1>6. PendingInv'
  <2>1. \A x \in Entity, s \in Request : lock'[x] = s => x = Target(s[1])' /\ work'[s].ent = x
    BY <1>0, <1>1, <1>2 DEF PendingInv, Target
  <2>2. \A s \in Request : lock'[Product] = s =>
          work'[s].row.v = row'.v + 1 /\ (row'.del => work'[s].row.del)
    BY <1>0, <1>1, <1>2 DEF PendingInv
  <2>3. (\A x \in log' : x.seq <= seq') /\ (\A d \in Device : cursor'[d] <= seq')
    BY <1>0, <1>1, <1>4 DEF PendingInv
  <2>4. ASSUME NEW s \in Request, Numbered(s)'
        PROVE  /\ work'[s].seq <= seq'
               /\ \A x \in log' : x.seq # work'[s].seq
               /\ lock'[Product] = s => \A x \in ProductEntries' : x.seq < work'[s].seq
               /\ \A d \in Device \ {s[1]} :
                    work'[s].seq <= cursor'[d] => work'[s].seq \in overtaken'[d]
    <3>1. CASE s = r
      BY <1>0, <1>1, <1>2, <1>4, <1>5, <3>1 DEF PendingInv
    <3>2. CASE s # r
      BY <1>0, <1>1, <1>2, <1>3, <1>4, <1>5, <2>4, <3>2 DEF PendingInv
    <3> QED  BY <3>1, <3>2
  <2>5. \A s, t \in Request :
          Numbered(s)' /\ Numbered(t)' /\ s # t => work'[s].seq # work'[t].seq
    <3>1. \A s \in Request : Numbered(s)' /\ s # r => work'[s].seq <= seq /\ work'[s].seq \in Nat
      BY <1>0, <1>2, <1>3, <1>4 DEF PendingInv
    <3> QED  BY <1>0, <1>2, <1>3, <3>1 DEF PendingInv
  <2> QED  BY <2>1, <2>2, <2>3, <2>4, <2>5 DEF PendingInv
<1>7. HistoryInv'
  BY <1>0, <1>1 DEF HistoryInv, LogFollowsVersions, DeletionWins, SkipsOnlyOvertaken, ProductEntries
<1> QED  BY <1>6, <1>7

\* A commit adds to the log what its transaction wrote under its lock: nothing of that row
\* has been committed since.
LEMMA CommitKeeps ==
    ASSUME VersionInv, NEW r \in Request, CommitTx(r)
    PROVE  PendingInv' /\ HistoryInv'
<1> DEFINE x == work[r]
<1>0. /\ OnceInv /\ PendingInv /\ HistoryInv /\ pc \in [Request -> Labels]
      /\ work \in [Request -> Entry] /\ log \subseteq Entry /\ row \in Row /\ seq \in Nat
  BY DEF VersionInv, TypeOK
<1>1. /\ pc[r] = "stored" /\ pc' = [pc EXCEPT ![r] = "done"] /\ Released(r)
      /\ row' = IF lock[Product] = r THEN x.row ELSE row
      /\ log' = IF Wrote(r) THEN log \cup {x} ELSE log
      /\ UNCHANGED <<edit, seq, work, cursor, got, overtaken>>
  BY DEF CommitTx, Reply, Go, pullVars
<1>2. \A e \in Entity, s \in Request : lock'[e] = s => s # r /\ lock[e] = s
  BY <1>1, NotFree DEF Released
<1>3. \A s \in Request : Numbered(s)' => s # r /\ Numbered(s)
  BY <1>0, <1>1, <1>2 DEF Numbered, Wrote
<1>4. Product \in Entity
  BY DEF Entity
<1>5. CASE ~Wrote(r)
  <2>1. UNCHANGED <<row, log>>
    BY <1>1, <1>4, <1>5 DEF Wrote
  <2> QED  BY <1>1, <1>2, <1>3, <2>1, QuietKeeps
<1>6. CASE Wrote(r)
  <2>1. Numbered(r)
    BY <1>1, <1>6 DEF Numbered
  <2>2. /\ x.dev = r[1] /\ x.seq \in Nat /\ x.seq <= seq /\ log' = log \cup {x}
        /\ x.ent = Product <=> lock[Product] = r
    <3>1. x.dev = r[1] /\ x \in Entry
      BY <1>0, <1>6 DEF OnceInv, LockInv
    <3>2. PICK e \in Entity : lock[e] = r
      BY <1>6 DEF Wrote
    <3>3. x.ent = e /\ (lock[Product] = r => e = Product)
      BY <1>0, <1>4, <3>2 DEF PendingInv
    <3> QED  BY <1>0, <1>1, <1>6, <2>1, <3>1, <3>2, <3>3 DEF PendingInv, Entry
  <2>3. ProductEntries' = IF lock[Product] = r THEN ProductEntries \cup {x} ELSE ProductEntries
    BY <2>2 DEF ProductEntries
  <2>4. PendingInv'
    <3>1. \A e \in Entity, s \in Request : lock'[e] = s => e = Target(s[1])' /\ work'[s].ent = e
      BY <1>0, <1>1, <1>2 DEF PendingInv, Target
    <3>2. \A s \in Request : lock'[Product] = s =>
            work'[s].row.v = row'.v + 1 /\ (row'.del => work'[s].row.del)
      BY <1>0, <1>1, <1>2, <1>4 DEF PendingInv
    <3>3. (\A y \in log' : y.seq <= seq') /\ (\A d \in Device : cursor'[d] <= seq')
      BY <1>0, <1>1, <2>2 DEF PendingInv
    <3>4. ASSUME NEW s \in Request, Numbered(s)'
          PROVE  /\ work'[s].seq <= seq'
                 /\ \A y \in log' : y.seq # work'[s].seq
                 /\ lock'[Product] = s => \A y \in ProductEntries' : y.seq < work'[s].seq
                 /\ \A d \in Device \ {s[1]} :
                      work'[s].seq <= cursor'[d] => work'[s].seq \in overtaken'[d]
      <4>1. s # r /\ Numbered(s)
        BY <1>3, <3>4
      <4>2. work[s].seq # x.seq
        BY <1>0, <2>1, <4>1 DEF PendingInv
      <4>3. lock'[Product] = s => lock[Product] = s /\ ProductEntries' = ProductEntries
        BY <1>2, <1>4, <2>3, <4>1
      <4> QED  BY <1>0, <1>1, <2>2, <4>1, <4>2, <4>3 DEF PendingInv
    <3>5. \A s, t \in Request :
            Numbered(s)' /\ Numbered(t)' /\ s # t => work'[s].seq # work'[t].seq
      BY <1>0, <1>1, <1>3 DEF PendingInv
    <3> QED  BY <3>1, <3>2, <3>3, <3>4, <3>5 DEF PendingInv
  <2>5. SkipsOnlyOvertaken'
    <3>1. SUFFICES ASSUME NEW d \in Device, NEW y \in log', y.dev # d, y.seq <= cursor[d]
                   PROVE  y.seq \in got[d] \cup overtaken[d]
      BY <1>1 DEF SkipsOnlyOvertaken
    <3>2. CASE y \in log
      BY <1>0, <3>1, <3>2 DEF HistoryInv, SkipsOnlyOvertaken
    <3>3. CASE y = x
      BY <1>0, <2>1, <2>2, <3>1, <3>3 DEF PendingInv
    <3> QED  BY <2>2, <3>2, <3>3
  <2>6. CASE lock[Product] # r
    <3>1. UNCHANGED row /\ ProductEntries' = ProductEntries
      BY <1>1, <2>3, <2>6
    <3>2. LogFollowsVersions' /\ DeletionWins'
      BY <1>0, <3>1 DEF HistoryInv, LogFollowsVersions, DeletionWins
    <3> QED  BY <2>4, <2>5, <3>2 DEF HistoryInv
  <2>7. CASE lock[Product] = r
    <3>1. /\ row' = x.row /\ ProductEntries' = ProductEntries \cup {x}
          /\ x.row.v = row.v + 1 /\ (row.del => x.row.del) /\ row.v \in Nat
          /\ \A y \in ProductEntries : y.seq < x.seq
      BY <1>0, <1>1, <2>1, <2>3, <2>7 DEF PendingInv, Row
    <3>2. \A y \in ProductEntries : y.row.v \in 1..row.v /\ y.seq \in Nat
      BY <1>0 DEF HistoryInv, LogFollowsVersions, ProductEntries, Entry
    <3>3. DeletionWins'
      BY <1>0, <3>1 DEF HistoryInv, DeletionWins
    <3>4. LogFollowsVersions'
      <4>1. \A y, z \in ProductEntries' : y.seq < z.seq <=> y.row.v < z.row.v
        <5>1. ASSUME NEW y \in ProductEntries, NEW z \in ProductEntries
              PROVE  y.seq < z.seq <=> y.row.v < z.row.v
          BY <1>0 DEF HistoryInv, LogFollowsVersions
        <5>2. ASSUME NEW y \in ProductEntries
              PROVE  /\ y.seq < x.seq /\ y.row.v < x.row.v
                     /\ ~(x.seq < y.seq) /\ ~(x.row.v < y.row.v)
          BY <2>2, <3>1, <3>2
        <5>3. ~(x.seq < x.seq) /\ ~(x.row.v < x.row.v)
          BY <2>2, <3>1
        <5> QED  BY <3>1, <5>1, <5>2, <5>3
      <4>2. {y.row.v : y \in ProductEntries'} = 1..row'.v
        <5>1. {y.row.v : y \in ProductEntries'} = {y.row.v : y \in ProductEntries} \cup {x.row.v}
          BY <3>1
        <5>2. 1..row'.v = (1..row.v) \cup {x.row.v}
          BY <3>1
        <5> QED  BY <1>0, <5>1, <5>2 DEF HistoryInv, LogFollowsVersions
      <4>3. \E y \in ProductEntries' : y.row = row'
        BY <3>1
      <4> QED  BY <4>1, <4>2, <4>3 DEF LogFollowsVersions
    <3> QED  BY <2>4, <2>5, <3>3, <3>4 DEF HistoryInv
  <2> QED  BY <2>6, <2>7
<1> QED  BY <1>5, <1>6

\* What a pull passes it gives, or has drawn its number and is not committed.
LEMMA PullKeeps ==
    ASSUME VersionInv, NEW d \in Device, Pull(d)
    PROVE  PendingInv' /\ HistoryInv'
<1>0. /\ PendingInv /\ HistoryInv /\ seq \in Nat /\ work \in [Request -> Entry]
      /\ log \subseteq Entry /\ cursor \in [Device -> Nat]
  BY DEF VersionInv, TypeOK
<1>1. UNCHANGED <<edit, row, log, seq, lock, pc, work>>
  BY DEF Pull, dbVars
<1>2. \A r \in Request : Numbered(r)' <=> Numbered(r)
  BY <1>1 DEF Numbered, Wrote
<1>3. PICK z \in Fresh(d) : cursor'[d] = z.seq
  BY PullTakes
<1>4. z \in log /\ z.seq \in Nat /\ z.seq <= seq
  BY <1>0, <1>3 DEF Fresh, Entry, PendingInv
<1>5. ProductEntries' = ProductEntries
  BY <1>1 DEF ProductEntries
<1>6. PendingInv'
  <2>1. \A b \in Device : cursor'[b] <= seq'
    BY <1>0, <1>1, <1>3, <1>4, PullTakes DEF PendingInv
  <2>2. ASSUME NEW r \in Request, Numbered(r), NEW b \in Device \ {r[1]},
               work[r].seq <= cursor'[b]
        PROVE  work[r].seq \in overtaken'[b]
    <3>1. CASE b = d
      <4>1. work[r].seq \in InFlight(d)
        BY <2>2, <3>1 DEF Numbered, InFlight
      <4>2. work[r].seq # z.seq /\ work[r].seq \in Nat
        BY <1>0, <1>4, <2>2 DEF PendingInv, Entry
      <4>3. work[r].seq < cursor'[d]
        BY <1>3, <1>4, <2>2, <3>1, <4>2
      <4> QED  BY <3>1, <4>1, <4>3, PullTakes
    <3>2. CASE b # d
      <4>1. cursor'[b] = cursor[b] /\ overtaken[b] \subseteq overtaken'[b]
        BY <3>2, PullTakes
      <4> QED  BY <1>0, <2>2, <4>1 DEF PendingInv
    <3> QED  BY <3>1, <3>2
  <2>3. \A e \in Entity, r \in Request : lock'[e] = r => e = Target(r[1])' /\ work'[r].ent = e
    BY <1>0, <1>1 DEF PendingInv, Target
  <2> QED  BY <1>0, <1>1, <1>2, <1>5, <2>1, <2>2, <2>3 DEF PendingInv
<1>7. LogFollowsVersions' /\ DeletionWins'
  BY <1>0, <1>1, <1>5 DEF HistoryInv, LogFollowsVersions, DeletionWins
<1>8. SkipsOnlyOvertaken'
  <2>1. SUFFICES ASSUME NEW b \in Device, NEW x \in log, x.dev # b, x.seq <= cursor'[b]
                 PROVE  x.seq \in got'[b] \cup overtaken'[b]
    BY <1>1 DEF SkipsOnlyOvertaken
  <2>2. got[b] \subseteq got'[b] /\ overtaken[b] \subseteq overtaken'[b]
    BY PullTakes
  <2>3. CASE x.seq <= cursor[b]
    BY <1>0, <2>1, <2>2, <2>3 DEF HistoryInv, SkipsOnlyOvertaken
  <2>4. CASE ~(x.seq <= cursor[b])
    <3>1. b = d
      BY <2>1, <2>4, PullTakes
    <3>2. x \in Fresh(d)
      BY <1>0, <2>1, <2>4, <3>1 DEF Fresh, Entry
    <3> QED  BY <3>1, <3>2, PullTakes
  <2> QED  BY <2>3, <2>4
<1> QED  BY <1>6, <1>7, <1>8 DEF HistoryInv

LEMMA VersionStep == VersionInv /\ [Next]_vars => VersionInv'
<1> SUFFICES ASSUME VersionInv, [Next]_vars PROVE VersionInv'
  OBVIOUS
<1>1. OnceInv' /\ TypeOK'
  BY OnceStep, TypeStep DEF VersionInv
<1>2. PendingInv' /\ HistoryInv'
  <2>1. CASE UNCHANGED vars
    <3>1. \A s \in Request : Numbered(s)' => Numbered(s)
      BY <2>1 DEF vars, Numbered, Wrote
    <3> QED  BY <2>1, <3>1, QuietKeeps DEF vars, dbVars, pullVars
  <2>2. ASSUME NEW d \in Device, Pull(d) PROVE PendingInv' /\ HistoryInv'
    BY <2>2, PullKeeps
  <2>3. ASSUME NEW r \in Request, Handle(r) \/ Send(r[1], r[2]) PROVE PendingInv' /\ HistoryInv'
    BY <2>3, QuietStep, WriteKeeps, LogKeeps, CommitKeeps DEF Handle
  <2> QED  BY <2>1, <2>2, <2>3 DEF Next
<1> QED  BY <1>1, <1>2 DEF VersionInv

\* At READ COMMITTED, for any number of transactions: the log of a row is its versions in
\* order, none lost under another, a deletion once published stands, and a pull skips only what
\* had drawn its number without being committed (applyMutable, pull).
THEOREM VersionsHoldCorrect == Spec => []VersionsHold
<1>1. VersionInv => VersionsHold
  BY DEF VersionInv, HistoryInv, VersionsHold
<1> QED  BY <1>1, VersionInit, VersionStep, PTL DEF Spec
=============================================================================
