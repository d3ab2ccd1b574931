----------------------------- MODULE ShopProofs -----------------------------
(***************************************************************************)
(* What is proved of a till's restaurant, of its counter and of its books, *)
(* for any tariff, promotions, customers, baskets, screens, phones, tables *)
(* and bounds: of RestaurantOrders, of CartRules and SaleCounter, then of  *)
(* DayBooks; and that module MCShop runs each of them.                     *)
(***************************************************************************)
EXTENDS MCShop, SumTheorems, SequenceTheorems, TLAPS


-----------------------------------------------------------------------------
(* Types.                                                                  *)

LEMMA IdleType == Idle \in Operations
BY BoundsAssumption DEF Idle, Operations, Steps, Times

LEMMA InitType == Init => TypeOK
BY IdleType, BoundsAssumption
   DEF Init, TypeOK, OrderRows, LineRows, Unborn, Times

\* An operation that begins, goes on or ends keeps the table of operations typed.
LEMMA OpType ==
  ASSUME TypeOK, NEW c \in Clerks, NEW r \in Operations, op' = [op EXCEPT ![c] = r]
  PROVE  op' \in [Clerks -> Operations]
BY DEF TypeOK

\* What the statements write in a line.
LEMMA RowTypes ==
  ASSUME NEW r \in LineRows
  PROVE  /\ \A o \in Orders \cup {None} : [r EXCEPT !.is = "there", !.order = o] \in LineRows
         /\ [r EXCEPT !.is = "gone"] \in LineRows
         /\ [r EXCEPT !.voided = TRUE] \in LineRows
         /\ \A t \in Times : [r EXCEPT !.sent = t] \in LineRows
         /\ \A t \in Times : [r EXCEPT !.served = t] \in LineRows
         /\ \A t \in Times : [r EXCEPT !.served = IF @ = 0 THEN t ELSE @] \in LineRows
         /\ \A s \in Sales \cup {None} :
              [r EXCEPT !.sale = IF @ = None THEN s ELSE @] \in LineRows
<1>1. \A o \in Orders \cup {None} : [r EXCEPT !.is = "there", !.order = o] \in LineRows
  BY DEF LineRows
<1>2. [r EXCEPT !.is = "gone"] \in LineRows
  BY DEF LineRows
<1>3. [r EXCEPT !.voided = TRUE] \in LineRows
  BY DEF LineRows
<1>4. \A t \in Times : [r EXCEPT !.sent = t] \in LineRows /\ [r EXCEPT !.served = t] \in LineRows
  BY DEF LineRows
<1>5. \A t \in Times : [r EXCEPT !.served = IF @ = 0 THEN t ELSE @] \in LineRows
  BY DEF LineRows
<1>6. \A s \in Sales \cup {None} : [r EXCEPT !.sale = IF @ = None THEN s ELSE @] \in LineRows
  BY DEF LineRows
<1> QED BY <1>1, <1>2, <1>3, <1>4, <1>5, <1>6

LEMMA UnbornType == Unborn \in LineRows
BY BoundsAssumption DEF Unborn, LineRows, Times

\* A write of one line keeps the table of lines typed.
LEMMA SetType ==
  ASSUME TypeOK, NEW l \in Lines, NEW r \in LineRows, Set(l, r)
  PROVE  line' \in [Lines -> LineRows]
BY DEF TypeOK, Set

LEMMA AnyClerkType ==
  ASSUME TypeOK, NEW c \in Clerks, AnyClerk(c)
  PROVE  TypeOK'
<1> USE BoundsAssumption DEF Times
<1>1. ASSUME NEW t \in Tables \cup {None}, OpenRead(c, t) PROVE TypeOK'
  <2>1. [Idle EXCEPT !.step = "open", !.table = t] \in Operations
    BY IdleType DEF Idle, Operations, Steps
  <2> QED BY <1>1, <2>1 DEF OpenRead, Begin, Begins, TypeOK
<1>2. ASSUME NEW o \in Orders, AddRead(c, o) PROVE TypeOK'
  <2>1. [Idle EXCEPT !.step = "add", !.order = o] \in Operations
    BY IdleType DEF Idle, Operations, Steps
  <2> QED BY <1>2, <2>1 DEF AddRead, Begin, Begins, TypeOK
<1>3. ASSUME NEW l \in Lines, RemoveRead(c, l) PROVE TypeOK'
  <2>1. [Idle EXCEPT !.step = IF line[l].sent = 0 THEN "delete" ELSE "void", !.line = l]
          \in Operations
    BY IdleType DEF Idle, Operations, Steps
  <2> QED BY <1>3, <2>1 DEF RemoveRead, Begin, Begins, TypeOK
<1>4. CASE OpenInsert(c)
  <2>1. op[c].table \in Tables \cup {None}
    BY DEF TypeOK, Operations
  <2>2. order' \in [Orders -> OrderRows]
    BY <1>4, <2>1 DEF OpenInsert, TypeOK, OrderRows
  <2> QED BY <1>4, <2>2, IdleType DEF OpenInsert, Done, TypeOK
<1>5. CASE OpenRefused(c) \/ CloseNothing(c)
  BY <1>5, IdleType DEF OpenRefused, CloseNothing, Done, TypeOK
<1>6. CASE AddInsert(c)
  <2>1. op[c].order \in Orders \cup {None}
    BY DEF TypeOK, Operations
  <2>2. [Unborn EXCEPT !.is = "there", !.order = op[c].order] \in LineRows
    BY <2>1, UnbornType, RowTypes
  <2> QED BY <1>6, <2>2, IdleType DEF AddInsert, Done, TypeOK
<1>7. CASE RemoveDelete(c) \/ RemoveVoid(c)
  <2>0. CASE op[c].line \notin Lines
    <3>1. line' = line
      BY <1>7, <2>0 DEF RemoveDelete, RemoveVoid, Set, TypeOK
    <3> QED BY <1>7, <3>1, IdleType DEF RemoveDelete, RemoveVoid, Done, TypeOK
  <2>1. CASE op[c].line \in Lines
    <3>1. line[op[c].line] \in LineRows
      BY <2>1 DEF TypeOK
    <3>2. line' \in [Lines -> LineRows]
      BY <1>7, <2>1, <3>1, RowTypes, SetType DEF RemoveDelete, RemoveVoid
    <3> QED BY <1>7, <3>2, IdleType DEF RemoveDelete, RemoveVoid, Done, TypeOK
  <2> QED BY <2>0, <2>1
<1>8. CASE Close(c)
  <2>1. order' \in [Orders -> OrderRows]
    BY <1>8 DEF Close, TypeOK, OrderRows
  <2> QED BY <1>8, <2>1, IdleType DEF Close, Done, TypeOK
<1>9. CASE StatementFails(c)
  <2>1. HalfDone(c) \subseteq Lines
    BY DEF HalfDone, TypeOK, Operations
  <2> QED BY <1>9, <2>1, IdleType DEF StatementFails, Done, TypeOK
<1> QED BY <1>1, <1>2, <1>3, <1>4, <1>5, <1>6, <1>7, <1>8, <1>9 DEF AnyClerk

LEMMA TillType ==
  ASSUME TypeOK, NEW c \in Screens, Till(c)
  PROVE  TypeOK'
<1> USE BoundsAssumption DEF Times
<1>0. c \in Clerks /\ op[c] \in Operations
  BY DEF Clerks, TypeOK
<1>b. \A s \in {"close", "settle"} : [Idle EXCEPT !.step = s, !.order = op[c].order] \in Operations
  BY <1>0, IdleType DEF Idle, Operations, Steps
<1>c. \A l : [op[c] EXCEPT !.todo = @ \ {l}] \in Operations
  BY <1>0 DEF Operations
<1>1. ASSUME NEW o \in Orders, SendRead(c, o) PROVE TypeOK'
  <2>1. PICK S \in SUBSET ItemsToSend(o) :
          Begin(c, [Idle EXCEPT !.step = "send", !.order = o, !.todo = S, !.held = S, !.at = clock'])
    BY <1>1 DEF SendRead
  <2>2. clock' \in Times
    BY <2>1 DEF Begin, Begins, TypeOK
  <2>3. S \in SUBSET Lines
    BY DEF ItemsToSend, ItemsOf
  <2>4. [Idle EXCEPT !.step = "send", !.order = o, !.todo = S, !.held = S, !.at = clock']
          \in Operations
    BY <2>2, <2>3, IdleType DEF Idle, Operations, Steps
  <2> QED BY <1>0, <1>1, <2>1, <2>2, <2>4 DEF SendRead, Begin, TypeOK
<1>2. ASSUME NEW o \in Orders, DeliverRead(c, o) PROVE TypeOK'
  <2>1. PICK S \in SUBSET ItemsToDeliver(o) :
          Begin(c, [Idle EXCEPT !.step = "serve", !.order = o, !.todo = S, !.at = clock'])
    BY <1>2 DEF DeliverRead
  <2>2. clock' \in Times
    BY <2>1 DEF Begin, Begins, TypeOK
  <2>3. S \in SUBSET Lines
    BY DEF ItemsToDeliver, ItemsOf
  <2>4. [Idle EXCEPT !.step = "serve", !.order = o, !.todo = S, !.at = clock'] \in Operations
    BY <2>2, <2>3, IdleType DEF Idle, Operations, Steps
  <2> QED BY <1>0, <1>2, <2>1, <2>2, <2>4 DEF DeliverRead, Begin, TypeOK
<1>3. ASSUME NEW o \in Orders, ReleaseRead(c, o) PROVE TypeOK'
  <2>1. ActiveItems(o) \in SUBSET Lines
    BY DEF ActiveItems, ItemsOf
  <2>2. [Idle EXCEPT !.step = IF ActiveItems(o) = {} THEN "close" ELSE "release",
                     !.order = o, !.todo = ActiveItems(o)] \in Operations
    BY <2>1, IdleType DEF Idle, Operations, Steps
  <2> QED BY <1>0, <1>3, <2>2 DEF ReleaseRead, Begin, Begins, TypeOK
<1>4. ASSUME NEW o \in Orders, PayLook(c, o) PROVE TypeOK'
  <2>1. PICK S \in SUBSET ActiveItems(o) :
          /\ Begin(c, [Idle EXCEPT !.step = "cart", !.order = o, !.todo = S])
          /\ twice' = twice \cup (S \cap BeingPaid)
    BY <1>4 DEF PayLook
  <2>2. S \in SUBSET Lines
    BY DEF ActiveItems, ItemsOf
  <2>3. [Idle EXCEPT !.step = "cart", !.order = o, !.todo = S] \in Operations
    BY <2>2, IdleType DEF Idle, Operations, Steps
  <2>4. twice' \subseteq Lines
    BY <2>1, <2>2 DEF TypeOK
  <2>5. op' \in [Clerks -> Operations] /\ clock' \in Times
    BY <1>0, <2>1, <2>3 DEF Begin, Begins, TypeOK
  <2>6. UNCHANGED <<order, line, sold, bells, printed, faults, cut>>
    BY <1>4 DEF PayLook
  <2> QED BY <2>4, <2>5, <2>6 DEF TypeOK
<1>5. CASE SendMark(c)
  <2>1. PICK l \in op[c].todo :
          /\ Set(l, [line[l] EXCEPT !.sent = op[c].at])
          /\ Pass(c, l, op' = [op EXCEPT ![c] = [Idle EXCEPT !.step = "print", !.held = op[c].held]])
    BY <1>5 DEF SendMark
  <2>2. line' \in [Lines -> LineRows]
    <3>1. l \in Lines /\ line[l] \in LineRows /\ op[c].at \in Times /\ op[c].sale \in Sales \cup {None}
      BY <1>0 DEF TypeOK, Operations
    <3> QED BY <2>1, <3>1, RowTypes, SetType
  <2>3. [Idle EXCEPT !.step = "print", !.held = op[c].held] \in Operations
    BY <1>0, IdleType DEF Idle, Operations, Steps
  <2>4. op' \in [Clerks -> Operations]
    <3>1. CASE op[c].todo = {l}
      <4>1. op' = [op EXCEPT ![c] = [Idle EXCEPT !.step = "print", !.held = op[c].held]]
        BY <2>1, <3>1 DEF Pass
      <4> QED BY <1>0, <2>3, <4>1, OpType
    <3>2. CASE op[c].todo # {l}
      <4>1. op' = [op EXCEPT ![c].todo = @ \ {l}]
        BY <2>1, <3>2 DEF Pass
      <4> QED BY <1>0, <1>c, <4>1 DEF TypeOK
    <3> QED BY <3>1, <3>2
  <2> QED BY <1>5, <2>2, <2>4 DEF SendMark, TypeOK
<1>6. CASE PrintTicket(c)
  BY <1>0, <1>6, IdleType DEF PrintTicket, Done, TypeOK, Operations
<1>7. CASE DeliverMark(c)
  <2>1. PICK l \in op[c].todo :
          /\ Set(l, [line[l] EXCEPT !.served = IF @ = 0 THEN op[c].at ELSE @])
          /\ Pass(c, l, Done(c))
    BY <1>7 DEF DeliverMark
  <2>2. line' \in [Lines -> LineRows]
    <3>1. l \in Lines /\ line[l] \in LineRows /\ op[c].at \in Times /\ op[c].sale \in Sales \cup {None}
      BY <1>0 DEF TypeOK, Operations
    <3> QED BY <2>1, <3>1, RowTypes, SetType
  <2>3. op' \in [Clerks -> Operations]
    BY <1>0, <1>c, <2>1, IdleType DEF Pass, Done, TypeOK
  <2> QED BY <1>7, <2>2, <2>3 DEF DeliverMark, TypeOK
<1>8. CASE ReleaseVoid(c)
  <2>1. PICK l \in op[c].todo :
          Set(l, [line[l] EXCEPT !.voided = TRUE]) /\ Pass(c, l, Goto(c, "close"))
    BY <1>8 DEF ReleaseVoid
  <2>2. line' \in [Lines -> LineRows]
    <3>1. l \in Lines /\ line[l] \in LineRows /\ op[c].at \in Times /\ op[c].sale \in Sales \cup {None}
      BY <1>0 DEF TypeOK, Operations
    <3> QED BY <2>1, <3>1, RowTypes, SetType
  <2>3. op' \in [Clerks -> Operations]
    BY <1>0, <1>b, <1>c, <2>1 DEF Pass, Goto, TypeOK
  <2> QED BY <1>8, <2>2, <2>3 DEF ReleaseVoid, TypeOK
<1>9. CASE PayCart(c)
  <2>1. [op[c] EXCEPT !.step = "record", !.held = op[c].todo \cap ActiveItems(op[c].order)]
          \in Operations
    BY <1>0 DEF Operations, Steps
  <2>2. op' \in [Clerks -> Operations]
    BY <1>0, <1>9, <2>1, IdleType DEF PayCart, Done, TypeOK
  <2> QED BY <1>9, <2>2 DEF PayCart, TypeOK
<1>10. CASE PayRecord(c)
  <2>1. PICK s \in Sales :
          /\ sold' = [sold EXCEPT ![s] = op[c].held]
          /\ op' = [op EXCEPT ![c].step = "bill", ![c].sale = s]
    BY <1>10 DEF PayRecord
  <2>2. [op[c] EXCEPT !.step = "bill", !.sale = s] \in Operations
    BY <1>0 DEF Operations, Steps
  <2>3. op' \in [Clerks -> Operations] /\ sold' \in [Sales -> SUBSET Lines]
    BY <1>0, <2>1, <2>2 DEF TypeOK, Operations
  <2> QED BY <1>10, <2>3 DEF PayRecord, TypeOK
<1>11. CASE MarkBilled(c)
  <2>1. PICK l \in op[c].todo :
          /\ Set(l, [line[l] EXCEPT !.sale = IF @ = None THEN op[c].sale ELSE @])
          /\ Pass(c, l, Goto(c, "settle"))
    BY <1>11 DEF MarkBilled
  <2>2. line' \in [Lines -> LineRows]
    <3>1. l \in Lines /\ line[l] \in LineRows /\ op[c].at \in Times /\ op[c].sale \in Sales \cup {None}
      BY <1>0 DEF TypeOK, Operations
    <3> QED BY <2>1, <3>1, RowTypes, SetType
  <2>3. op' \in [Clerks -> Operations]
    BY <1>0, <1>b, <1>c, <2>1 DEF Pass, Goto, TypeOK
  <2> QED BY <1>11, <2>2, <2>3 DEF MarkBilled, TypeOK
<1>12. CASE Settle(c)
  <2>1. op' \in [Clerks -> Operations]
    BY <1>0, <1>12, <1>b, IdleType DEF Settle, Goto, Done, TypeOK
  <2> QED BY <1>12, <2>1 DEF Settle, TypeOK
<1> QED BY <1>1, <1>2, <1>3, <1>4, <1>5, <1>6, <1>7, <1>8, <1>9, <1>10, <1>11, <1>12 DEF Till

LEMMA PhoneType ==
  ASSUME TypeOK, NEW p \in Phones, Phone(p)
  PROVE  TypeOK'
<1> USE BoundsAssumption DEF Times
<1>0. p \in Clerks
  BY DEF Clerks
<1>1. ASSUME NEW o \in Orders, PhoneSend(p, o) PROVE TypeOK'
  <2>1. PICK S \in SUBSET ItemsToSend(o) :
          /\ line' = [l \in Lines |-> IF l \in S THEN [line[l] EXCEPT !.sent = clock'] ELSE line[l]]
          /\ \/ Notify(o, clock') /\ UNCHANGED cut
             \/ cut' = cut \cup S /\ UNCHANGED bells
    BY <1>1 DEF PhoneSend
  <2>2. clock' \in Times /\ S \subseteq Lines
    BY <1>1 DEF PhoneSend, Begins, TypeOK, ItemsToSend, ItemsOf
  <2>3. line' \in [Lines -> LineRows]
    BY <2>1, <2>2, RowTypes DEF TypeOK
  <2>4. bells' \subseteq [order : Orders, at : Times] /\ cut' \subseteq Lines
    BY <2>1, <2>2 DEF TypeOK, Notify
  <2> QED BY <1>1, <2>2, <2>3, <2>4 DEF PhoneSend, TypeOK
<1>2. ASSUME NEW o \in Orders, PhoneDeliver(p, o) PROVE TypeOK'
  <2>1. PICK S \in SUBSET ItemsToDeliver(o) :
          line' = [l \in Lines |-> IF l \in S THEN [line[l] EXCEPT !.served = clock'] ELSE line[l]]
    BY <1>2 DEF PhoneDeliver
  <2>2. clock' \in Times
    BY <1>2 DEF PhoneDeliver, Begins, TypeOK
  <2>3. line' \in [Lines -> LineRows]
    BY <2>1, <2>2, RowTypes DEF TypeOK
  <2> QED BY <1>2, <2>2, <2>3 DEF PhoneDeliver, TypeOK
<1>3. ASSUME NEW o \in Orders, PhoneRelease(p, o) PROVE TypeOK'
  <2>1. line' \in [Lines -> LineRows]
    BY <1>3, RowTypes DEF PhoneRelease, TypeOK
  <2>2. [Idle EXCEPT !.step = "closeIfOpen", !.order = o] \in Operations
    BY IdleType DEF Idle, Operations, Steps
  <2> QED BY <1>0, <1>3, <2>1, <2>2 DEF PhoneRelease, Begin, Begins, TypeOK
<1>4. ASSUME NEW o \in Orders, NEW t \in Tables, MoveRead(p, o, t) PROVE TypeOK'
  <2>1. [Idle EXCEPT !.step = "move", !.order = o, !.table = t] \in Operations
    BY IdleType DEF Idle, Operations, Steps
  <2> QED BY <1>0, <1>4, <2>1 DEF MoveRead, Begin, Begins, TypeOK
<1>5. ASSUME NEW l \in Lines, PhoneUndo(p, l) PROVE TypeOK'
  <2>1. 0 \in Times
    OBVIOUS
  <2>2. line' \in [Lines -> LineRows]
    BY <1>5, <2>1, RowTypes DEF PhoneUndo, TypeOK
  <2> QED BY <1>5, <2>2 DEF PhoneUndo, Begins, TypeOK
<1>6. CASE MoveWrite(p)
  <2>1. op[p].table \in Tables \cup {None}
    BY <1>0 DEF TypeOK, Operations
  <2>2. order' \in [Orders -> OrderRows]
    BY <1>6, <2>1 DEF MoveWrite, TypeOK, OrderRows
  <2> QED BY <1>0, <1>6, <2>2, IdleType DEF MoveWrite, Done, TypeOK
<1> QED BY <1>1, <1>2, <1>3, <1>4, <1>5, <1>6 DEF Phone

LEMMA OthersType ==
  ASSUME TypeOK, KitchenTicket \/ Crash
  PROVE  TypeOK'
<1>1. CASE KitchenTicket
  BY <1>1 DEF KitchenTicket, TypeOK, ItemsOf
<1>2. CASE Crash
  <2>1. \A c \in Clerks : HalfDone(c) \subseteq Lines
    BY DEF HalfDone, TypeOK, Operations
  <2>2. cut' \subseteq Lines
    <3>1. UNION {HalfDone(c) : c \in Clerks} \subseteq Lines
      BY <2>1
    <3> DEFINE A == UNION {HalfDone(c) : c \in Clerks}
               B == {l \in Lines : [order |-> line[l].order, at |-> line[l].sent] \in bells}
    <3>2. cut' = cut \cup A \cup B
      BY <1>2 DEF Crash
    <3>3. A \subseteq Lines /\ B \subseteq Lines /\ cut \subseteq Lines
      BY <3>1 DEF TypeOK
    <3> HIDE DEF A, B
    <3> QED BY <3>2, <3>3
  <2>3. op' \in [Clerks -> Operations]
    BY <1>2, IdleType DEF Crash
  <2>4. faults' \in 0..MaxFaults
    BY <1>2, BoundsAssumption DEF Crash, TypeOK
  <2> QED BY <1>2, <2>2, <2>3, <2>4 DEF Crash, TypeOK
<1> QED BY <1>1, <1>2

\* Every reachable state is well typed.
THEOREM TypeCorrect == Spec => []TypeOK
<1>1. TypeOK /\ [Next]_vars => TypeOK'
  <2> SUFFICES ASSUME TypeOK, [Next]_vars PROVE TypeOK'
    OBVIOUS
  <2>1. CASE UNCHANGED vars
    BY <2>1 DEF vars, TypeOK
  <2> QED BY <2>1, AnyClerkType, TillType, PhoneType, OthersType DEF Next
<1> QED BY <1>1, InitType, PTL DEF Spec

-----------------------------------------------------------------------------
(* One open order per table: the index alone keeps it, whatever was read.  *)

\* A step that leaves the orders alone, closes one, or writes a row the index allows.
LEMMA IndexKept ==
  ASSUME TypeOK, OneOpenPerTable,
         \/ order' = order
         \/ \E o \in Orders : order' = [order EXCEPT ![o].status = "closed"]
         \/ \E o \in Orders, t \in Tables \cup {None}, st \in {"none", "open", "closed"} :
              /\ st # "open" \/ IndexAllows(o, t)
              /\ order' = [order EXCEPT ![o] = [status |-> st, table |-> t]]
  PROVE  OneOpenPerTable'
<1> SUFFICES ASSUME NEW t \in Tables, NEW p \in Orders, NEW q \in Orders,
                    order'[p].status = "open", order'[p].table = t,
                    order'[q].status = "open", order'[q].table = t
             PROVE  p = q
  BY DEF OneOpenPerTable, OpenOrdersOf
<1>1. CASE order' = order
  BY <1>1 DEF OneOpenPerTable, OpenOrdersOf
<1>2. ASSUME NEW o \in Orders, order' = [order EXCEPT ![o].status = "closed"] PROVE p = q
  <2>1. p # o /\ q # o
    BY <1>2 DEF TypeOK, OrderRows
  <2>2. order'[p] = order[p] /\ order'[q] = order[q]
    BY <1>2, <2>1 DEF TypeOK
  <2> QED BY <2>2 DEF OneOpenPerTable, OpenOrdersOf
<1>3. ASSUME NEW o \in Orders, NEW u \in Tables \cup {None},
             NEW st \in {"none", "open", "closed"}, st # "open" \/ IndexAllows(o, u),
             order' = [order EXCEPT ![o] = [status |-> st, table |-> u]]
      PROVE  p = q
  <2>1. \A x \in Orders : x # o => order'[x] = order[x]
    BY <1>3 DEF TypeOK
  <2>2. order'[o] = [status |-> st, table |-> u]
    BY <1>3 DEF TypeOK
  <2>3. CASE p # o /\ q # o
    BY <2>1, <2>3 DEF OneOpenPerTable, OpenOrdersOf
  <2>4. CASE p = o \/ q = o
    <3>1. st = "open" /\ u = t
      BY <2>2, <2>4
    <3>2. OpenOrdersOf(t) \subseteq {o}
      BY <1>3, <3>1, IdsAssumption DEF IndexAllows
    <3> QED BY <2>1, <2>4, <3>2 DEF OpenOrdersOf
  <2> QED BY <2>3, <2>4
<1> QED BY <1>1, <1>2, <1>3

\* A table has at most one open order.
THEOREM OneOpenPerTableCorrect == Spec => []OneOpenPerTable
<1>1. Init => OneOpenPerTable
  BY DEF Init, OneOpenPerTable, OpenOrdersOf
<1>2. TypeOK /\ OneOpenPerTable /\ [Next]_vars => OneOpenPerTable'
  <2> SUFFICES ASSUME TypeOK, OneOpenPerTable, [Next]_vars PROVE OneOpenPerTable'
    OBVIOUS
  <2>1. ASSUME NEW c \in Clerks, OpenInsert(c) PROVE OneOpenPerTable'
    <3>1. op[c].table \in Tables \cup {None}
      BY DEF TypeOK, Operations
    <3> QED BY <2>1, <3>1, IndexKept DEF OpenInsert
  <2>2. ASSUME NEW c \in Clerks, Close(c) PROVE OneOpenPerTable'
    <3>1. op[c].order \in Orders \/ order' = order
      BY <2>2 DEF Close, TypeOK
    <3> QED BY <2>2, <3>1, IndexKept DEF Close
  <2>3. ASSUME NEW p \in Phones, MoveWrite(p) PROVE OneOpenPerTable'
    <3> DEFINE o == op[p].order
               t == op[p].table
    <3>0. p \in Clerks
      BY DEF Clerks
    <3>1. o \in Orders \/ order' = order
      BY <2>3 DEF MoveWrite, TypeOK
    <3>2. CASE order' = order
      BY <3>2, IndexKept
    <3>3. CASE o \in Orders /\ order' # order
      <4>1. order' = [order EXCEPT ![o].table = t] /\ (order[o].status # "open" \/ IndexAllows(o, t))
        BY <2>3, <3>3 DEF MoveWrite
      <4>2. order' = [order EXCEPT ![o] = [status |-> order[o].status, table |-> t]]
        <5>1. order[o] \in OrderRows
          BY <3>3 DEF TypeOK
        <5>2. [order[o] EXCEPT !.table = t] = [status |-> order[o].status, table |-> t]
          BY <5>1 DEF OrderRows
        <5> QED BY <3>3, <4>1, <5>2 DEF TypeOK
      <4>3. t \in Tables \cup {None} /\ order[o].status \in {"none", "open", "closed"}
        BY <3>0, <3>3 DEF TypeOK, OrderRows, Operations
      <4> QED BY <3>3, <4>1, <4>2, <4>3, IndexKept
    <3> QED BY <3>1, <3>2, <3>3
  <2>4. ASSUME order' = order PROVE OneOpenPerTable'
    BY <2>4, IndexKept
  <2>5. [Next]_vars => \/ \E c \in Clerks : OpenInsert(c) \/ Close(c)
                       \/ \E p \in Phones : MoveWrite(p)
                       \/ order' = order
    BY DEF Next, AnyClerk, Till, Phone, vars, OpenRead, OpenRefused, AddRead, AddInsert,
           RemoveRead, RemoveDelete, RemoveVoid, CloseNothing, StatementFails, SendRead,
           SendMark, PrintTicket, DeliverRead, DeliverMark, ReleaseRead, ReleaseVoid, PayLook,
           PayCart, PayRecord, MarkBilled, Settle, PhoneSend, PhoneDeliver, PhoneUndo,
           PhoneRelease, MoveRead, KitchenTicket, Crash
  <2> QED BY <2>1, <2>2, <2>3, <2>4, <2>5
<1> QED BY <1>1, <1>2, TypeCorrect, PTL DEF Spec

-----------------------------------------------------------------------------
(* The kitchen's tickets.                                                  *)

Sending == {"send", "print"}

\* What remains to be marked was read.
ReadFirst == \A c \in Clerks : op[c].step \in Sending => op[c].todo \subseteq op[c].held

PrintInv == TypeOK /\ ReadFirst /\ SentIsPrinted

\* A line the kitchen must have, and where its ticket is.
Owed(l) == There(l) /\ line[l].sent # 0 /\ ~line[l].voided

Covered(l) ==
  \/ l \in printed \cup cut
  \/ [order |-> line[l].order, at |-> line[l].sent] \in bells
  \/ \E c \in Screens : op[c].step \in Sending /\ l \in op[c].held \ op[c].todo

\* A step that takes no ticket away and sees to the ticket of what it sends.
LEMMA Undisturbed ==
  ASSUME PrintInv,
         \A l \in Lines : Owed(l)' => \/ Covered(l)'
                                      \/ Owed(l) /\ line'[l].sent = line[l].sent
                                                 /\ line'[l].order = line[l].order,
         printed \subseteq printed', cut \subseteq cut', bells \subseteq bells',
         \A c \in Clerks : op'[c].step \in Sending => op'[c].todo \subseteq op'[c].held,
         \A c \in Screens : op[c].step \in Sending =>
             \A l \in op[c].held \ op[c].todo :
                 \/ l \in printed' \cup cut'
                 \/ op'[c].step \in Sending /\ l \in op'[c].held \ op'[c].todo
  PROVE  ReadFirst' /\ SentIsPrinted'
<1>1. ReadFirst'
  BY DEF ReadFirst
<1>2. ASSUME NEW l \in Lines, Owed(l)' PROVE Covered(l)'
  <2>1. CASE Covered(l)'
    BY <2>1
  <2>2. CASE Owed(l) /\ line'[l].sent = line[l].sent /\ line'[l].order = line[l].order
    <3>1. Covered(l)
      BY <2>2 DEF PrintInv, SentIsPrinted, Owed, Covered, Sending
    <3> QED BY <2>2, <3>1 DEF Covered
  <2> QED BY <1>2, <2>1, <2>2
<1> QED BY <1>1, <1>2 DEF SentIsPrinted, Owed, Covered, Sending

LEMMA AnyClerkPrint ==
  ASSUME PrintInv, NEW c \in Clerks, AnyClerk(c)
  PROVE  ReadFirst' /\ SentIsPrinted'
<1> USE DEF Sending
<1>0. TypeOK /\ ReadFirst
  BY DEF PrintInv
<1>1. CASE \/ \E t \in Tables \cup {None} : OpenRead(c, t)
           \/ \E o \in Orders : AddRead(c, o)
           \/ \E l \in Lines : RemoveRead(c, l)
  <2>1. op[c].step = "idle" /\ UNCHANGED <<line, bells, printed, cut>>
    BY <1>1 DEF OpenRead, AddRead, RemoveRead, Begin, Begins, At
  <2>2. op'[c].step \notin Sending /\ \A d \in Clerks : d # c => op'[d] = op[d]
    <3>1. ASSUME NEW t \in Tables \cup {None}, OpenRead(c, t) PROVE op'[c].step \notin Sending /\ \A d \in Clerks : d # c => op'[d] = op[d]
      BY <1>0, <3>1 DEF OpenRead, Begin, TypeOK, Idle
    <3>2. ASSUME NEW o \in Orders, AddRead(c, o) PROVE op'[c].step \notin Sending /\ \A d \in Clerks : d # c => op'[d] = op[d]
      BY <1>0, <3>2 DEF AddRead, Begin, TypeOK, Idle
    <3>3. ASSUME NEW l \in Lines, RemoveRead(c, l) PROVE op'[c].step \notin Sending /\ \A d \in Clerks : d # c => op'[d] = op[d]
      BY <1>0, <3>3 DEF RemoveRead, Begin, TypeOK, Idle
    <3> QED BY <1>1, <3>1, <3>2, <3>3
  <2> QED BY <1>0, <2>1, <2>2, Undisturbed DEF Owed, There, ReadFirst, Clerks
<1>2. CASE OpenInsert(c) \/ OpenRefused(c) \/ Close(c) \/ CloseNothing(c)
  <2>1. op[c].step \notin Sending /\ UNCHANGED <<line, bells, printed, cut>>
    BY <1>2 DEF OpenInsert, OpenRefused, Close, CloseNothing, At
  <2>2. op'[c].step \notin Sending /\ \A d \in Clerks : d # c => op'[d] = op[d]
    BY <1>0, <1>2 DEF OpenInsert, OpenRefused, Close, CloseNothing, Done, TypeOK, Idle
  <2> QED BY <1>0, <2>1, <2>2, Undisturbed DEF Owed, There, ReadFirst, Clerks
<1>3. CASE AddInsert(c) \/ RemoveDelete(c) \/ RemoveVoid(c)
  <2>1. op[c].step \notin Sending /\ UNCHANGED <<bells, printed, cut>>
    BY <1>3 DEF AddInsert, RemoveDelete, RemoveVoid, At
  <2>2. op'[c].step \notin Sending /\ \A d \in Clerks : d # c => op'[d] = op[d]
    BY <1>0, <1>3 DEF AddInsert, RemoveDelete, RemoveVoid, Done, TypeOK, Idle
  <2>3. \A l \in Lines : Owed(l)' => Owed(l) /\ line'[l].sent = line[l].sent
                                           /\ line'[l].order = line[l].order
    <3>1. CASE AddInsert(c)
      BY <1>0, <3>1 DEF AddInsert, Owed, There, TypeOK, LineRows, Unborn
    <3>2. CASE RemoveDelete(c)
      BY <1>0, <3>2 DEF RemoveDelete, Set, Owed, There, TypeOK, LineRows
    <3>3. CASE RemoveVoid(c)
      BY <1>0, <3>3 DEF RemoveVoid, Set, Owed, There, TypeOK, LineRows
    <3> QED BY <1>3, <3>1, <3>2, <3>3
  <2> QED BY <1>0, <2>1, <2>2, <2>3, Undisturbed DEF ReadFirst, Clerks
<1>4. CASE StatementFails(c)
  <2>1. UNCHANGED <<line, bells, printed>> /\ cut' = cut \cup HalfDone(c)
    BY <1>4 DEF StatementFails
  <2>2. op'[c].step \notin Sending /\ \A d \in Clerks : d # c => op'[d] = op[d]
    BY <1>0, <1>4 DEF StatementFails, Done, TypeOK, Idle
  <2>3. op[c].step \in Sending => HalfDone(c) = op[c].held \ op[c].todo
    BY DEF HalfDone
  <2> QED BY <1>0, <2>1, <2>2, <2>3, Undisturbed DEF Owed, There, ReadFirst, Clerks
<1> QED BY <1>1, <1>2, <1>3, <1>4 DEF AnyClerk

LEMMA TillPrint ==
  ASSUME PrintInv, NEW c \in Screens, Till(c)
  PROVE  ReadFirst' /\ SentIsPrinted'
<1> USE DEF Sending
<1>0. TypeOK /\ ReadFirst /\ c \in Clerks
  BY DEF PrintInv, Clerks
<1>1. CASE SendMark(c)
  <2>1. PICK l \in op[c].todo :
          /\ Set(l, [line[l] EXCEPT !.sent = op[c].at])
          /\ Pass(c, l, op' = [op EXCEPT ![c] = [Idle EXCEPT !.step = "print", !.held = op[c].held]])
    BY <1>1 DEF SendMark
  <2>2. op[c].step = "send" /\ l \in op[c].held /\ l \in Lines /\ op[c].todo \subseteq op[c].held
    BY <1>0, <1>1 DEF SendMark, At, ReadFirst, TypeOK, Operations
  <2>3. /\ op'[c].step \in Sending /\ op'[c].todo \subseteq op'[c].held
        /\ op'[c].held = op[c].held /\ op'[c].todo = op[c].todo \ {l}
        /\ \A d \in Clerks : d # c => op'[d] = op[d]
    <3>1. CASE op[c].todo = {l}
      <4>1. op' = [op EXCEPT ![c] = [Idle EXCEPT !.step = "print", !.held = op[c].held]]
        BY <2>1, <3>1 DEF Pass
      <4> QED BY <1>0, <3>1, <4>1 DEF TypeOK, Idle
    <3>2. CASE op[c].todo # {l}
      <4>1. op' = [op EXCEPT ![c].todo = @ \ {l}]
        BY <2>1, <3>2 DEF Pass
      <4> QED BY <1>0, <2>2, <4>1 DEF TypeOK, Operations
    <3> QED BY <3>1, <3>2
  <2>4. Covered(l)'
    BY <2>2, <2>3 DEF Covered
  <2>5. \A k \in Lines : k # l => line'[k] = line[k]
    BY <1>0, <2>1 DEF Set, TypeOK
  <2>6. UNCHANGED <<bells, printed, cut>>
    BY <1>1 DEF SendMark
  <2> QED BY <1>0, <2>2, <2>3, <2>4, <2>5, <2>6, Undisturbed DEF Owed, There, ReadFirst, Clerks
<1>2. CASE PrintTicket(c)
  <2>1. UNCHANGED <<line, bells, cut>> /\ printed' = printed \cup op[c].held
    BY <1>2 DEF PrintTicket
  <2>2. op'[c].step \notin Sending /\ \A d \in Clerks : d # c => op'[d] = op[d]
    BY <1>0, <1>2 DEF PrintTicket, Done, TypeOK, Idle
  <2> QED BY <1>0, <2>1, <2>2, Undisturbed DEF Owed, There, ReadFirst, Clerks
<1>3. ASSUME NEW o \in Orders, SendRead(c, o) PROVE ReadFirst' /\ SentIsPrinted'
  <2>1. PICK S \in SUBSET ItemsToSend(o) :
          Begin(c, [Idle EXCEPT !.step = "send", !.order = o, !.todo = S, !.held = S, !.at = clock'])
    BY <1>3 DEF SendRead
  <2>2. op[c].step = "idle" /\ UNCHANGED <<line, bells, printed, cut>>
    BY <1>3, <2>1 DEF SendRead, Begin, Begins, At
  <2>3. op'[c].todo \subseteq op'[c].held /\ \A d \in Clerks : d # c => op'[d] = op[d]
    BY <1>0, <2>1 DEF Begin, TypeOK, Idle
  <2> QED BY <1>0, <2>2, <2>3, Undisturbed DEF Owed, There, ReadFirst, Clerks
<1>4. ASSUME op[c].step \notin Sending, op'[c].step \notin Sending,
             \A d \in Clerks : d # c => op'[d] = op[d], UNCHANGED <<bells, printed, cut>>,
             \A l \in Lines : Owed(l)' => Owed(l) /\ line'[l].sent = line[l].sent
                                               /\ line'[l].order = line[l].order
      PROVE  ReadFirst' /\ SentIsPrinted'
  BY <1>0, <1>4, Undisturbed DEF ReadFirst, Clerks
<1>5. ASSUME op[c].step \notin Sending, op'[c].step \notin Sending,
             \A d \in Clerks : d # c => op'[d] = op[d], UNCHANGED <<line, bells, printed, cut>>
      PROVE  ReadFirst' /\ SentIsPrinted'
  BY <1>4, <1>5 DEF Owed, There
<1>6. ASSUME NEW o \in Orders, DeliverRead(c, o) PROVE ReadFirst' /\ SentIsPrinted'
  BY <1>0, <1>5, <1>6 DEF DeliverRead, Begin, Begins, At, TypeOK, Idle
<1>7. ASSUME NEW o \in Orders, ReleaseRead(c, o) PROVE ReadFirst' /\ SentIsPrinted'
  BY <1>0, <1>5, <1>7 DEF ReleaseRead, Begin, Begins, At, TypeOK, Idle
<1>8. ASSUME NEW o \in Orders, PayLook(c, o) PROVE ReadFirst' /\ SentIsPrinted'
  BY <1>0, <1>5, <1>8 DEF PayLook, Begin, Begins, At, TypeOK, Idle
<1>9. CASE PayCart(c)
  BY <1>0, <1>5, <1>9 DEF PayCart, Done, At, TypeOK, Idle, Operations
<1>10. CASE PayRecord(c)
  BY <1>0, <1>5, <1>10 DEF PayRecord, At, TypeOK, Operations
<1>11. CASE Settle(c)
  <2>1. op[c].step \notin Sending /\ UNCHANGED <<line, bells, printed, cut>>
    BY <1>11 DEF Settle, At
  <2>2. Goto(c, "close") \/ Done(c)
    BY <1>11 DEF Settle
  <2>3. op'[c].step \notin Sending /\ \A d \in Clerks : d # c => op'[d] = op[d]
    <3>1. CASE Goto(c, "close")
      BY <1>0, <3>1 DEF Goto, TypeOK, Idle
    <3>2. CASE Done(c)
      BY <1>0, <3>2 DEF Done, TypeOK, Idle
    <3> QED BY <2>2, <3>1, <3>2
  <2> QED BY <1>5, <2>1, <2>3
<1>12. CASE DeliverMark(c)
  <2>1. PICK l \in op[c].todo :
          /\ Set(l, [line[l] EXCEPT !.served = IF @ = 0 THEN op[c].at ELSE @])
          /\ Pass(c, l, Done(c))
    BY <1>12 DEF DeliverMark
  <2>2. op[c].step = "serve" /\ UNCHANGED <<bells, printed, cut>>
    BY <1>12 DEF DeliverMark, At
  <2>3. op'[c].step \notin Sending /\ \A d \in Clerks : d # c => op'[d] = op[d]
    BY <1>0, <2>1, <2>2, SMTT(60) DEF Pass, Done, TypeOK, Idle, Operations
  <2>4. \A k \in Lines : Owed(k)' => Owed(k) /\ line'[k].sent = line[k].sent
                                           /\ line'[k].order = line[k].order
    BY <1>0, <2>1 DEF Set, Owed, There, TypeOK, LineRows
  <2> QED BY <1>4, <2>2, <2>3, <2>4
<1>13. CASE ReleaseVoid(c)
  <2>1. PICK l \in op[c].todo :
          Set(l, [line[l] EXCEPT !.voided = TRUE]) /\ Pass(c, l, Goto(c, "close"))
    BY <1>13 DEF ReleaseVoid
  <2>2. op[c].step = "release" /\ UNCHANGED <<bells, printed, cut>>
    BY <1>13 DEF ReleaseVoid, At
  <2>3. op'[c].step \notin Sending /\ \A d \in Clerks : d # c => op'[d] = op[d]
    BY <1>0, <2>1, <2>2, ZenonT(60) DEF Pass, Goto, TypeOK, Idle, Operations
  <2>4. \A k \in Lines : Owed(k)' => Owed(k) /\ line'[k].sent = line[k].sent
                                           /\ line'[k].order = line[k].order
    BY <1>0, <2>1 DEF Set, Owed, There, TypeOK, LineRows
  <2> QED BY <1>4, <2>2, <2>3, <2>4
<1>14. CASE MarkBilled(c)
  <2>1. PICK l \in op[c].todo :
          /\ Set(l, [line[l] EXCEPT !.sale = IF @ = None THEN op[c].sale ELSE @])
          /\ Pass(c, l, Goto(c, "settle"))
    BY <1>14 DEF MarkBilled
  <2>2. op[c].step = "bill" /\ UNCHANGED <<bells, printed, cut>>
    BY <1>14 DEF MarkBilled, At
  <2>3. op'[c].step \notin Sending /\ \A d \in Clerks : d # c => op'[d] = op[d]
    BY <1>0, <2>1, <2>2, ZenonT(60) DEF Pass, Goto, TypeOK, Idle, Operations
  <2>4. \A k \in Lines : Owed(k)' => Owed(k) /\ line'[k].sent = line[k].sent
                                           /\ line'[k].order = line[k].order
    BY <1>0, <2>1 DEF Set, Owed, There, TypeOK, LineRows
  <2> QED BY <1>4, <2>2, <2>3, <2>4
<1> QED BY <1>1, <1>2, <1>3, <1>6, <1>7, <1>8, <1>9, <1>10, <1>11, <1>12, <1>13, <1>14 DEF Till

LEMMA PhonePrint ==
  ASSUME PrintInv, NEW p \in Phones, Phone(p)
  PROVE  ReadFirst' /\ SentIsPrinted'
<1> USE DEF Sending
<1>0. TypeOK /\ ReadFirst /\ p \in Clerks
  BY DEF PrintInv, Clerks
<1>1. ASSUME NEW o \in Orders, PhoneSend(p, o) PROVE ReadFirst' /\ SentIsPrinted'
  <2>1. PICK S \in SUBSET ItemsToSend(o) :
          /\ line' = [l \in Lines |-> IF l \in S THEN [line[l] EXCEPT !.sent = clock'] ELSE line[l]]
          /\ \/ Notify(o, clock') /\ UNCHANGED cut
             \/ cut' = cut \cup S /\ UNCHANGED bells
    BY <1>1 DEF PhoneSend
  <2>2. UNCHANGED <<op, printed>> /\ bells \subseteq bells' /\ cut \subseteq cut'
    BY <1>1, <2>1 DEF PhoneSend, Notify
  <2>3. ASSUME NEW l \in S PROVE l \in Lines => Covered(l)'
    <3>1. l \in Lines /\ line[l].order = o
      BY DEF ItemsToSend, ItemsOf
    <3>2. line'[l].order = o /\ line'[l].sent = clock'
      BY <1>0, <2>1, <3>1 DEF TypeOK, LineRows
    <3> QED BY <2>1, <3>2 DEF Covered, Notify
  <2>4. \A l \in Lines : l \notin S => line'[l] = line[l]
    BY <2>1
  <2> QED BY <1>0, <2>2, <2>3, <2>4, Undisturbed DEF Owed, There, ReadFirst, Clerks
<1>2. ASSUME \A d \in Clerks : op[d] = op'[d] \/ (op[d].step \notin Sending /\ op'[d].step \notin Sending),
             UNCHANGED <<bells, printed, cut>>,
             \A l \in Lines : Owed(l)' => Owed(l) /\ line'[l].sent = line[l].sent
                                               /\ line'[l].order = line[l].order
      PROVE  ReadFirst' /\ SentIsPrinted'
  BY <1>0, <1>2, Undisturbed DEF ReadFirst, Clerks
<1>3. ASSUME NEW o \in Orders, PhoneDeliver(p, o) PROVE ReadFirst' /\ SentIsPrinted'
  BY <1>0, <1>2, <1>3 DEF PhoneDeliver, Owed, There, TypeOK, LineRows
<1>4. ASSUME NEW o \in Orders, PhoneRelease(p, o) PROVE ReadFirst' /\ SentIsPrinted'
  <2>1. \A l \in Lines : Owed(l)' => Owed(l) /\ line'[l].sent = line[l].sent
                                               /\ line'[l].order = line[l].order
    BY <1>0, <1>4 DEF PhoneRelease, Owed, There, TypeOK, LineRows
  <2>2. \A d \in Clerks : op[d] = op'[d] \/ (op[d].step \notin Sending /\ op'[d].step \notin Sending)
    BY <1>0, <1>4 DEF PhoneRelease, Begin, Begins, At, TypeOK, Idle
  <2> QED BY <1>2, <1>4, <2>1, <2>2 DEF PhoneRelease
<1>5. ASSUME NEW l \in Lines, PhoneUndo(p, l) PROVE ReadFirst' /\ SentIsPrinted'
  BY <1>0, <1>2, <1>5 DEF PhoneUndo, Owed, There, TypeOK, LineRows
<1>6. ASSUME NEW o \in Orders, NEW t \in Tables, MoveRead(p, o, t)
      PROVE  ReadFirst' /\ SentIsPrinted'
  BY <1>0, <1>2, <1>6 DEF MoveRead, Begin, Begins, At, TypeOK, Idle, Owed, There
<1>7. CASE MoveWrite(p)
  BY <1>0, <1>2, <1>7 DEF MoveWrite, Done, At, TypeOK, Idle, Owed, There
<1> QED BY <1>1, <1>3, <1>4, <1>5, <1>6, <1>7 DEF Phone

LEMMA OthersPrint ==
  ASSUME PrintInv, KitchenTicket \/ Crash
  PROVE  ReadFirst' /\ SentIsPrinted'
<1>0. TypeOK /\ ReadFirst
  BY DEF PrintInv
<1>1. ReadFirst'
  BY <1>0 DEF KitchenTicket, Crash, ReadFirst, Idle, Sending
<1>2. ASSUME NEW l \in Lines, Owed(l)' PROVE Covered(l)'
  <2>1. Owed(l) /\ Covered(l) /\ line' = line
    BY <1>2 DEF KitchenTicket, Crash, Owed, There, Covered, PrintInv, SentIsPrinted, Sending
  <2>2. CASE KitchenTicket
    <3>1. PICK b \in bells :
            /\ bells' = bells \ {b}
            /\ printed' = printed \cup {k \in ItemsOf(b.order) : line[k].sent = b.at /\ ~line[k].voided}
            /\ UNCHANGED <<op, cut>>
      BY <2>2 DEF KitchenTicket
    <3>2. [order |-> line[l].order, at |-> line[l].sent] = b => l \in printed'
      BY <2>1, <3>1 DEF Owed, ItemsOf
    <3> QED BY <2>1, <3>1, <3>2 DEF Covered
  <2>3. CASE Crash
    <3>1. cut \subseteq cut' /\ \A c \in Clerks : HalfDone(c) \subseteq cut'
      BY <2>3 DEF Crash
    <3>2. [order |-> line[l].order, at |-> line[l].sent] \in bells => l \in cut'
      BY <2>3 DEF Crash
    <3>3. \A c \in Screens : op[c].step \in Sending => HalfDone(c) = op[c].held \ op[c].todo
      BY DEF HalfDone, Sending
    <3>4. printed' = printed
      BY <2>3 DEF Crash
    <3> QED BY <2>1, <3>1, <3>2, <3>3, <3>4 DEF Covered, Clerks
  <2> QED BY <2>2, <2>3
<1> QED BY <1>1, <1>2 DEF SentIsPrinted, Owed, Covered, Sending

\* What the kitchen is said to have was printed, is about to be, or was cut off by a failure.
THEOREM SentIsPrintedCorrect == Spec => []SentIsPrinted
<1>1. Init => ReadFirst /\ SentIsPrinted
  BY DEF Init, ReadFirst, SentIsPrinted, There, Unborn, Idle, Sending
<1>2. TypeOK /\ ReadFirst /\ SentIsPrinted /\ [Next]_vars => ReadFirst' /\ SentIsPrinted'
  <2> SUFFICES ASSUME PrintInv, [Next]_vars PROVE ReadFirst' /\ SentIsPrinted'
    BY DEF PrintInv
  <2>1. CASE UNCHANGED vars
    BY <2>1 DEF vars, PrintInv, ReadFirst, SentIsPrinted, There
  <2> QED BY <2>1, AnyClerkPrint, TillPrint, PhonePrint, OthersPrint DEF Next
<1> QED BY <1>1, <1>2, TypeCorrect, PTL DEF Spec

-----------------------------------------------------------------------------
(* What is paid for is marked.                                             *)

\* Two payments under way are of different lines, but for those known to be paid twice.
Apart ==
  \A c, d \in Screens : c # d /\ op[c].step \in Paying /\ op[d].step \in Paying =>
    op[c].todo \cap op[d].todo \subseteq twice

\* A cart about to be recorded has lines nobody has been charged for.
Unbilled(l) == line[l].is # "unborn" /\ (There(l) /\ l \notin twice => line[l].sale = None)
CartOf(c) == op[c].held \subseteq op[c].todo /\ op[c].held # {} /\ \A l \in op[c].held : Unbilled(l)
CartUnbilled == \A c \in Screens : At(c, "record") => CartOf(c)

\* While a sale's lines are marked, those that remain are free.
BillUnbilled ==
  \A c \in Screens : At(c, "bill") =>
    /\ op[c].sale \in Sales /\ sold[op[c].sale] = op[c].held /\ op[c].held # {}
    /\ \A l \in op[c].held \cap op[c].todo : There(l) /\ l \notin twice => line[l].sale = None

SoldBorn == \A s \in Sales : \A l \in sold[s] : line[l].is # "unborn"

PayInv == Apart /\ CartUnbilled /\ BillUnbilled /\ SoldBorn /\ SoldIsBilled

\* A step that neither takes, records nor marks a payment: what is being paid goes on, or is
\* dropped and its unmarked lines are in cut.
LEMMA PaymentsApart ==
  ASSUME TypeOK, PayInv, sold' = sold, cut \subseteq cut', twice' = twice,
         \A c \in Screens : op'[c].step \in Paying => op'[c] = op[c],
         \A c \in Screens : At(c, "bill") =>
             op'[c] = op[c] \/ op[c].held \cap op[c].todo \subseteq cut',
         \A l \in Lines : line[l].is # "unborn" => line'[l].is # "unborn",
         \A l \in Lines : line'[l].is = "there" =>
             \/ line[l].is = "there" /\ line'[l].sale = line[l].sale
             \/ line[l].is = "unborn" /\ line'[l].sale = None
  PROVE  PayInv'
<1> USE DEF At, There
<1>1. Apart'
  <2> SUFFICES ASSUME NEW c \in Screens, NEW d \in Screens, c # d,
                      op'[c].step \in Paying, op'[d].step \in Paying
               PROVE  op'[c].todo \cap op'[d].todo \subseteq twice'
    BY DEF Apart
  <2> QED BY DEF PayInv, Apart
<1>2. CartUnbilled'
  <2> SUFFICES ASSUME NEW c \in Screens, op'[c].step = "record"
               PROVE  CartOf(c)'
    BY DEF CartUnbilled
  <2>1. op'[c] = op[c] /\ op[c].held \subseteq Lines
    BY DEF Paying, TypeOK, Operations, Clerks
  <2> QED BY <2>1 DEF PayInv, CartUnbilled, CartOf, Unbilled
<1>3. BillUnbilled'
  <2> SUFFICES ASSUME NEW c \in Screens, op'[c].step = "bill"
               PROVE  /\ op'[c].sale \in Sales /\ sold'[op'[c].sale] = op'[c].held /\ op'[c].held # {}
                      /\ \A l \in op'[c].held \cap op'[c].todo :
                           line'[l].is = "there" /\ l \notin twice' => line'[l].sale = None
    BY DEF BillUnbilled
  <2>1. op'[c] = op[c] /\ op[c].held \subseteq Lines
    BY DEF Paying, TypeOK, Operations, Clerks
  <2> QED BY <2>1 DEF PayInv, BillUnbilled
<1>4. SoldBorn'
  BY DEF PayInv, SoldBorn, TypeOK
<1>5. SoldIsBilled'
  <2> SUFFICES ASSUME NEW s \in Sales, NEW l \in sold[s], line'[l].is = "there"
               PROVE  \/ line'[l].sale = s
                      \/ l \in twice' /\ line'[l].sale # None
                      \/ l \in cut'
                      \/ \E c \in Screens : op'[c].step = "bill" /\ op'[c].sale = s /\ l \in op'[c].todo
    BY DEF SoldIsBilled
  <2>1. l \in Lines /\ line[l].is = "there" /\ line'[l].sale = line[l].sale
    BY DEF PayInv, SoldBorn, TypeOK
  <2>2. ASSUME NEW c \in Screens, op[c].step = "bill", op[c].sale = s, l \in op[c].todo
        PROVE  l \in cut' \/ op'[c] = op[c]
    BY <2>2 DEF PayInv, BillUnbilled
  <2> QED BY <2>1, <2>2 DEF PayInv, SoldIsBilled
<1> QED BY <1>1, <1>2, <1>3, <1>4, <1>5 DEF PayInv

\* No line that exists gets or loses a sale.
SalesStand ==
  /\ \A l \in Lines : line[l].is # "unborn" => line'[l].is # "unborn"
  /\ \A l \in Lines : line'[l].is = "there" =>
       \/ line[l].is = "there" /\ line'[l].sale = line[l].sale
       \/ line[l].is = "unborn" /\ line'[l].sale = None

\* A clerk who is not paying does something else.
LEMMA ClerkApart ==
  ASSUME TypeOK, PayInv, NEW c \in Clerks, SalesStand, UNCHANGED <<sold, cut, twice>>,
         op[c].step \notin Paying \/ op[c].step \in {"cart", "record", "settle"},
         op'[c].step \notin Paying, \A d \in Clerks : d # c => op'[d] = op[d]
  PROVE  PayInv'
<1>1. \A d \in Screens : op'[d].step \in Paying => op'[d] = op[d]
  BY DEF Clerks
<1>2. \A d \in Screens : At(d, "bill") => op'[d] = op[d]
  BY DEF At, Clerks, Paying
<1>3. sold' = sold /\ cut \subseteq cut' /\ twice' = twice
  OBVIOUS
<1> QED BY <1>1, <1>2, <1>3, PaymentsApart DEF SalesStand

LEMMA AnyClerkPay ==
  ASSUME TypeOK, PayInv, NEW c \in Clerks, AnyClerk(c)
  PROVE  PayInv'
<1> USE DEF Paying
<1>1. ASSUME UNCHANGED <<line, sold, cut, twice>>, op[c].step \notin Paying, op'[c].step \notin Paying,
             \A d \in Clerks : d # c => op'[d] = op[d]
      PROVE  PayInv'
  BY <1>1, ClerkApart DEF SalesStand
<1>2. ASSUME NEW t \in Tables \cup {None}, OpenRead(c, t) PROVE PayInv'
  BY <1>1, <1>2 DEF OpenRead, Begin, Begins, At, TypeOK, Idle
<1>3. ASSUME NEW o \in Orders, AddRead(c, o) PROVE PayInv'
  BY <1>1, <1>3 DEF AddRead, Begin, Begins, At, TypeOK, Idle
<1>4. ASSUME NEW l \in Lines, RemoveRead(c, l) PROVE PayInv'
  BY <1>1, <1>4 DEF RemoveRead, Begin, Begins, At, TypeOK, Idle
<1>5. CASE OpenInsert(c) \/ OpenRefused(c)
  BY <1>1, <1>5 DEF OpenInsert, OpenRefused, Done, At, TypeOK, Idle
<1>6. CASE Close(c) \/ CloseNothing(c)
  BY <1>1, <1>6 DEF Close, CloseNothing, Done, At, TypeOK, Idle
<1>7. CASE AddInsert(c)
  <2>1. SalesStand
    BY <1>7 DEF AddInsert, SalesStand, Unborn, TypeOK
  <2> QED BY <1>7, <2>1, ClerkApart DEF AddInsert, Done, At, TypeOK, Idle
<1>8. CASE RemoveDelete(c)
  <2>1. SalesStand
    BY <1>8 DEF RemoveDelete, Set, There, SalesStand, TypeOK, LineRows
  <2> QED BY <1>8, <2>1, ClerkApart DEF RemoveDelete, Done, At, TypeOK, Idle
<1>9. CASE RemoveVoid(c)
  <2>1. SalesStand
    BY <1>9 DEF RemoveVoid, Set, There, SalesStand, TypeOK, LineRows
  <2> QED BY <1>9, <2>1, ClerkApart DEF RemoveVoid, Done, At, TypeOK, Idle
<1>10. CASE StatementFails(c)
  <2>1. sold' = sold /\ line' = line /\ twice' = twice /\ cut' = cut \cup HalfDone(c)
    BY <1>10 DEF StatementFails
  <2>2. \A d \in Clerks : d # c => op'[d] = op[d]
    BY <1>10 DEF StatementFails, Done, TypeOK
  <2>3. op'[c].step \notin Paying
    BY <1>10, SMTT(60) DEF StatementFails, Done, TypeOK, Idle
  <2>4. At(c, "bill") => op[c].held \cap op[c].todo \subseteq cut'
    BY <2>1 DEF HalfDone, At
  <2>5. SalesStand /\ cut \subseteq cut'
    BY <2>1 DEF SalesStand
  <2>6. \A d \in Screens : op'[d].step \in Paying => op'[d] = op[d]
    BY <2>2, <2>3 DEF Clerks
  <2>7. \A d \in Screens : At(d, "bill") =>
           op'[d] = op[d] \/ op[d].held \cap op[d].todo \subseteq cut'
    BY <2>2, <2>4 DEF Clerks
  <2> QED BY <2>1, <2>5, <2>6, <2>7, PaymentsApart DEF SalesStand
<1> QED BY <1>2, <1>3, <1>4, <1>5, <1>6, <1>7, <1>8, <1>9, <1>10 DEF AnyClerk

LEMMA PayingPay ==
  ASSUME TypeOK, PayInv, NEW c \in Screens,
         (\E o \in Orders : PayLook(c, o)) \/ PayCart(c) \/ PayRecord(c) \/ MarkBilled(c)
  PROVE  PayInv'
<1> USE DEF Paying, At
<1>0. c \in Clerks /\ op[c] \in Operations /\ op[c].held \subseteq Lines /\ op[c].todo \subseteq Lines
  BY DEF Clerks, TypeOK, Operations
<1>1. ASSUME NEW o \in Orders, PayLook(c, o) PROVE PayInv'
  <2>1. PICK S \in SUBSET ActiveItems(o) :
          /\ Begin(c, [Idle EXCEPT !.step = "cart", !.order = o, !.todo = S])
          /\ twice' = twice \cup (S \cap BeingPaid)
    BY <1>1 DEF PayLook
  <2>2. /\ op[c].step = "idle" /\ op'[c].step = "cart" /\ op'[c].todo = S
        /\ \A d \in Clerks : d # c => op'[d] = op[d]
    BY <1>0, <2>1 DEF Begin, Begins, TypeOK, Idle
  <2>3. UNCHANGED <<line, sold, cut>> /\ twice \subseteq twice'
    BY <1>1, <2>1 DEF PayLook
  <2>4. \A d \in Screens : d # c => op'[d] = op[d]
    BY <2>2 DEF Clerks
  <2>5. Apart'
    <3> SUFFICES ASSUME NEW d \in Screens, NEW e \in Screens, d # e,
                        op'[d].step \in Paying, op'[e].step \in Paying
                 PROVE  op'[d].todo \cap op'[e].todo \subseteq twice'
      BY DEF Apart
    <3>1. ASSUME NEW f \in Screens, f # c, op'[f].step \in Paying
          PROVE  S \cap op'[f].todo \subseteq twice'
      BY <2>1, <2>4, <3>1 DEF BeingPaid
    <3>2. CASE d = c
      BY <2>2, <3>1, <3>2
    <3>3. CASE e = c
      BY <2>2, <3>1, <3>3
    <3>4. CASE d # c /\ e # c
      BY <2>3, <2>4, <3>4 DEF PayInv, Apart
    <3> QED BY <3>2, <3>3, <3>4
  <2>6. CartUnbilled' /\ BillUnbilled'
    BY <2>2, <2>3, <2>4 DEF PayInv, CartUnbilled, CartOf, Unbilled, BillUnbilled, There
  <2>7. SoldBorn' /\ SoldIsBilled'
    BY <2>2, <2>3, <2>4 DEF PayInv, SoldBorn, SoldIsBilled, There
  <2> QED BY <2>5, <2>6, <2>7 DEF PayInv
<1>2. CASE PayCart(c)
  <2>1. UNCHANGED <<line, sold, cut, twice>> /\ op[c].step = "cart"
    BY <1>2 DEF PayCart
  <2> DEFINE goods == op[c].todo \cap ActiveItems(op[c].order)
  <2>2. CASE Done(c)
    BY <1>0, <2>1, <2>2, ClerkApart DEF Done, TypeOK, Idle, SalesStand
  <2>3. CASE goods # {} /\ op' = [op EXCEPT ![c].step = "record", ![c].held = goods]
    <3>1. /\ op'[c].step = "record" /\ op'[c].todo = op[c].todo
          /\ op'[c].held = goods
          /\ \A d \in Clerks : d # c => op'[d] = op[d]
      BY <1>0, <2>3 DEF TypeOK, Operations
    <3>2. \A d \in Screens : d # c => op'[d] = op[d]
      BY <3>1 DEF Clerks
    <3>3. Apart'
      BY <2>1, <3>1, <3>2 DEF PayInv, Apart
    <3>4. BillUnbilled'
      BY <2>1, <3>1, <3>2 DEF PayInv, BillUnbilled, There
    <3>5. CartUnbilled'
      <4>1. goods \subseteq op[c].todo /\ goods # {}
        BY <2>3
      <4>2. \A l \in goods : line[l].is # "unborn" /\ (There(l) => line[l].sale = None)
        BY DEF ActiveItems, ItemsOf, There
      <4> HIDE DEF goods
      <4> QED BY <2>1, <3>1, <3>2, <4>1, <4>2 DEF PayInv, CartUnbilled, CartOf, Unbilled, There
    <3>6. SoldBorn' /\ SoldIsBilled'
      BY <2>1, <3>1, <3>2 DEF PayInv, SoldBorn, SoldIsBilled, There
    <3> QED BY <3>3, <3>4, <3>5, <3>6 DEF PayInv
  <2> QED BY <1>2, <2>2, <2>3 DEF PayCart
<1>3. CASE PayRecord(c)
  <2>1. PICK s \in Sales :
          /\ sold[s] = {}
          /\ sold' = [sold EXCEPT ![s] = op[c].held]
          /\ op' = [op EXCEPT ![c].step = "bill", ![c].sale = s]
    BY <1>3 DEF PayRecord
  <2>2. op[c].step = "record" /\ UNCHANGED <<line, cut, twice>>
    BY <1>3 DEF PayRecord
  <2>3. /\ op'[c].step = "bill" /\ op'[c].sale = s /\ op'[c].todo = op[c].todo
        /\ op'[c].held = op[c].held /\ \A d \in Clerks : d # c => op'[d] = op[d]
    BY <1>0, <2>1 DEF TypeOK, Operations
  <2>4. \A d \in Screens : d # c => op'[d] = op[d]
    BY <2>3 DEF Clerks
  <2>5. sold'[s] = op[c].held /\ \A r \in Sales : r # s => sold'[r] = sold[r]
    BY <2>1 DEF TypeOK
  <2>6. /\ op[c].held \subseteq op[c].todo /\ op[c].held # {}
        /\ \A l \in op[c].held : line[l].is # "unborn" /\ (There(l) /\ l \notin twice => line[l].sale = None)
    BY <2>2 DEF PayInv, CartUnbilled, CartOf, Unbilled
  <2>7. Apart'
    BY <2>2, <2>3, <2>4 DEF PayInv, Apart
  <2>8. CartUnbilled'
    BY <2>2, <2>3, <2>4 DEF PayInv, CartUnbilled, CartOf, Unbilled, There
  <2>9. \A d \in Screens : d # c /\ op[d].step = "bill" => op[d].sale # s
    BY <2>1 DEF PayInv, BillUnbilled
  <2>10. BillUnbilled'
    <3> SUFFICES ASSUME NEW d \in Screens, op'[d].step = "bill"
                 PROVE  /\ op'[d].sale \in Sales /\ sold'[op'[d].sale] = op'[d].held /\ op'[d].held # {}
                        /\ \A l \in op'[d].held \cap op'[d].todo :
                             There(l)' /\ l \notin twice' => line'[l].sale = None
      BY DEF BillUnbilled
    <3>1. CASE d = c
      BY <2>2, <2>3, <2>5, <2>6, <3>1 DEF There
    <3>2. CASE d # c
      BY <2>2, <2>4, <2>5, <2>9, <3>2 DEF PayInv, BillUnbilled, There
    <3> QED BY <3>1, <3>2
  <2>11. SoldBorn'
    BY <2>2, <2>5, <2>6 DEF PayInv, SoldBorn
  <2>12. SoldIsBilled'
    <3> SUFFICES ASSUME NEW r \in Sales, NEW l \in sold'[r], There(l)'
                 PROVE  \/ line'[l].sale = r
                        \/ l \in twice' /\ line'[l].sale # None
                        \/ l \in cut'
                        \/ \E d \in Screens : op'[d].step = "bill" /\ op'[d].sale = r /\ l \in op'[d].todo
      BY DEF SoldIsBilled
    <3>1. CASE r = s
      BY <2>3, <2>5, <2>6, <3>1
    <3>2. CASE r # s
      <4>1. l \in sold[r] /\ There(l)
        BY <2>2, <2>5, <3>2 DEF There
      <4>2. ASSUME NEW d \in Screens, op[d].step = "bill" PROVE op'[d] = op[d]
        BY <2>2, <2>4, <4>2
      <4> QED BY <2>2, <4>1, <4>2 DEF PayInv, SoldIsBilled
    <3> QED BY <3>1, <3>2
  <2> QED BY <2>7, <2>8, <2>10, <2>11, <2>12 DEF PayInv
<1>4. CASE MarkBilled(c)
  <2>1. PICK l \in op[c].todo :
          /\ Set(l, [line[l] EXCEPT !.sale = IF @ = None THEN op[c].sale ELSE @])
          /\ Pass(c, l, Goto(c, "settle"))
    BY <1>4 DEF MarkBilled
  <2> DEFINE s == op[c].sale
  <2>2. op[c].step = "bill" /\ UNCHANGED <<sold, cut, twice>>
    BY <1>4 DEF MarkBilled
  <2>3. /\ s \in Sales /\ sold[s] = op[c].held /\ l \in Lines /\ op[c].held # {}
        /\ \A k \in op[c].held \cap op[c].todo : There(k) /\ k \notin twice => line[k].sale = None
    BY <1>0, <2>2 DEF PayInv, BillUnbilled
  <2>4. s # None
    BY <2>3, IdsAssumption
  <2>5. \A d \in Clerks : d # c => op'[d] = op[d]
    BY <2>1 DEF Pass, Goto, TypeOK
  <2>6. /\ \A k \in Lines : k # l => line'[k] = line[k]
        /\ line'[l].is = line[l].is
        /\ There(l) => line'[l].sale = IF line[l].sale = None THEN s ELSE line[l].sale
    <3>1. line[l] \in LineRows
      BY <2>3 DEF TypeOK
    <3> QED BY <2>1, <2>3, <3>1 DEF Set, TypeOK, LineRows
  <2>7. \/ op'[c].step = "settle" /\ op[c].todo = {l} /\ op'[c].todo = {}
        \/ /\ op'[c].step = "bill" /\ op'[c].sale = s /\ op'[c].held = op[c].held
           /\ op'[c].todo = op[c].todo \ {l}
    <3>1. CASE op[c].todo = {l}
      BY <1>0, <2>1, <3>1, ZenonT(60) DEF Pass, Goto, TypeOK, Idle
    <3>2. CASE op[c].todo # {l}
      <4>1. op' = [op EXCEPT ![c].todo = @ \ {l}]
        BY <2>1, <3>2 DEF Pass
      <4> QED BY <1>0, <2>2, <4>1 DEF TypeOK, Operations
    <3> QED BY <3>1, <3>2
  <2>8. \A d \in Screens : d # c => op'[d] = op[d]
    BY <2>5 DEF Clerks
  <2>9. op'[c].todo \subseteq op[c].todo
    BY <2>7
  <2>10. \A d \in Screens : d # c /\ op[d].step \in Paying /\ l \in op[d].todo => l \in twice
    BY <2>1, <2>2 DEF PayInv, Apart
  <2>11. Apart'
    <3> SUFFICES ASSUME NEW d \in Screens, NEW e \in Screens, d # e,
                        op'[d].step \in Paying, op'[e].step \in Paying
                 PROVE  op'[d].todo \cap op'[e].todo \subseteq twice
      BY <2>2 DEF Apart
    <3>1. op[d].step \in Paying /\ op[e].step \in Paying
      BY <2>2, <2>8
    <3>2. op'[d].todo \subseteq op[d].todo /\ op'[e].todo \subseteq op[e].todo
      BY <2>8, <2>9
    <3> QED BY <3>1, <3>2 DEF PayInv, Apart
  <2>12. CartUnbilled'
    <3> SUFFICES ASSUME NEW d \in Screens, op'[d].step = "record"
                 PROVE  CartOf(d)'
      BY DEF CartUnbilled
    <3>1. d # c /\ op'[d] = op[d]
      BY <2>7, <2>8
    <3>2. op[d].held \subseteq Lines
      BY DEF TypeOK, Operations, Clerks
    <3>3. /\ op[d].held \subseteq op[d].todo /\ op[d].held # {}
          /\ \A k \in op[d].held : line[k].is # "unborn" /\ (There(k) /\ k \notin twice => line[k].sale = None)
      BY <3>1 DEF PayInv, CartUnbilled, CartOf, Unbilled
    <3> QED BY <2>2, <2>3, <2>6, <2>10, <3>1, <3>2, <3>3 DEF There, CartOf, Unbilled
  <2>13. BillUnbilled'
    <3> SUFFICES ASSUME NEW d \in Screens, op'[d].step = "bill"
                 PROVE  /\ op'[d].sale \in Sales /\ sold'[op'[d].sale] = op'[d].held /\ op'[d].held # {}
                        /\ \A k \in op'[d].held \cap op'[d].todo :
                             There(k)' /\ k \notin twice' => line'[k].sale = None
      BY DEF BillUnbilled
    <3>1. CASE d = c
      BY <1>0, <2>2, <2>3, <2>6, <2>7, <3>1 DEF There
    <3>2. CASE d # c
      <4>1. op'[d] = op[d] /\ op[d].held \subseteq Lines
        BY <2>8, <3>2 DEF TypeOK, Operations, Clerks
      <4>2. /\ op[d].sale \in Sales /\ sold[op[d].sale] = op[d].held /\ op[d].held # {}
            /\ \A k \in op[d].held \cap op[d].todo : There(k) /\ k \notin twice => line[k].sale = None
        BY <4>1 DEF PayInv, BillUnbilled
      <4> QED BY <2>2, <2>3, <2>6, <2>10, <3>2, <4>1, <4>2 DEF There
    <3> QED BY <3>1, <3>2
  <2>14. SoldBorn'
    BY <2>2, <2>6 DEF PayInv, SoldBorn, TypeOK
  <2>15. SoldIsBilled'
    <3> SUFFICES ASSUME NEW r \in Sales, NEW k \in sold[r], There(k)'
                 PROVE  \/ line'[k].sale = r
                        \/ k \in twice /\ line'[k].sale # None
                        \/ k \in cut
                        \/ \E d \in Screens : op'[d].step = "bill" /\ op'[d].sale = r /\ k \in op'[d].todo
      BY <2>2 DEF SoldIsBilled
    <3>1. k \in Lines /\ There(k) /\ r # None
      BY <2>6, IdsAssumption DEF TypeOK, There
    <3>2. line[k].sale # None => line'[k].sale = line[k].sale
      BY <2>6, <3>1
    <3>3. \/ line[k].sale = r
          \/ k \in twice /\ line[k].sale # None
          \/ k \in cut
          \/ \E d \in Screens : op[d].step = "bill" /\ op[d].sale = r /\ k \in op[d].todo
      BY <3>1 DEF PayInv, SoldIsBilled
    <3>4. ASSUME NEW d \in Screens, op[d].step = "bill", op[d].sale = r, k \in op[d].todo
          PROVE  \/ line'[k].sale = r
                 \/ k \in twice /\ line'[k].sale # None
                 \/ \E e \in Screens : op'[e].step = "bill" /\ op'[e].sale = r /\ k \in op'[e].todo
      <4>1. CASE d # c
        BY <2>8, <3>4, <4>1
      <4>2. CASE d = c /\ k # l
        BY <2>7, <3>4, <4>2
      <4>3. CASE d = c /\ k = l
        <5>1. k \notin twice => line[k].sale = None
          BY <2>3, <3>1, <3>4, <4>3
        <5> QED BY <2>4, <2>6, <3>1, <3>4, <4>3, <5>1
      <4> QED BY <4>1, <4>2, <4>3
    <3> QED BY <3>1, <3>2, <3>3, <3>4
  <2> QED BY <2>11, <2>12, <2>13, <2>14, <2>15 DEF PayInv
<1> QED BY <1>1, <1>2, <1>3, <1>4


LEMMA TillPay ==
  ASSUME TypeOK, PayInv, NEW c \in Screens, Till(c)
  PROVE  PayInv'
<1>0. c \in Clerks
  BY DEF Clerks
<1> USE DEF Paying
<1>1. ASSUME UNCHANGED <<line, sold, cut, twice>>, op[c].step \notin {"bill"}, op'[c].step \notin Paying,
             \A d \in Clerks : d # c => op'[d] = op[d]
      PROVE  PayInv'
  BY <1>0, <1>1, ClerkApart DEF SalesStand
<1>2. ASSUME NEW o \in Orders, SendRead(c, o) PROVE PayInv'
  BY <1>0, <1>1, <1>2 DEF SendRead, Begin, Begins, At, TypeOK, Idle
<1>3. ASSUME NEW o \in Orders, DeliverRead(c, o) PROVE PayInv'
  BY <1>0, <1>1, <1>3 DEF DeliverRead, Begin, Begins, At, TypeOK, Idle
<1>4. ASSUME NEW o \in Orders, ReleaseRead(c, o) PROVE PayInv'
  BY <1>0, <1>1, <1>4 DEF ReleaseRead, Begin, Begins, At, TypeOK, Idle
<1>5. CASE PrintTicket(c)
  BY <1>0, <1>1, <1>5 DEF PrintTicket, Done, At, TypeOK, Idle
<1>6. CASE Settle(c)
  <2>1. op[c].step = "settle" /\ UNCHANGED <<line, sold, cut, twice>> /\ (Goto(c, "close") \/ Done(c))
    BY <1>6 DEF Settle, At
  <2>2. op'[c].step \notin Paying /\ \A d \in Clerks : d # c => op'[d] = op[d]
    <3>1. CASE Goto(c, "close")
      BY <1>0, <3>1 DEF Goto, TypeOK, Idle
    <3>2. CASE Done(c)
      BY <1>0, <3>2 DEF Done, TypeOK, Idle
    <3> QED BY <2>1, <3>1, <3>2
  <2> QED BY <1>1, <2>1, <2>2
<1>7. CASE SendMark(c)
  <2>1. PICK l \in op[c].todo :
          /\ Set(l, [line[l] EXCEPT !.sent = op[c].at])
          /\ Pass(c, l, op' = [op EXCEPT ![c] = [Idle EXCEPT !.step = "print", !.held = op[c].held]])
    BY <1>7 DEF SendMark
  <2>2. op[c].step = "send" /\ UNCHANGED <<sold, cut, twice>>
    BY <1>7 DEF SendMark, At
  <2>3. op'[c].step \notin Paying /\ \A d \in Clerks : d # c => op'[d] = op[d]
    BY <1>0, <2>1, <2>2, ZenonT(60) DEF Pass, TypeOK, Idle, Operations
  <2>4. SalesStand
    BY <2>1 DEF Set, There, SalesStand, TypeOK, LineRows
  <2> QED BY <1>0, <2>2, <2>3, <2>4, ClerkApart
<1>8. CASE DeliverMark(c)
  <2>1. PICK l \in op[c].todo :
          /\ Set(l, [line[l] EXCEPT !.served = IF @ = 0 THEN op[c].at ELSE @])
          /\ Pass(c, l, Done(c))
    BY <1>8 DEF DeliverMark
  <2>2. op[c].step = "serve" /\ UNCHANGED <<sold, cut, twice>>
    BY <1>8 DEF DeliverMark, At
  <2>3. op'[c].step \notin Paying /\ \A d \in Clerks : d # c => op'[d] = op[d]
    BY <1>0, <2>1, <2>2, SMTT(60) DEF Pass, Done, TypeOK, Idle, Operations
  <2>4. SalesStand
    BY <2>1 DEF Set, There, SalesStand, TypeOK, LineRows
  <2> QED BY <1>0, <2>2, <2>3, <2>4, ClerkApart
<1>9. CASE ReleaseVoid(c)
  <2>1. PICK l \in op[c].todo :
          Set(l, [line[l] EXCEPT !.voided = TRUE]) /\ Pass(c, l, Goto(c, "close"))
    BY <1>9 DEF ReleaseVoid
  <2>2. op[c].step = "release" /\ UNCHANGED <<sold, cut, twice>>
    BY <1>9 DEF ReleaseVoid, At
  <2>3. op'[c].step \notin Paying /\ \A d \in Clerks : d # c => op'[d] = op[d]
    BY <1>0, <2>1, <2>2, ZenonT(60) DEF Pass, Goto, TypeOK, Idle, Operations
  <2>4. SalesStand
    BY <2>1 DEF Set, There, SalesStand, TypeOK, LineRows
  <2> QED BY <1>0, <2>2, <2>3, <2>4, ClerkApart
<1> QED BY <1>2, <1>3, <1>4, <1>5, <1>6, <1>7, <1>8, <1>9, PayingPay DEF Till

LEMMA PhonePay ==
  ASSUME TypeOK, PayInv, NEW p \in Phones, Phone(p)
  PROVE  PayInv'
<1>0. p \in Clerks
  BY DEF Clerks
<1>1. ASSUME SalesStand, sold' = sold, op' = op, cut \subseteq cut', twice' = twice PROVE PayInv'
  BY <1>1, PaymentsApart DEF SalesStand
<1>2. ASSUME NEW o \in Orders, PhoneSend(p, o) PROVE PayInv'
  <2>1. SalesStand
    BY <1>2 DEF PhoneSend, SalesStand, TypeOK, LineRows
  <2> QED BY <1>1, <1>2, <2>1 DEF PhoneSend
<1>3. ASSUME NEW o \in Orders, PhoneDeliver(p, o) PROVE PayInv'
  <2>1. SalesStand
    BY <1>3 DEF PhoneDeliver, SalesStand, TypeOK, LineRows
  <2> QED BY <1>1, <1>3, <2>1 DEF PhoneDeliver
<1>4. ASSUME NEW l \in Lines, PhoneUndo(p, l) PROVE PayInv'
  <2>1. SalesStand
    BY <1>4 DEF PhoneUndo, SalesStand, TypeOK, LineRows
  <2> QED BY <1>1, <1>4, <2>1 DEF PhoneUndo
<1>5. ASSUME NEW o \in Orders, PhoneRelease(p, o) PROVE PayInv'
  <2>1. SalesStand
    BY <1>5 DEF PhoneRelease, SalesStand, TypeOK, LineRows
  <2>2. op[p].step \notin Paying /\ op'[p].step \notin Paying /\ \A d \in Clerks : d # p => op'[d] = op[d]
    BY <1>0, <1>5 DEF PhoneRelease, Begin, Begins, At, TypeOK, Idle, Paying
  <2> QED BY <1>0, <1>5, <2>1, <2>2, ClerkApart DEF PhoneRelease
<1>6. ASSUME NEW o \in Orders, NEW t \in Tables, MoveRead(p, o, t) PROVE PayInv'
  BY <1>0, <1>6, ClerkApart DEF MoveRead, Begin, Begins, At, TypeOK, Idle, Paying, SalesStand
<1>7. CASE MoveWrite(p)
  BY <1>0, <1>7, ClerkApart DEF MoveWrite, Done, At, TypeOK, Idle, Paying, SalesStand
<1> QED BY <1>2, <1>3, <1>4, <1>5, <1>6, <1>7 DEF Phone

LEMMA OthersPay ==
  ASSUME TypeOK, PayInv, KitchenTicket \/ Crash
  PROVE  PayInv'
<1>1. SalesStand /\ sold' = sold /\ cut \subseteq cut' /\ twice' = twice
  BY DEF KitchenTicket, Crash, SalesStand
<1>2. \A c \in Screens : op'[c].step \in Paying => op'[c] = op[c]
  BY DEF KitchenTicket, Crash, Paying, Idle, Clerks
<1>3. ASSUME NEW c \in Screens, At(c, "bill")
      PROVE  op'[c] = op[c] \/ op[c].held \cap op[c].todo \subseteq cut'
  <2>1. HalfDone(c) = op[c].held \cap op[c].todo
    BY <1>3 DEF HalfDone, At
  <2>2. CASE KitchenTicket
    BY <2>2 DEF KitchenTicket
  <2>3. CASE Crash
    BY <2>1, <2>3 DEF Crash, Clerks
  <2> QED BY <2>2, <2>3
<1> QED BY <1>1, <1>2, <1>3, PaymentsApart DEF SalesStand

\* A line paid for bears the sale that charged it, unless a failure cut its marking off or two
\* payments of it were made at once, and then it bears one of them: a cart is of lines nobody
\* was charged for, and no other payment marks them meanwhile.
THEOREM SoldIsBilledCorrect == Spec => []SoldIsBilled
<1>1. Init => PayInv
  BY DEF Init, PayInv, Apart, CartUnbilled, CartOf, Unbilled, BillUnbilled, SoldBorn, SoldIsBilled, Idle, At,
         Paying, Clerks
<1>2. TypeOK /\ PayInv /\ [Next]_vars => PayInv'
  <2> SUFFICES ASSUME TypeOK, PayInv, [Next]_vars PROVE PayInv'
    OBVIOUS
  <2>1. CASE UNCHANGED vars
    BY <2>1 DEF vars, PayInv, Apart, CartUnbilled, CartOf, Unbilled, BillUnbilled, SoldBorn, SoldIsBilled, At,
                There
  <2> QED BY <2>1, AnyClerkPay, TillPay, PhonePay, OthersPay DEF Next
<1>3. PayInv => SoldIsBilled
  BY DEF PayInv
<1> QED BY <1>1, <1>2, <1>3, TypeCorrect, PTL DEF Spec
-----------------------------------------------------------------------------
(* The arithmetic of a ticket.                                             *)

\* n / d, whole and rest.
LEMMA Divided ==
    ASSUME NEW n \in Nat, NEW d \in Nat \ {0}
    PROVE  /\ n \div d \in Nat /\ n % d \in 0..(d - 1)
           /\ n = d * (n \div d) + (n % d)
<1>1. n % d \in 0..(d - 1)
  OBVIOUS
<1>2. n \div d \in Int
  OBVIOUS
<1>3. n = d * (n \div d) + (n % d)
  OBVIOUS
<1>4. n \div d >= 0
  OBVIOUS
<1> QED BY <1>1, <1>2, <1>3, <1>4

LEMMA Multiplied ==
    /\ \A x, y \in Nat : x * y \in Nat
    /\ \A x, y, z \in Nat : x <= y => z * x <= z * y
    /\ \A x, y, z \in Int : x * (y + z) = x * y + x * z
<1>1. \A x, y \in Nat : x * y \in Nat
  OBVIOUS
<1>2. ASSUME NEW x \in Nat, NEW y \in Nat, NEW z \in Nat, x <= y PROVE z * x <= z * y
  BY <1>2
<1>3. \A x, y, z \in Int : x * (y + z) = x * y + x * z
  OBVIOUS
<1> QED BY <1>1, <1>2, <1>3

\* What is shared out is shared out to the last cent, and no share is more than what it is
\* taken off (distributeProportionally).
THEOREM SharedToTheCent ==
    ASSUME NEW n \in Nat, NEW weights \in [1..n -> Nat], NEW amount \in 0..SumCents(weights)
    PROVE  LET shares == DistributeProportionally(amount, weights)
           IN  /\ DOMAIN shares = 1..n
               /\ \A i \in 1..n : shares[i] \in 0..weights[i]
               /\ SumCents(shares) = amount
<1> DEFINE D == 1..n
           total == SumCents(weights)
           floored == [i \in D |-> (amount * weights[i]) \div total]
           fraction == [i \in D |-> (amount * weights[i]) % total]
           left == amount - SumCents(floored)
           before == [i \in D |-> {j \in D : \/ fraction[j] > fraction[i]
                                             \/ fraction[j] = fraction[i] /\ j < i}]
           Given == {i \in D : Cardinality(before[i]) < left}
           shares == [i \in D |-> floored[i] + IF i \in Given THEN 1 ELSE 0]
<1>0. IsFiniteSet(D) /\ Cardinality(D) = n
  BY FS_Interval
<1>1. total = SumFunctionOnSet(weights, D) /\ total \in Nat
  <2>1. total = SumFunctionOnSet(weights, D)
    BY DEF SumCents, SumFunction
  <2>2. \A i \in D : weights[i] \in Int /\ weights[i] >= 0
    OBVIOUS
  <2> DEFINE z == [i \in D |-> 0]
  <2>3. \A i \in D : z[i] \in Int /\ z[i] <= weights[i] /\ z[i] = 0
    BY <2>2
  <2> HIDE DEF z, D, total
  <2>4. SumFunctionOnSet(z, D) = 0 /\ SumFunctionOnSet(z, D) <= SumFunctionOnSet(weights, D)
    BY <1>0, <2>2, <2>3, SumZeros, SumAtMost
  <2>5. SumFunctionOnSet(weights, D) \in Int
    BY <1>0, <2>2, SumType
  <2> QED BY <2>1, <2>4, <2>5
<1>2. CASE total = 0 \/ amount = 0
  <2>1. amount = 0
    BY <1>1, <1>2
  <2>2. DistributeProportionally(amount, weights) = [i \in D |-> 0]
    BY <2>1 DEF DistributeProportionally
  <2>3. SumCents([i \in D |-> 0]) = 0
    BY <1>0, SumZeros DEF SumCents, SumFunction
  <2> QED BY <2>1, <2>2, <2>3
<1>3. CASE total # 0 /\ amount # 0
  <2>0. total \in Nat \ {0} /\ amount \in Nat \ {0} /\ amount <= total
    BY <1>1, <1>3
  <2>1. DistributeProportionally(amount, weights) = shares
    <3>1. DOMAIN weights = D /\ ~(total <= 0)
      BY <2>0
    <3> QED BY <2>0, <3>1 DEF DistributeProportionally
  <2>2. \A i \in D : /\ weights[i] \in Nat /\ amount * weights[i] \in Nat
                     /\ floored[i] \in Nat /\ fraction[i] \in 0..(total - 1)
                     /\ amount * weights[i] = total * floored[i] + fraction[i]
    <3> TAKE i \in D
    <3>1. weights[i] \in Nat /\ amount * weights[i] \in Nat
      BY <2>0, Multiplied
    <3> HIDE DEF total
    <3> QED BY <2>0, <3>1, Divided
  <2>3. \A i \in D : before[i] = {j \in D : \/ fraction[j] > fraction[i]
                                            \/ fraction[j] = fraction[i] /\ j < i}
    OBVIOUS
  <2>4. IsOrder(before, D)
    <3>1. before \in [D -> SUBSET D]
      OBVIOUS
    <3>2. \A i \in D : fraction[i] \in Int /\ i \in Int
      BY <2>2
    <3> HIDE DEF before, fraction, D
    <3>3. \A i, j \in D : j \in before[i] <=> \/ fraction[j] > fraction[i]
                                              \/ fraction[j] = fraction[i] /\ j < i
      BY <2>3
    <3>4. \A i \in D : i \notin before[i]
      BY <3>2, <3>3
    <3>5. \A i, j \in D : i # j => i \in before[j] \/ j \in before[i]
      BY <3>2, <3>3
    <3>6. \A i, j \in D : j \in before[i] => before[j] \subseteq before[i]
      <4> TAKE i, j \in D
      <4> HAVE j \in before[i]
      <4>1. ASSUME NEW k \in D, k \in before[j] PROVE k \in before[i]
        BY <3>2, <3>3, <4>1
      <4> QED BY <3>1, <4>1
    <3> QED BY <3>1, <3>4, <3>5, <3>6 DEF IsOrder
  <2> DEFINE whole == SumFunctionOnSet(floored, D)
             rest == SumFunctionOnSet(fraction, D)
             Some == {i \in D : fraction[i] > 0}
             one == [i \in D |-> IF i \in Some THEN 1 ELSE 0]
             scaled == [i \in D |-> amount * weights[i]]
             wholes == [i \in D |-> total * floored[i]]
             most == [i \in D |-> (total - 1) * one[i]]
  <2>5. SumCents(floored) = whole /\ whole \in Int /\ rest \in Int
    <3>1. \A i \in D : floored[i] \in Int /\ fraction[i] \in Int
      BY <2>2
    <3>2. SumCents(floored) = whole
      BY DEF SumCents, SumFunction
    <3> HIDE DEF floored, fraction, D
    <3> QED BY <1>0, <3>1, <3>2, SumType
  <2>6. \A i \in D : scaled[i] = amount * weights[i] /\ wholes[i] = total * floored[i]
    OBVIOUS
  <2>7. SumFunctionOnSet(scaled, D) = amount * total
    <3>1. amount \in Int /\ \A i \in D : weights[i] \in Int /\ scaled[i] = amount * weights[i]
      BY <2>0, <2>2, <2>6
    <3> HIDE DEF D, scaled, total
    <3>2. SumFunctionOnSet(scaled, D) = amount * SumFunctionOnSet(weights, D)
      BY <1>0, <3>1, SumScale
    <3> QED BY <1>1, <3>2
  <2>8. SumFunctionOnSet(wholes, D) = total * whole
    <3> HIDE DEF D, wholes, total, floored
    <3> QED BY <1>0, <2>0, <2>2, <2>6, SumScale
  <2>9. SumFunctionOnSet(scaled, D) = SumFunctionOnSet(wholes, D) + rest
    <3>1. \A i \in D : wholes[i] \in Int /\ fraction[i] \in Int /\ scaled[i] = wholes[i] + fraction[i]
      <4> TAKE i \in D
      <4> HIDE DEF wholes, scaled, total, floored, fraction
      <4>1. total * floored[i] \in Nat
        BY <2>0, <2>2, Multiplied
      <4> QED BY <2>2, <2>6, <4>1
    <3> HIDE DEF D, wholes, total, floored, scaled, fraction
    <3> QED BY <1>0, <3>1, SumPlus
  <2>10. left \in Int /\ left = amount - whole /\ total * left = rest
    <3>1. left = amount - whole
      BY <2>5
    <3> HIDE DEF whole, rest, total, left, scaled, wholes
    <3>2. left \in Int /\ amount = whole + left
      BY <2>0, <2>5, <3>1
    <3>3. total * amount = total * whole + total * left
      BY <2>0, <2>5, <3>2, Multiplied
    <3>4. total * amount = amount * total
      BY <2>0
    <3>5. amount * total = total * whole + rest
      BY <2>7, <2>8, <2>9
    <3>6. total * whole \in Int /\ total * left \in Int
      BY <2>0, <2>5, <3>2
    <3> HIDE DEF D
    <3> QED BY <2>5, <3>1, <3>2, <3>3, <3>4, <3>5, <3>6
  <2>11. /\ Cardinality(Some) \in Nat /\ Cardinality(Some) <= n
         /\ SumFunctionOnSet(one, D) = Cardinality(Some)
    <3>1. Some \in SUBSET D
      OBVIOUS
    <3>2. IsFiniteSet(Some) /\ Cardinality(Some) <= n
      <4> HIDE DEF D, Some
      <4> QED BY <1>0, <3>1, FS_Subset
    <3>3. Cardinality(Some) \in Nat
      BY <3>2, FS_CardinalityType
    <3> HIDE DEF Some, D
    <3> QED BY <1>0, <3>1, <3>2, <3>3, SumCount
  <2>12. 0 <= rest /\ rest <= (total - 1) * Cardinality(Some)
    <3> DEFINE z == [i \in D |-> 0]
    <3>1. \A i \in D : /\ one[i] \in Int /\ one[i] = (IF i \in Some THEN 1 ELSE 0)
                       /\ most[i] = (total - 1) * one[i] /\ z[i] = 0
      OBVIOUS
    <3>2. \A i \in D : most[i] \in Int /\ fraction[i] \in Int /\ 0 <= fraction[i] /\ fraction[i] <= most[i]
      <4> TAKE i \in D
      <4>1. fraction[i] \in 0..(total - 1) /\ (i \in Some <=> fraction[i] > 0)
        BY <2>2
      <4> HIDE DEF Some, one, most, fraction, total
      <4>2. CASE i \in Some
        <5>1. most[i] = (total - 1) * 1
          BY <3>1, <4>2
        <5> QED BY <2>0, <4>1, <5>1
      <4>3. CASE i \notin Some
        <5>1. most[i] = (total - 1) * 0
          BY <3>1, <4>3
        <5> QED BY <2>0, <4>1, <4>3, <5>1
      <4> QED BY <4>2, <4>3
    <3>3. total - 1 \in Int
      BY <2>0
    <3> HIDE DEF D, Some, one, most, fraction, total, z
    <3>4. SumFunctionOnSet(most, D) = (total - 1) * SumFunctionOnSet(one, D)
      BY <1>0, <3>1, <3>3, SumScale
    <3>5. SumFunctionOnSet(z, D) = 0 /\ SumFunctionOnSet(z, D) <= rest
      BY <1>0, <3>1, <3>2, SumZeros, SumAtMost
    <3>6. rest <= SumFunctionOnSet(most, D)
      BY <1>0, <3>2, SumAtMost
    <3> QED BY <2>11, <3>4, <3>5, <3>6
  <2>13. 0 <= left /\ left <= Cardinality(Some)
    <3> DEFINE k == Cardinality(Some)
    <3> HIDE DEF D, Some, fraction, total, left, rest, k
    <3>0. k \in Nat /\ rest \in Int /\ rest <= (total - 1) * k /\ 0 <= rest /\ total * left = rest /\ left \in Int
      BY <2>5, <2>10, <2>11, <2>12 DEF k
    <3>1. total * k = (total - 1) * k + k
      <4>1. total - 1 \in Int /\ total = (total - 1) + 1
        BY <2>0
      <4>2. \A x \in Int : (x + 1) * k = x * k + k
        BY <3>0
      <4> QED BY <4>1, <4>2
    <3>2. (total - 1) * k <= total * k
      BY <2>0, <3>0, <3>1
    <3>3. ASSUME left < 0 PROVE FALSE
      <4>1. 0 - left \in Nat \ {0}
        BY <3>0, <3>3
      <4>2. total * 1 <= total * (0 - left)
        BY <2>0, <4>1, Multiplied
      <4>3. total * (0 - left) = 0 - total * left
        BY <2>0, <3>0
      <4> QED BY <2>0, <3>0, <4>2, <4>3
    <3>4. ASSUME left > k PROVE FALSE
      <4>1. left \in Nat /\ k + 1 \in Nat /\ k + 1 <= left
        BY <3>0, <3>4
      <4>2. total * (k + 1) <= total * left
        BY <2>0, <4>1, Multiplied
      <4>3. total * (k + 1) = total * k + total * 1
        BY <2>0, <3>0, Multiplied
      <4>4. total * 1 = total
        BY <2>0
      <4>5. total * k \in Int /\ (total - 1) * k \in Int
        BY <2>0, <3>0
      <4> QED BY <2>0, <3>0, <3>2, <4>2, <4>3, <4>4, <4>5
    <3> QED BY <3>0, <3>3, <3>4 DEF k
  <2>14. Cardinality(Given) = left
    <3>1. left \in 0..Cardinality(D)
      <4> HIDE DEF D, Some, left
      <4> QED BY <1>0, <2>10, <2>11, <2>13
    <3> HIDE DEF D, before, left
    <3> QED BY <1>0, <2>4, <3>1, FirstRanks
  <2>15. SumCents(shares) = amount
    <3> DEFINE more == [i \in D |-> IF i \in Given THEN 1 ELSE 0]
    <3>1. Given \in SUBSET D
      OBVIOUS
    <3>2. \A i \in D : floored[i] \in Int /\ more[i] \in Int /\ shares[i] = floored[i] + more[i]
      BY <2>2
    <3>3. SumCents(shares) = SumFunctionOnSet(shares, D)
      BY DEF SumCents, SumFunction
    <3>4. SumFunctionOnSet(more, D) = Cardinality(Given)
      <4> HIDE DEF D, Given
      <4> QED BY <1>0, <3>1, SumCount
    <3> HIDE DEF D, Given, shares, floored, more, left
    <3>5. SumFunctionOnSet(shares, D) = whole + SumFunctionOnSet(more, D)
      BY <1>0, <3>2, SumPlus
    <3> HIDE DEF whole
    <3> QED BY <2>0, <2>5, <2>10, <2>14, <3>3, <3>4, <3>5
  <2>16. \A i \in D : shares[i] \in 0..weights[i]
    <3> TAKE i \in D
    <3> DEFINE w == weights[i]  q == floored[i]
    <3>1. shares[i] = q + IF i \in Given THEN 1 ELSE 0
      OBVIOUS
    <3>2. w \in Nat /\ q \in Nat /\ fraction[i] \in Nat /\ amount * w = total * q + fraction[i]
      BY <2>2
    <3>3. i \in Given => fraction[i] > 0
      <4> SUFFICES ASSUME i \in Given, ~(fraction[i] > 0) PROVE FALSE
        OBVIOUS
      <4>1. Cardinality(before[i]) < left
        OBVIOUS
      <4>2. Some \in SUBSET before[i]
        <5>1. \A j \in D : fraction[j] \in Nat
          <6> TAKE j \in D
          <6>1. fraction[j] \in 0..(total - 1)
            BY <2>2
          <6> HIDE DEF fraction, total, before, D
          <6> QED BY <2>0, <6>1
        <5>2. fraction[i] = 0
          BY <3>2
        <5>3. ASSUME NEW j \in Some PROVE j \in before[i]
          <6>1. j \in D /\ fraction[j] > 0 /\ fraction[j] \in Nat
            BY <5>1
          <6>2. fraction[j] > fraction[i]
            BY <5>2, <6>1
          <6> HIDE DEF before, fraction, D, Some
          <6> QED BY <2>3, <6>1, <6>2
        <5> QED BY <5>3
      <4>3. IsFiniteSet(before[i]) /\ Cardinality(before[i]) \in Nat
        <5>1. before[i] \in SUBSET D
          BY <2>3
        <5> QED BY <1>0, <5>1, FS_Subset, FS_CardinalityType
      <4>4. Cardinality(Some) <= Cardinality(before[i])
        <5> HIDE DEF before, Some
        <5> QED BY <4>2, <4>3, FS_Subset
      <4> HIDE DEF before, Some, left
      <4> QED BY <2>10, <2>11, <2>13, <4>1, <4>3, <4>4
    <3> HIDE DEF Given, floored, fraction, total, shares, w, q
    <3>4. amount * w <= total * w
      <4>1. w * amount <= w * total
        BY <2>0, <3>2, Multiplied
      <4>2. w * amount = amount * w /\ w * total = total * w
        BY <2>0, <3>2
      <4> QED BY <4>1, <4>2
    <3>5. total * q \in Nat /\ total * w \in Nat
      BY <2>0, <3>2, Multiplied
    <3>6. ASSUME w < q PROVE FALSE
      <4>1. w + 1 \in Nat /\ w + 1 <= q
        BY <3>2, <3>6
      <4>2. total * (w + 1) <= total * q
        BY <2>0, <3>2, <4>1, Multiplied
      <4>3. total * (w + 1) = total * w + total * 1
        BY <2>0, <3>2, Multiplied
      <4>4. total * 1 = total
        BY <2>0
      <4>5. amount * w \in Nat /\ total * q <= amount * w
        <5>1. amount * w \in Nat
          BY <2>0, <3>2, Multiplied
        <5> QED BY <3>2, <3>5, <5>1
      <4> QED BY <2>0, <3>4, <3>5, <4>2, <4>3, <4>4, <4>5
    <3>7. i \in Given => w # q
      BY <3>2, <3>3, <3>4, <3>5
    <3> QED BY <3>1, <3>2, <3>6, <3>7 DEF w
  <2>17. DOMAIN shares = 1..n
    OBVIOUS
  <2> HIDE DEF shares
  <2> QED BY <2>1, <2>15, <2>16, <2>17
<1> HIDE DEF total
<1> QED BY <1>2, <1>3
LEMMA RoundedType ==
    ASSUME NEW n \in Int, NEW d \in Nat \ {0}
    PROVE  /\ RoundHalfAwayFromZero(n, d) \in Int
           /\ n >= 0 => RoundHalfAwayFromZero(n, d) \in Nat
<1>1. 2 * d \in Nat \ {0} /\ 2 * n + d \in Int /\ d - 2 * n \in Int
  OBVIOUS
<1>2. ASSUME NEW a \in Int, NEW b \in Nat \ {0}
      PROVE  a \div b \in Int /\ (a >= 0 => a \div b >= 0)
  <2>1. a \div b \in Int
    OBVIOUS
  <2>2. ASSUME a >= 0 PROVE a \div b >= 0
    BY <2>2
  <2> QED BY <2>1, <2>2
<1>3. (2 * n + d) \div (2 * d) \in Int /\ (2 * n + d >= 0 => (2 * n + d) \div (2 * d) >= 0)
  BY <1>1, <1>2
<1>4. (d - 2 * n) \div (2 * d) \in Int
  BY <1>1, <1>2
<1>5. n >= 0 => 2 * n + d >= 0
  OBVIOUS
<1>6. -((d - 2 * n) \div (2 * d)) \in Int
  BY <1>4
<1> QED BY <1>3, <1>5, <1>6 DEF RoundHalfAwayFromZero

LEMMA LineAmountType ==
    ASSUME NEW price \in Nat, NEW qty \in Nat
    PROVE  LineAmount(price, qty) \in Nat
<1>1. price * qty \in Nat
  OBVIOUS
<1> QED BY <1>1, RoundedType, ScalesAssumption DEF LineAmount

LEMMA TaxType ==
    ASSUME NEW net \in Nat, NEW rate \in Nat
    PROVE  TaxOf(net, rate) \in Nat
<1>1. net * rate \in Nat /\ BpScale + rate \in Nat \ {0} /\ BpScale \in Nat \ {0}
  BY ScalesAssumption
<1> HIDE DEF RoundHalfAwayFromZero
<1>2. /\ RoundHalfAwayFromZero(net * rate, BpScale + rate) \in Nat
      /\ RoundHalfAwayFromZero(net * rate, BpScale) \in Nat
  BY <1>1, RoundedType
<1> QED BY <1>2 DEF TaxOf

LEMMA ClampType ==
    ASSUME NEW value \in Int, NEW max \in Nat
    PROVE  Clamp(value, 0, max) \in 0..max
BY DEF Clamp, Least, Most

\* A cart the screen may show: no line costs less than nothing.
Priced(lines) ==
  /\ \E n \in Nat : DOMAIN lines = 1..n
  /\ \A i \in DOMAIN lines :
       /\ lines[i].product \in Products /\ lines[i].price \in Nat /\ lines[i].qty \in Nat
       /\ lines[i].discount \in 0..LineAmount(lines[i].price, lines[i].qty)

\* The totals of a ticket add up (computeTotals).
LEMMA CartAddsUp ==
    ASSUME NEW c, Priced(c.lines), c.discount \in Int
    PROVE  LET t == ComputeTotals(c)
               rates == DOMAIN t.breakdown
               base == SumFunction([rate \in rates |-> t.breakdown[rate].base])
               tax == SumFunction([rate \in rates |-> t.breakdown[rate].tax])
               gross == SumCents([i \in DOMAIN t.lines |-> t.lines[i].gross])
               net == SumCents([i \in DOMAIN t.lines |-> t.lines[i].net])
           IN  /\ \A i \in DOMAIN t.lines : t.lines[i].net \in 0..t.lines[i].gross
               /\ gross = net + t.discount
               /\ tax = t.tax /\ base + tax = t.total
               /\ t.total \in Nat
<1> DEFINE D == DOMAIN c.lines
           gross == [i \in D |-> LineAmount(c.lines[i].price, c.lines[i].qty)]
           off == [i \in D |-> c.lines[i].discount]
           after == AfterLineDiscount(c)
           subtotal == SumCents(after)
           global == Clamp(c.discount, 0, subtotal)
           shares == DistributeProportionally(global, after)
           net == [i \in D |-> after[i] - shares[i]]
           rate == [i \in D |-> Tariff[c.lines[i].product].rate]
           tax == [i \in D |-> TaxOf(net[i], rate[i])]
           base == [i \in D |-> IF TaxIncluded THEN net[i] - tax[i] ELSE net[i]]
           lines == [i \in D |-> [gross |-> gross[i], discount |-> off[i] + shares[i],
                                  net |-> net[i], tax |-> tax[i], rate |-> rate[i]]]
           Rates == {rate[i] : i \in D}
           t == ComputeTotals(c)
<1>1. PICK n \in Nat : D = 1..n
  BY DEF Priced
<1>2. IsFiniteSet(D)
  <2> HIDE DEF D
  <2> QED BY <1>1, FS_Interval
<1>3. \A i \in D : /\ gross[i] \in Nat /\ off[i] \in 0..gross[i] /\ after[i] = gross[i] - off[i]
                   /\ after[i] \in Nat /\ rate[i] \in Nat
  <2> TAKE i \in D
  <2> DEFINE item == c.lines[i]
  <2>1. /\ item.product \in Products /\ item.price \in Nat /\ item.qty \in Nat
        /\ item.discount \in 0..LineAmount(item.price, item.qty)
    BY DEF Priced
  <2>2. /\ gross[i] = LineAmount(item.price, item.qty) /\ off[i] = item.discount
        /\ after[i] = LineAmount(item.price, item.qty) - item.discount
        /\ rate[i] = Tariff[item.product].rate
    BY DEF AfterLineDiscount
  <2> HIDE DEF item, gross, off, after, rate
  <2>3. LineAmount(item.price, item.qty) \in Nat
    BY <2>1, LineAmountType
  <2>4. Tariff[item.product].rate \in Nat
    BY <2>1, TariffAssumption
  <2> QED BY <2>1, <2>2, <2>3, <2>4
<1>4. after \in [1..n -> Nat] /\ DOMAIN after = D
  <2>1. after = [i \in D |-> after[i]]
    BY DEF AfterLineDiscount
  <2> HIDE DEF after
  <2> QED BY <1>1, <1>3, <2>1
<1>5. subtotal \in Nat
  <2>1. subtotal = SumFunctionOnSet(after, D)
    BY <1>4 DEF SumCents, SumFunction
  <2> DEFINE z == [i \in D |-> 0]
  <2>2. \A i \in D : z[i] \in Int /\ z[i] = 0 /\ after[i] \in Int /\ z[i] <= after[i]
    <3>1. \A i \in D : z[i] = 0
      OBVIOUS
    <3> HIDE DEF z, D, after, gross, off, rate
    <3> QED BY <1>3, <3>1
  <2> HIDE DEF z, D, after
  <2>3. SumFunctionOnSet(z, D) = 0 /\ SumFunctionOnSet(z, D) <= SumFunctionOnSet(after, D)
    BY <1>2, <2>2, SumZeros, SumAtMost
  <2>4. SumFunctionOnSet(after, D) \in Int
    BY <1>2, <2>2, SumType
  <2> QED BY <2>1, <2>3, <2>4
<1>6. global \in 0..subtotal
  BY <1>5, ClampType
<1>7. /\ DOMAIN shares = D /\ SumCents(shares) = global
      /\ \A i \in D : shares[i] \in 0..after[i]
  <2> HIDE DEF after, global
  <2> QED BY <1>1, <1>4, <1>6, SharedToTheCent
<1>8. \A i \in D : net[i] \in 0..after[i] /\ tax[i] \in Nat /\ shares[i] \in Nat
  <2> TAKE i \in D
  <2>1. net[i] = after[i] - shares[i] /\ tax[i] = TaxOf(net[i], rate[i])
    OBVIOUS
  <2> HIDE DEF D, gross, off, after, shares, net, rate, tax
  <2>2. net[i] \in 0..after[i] /\ net[i] \in Nat
    BY <1>3, <1>7, <2>1
  <2>3. tax[i] \in Nat
    BY <1>3, <2>1, <2>2, TaxType
  <2>4. shares[i] \in Nat
    BY <1>3, <1>7
  <2> QED BY <2>2, <2>3, <2>4
<1>9. /\ t.lines = lines
      /\ t.discount = SumCents(off) + global
      /\ t.tax = SumCents(tax)
      /\ t.total = IF TaxIncluded THEN SumCents(net) ELSE SumCents(net) + SumCents(tax)
      /\ t.breakdown = BuildTaxBreakdown(lines)
  <2>1. /\ [i \in D |-> lines[i].net] = net
        /\ [i \in D |-> lines[i].tax] = tax
    OBVIOUS
  <2> QED BY <2>1 DEF ComputeTotals
<1>10. DOMAIN lines = D /\ \A i \in D : /\ lines[i].gross = gross[i] /\ lines[i].net = net[i]
                                        /\ lines[i].tax = tax[i] /\ lines[i].rate = rate[i]
  OBVIOUS
<1>11. t.breakdown = [r \in Rates |->
          [base |-> SumFunctionOnSet(base, {i \in D : rate[i] = r}),
           tax |-> SumFunctionOnSet(tax, {i \in D : rate[i] = r})]]
  <2> HIDE DEF gross, off, net, rate, tax
  <2>1. /\ [i \in D |-> IF TaxIncluded THEN lines[i].net - lines[i].tax ELSE lines[i].net] = base
        /\ [i \in D |-> lines[i].tax] = [i \in D |-> tax[i]]
        /\ {lines[i].rate : i \in D} = Rates
        /\ \A r : {i \in D : lines[i].rate = r} = {i \in D : rate[i] = r}
    OBVIOUS
  <2>2. [i \in D |-> tax[i]] = tax
    BY DEF tax
  <2>3. DOMAIN lines = D
    OBVIOUS
  <2> HIDE DEF lines, base, D, t, Rates
  <2>4. BuildTaxBreakdown(lines) = [r \in Rates |->
          [base |-> SumFunctionOnSet(base, {i \in D : rate[i] = r}),
           tax |-> SumFunctionOnSet(tax, {i \in D : rate[i] = r})]]
    <3> DEFINE Of(r) == {i \in DOMAIN lines : lines[i].rate = r}
               bases == [i \in DOMAIN lines |->
                           IF TaxIncluded THEN lines[i].net - lines[i].tax ELSE lines[i].net]
               taxes == [i \in DOMAIN lines |-> lines[i].tax]
    <3>1. BuildTaxBreakdown(lines) = [r \in {lines[i].rate : i \in DOMAIN lines} |->
            [base |-> SumFunctionOnSet(bases, Of(r)), tax |-> SumFunctionOnSet(taxes, Of(r))]]
      BY DEF BuildTaxBreakdown
    <3>2. bases = base /\ taxes = tax /\ \A r : Of(r) = {i \in D : rate[i] = r}
      BY <2>1, <2>2, <2>3
    <3>3. {lines[i].rate : i \in DOMAIN lines} = Rates
      BY <2>1, <2>3
    <3> HIDE DEF bases, taxes, Of
    <3> QED BY <3>1, <3>2, <3>3
  <2> QED BY <1>9, <2>4
<1>12. IsFiniteSet(Rates) /\ \A i \in D : rate[i] \in Rates
  <2>1. rate \in Surjection(D, Rates)
    BY DEF Surjection
  <2> HIDE DEF rate, D
  <2>2. IsFiniteSet(Rates)
    <3> HIDE DEF Rates
    <3> QED BY <1>2, <2>1, FS_Surjection
  <2> QED BY <2>2
<1>13. \A i \in D : /\ base[i] = (IF TaxIncluded THEN net[i] - tax[i] ELSE net[i])
                    /\ base[i] \in Int /\ net[i] \in Nat /\ tax[i] \in Nat
  <2> TAKE i \in D
  <2>1. base[i] = IF TaxIncluded THEN net[i] - tax[i] ELSE net[i]
    OBVIOUS
  <2> HIDE DEF base, net, tax, after
  <2> QED BY <1>3, <1>8, <2>1
<1>14. /\ SumCents(net) = SumFunctionOnSet(net, D) /\ SumCents(tax) = SumFunctionOnSet(tax, D)
       /\ SumCents(off) = SumFunctionOnSet(off, D) /\ SumCents(shares) = SumFunctionOnSet(shares, D)
       /\ SumCents(gross) = SumFunctionOnSet(gross, D)
  <2> HIDE DEF shares
  <2> QED BY <1>7 DEF SumCents, SumFunction
<1> DEFINE N == SumFunctionOnSet(net, D)  X == SumFunctionOnSet(tax, D)
           B == SumFunctionOnSet(base, D)
           bases == [r \in Rates |-> SumFunctionOnSet(base, {i \in D : rate[i] = r})]
           taxes == [r \in Rates |-> SumFunctionOnSet(tax, {i \in D : rate[i] = r})]
<1>15. N \in Int /\ X \in Int /\ B \in Int
  <2> HIDE DEF net, tax, base, D
  <2> QED BY <1>2, <1>13, SumType
<1>16. IF TaxIncluded THEN N = B + X ELSE N = B
  <2> HIDE DEF net, tax, base, D
  <2>1. TaxIncluded => \A i \in D : net[i] = base[i] + tax[i]
    BY <1>13
  <2>2. TaxIncluded => N = B + X
    BY <1>2, <1>13, <2>1, SumPlus
  <2>3. ~TaxIncluded => N = B
    BY <1>2, <1>13, SumSame
  <2> QED BY <2>2, <2>3
<1>17. SumFunctionOnSet(bases, Rates) = B /\ SumFunctionOnSet(taxes, Rates) = X
  <2> HIDE DEF net, tax, base, rate, Rates, D
  <2> QED BY <1>2, <1>12, <1>13, SumGroups
<1>18. /\ DOMAIN t.breakdown = Rates
       /\ SumFunction([r \in Rates |-> t.breakdown[r].base]) = B
       /\ SumFunction([r \in Rates |-> t.breakdown[r].tax]) = X
  <2>1. DOMAIN t.breakdown = Rates /\ \A r \in Rates : t.breakdown[r].base = bases[r] /\ t.breakdown[r].tax = taxes[r]
    <3> HIDE DEF t, base, rate, tax, D, Rates
    <3> QED BY <1>11
  <2> HIDE DEF t, Rates, B, X
  <2>2. /\ [r \in Rates |-> t.breakdown[r].base] = [r \in Rates |-> bases[r]]
        /\ [r \in Rates |-> t.breakdown[r].tax] = [r \in Rates |-> taxes[r]]
    BY <2>1
  <2>3. [r \in Rates |-> bases[r]] = bases /\ [r \in Rates |-> taxes[r]] = taxes
    OBVIOUS
  <2>4. DOMAIN bases = Rates /\ DOMAIN taxes = Rates
    OBVIOUS
  <2> HIDE DEF bases, taxes
  <2> QED BY <1>17, <2>1, <2>2, <2>3, <2>4 DEF SumFunction
<1>19. SumFunctionOnSet(gross, D) = N + (SumFunctionOnSet(off, D) + SumFunctionOnSet(shares, D))
  <2> DEFINE less == [i \in D |-> off[i] + shares[i]]
  <2>1. \A i \in D : /\ off[i] \in Int /\ shares[i] \in Int /\ less[i] = off[i] + shares[i]
                     /\ net[i] \in Int /\ less[i] \in Int /\ gross[i] = net[i] + less[i]
    <3> TAKE i \in D
    <3>1. less[i] = off[i] + shares[i] /\ net[i] = after[i] - shares[i]
      OBVIOUS
    <3> HIDE DEF less, off, shares, net, after, gross, rate, D
    <3> QED BY <1>3, <1>7, <3>1
  <2> HIDE DEF less, off, shares, net, gross, D
  <2>2. SumFunctionOnSet(less, D) = SumFunctionOnSet(off, D) + SumFunctionOnSet(shares, D)
    BY <1>2, <2>1, SumPlus
  <2>3. SumFunctionOnSet(gross, D) = SumFunctionOnSet(net, D) + SumFunctionOnSet(less, D)
    BY <1>2, <2>1, SumPlus
  <2> QED BY <2>2, <2>3
<1>20. N \in Nat /\ X \in Nat
  <2> DEFINE z == [i \in D |-> 0]
  <2>1. \A i \in D : z[i] \in Int /\ z[i] = 0 /\ net[i] \in Int /\ z[i] <= net[i] /\ tax[i] \in Int /\ z[i] <= tax[i]
    <3>1. \A i \in D : z[i] = 0
      OBVIOUS
    <3> HIDE DEF z, D, net, tax, base
    <3> QED BY <1>13, <3>1
  <2> HIDE DEF z, net, tax, D
  <2>2. SumFunctionOnSet(z, D) = 0 /\ SumFunctionOnSet(z, D) <= N /\ SumFunctionOnSet(z, D) <= X
    BY <1>2, <2>1, SumZeros, SumAtMost
  <2> QED BY <1>15, <2>2
<1>21. /\ [i \in DOMAIN t.lines |-> t.lines[i].gross] = gross
       /\ [i \in DOMAIN t.lines |-> t.lines[i].net] = net
  <2>1. t.lines = lines
    BY <1>9
  <2> HIDE DEF t, lines
  <2>2. /\ [i \in DOMAIN t.lines |-> t.lines[i].gross] = [i \in D |-> gross[i]]
        /\ [i \in DOMAIN t.lines |-> t.lines[i].net] = [i \in D |-> net[i]]
    <3> HIDE DEF gross, net
    <3> QED BY <1>10, <2>1
  <2> QED BY <2>2
<1>22. \A i \in DOMAIN t.lines : t.lines[i].net \in 0..t.lines[i].gross
  <2>1. \A i \in D : net[i] \in 0..gross[i]
    <3> HIDE DEF net, gross, after, off, shares, tax, rate, D
    <3> QED BY <1>3, <1>8
  <2>2. t.lines = lines
    BY <1>9
  <2> HIDE DEF t, lines, net, gross, D
  <2> QED BY <1>10, <2>1, <2>2
<1>23. SumCents(gross) = SumCents(net) + t.discount
  <2> HIDE DEF t, net, gross, off, shares, global
  <2>1. SumFunctionOnSet(off, D) \in Int
    <3>1. \A i \in D : off[i] \in Int
      <4> HIDE DEF off, gross, after, rate, D
      <4> QED BY <1>3
    <3> HIDE DEF D
    <3> QED BY <1>2, <3>1, SumType
  <2>2. global \in Int
    BY <1>5, <1>6
  <2> HIDE DEF N
  <2> QED BY <1>7, <1>9, <1>14, <1>15, <1>19, <2>1, <2>2 DEF N
<1>24. t.tax = X /\ t.total = B + X /\ t.total \in Nat
  <2> HIDE DEF t
  <2>1. t.tax = X /\ t.total = IF TaxIncluded THEN N ELSE N + X
    BY <1>9, <1>14
  <2> HIDE DEF N, X, B
  <2> QED BY <1>15, <1>16, <1>20, <2>1
<1>25. SumFunction([r \in DOMAIN t.breakdown |-> t.breakdown[r].base]) = B
  <2> HIDE DEF t, Rates, B
  <2> QED BY <1>18
<1>26. SumFunction([r \in DOMAIN t.breakdown |-> t.breakdown[r].tax]) = X
  <2> HIDE DEF t, Rates, X
  <2> QED BY <1>18
<1>27. SumCents([i \in DOMAIN t.lines |-> t.lines[i].gross]) =
         SumCents([i \in DOMAIN t.lines |-> t.lines[i].net]) + t.discount
  <2> HIDE DEF t, gross, net
  <2> QED BY <1>21, <1>23
<1> HIDE DEF t, gross, net, B, X, Rates
<1>28. X = t.tax /\ B + X = t.total
  BY <1>24
<1>29. /\ SumFunction([r \in DOMAIN t.breakdown |-> t.breakdown[r].tax]) = t.tax
       /\ SumFunction([r \in DOMAIN t.breakdown |-> t.breakdown[r].base])
            + SumFunction([r \in DOMAIN t.breakdown |-> t.breakdown[r].tax]) = t.total
  BY <1>25, <1>26, <1>28
<1> HIDE DEF Priced
<1>30. t = ComputeTotals(c)
  BY DEF t
<1> QED BY <1>22, <1>24, <1>27, <1>29, <1>30

\* The promotions a screen has loaded are those of the list, at their places.
Offered(ps) == \A i \in DOMAIN ps : i \in DOMAIN Promotions /\ ps[i] = Promotions[i]

LEMMA DiscountType ==
    ASSUME NEW ps, Offered(ps), NEW i \in DOMAIN ps, NEW item \in Line
    PROVE  PromotionDiscount(ps[i], item) \in 0..LineAmount(item.price, item.qty)
<1> DEFINE p == ps[i]
           gross == LineAmount(item.price, item.qty)
           units == item.qty \div QtyScale
           offered == IF p.buyQty <= p.payQty \/ p.payQty < 1 THEN 0
                      ELSE (units \div p.buyQty) * (p.buyQty - p.payQty)
<1>1. item.price \in Nat /\ item.qty \in Nat
  BY DEF Line
<1>2. gross \in Nat
  BY <1>1, LineAmountType
<1>3. /\ p.kind \in {"pourcentage", "montant", "quantite"}
      /\ p.value \in Int /\ p.buyQty \in Int /\ p.payQty \in Int
  BY PromotionsAssumption DEF Offered
<1>4. units \in Int
  BY <1>1, ScalesAssumption
<1> HIDE DEF p, gross, units
<1>5. offered \in Int
  <2>1. CASE p.buyQty <= p.payQty \/ p.payQty < 1
    BY <2>1
  <2>2. CASE ~(p.buyQty <= p.payQty \/ p.payQty < 1)
    <3>1. p.buyQty \in Nat \ {0} /\ p.buyQty - p.payQty \in Int
      BY <1>3, <2>2
    <3>2. units \div p.buyQty \in Int
      BY <1>4, <3>1
    <3>3. (units \div p.buyQty) * (p.buyQty - p.payQty) \in Int
      <4>1. \A x, y \in Int : x * y \in Int
        OBVIOUS
      <4> QED BY <3>1, <3>2, <4>1
    <3> QED BY <2>2, <3>3
  <2> QED BY <2>1, <2>2
<1> HIDE DEF offered
<1>6. PercentAmount(gross, p.value) \in Int
  <2>1. gross * p.value \in Int
    BY <1>2, <1>3
  <2> QED BY <2>1, RoundedType, ScalesAssumption DEF PercentAmount
<1>7. p.value * units \in Int /\ offered * item.price \in Int
  <2>1. \A x, y \in Int : x * y \in Int
    OBVIOUS
  <2> QED BY <1>1, <1>3, <1>4, <1>5, <2>1
<1>8. /\ Clamp(PercentAmount(gross, p.value), 0, gross) \in 0..gross
      /\ Clamp(p.value * units, 0, gross) \in 0..gross
      /\ Clamp(offered * item.price, 0, gross) \in 0..gross
  BY <1>2, <1>6, <1>7, ClampType
<1>9. PromotionDiscount(p, item) =
        CASE p.kind = "pourcentage" -> Clamp(PercentAmount(gross, p.value), 0, gross)
          [] p.kind = "montant" -> Clamp(p.value * units, 0, gross)
          [] p.kind = "quantite" -> Clamp(offered * item.price, 0, gross)
  BY DEF PromotionDiscount, gross, units, offered
<1>10. PromotionDiscount(p, item) \in 0..gross
  <2>1. CASE p.kind = "pourcentage"
    BY <1>8, <1>9, <2>1
  <2>2. CASE p.kind = "montant"
    BY <1>8, <1>9, <2>2
  <2>3. CASE p.kind = "quantite"
    BY <1>8, <1>9, <2>3
  <2> QED BY <1>3, <2>1, <2>2, <2>3
<1> QED BY <1>10 DEF p, gross

\* Of the promotions that give something there is a first among the most generous.
LEMMA BestGiven ==
    ASSUME NEW ps, Offered(ps), NEW item \in Line, NEW d, BestPromotion(ps, item, d) # 0
    PROVE  /\ BestPromotion(ps, item, d) \in DOMAIN ps
           /\ PromotionDiscount(ps[BestPromotion(ps, item, d)], item) > 0
<1> DEFINE granted(i) == PromotionDiscount(ps[i], item)
           gross == LineAmount(item.price, item.qty)
           eligible == {i \in DOMAIN ps : /\ PromotionRuns(ps[i], d) /\ PromotionTargets(ps[i], item)
                                          /\ granted(i) > 0}
           Best(i) == \A j \in eligible : granted(i) > granted(j) \/ (granted(i) = granted(j) /\ i <= j)
<1>1. \A i \in DOMAIN ps : i \in Nat /\ granted(i) \in 0..gross
  BY DiscountType, PromotionsAssumption DEF Offered
<1>2. gross \in Nat
  BY LineAmountType DEF Line
<1>3. BestPromotion(ps, item, d) = IF eligible = {} THEN 0 ELSE CHOOSE i \in eligible : Best(i)
  BY DEF BestPromotion
<1>4. eligible # {} /\ \A i \in eligible : i \in DOMAIN ps /\ granted(i) > 0
  BY <1>3
<1> HIDE DEF granted, gross, eligible
<1>5. \E i \in eligible : Best(i)
  <2> DEFINE Short == {gross - granted(i) : i \in eligible}
  <2>1. Short \in SUBSET Nat /\ Short # {}
    BY <1>1, <1>2, <1>4
  <2>2. PICK least \in Short : \A n \in Short : least <= n
    <3> HIDE DEF Short
    <3> QED BY <2>1, NatMin
  <2> DEFINE Top == {i \in eligible : gross - granted(i) = least}
  <2>3. Top \in SUBSET Nat /\ Top # {}
    BY <1>1, <1>4
  <2>4. PICK i \in Top : \A j \in Top : i <= j
    <3> HIDE DEF Top
    <3> QED BY <2>3, NatMin
  <2>5. ASSUME NEW j \in eligible
        PROVE  granted(i) > granted(j) \/ (granted(i) = granted(j) /\ i <= j)
    <3>1. gross - granted(j) \in Short /\ least <= gross - granted(j)
      BY <2>2
    <3>2. gross - granted(i) = least /\ granted(i) \in Int /\ granted(j) \in Int /\ i \in eligible
      BY <1>1, <1>4
    <3>3. gross - granted(j) = least => j \in Top
      OBVIOUS
    <3> HIDE DEF Top, Short
    <3>4. gross - granted(j) = least => i <= j
      BY <2>4, <3>3
    <3> QED BY <1>2, <3>1, <3>2, <3>4
  <2> QED BY <2>5
<1> DEFINE best == CHOOSE i \in eligible : Best(i)
<1>6. best \in eligible
  BY <1>5
<1> HIDE DEF best, Best
<1>7. BestPromotion(ps, item, d) = best
  BY <1>3, <1>4 DEF best
<1>8. best \in DOMAIN ps /\ granted(best) > 0
  BY <1>4, <1>6
<1> QED BY <1>7, <1>8 DEF granted

\* A line of the cart: what is taken off it, a promotion has taken off.
FairLine(item) == item \in Line /\ (item.promotion = NoOne => item.discount = 0)

Names == {Promotions[i].name : i \in DOMAIN Promotions} \cup {NoOne}

LEMMA LineFields ==
    ASSUME NEW item \in Line
    PROVE  /\ item.id \in 1..MaxLines /\ item.product \in Products /\ item.price \in Nat
           /\ item.qty \in Nat /\ item.discount \in Nat /\ item.locked \in BOOLEAN
           /\ item.promotion \in Names
BY DEF Line, Names

LEMMA LineWith ==
    ASSUME NEW item \in Line, NEW n \in Nat, NEW name \in Names
    PROVE  LET l == [item EXCEPT !.discount = n, !.promotion = name]
           IN  /\ l \in Line /\ l.id = item.id /\ l.product = item.product /\ l.price = item.price
               /\ l.qty = item.qty /\ l.locked = item.locked /\ l.discount = n /\ l.promotion = name
BY DEF Line, Names

LEMMA LinePromoted ==
    ASSUME NEW ps, Offered(ps), NEW item, FairLine(item), NEW d
    PROVE  LET l == PromoteLine(item, ps, d)
           IN  /\ FairLine(l) /\ l.discount \in 0..LineAmount(l.price, l.qty)
               /\ l.id = item.id /\ l.product = item.product /\ l.price = item.price
               /\ l.qty = item.qty /\ l.locked = item.locked
<1> DEFINE best == BestPromotion(ps, item, d)
           off == PromotionDiscount(ps[best], item)
           gross == LineAmount(item.price, item.qty)
<1>0. item \in Line /\ gross \in Nat
  BY LineAmountType DEF FairLine, Line
<1>1. CASE best # 0
  <2>1. best \in DOMAIN ps /\ off > 0
    BY <1>0, <1>1, BestGiven
  <2>2. off \in 0..gross
    BY <1>0, <2>1, DiscountType
  <2>3. ps[best].name # NoOne /\ ps[best].name \in {Promotions[i].name : i \in DOMAIN Promotions}
    BY <2>1, PromotionsAssumption DEF Offered
  <2>4. PromoteLine(item, ps, d) = [item EXCEPT !.discount = off, !.promotion = ps[best].name]
    BY <1>1 DEF PromoteLine
  <2>5. off \in Nat /\ ps[best].name \in Names
    BY <1>0, <2>2, <2>3 DEF Names
  <2>6. LineAmount(item.price, item.qty) = gross
    OBVIOUS
  <2> DEFINE name == ps[best].name  l == [item EXCEPT !.discount = off, !.promotion = name]
  <2> HIDE DEF best, off, gross, name
  <2>7. /\ l \in Line /\ l.id = item.id /\ l.product = item.product /\ l.price = item.price
        /\ l.qty = item.qty /\ l.locked = item.locked /\ l.discount = off /\ l.promotion = name
    <3>1. name \in Names
      BY <2>5 DEF name
    <3> QED BY <1>0, <2>5, <3>1, LineWith
  <2>8. name # NoOne /\ PromoteLine(item, ps, d) = l
    BY <2>3, <2>4 DEF name
  <2> HIDE DEF l
  <2> QED BY <2>2, <2>6, <2>7, <2>8 DEF FairLine
<1>2. CASE best = 0 /\ item.promotion = NoOne
  <2>1. PromoteLine(item, ps, d) = item /\ item.discount = 0
    BY <1>2 DEF PromoteLine, FairLine
  <2> QED BY <1>0, <2>1 DEF FairLine
<1>3. CASE best = 0 /\ item.promotion # NoOne
  <2>1. PromoteLine(item, ps, d) = [item EXCEPT !.discount = 0, !.promotion = NoOne]
    BY <1>3 DEF PromoteLine
  <2>2. LineAmount(item.price, item.qty) = gross /\ NoOne \in Names
    BY DEF Names
  <2> DEFINE l == [item EXCEPT !.discount = 0, !.promotion = NoOne]
  <2> HIDE DEF best, gross
  <2>3. /\ l \in Line /\ l.id = item.id /\ l.product = item.product /\ l.price = item.price
        /\ l.qty = item.qty /\ l.locked = item.locked /\ l.discount = 0 /\ l.promotion = NoOne
    <3>1. 0 \in Nat /\ item \in Line /\ NoOne \in Names
      BY <1>0, <2>2
    <3> QED BY <3>1, LineWith, Zenon
  <2> HIDE DEF l
  <2>4. PromoteLine(item, ps, d) = l
    BY <2>1 DEF l
  <2> QED BY <1>0, <2>2, <2>3, <2>4 DEF FairLine
<1> QED BY <1>1, <1>2, <1>3


\* The price of a line's quantity and of its customer, unless it was fixed.
RightPrice(item, wholesale) ==
  item.locked \/ item.price = ResolveUnitPrice(item.product, item.qty, wholesale)

LEMMA PriceType ==
    ASSUME NEW p \in Products, NEW qty, NEW w
    PROVE  ResolveUnitPrice(p, qty, w) \in Nat
<1>1. Tariff[p].retail \in Nat /\ Tariff[p].wholesale \in Nat
  BY TariffAssumption
<1> QED BY <1>1 DEF ResolveUnitPrice

LEMMA LinePriced ==
    ASSUME NEW item \in Line, NEW price \in Nat, NEW locked \in BOOLEAN
    PROVE  LET l == [item EXCEPT !.price = price, !.locked = locked]
           IN  /\ l \in Line /\ l.id = item.id /\ l.product = item.product /\ l.price = price
               /\ l.qty = item.qty /\ l.locked = locked /\ l.discount = item.discount
               /\ l.promotion = item.promotion
BY DEF Line

LEMMA LineCounted ==
    ASSUME NEW item \in Line, NEW qty \in Nat
    PROVE  LET l == [item EXCEPT !.qty = qty]
           IN  /\ l \in Line /\ l.id = item.id /\ l.product = item.product /\ l.price = item.price
               /\ l.qty = qty /\ l.locked = item.locked /\ l.discount = item.discount
               /\ l.promotion = item.promotion
BY DEF Line

LEMMA LineRepriced ==
    ASSUME NEW item, FairLine(item), NEW w
    PROVE  LET l == RepriceLine(item, w)
           IN  /\ FairLine(l) /\ RightPrice(l, w) /\ l.id = item.id /\ l.product = item.product
               /\ l.qty = item.qty /\ l.locked = item.locked
               /\ item.locked => l = item
<1>1. item \in Line /\ item.locked \in BOOLEAN /\ item.product \in Products /\ item.qty \in Nat
  BY LineFields DEF FairLine
<1>2. CASE item.locked
  BY <1>1, <1>2 DEF RepriceLine, RightPrice
<1>3. CASE ~item.locked
  <2> DEFINE price == ResolveUnitPrice(item.product, item.qty, w)
             l == [item EXCEPT !.price = price]
  <2>1. price \in Nat
    BY <1>1, PriceType
  <2>2. RepriceLine(item, w) = l
    BY <1>3 DEF RepriceLine
  <2>3. price = ResolveUnitPrice(item.product, item.qty, w)
    OBVIOUS
  <2> HIDE DEF price
  <2>4. /\ l \in Line /\ l.id = item.id /\ l.product = item.product /\ l.price = price
        /\ l.qty = item.qty /\ l.locked = item.locked /\ l.discount = item.discount
        /\ l.promotion = item.promotion
    BY <1>1, <2>1 DEF Line
  <2> HIDE DEF l
  <2>5. FairLine(l)
    BY <2>4 DEF FairLine
  <2>6. RightPrice(l, w)
    BY <2>3, <2>4 DEF RightPrice
  <2> QED BY <1>3, <2>2, <2>4, <2>5, <2>6
<1> QED BY <1>2, <1>3

\* The lines of a cart: fair, and told apart by their identifiers.
FairLines(lines) ==
  /\ lines \in Seq(Line)
  /\ \A i \in DOMAIN lines : FairLine(lines[i])
  /\ \A i, j \in DOMAIN lines : i # j => lines[i].id # lines[j].id

LEMMA LinesShape ==
    ASSUME NEW lines, FairLines(lines)
    PROVE  /\ Len(lines) \in Nat /\ DOMAIN lines = 1..Len(lines)
           /\ lines = [i \in 1..Len(lines) |-> lines[i]]
           /\ \A i \in DOMAIN lines : i \in Nat /\ lines[i] \in Line
BY DEF FairLines

LEMMA LinesMapped ==
    ASSUME NEW lines, FairLines(lines), NEW new, DOMAIN new = DOMAIN lines,
           new = [i \in DOMAIN new |-> new[i]],
           \A i \in DOMAIN lines : FairLine(new[i]) /\ new[i].id = lines[i].id
    PROVE  FairLines(new) /\ Len(new) = Len(lines)
<1>1. Len(lines) \in Nat /\ DOMAIN lines = 1..Len(lines)
  BY LinesShape
<1>2. \A i \in DOMAIN lines : new[i] \in Line
  BY DEF FairLine
<1>3. new \in Seq(Line) /\ Len(new) = Len(lines)
  <2>1. new = [i \in 1..Len(lines) |-> new[i]] /\ \A i \in 1..Len(lines) : new[i] \in Line
    BY <1>1, <1>2
  <2>2. new \in [1..Len(lines) -> Line]
    BY <2>1
  <2> QED BY <1>1, <2>2
<1>4. \A i, j \in DOMAIN new : i # j => new[i].id # new[j].id
  BY DEF FairLines
<1> QED BY <1>3, <1>4 DEF FairLines


LEMMA Removed ==
    ASSUME NEW S, NEW s \in Seq(S), NEW i \in 1..Len(s)
    PROVE  /\ RemoveAt(s, i) \in Seq(S) /\ Len(RemoveAt(s, i)) = Len(s) - 1
           /\ \A j \in 1..(Len(s) - 1) : RemoveAt(s, i)[j] = IF j < i THEN s[j] ELSE s[j + 1]
<1> DEFINE a == SubSeq(s, 1, i - 1)  b == SubSeq(s, i + 1, Len(s))
<1>0. Len(s) \in Nat /\ i \in 1..Len(s) /\ \A k \in 1..Len(s) : s[k] \in S
  OBVIOUS
<1>1. /\ a \in Seq(S) /\ Len(a) = i - 1 /\ \A k \in 1..(i - 1) : a[k] = s[k]
  <2>1. \A k \in 1..(i - 1) : s[k] \in S
    BY <1>0
  <2>2. /\ a \in Seq(S) /\ Len(a) = (IF 1 <= i - 1 THEN (i - 1) - 1 + 1 ELSE 0)
        /\ \A k \in 1..((i - 1) - 1 + 1) : a[k] = s[1 + k - 1]
    BY <1>0, <2>1, SubSeqProperties
  <2> HIDE DEF a
  <2> QED BY <1>0, <2>2
<1>2. /\ b \in Seq(S) /\ Len(b) = Len(s) - i /\ \A k \in 1..(Len(s) - i) : b[k] = s[i + k]
  <2>1. \A k \in (i + 1)..Len(s) : s[k] \in S
    BY <1>0
  <2>2. /\ b \in Seq(S) /\ Len(b) = (IF i + 1 <= Len(s) THEN Len(s) - (i + 1) + 1 ELSE 0)
        /\ \A k \in 1..(Len(s) - (i + 1) + 1) : b[k] = s[(i + 1) + k - 1]
    BY <1>0, <2>1, SubSeqProperties
  <2> HIDE DEF b
  <2> QED BY <1>0, <2>2
<1>3. RemoveAt(s, i) = a \o b
  BY DEF RemoveAt
<1> HIDE DEF a, b
<1>4. /\ a \o b \in Seq(S) /\ Len(a \o b) = Len(a) + Len(b)
      /\ \A k \in 1..(Len(a) + Len(b)) : (a \o b)[k] = IF k <= Len(a) THEN a[k] ELSE b[k - Len(a)]
  BY <1>1, <1>2, ConcatProperties
<1>5. Len(a) + Len(b) = Len(s) - 1
  BY <1>0, <1>1, <1>2
<1>6. ASSUME NEW j \in 1..(Len(s) - 1)
      PROVE  (a \o b)[j] = IF j < i THEN s[j] ELSE s[j + 1]
  <2>1. (a \o b)[j] = IF j <= i - 1 THEN a[j] ELSE b[j - (i - 1)]
    BY <1>1, <1>4, <1>5
  <2>2. CASE j < i
    <3>1. j <= i - 1 /\ j \in 1..(i - 1)
      BY <1>0, <2>2
    <3> QED BY <1>1, <2>1, <2>2, <3>1
  <2>3. CASE ~(j < i)
    <3>1. ~(j <= i - 1) /\ j - (i - 1) \in 1..(Len(s) - i) /\ i + (j - (i - 1)) = j + 1
      BY <1>0, <2>3
    <3> QED BY <1>2, <2>1, <2>3, <3>1
  <2> QED BY <2>2, <2>3
<1> QED BY <1>3, <1>4, <1>5, <1>6

\* A cart, its lines fair.
Carts == [lines : Seq(Line), discount : Int, wholesale : BOOLEAN]
SoundCart(c) == c \in Carts /\ FairLines(c.lines)

LEMMA CartWith ==
    ASSUME NEW c \in Carts, NEW ls \in Seq(Line), NEW d \in Int, NEW w \in BOOLEAN
    PROVE  /\ [c EXCEPT !.lines = ls] \in Carts /\ [c EXCEPT !.lines = ls].lines = ls
           /\ [c EXCEPT !.lines = ls].discount = c.discount
           /\ [c EXCEPT !.lines = ls].wholesale = c.wholesale
           /\ [c EXCEPT !.discount = d] \in Carts /\ [c EXCEPT !.discount = d].lines = c.lines
           /\ [c EXCEPT !.discount = d].discount = d
           /\ [c EXCEPT !.discount = d].wholesale = c.wholesale
           /\ [c EXCEPT !.lines = ls, !.discount = d] \in Carts
           /\ [c EXCEPT !.lines = ls, !.discount = d].lines = ls
           /\ [c EXCEPT !.lines = ls, !.discount = d].discount = d
           /\ [c EXCEPT !.lines = ls, !.discount = d].wholesale = c.wholesale
           /\ [c EXCEPT !.wholesale = w, !.lines = ls] \in Carts
           /\ [c EXCEPT !.wholesale = w, !.lines = ls].lines = ls
           /\ [c EXCEPT !.wholesale = w, !.lines = ls].discount = c.discount
           /\ [c EXCEPT !.wholesale = w, !.lines = ls].wholesale = w
BY DEF Carts

\* The lines of a cart without the one of an identifier (RemoveLine).
LEMMA LineRemoved ==
    ASSUME NEW c, SoundCart(c), NEW id
    PROVE  LET r == RemoveLine(c, id)
           IN  /\ SoundCart(r) /\ Len(r.lines) <= Len(c.lines)
               /\ r.discount = c.discount /\ r.wholesale = c.wholesale
               /\ \A j \in DOMAIN r.lines : \E i \in DOMAIN c.lines :
                    c.lines[i].id # id /\ r.lines[j] = c.lines[i]
<1>0. /\ c \in Carts /\ c.lines \in Seq(Line) /\ Len(c.lines) \in Nat
      /\ DOMAIN c.lines = 1..Len(c.lines) /\ FairLines(c.lines)
  BY LinesShape DEF SoundCart, FairLines
<1>1. CASE ~\E i \in DOMAIN c.lines : c.lines[i].id = id
  <2>1. RemoveLine(c, id) = c
    BY <1>1 DEF RemoveLine
  <2> QED BY <1>0, <1>1, <2>1
<1>2. CASE \E i \in DOMAIN c.lines : c.lines[i].id = id
  <2> DEFINE i == CHOOSE i \in DOMAIN c.lines : c.lines[i].id = id
             rest == RemoveAt(c.lines, i)
             r == [c EXCEPT !.lines = rest]
             from(j) == IF j < i THEN j ELSE j + 1
  <2>1. i \in DOMAIN c.lines /\ c.lines[i].id = id
    BY <1>2
  <2>2. RemoveLine(c, id) = r
    BY <1>2 DEF RemoveLine
  <2> HIDE DEF i
  <2>3. /\ rest \in Seq(Line) /\ Len(rest) = Len(c.lines) - 1
        /\ \A j \in 1..(Len(c.lines) - 1) : rest[j] = IF j < i THEN c.lines[j] ELSE c.lines[j + 1]
    BY <1>0, <2>1, Removed
  <2> HIDE DEF rest
  <2>4. DOMAIN rest = 1..(Len(c.lines) - 1) /\ i \in 1..Len(c.lines)
    BY <1>0, <2>1, <2>3
  <2>5. \A j \in DOMAIN rest : /\ rest[j] = c.lines[from(j)] /\ from(j) \in DOMAIN c.lines
                               /\ from(j) # i
    BY <1>0, <2>3, <2>4
  <2>6. \A j, k \in DOMAIN rest : j # k => from(j) # from(k)
    BY <1>0, <2>4
  <2> HIDE DEF from
  <2>7. \A j \in DOMAIN rest : FairLine(rest[j]) /\ rest[j].id # id
    BY <1>0, <2>1, <2>5 DEF FairLines
  <2>8. \A j, k \in DOMAIN rest : j # k => rest[j].id # rest[k].id
    BY <1>0, <2>5, <2>6 DEF FairLines
  <2>9. FairLines(rest)
    BY <2>3, <2>7, <2>8 DEF FairLines
  <2>10. /\ r \in Carts /\ r.lines = rest /\ r.discount = c.discount /\ r.wholesale = c.wholesale
    BY <1>0, <2>3 DEF Carts
  <2> HIDE DEF r
  <2>11. Len(rest) <= Len(c.lines)
    BY <1>0, <2>3
  <2> QED BY <2>2, <2>5, <2>7, <2>9, <2>10, <2>11 DEF SoundCart
<1> QED BY <1>1, <1>2

\* A quantity changed: the line is priced again, the others are as they were
\* (updateQuantity).
LEMMA QuantityUpdated ==
    ASSUME NEW c, SoundCart(c), NEW id, NEW qty \in Int
    PROVE  LET r == UpdateQuantity(c, id, qty)
           IN  /\ SoundCart(r) /\ Len(r.lines) <= Len(c.lines)
               /\ r.discount = c.discount /\ r.wholesale = c.wholesale
               /\ \A j \in DOMAIN r.lines : \E i \in DOMAIN c.lines :
                    \/ c.lines[i].id # id /\ r.lines[j] = c.lines[i]
                    \/ /\ c.lines[i].id = id /\ r.lines[j].id = id
                       /\ RightPrice(r.lines[j], c.wholesale)
                       /\ r.lines[j].locked = c.lines[i].locked
                       /\ r.lines[j].locked => r.lines[j].price = c.lines[i].price
<1>0. /\ c \in Carts /\ c.lines \in Seq(Line) /\ Len(c.lines) \in Nat
      /\ DOMAIN c.lines = 1..Len(c.lines) /\ FairLines(c.lines) /\ c.wholesale \in BOOLEAN
  BY LinesShape DEF SoundCart, FairLines, Carts
<1>1. CASE qty <= 0
  <2>1. UpdateQuantity(c, id, qty) = RemoveLine(c, id)
    BY <1>1 DEF UpdateQuantity
  <2> QED BY <2>1, LineRemoved
<1>2. CASE qty > 0
  <2> DEFINE new == [i \in DOMAIN c.lines |->
                       IF c.lines[i].id # id THEN c.lines[i]
                       ELSE RepriceLine([c.lines[i] EXCEPT !.qty = qty], c.wholesale)]
             r == [c EXCEPT !.lines = new]
  <2>1. UpdateQuantity(c, id, qty) = r
    BY <1>2 DEF UpdateQuantity
  <2>2. ASSUME NEW i \in DOMAIN c.lines, c.lines[i].id = id
        PROVE  /\ FairLine(new[i]) /\ new[i].id = id /\ RightPrice(new[i], c.wholesale)
               /\ new[i].locked = c.lines[i].locked
               /\ new[i].locked => new[i].price = c.lines[i].price
    <3> DEFINE old == c.lines[i]  l == [old EXCEPT !.qty = qty]
    <3>1. FairLine(old) /\ old \in Line
      BY <1>0 DEF FairLines, FairLine
    <3>2. qty \in Nat
      BY <1>2
    <3>3. new[i] = RepriceLine(l, c.wholesale)
      BY <2>2
    <3> HIDE DEF old, new
    <3>4. /\ l \in Line /\ l.id = old.id /\ l.product = old.product /\ l.price = old.price
          /\ l.qty = qty /\ l.locked = old.locked /\ l.discount = old.discount
          /\ l.promotion = old.promotion
      BY <3>1, <3>2, LineCounted
    <3> HIDE DEF l
    <3>5. FairLine(l)
      BY <3>1, <3>4 DEF FairLine
    <3>6. old.id = id
      BY <2>2 DEF old
    <3> QED BY <3>3, <3>4, <3>5, <3>6, LineRepriced DEF old
  <2>3. \A i \in DOMAIN c.lines : c.lines[i].id # id => new[i] = c.lines[i]
    OBVIOUS
  <2>4. DOMAIN new = DOMAIN c.lines /\ new = [i \in DOMAIN new |-> new[i]]
    OBVIOUS
  <2> HIDE DEF new
  <2>5. \A i \in DOMAIN c.lines : FairLine(new[i]) /\ new[i].id = c.lines[i].id
    BY <1>0, <2>2, <2>3 DEF FairLines
  <2>6. FairLines(new) /\ Len(new) = Len(c.lines)
    BY <1>0, <2>4, <2>5, LinesMapped
  <2>7. new \in Seq(Line)
    BY <2>6 DEF FairLines
  <2>8. /\ r \in Carts /\ r.lines = new /\ r.discount = c.discount /\ r.wholesale = c.wholesale
    BY <1>0, <2>7 DEF Carts
  <2> HIDE DEF r
  <2>9. Len(new) <= Len(c.lines)
    BY <1>0, <2>6
  <2>10. ASSUME NEW j \in DOMAIN r.lines
         PROVE  \E i \in DOMAIN c.lines :
                    \/ c.lines[i].id # id /\ r.lines[j] = c.lines[i]
                    \/ /\ c.lines[i].id = id /\ r.lines[j].id = id
                       /\ RightPrice(r.lines[j], c.wholesale)
                       /\ r.lines[j].locked = c.lines[i].locked
                       /\ r.lines[j].locked => r.lines[j].price = c.lines[i].price
    <3>1. j \in DOMAIN c.lines /\ r.lines[j] = new[j]
      BY <2>4, <2>8
    <3> QED BY <2>2, <2>3, <3>1
  <2> QED BY <2>1, <2>6, <2>8, <2>9, <2>10 DEF SoundCart
<1> QED BY <1>1, <1>2

LEMMA LineMade ==
    ASSUME NEW id \in 1..MaxLines, NEW p \in Products, NEW qty \in Nat, NEW w
    PROVE  LET l == LineFromProduct(id, p, qty, w)
           IN  FairLine(l) /\ l.id = id /\ RightPrice(l, w)
<1>1. ResolveUnitPrice(p, qty, w) \in Nat
  BY PriceType
<1> DEFINE l == LineFromProduct(id, p, qty, w)
<1>2. l = [id |-> id, product |-> p, price |-> ResolveUnitPrice(p, qty, w), qty |-> qty,
           discount |-> 0, locked |-> FALSE, promotion |-> NoOne]
  BY DEF LineFromProduct
<1> HIDE DEF l
<1>3. l \in Line /\ l.discount = 0 /\ l.id = id /\ l.product = p /\ l.qty = qty
      /\ l.price = ResolveUnitPrice(p, qty, w)
  BY <1>1, <1>2 DEF Line
<1>4. FairLine(l) /\ RightPrice(l, w)
  BY <1>3 DEF FairLine, RightPrice
<1> QED BY <1>3, <1>4 DEF l

\* Of the lines that may be joined, one is the first.
LEMMA JoinsOne ==
    ASSUME NEW c, SoundCart(c), NEW p
    PROVE  /\ Joins(c, p) \subseteq Mergeable(c, p) /\ Mergeable(c, p) \subseteq DOMAIN c.lines
           /\ Mergeable(c, p) # {} => Joins(c, p) # {}
           /\ \A i, j \in Joins(c, p) : i = j
           /\ \A i \in Joins(c, p) : ~c.lines[i].locked
<1>1. Mergeable(c, p) \subseteq DOMAIN c.lines /\ Mergeable(c, p) \in SUBSET Nat
  BY LinesShape DEF Mergeable, SoundCart
<1>2. \A i \in Mergeable(c, p) : ~c.lines[i].locked
  BY DEF Mergeable
<1> HIDE DEF Mergeable
<1>3. Mergeable(c, p) # {} => Joins(c, p) # {}
  BY <1>1, NatMin DEF Joins
<1>4. \A i, j \in Joins(c, p) : i <= j /\ j <= i /\ i \in Nat /\ j \in Nat
  BY <1>1 DEF Joins
<1>5. \A i, j \in Joins(c, p) : i = j
  BY <1>4
<1> QED BY <1>1, <1>2, <1>3, <1>5 DEF Joins

\* A scanned article joins a line or makes one, with its right price; the others are as they
\* were (addProduct).
LEMMA ProductAdded ==
    ASSUME NEW c, SoundCart(c), NEW p \in Products, NEW qty \in Nat,
           NEW new \in Nat \ {0}, new <= Len(c.lines) + 1, \A i \in DOMAIN c.lines : c.lines[i].id # new,
           Mergeable(c, p) = {} => Len(c.lines) + 1 <= MaxLines
    PROVE  LET r == AddProduct(c, p, new, qty)
           IN  /\ SoundCart(r) /\ r.discount = c.discount /\ r.wholesale = c.wholesale
               /\ \A j \in DOMAIN r.lines :
                    \/ \E i \in DOMAIN c.lines : i \notin Joins(c, p) /\ r.lines[j] = c.lines[i]
                    \/ /\ RightPrice(r.lines[j], c.wholesale)
                       /\ \/ r.lines[j].id = new
                          \/ \E i \in Joins(c, p) : r.lines[j].id = c.lines[i].id
<1>0. /\ c \in Carts /\ c.lines \in Seq(Line) /\ Len(c.lines) \in Nat
      /\ DOMAIN c.lines = 1..Len(c.lines) /\ FairLines(c.lines) /\ c.wholesale \in BOOLEAN
  BY LinesShape DEF SoundCart, FairLines, Carts
<1> DEFINE r == AddProduct(c, p, new, qty)
<1>1. CASE Mergeable(c, p) # {}
  <2> DEFINE k == CHOOSE i \in Joins(c, p) : TRUE
             old == c.lines[k]
  <2>1. k \in Joins(c, p) /\ Joins(c, p) = {k} /\ k \in DOMAIN c.lines
    BY <1>1, JoinsOne
  <2>2. r = UpdateQuantity(c, old.id, old.qty + qty)
    BY <1>1 DEF AddProduct
  <2> HIDE DEF k, r
  <2>3. old.qty + qty \in Int
    <3>1. c.lines[k] \in Line
      BY <1>0, <2>1
    <3>2. old.qty \in Nat
      BY <3>1, LineFields
    <3> QED BY <3>2
  <2>4. /\ SoundCart(r) /\ r.discount = c.discount /\ r.wholesale = c.wholesale
        /\ \A j \in DOMAIN r.lines : \E i \in DOMAIN c.lines :
              \/ c.lines[i].id # old.id /\ r.lines[j] = c.lines[i]
              \/ r.lines[j].id = old.id /\ RightPrice(r.lines[j], c.wholesale)
    <3> DEFINE id == old.id  n == old.qty + qty
    <3> HIDE DEF id, n
    <3>1. r = UpdateQuantity(c, id, n) /\ n \in Int /\ id = old.id
      BY <2>2, <2>3 DEF id, n
    <3> HIDE DEF old
    <3>2. /\ SoundCart(r) /\ r.discount = c.discount /\ r.wholesale = c.wholesale
          /\ \A j \in DOMAIN r.lines : \E i \in DOMAIN c.lines :
                \/ c.lines[i].id # id /\ r.lines[j] = c.lines[i]
                \/ /\ c.lines[i].id = id /\ r.lines[j].id = id
                   /\ RightPrice(r.lines[j], c.wholesale)
                   /\ r.lines[j].locked = c.lines[i].locked
                   /\ r.lines[j].locked => r.lines[j].price = c.lines[i].price
      <4> DEFINE u == UpdateQuantity(c, id, n)
      <4> HIDE DEF u
      <4>1. /\ SoundCart(u) /\ u.discount = c.discount /\ u.wholesale = c.wholesale
            /\ \A j \in DOMAIN u.lines : \E i \in DOMAIN c.lines :
                \/ c.lines[i].id # id /\ u.lines[j] = c.lines[i]
                \/ /\ c.lines[i].id = id /\ u.lines[j].id = id
                   /\ RightPrice(u.lines[j], c.wholesale)
                   /\ u.lines[j].locked = c.lines[i].locked
                   /\ u.lines[j].locked => u.lines[j].price = c.lines[i].price
        <5>1. SoundCart(c) /\ n \in Int
          BY <3>1
        <5> QED BY <5>1, QuantityUpdated DEF u
      <4>2. r = u
        BY <3>1 DEF u
      <4> QED BY <4>1, <4>2
    <3> QED BY <3>1, <3>2
  <2>5. ASSUME NEW j \in DOMAIN r.lines
        PROVE  \/ \E i \in DOMAIN c.lines : i \notin Joins(c, p) /\ r.lines[j] = c.lines[i]
               \/ /\ RightPrice(r.lines[j], c.wholesale)
                  /\ \E i \in Joins(c, p) : r.lines[j].id = c.lines[i].id
    <3>1. PICK i \in DOMAIN c.lines :
              \/ c.lines[i].id # old.id /\ r.lines[j] = c.lines[i]
              \/ r.lines[j].id = old.id /\ RightPrice(r.lines[j], c.wholesale)
      BY <2>4
    <3>2. c.lines[i].id # old.id => i \notin Joins(c, p)
      BY <2>1
    <3> QED BY <2>1, <3>1, <3>2
  <2> QED BY <2>4, <2>5 DEF r
<1>2. CASE Mergeable(c, p) = {}
  <2> DEFINE l == LineFromProduct(new, p, qty, c.wholesale)
             ls == Append(c.lines, l)
  <2>1. r = [c EXCEPT !.lines = ls]
    BY <1>2 DEF AddProduct
  <2>2. r.lines = ls
    BY <1>0, <2>1 DEF Carts
  <2>3. Len(ls) = Len(c.lines) + 1
    BY <1>0
  <2>4. new \in 1..MaxLines
    BY <1>0, <1>2, CounterBounds
  <2>5. FairLine(l) /\ l.id = new /\ RightPrice(l, c.wholesale)
    BY <2>4, LineMade
  <2> HIDE DEF l
  <2>6. l \in Line
    BY <2>5 DEF FairLine
  <2>7. /\ ls \in Seq(Line) /\ \A i \in 1..Len(c.lines) : ls[i] = c.lines[i]
        /\ ls[Len(c.lines) + 1] = l
    BY <1>0, <2>6, AppendProperties
  <2> HIDE DEF ls
  <2>8. DOMAIN ls = 1..(Len(c.lines) + 1)
    BY <2>3, <2>7
  <2>9. \A i \in DOMAIN ls : \/ i \in DOMAIN c.lines /\ ls[i] = c.lines[i]
                             \/ i = Len(c.lines) + 1 /\ ls[i] = l
    BY <1>0, <2>7, <2>8
  <2>10. FairLines(ls)
    <3>1. \A i \in DOMAIN ls : FairLine(ls[i])
      BY <1>0, <2>5, <2>9 DEF FairLines
    <3>2. \A i, j \in DOMAIN ls : i # j => ls[i].id # ls[j].id
      BY <1>0, <2>5, <2>9 DEF FairLines
    <3> QED BY <2>7, <3>1, <3>2 DEF FairLines
  <2>11. r \in Carts /\ r.discount = c.discount /\ r.wholesale = c.wholesale
    BY <1>0, <2>1, <2>7 DEF Carts
  <2>12. Joins(c, p) = {}
    BY <1>2, JoinsOne
  <2> HIDE DEF r
  <2>13. ASSUME NEW j \in DOMAIN r.lines
         PROVE  \/ \E i \in DOMAIN c.lines : i \notin Joins(c, p) /\ r.lines[j] = c.lines[i]
                \/ RightPrice(r.lines[j], c.wholesale) /\ r.lines[j].id = new
    BY <2>2, <2>5, <2>9, <2>12
  <2> QED BY <2>2, <2>10, <2>11, <2>13 DEF r, SoundCart
<1> QED BY <1>1, <1>2

\* A price fixed by hand (setLinePrice).
LEMMA PriceSet ==
    ASSUME NEW c, SoundCart(c), NEW id, NEW price \in Nat
    PROVE  LET r == SetLinePrice(c, id, price)
           IN  /\ SoundCart(r) /\ DOMAIN r.lines = DOMAIN c.lines
               /\ r.discount = c.discount /\ r.wholesale = c.wholesale
               /\ \A j \in DOMAIN r.lines :
                    \/ c.lines[j].id # id /\ r.lines[j] = c.lines[j]
                    \/ c.lines[j].id = id /\ r.lines[j].id = id /\ r.lines[j].locked
<1>0. /\ c \in Carts /\ c.lines \in Seq(Line) /\ Len(c.lines) \in Nat
      /\ DOMAIN c.lines = 1..Len(c.lines) /\ FairLines(c.lines) /\ c.wholesale \in BOOLEAN
  BY LinesShape DEF SoundCart, FairLines, Carts
<1> DEFINE new == [i \in DOMAIN c.lines |->
              IF c.lines[i].id = id THEN [c.lines[i] EXCEPT !.price = price, !.locked = TRUE]
              ELSE c.lines[i]]
           r == [c EXCEPT !.lines = new]
<1>1. SetLinePrice(c, id, price) = r
  BY DEF SetLinePrice
<1>2. ASSUME NEW i \in DOMAIN c.lines, c.lines[i].id = id
      PROVE  FairLine(new[i]) /\ new[i].id = id /\ new[i].locked
  <2> DEFINE old == c.lines[i]  l == [old EXCEPT !.price = price, !.locked = TRUE]
  <2>1. FairLine(old) /\ old \in Line
    BY <1>0 DEF FairLines, FairLine
  <2>2. new[i] = l
    BY <1>2
  <2>3. old.id = id
    BY <1>2
  <2> HIDE DEF old, new
  <2>4. /\ l \in Line /\ l.id = old.id /\ l.locked = TRUE /\ l.discount = old.discount
        /\ l.promotion = old.promotion
    BY <2>1, LinePriced
  <2> HIDE DEF l
  <2> QED BY <2>1, <2>2, <2>3, <2>4 DEF FairLine
<1>3. \A i \in DOMAIN c.lines : c.lines[i].id # id => new[i] = c.lines[i]
  OBVIOUS
<1>4. DOMAIN new = DOMAIN c.lines /\ new = [i \in DOMAIN new |-> new[i]]
  OBVIOUS
<1> HIDE DEF new
<1>5. \A i \in DOMAIN c.lines : FairLine(new[i]) /\ new[i].id = c.lines[i].id
  BY <1>0, <1>2, <1>3 DEF FairLines
<1>6. FairLines(new)
  BY <1>0, <1>4, <1>5, LinesMapped
<1>7. new \in Seq(Line)
  BY <1>6 DEF FairLines
<1>8. /\ r \in Carts /\ r.lines = new /\ r.discount = c.discount /\ r.wholesale = c.wholesale
  BY <1>0, <1>7 DEF Carts
<1> HIDE DEF r
<1> QED BY <1>1, <1>2, <1>3, <1>4, <1>6, <1>8 DEF SoundCart

\* The whole cart priced again, for a customer (repriceCart).
LEMMA CartRepriced ==
    ASSUME NEW c, SoundCart(c), NEW w \in BOOLEAN
    PROVE  LET r == RepriceCart(c, w)
           IN  /\ SoundCart(r) /\ DOMAIN r.lines = DOMAIN c.lines
               /\ r.discount = c.discount /\ r.wholesale = w
               /\ \A j \in DOMAIN r.lines : /\ RightPrice(r.lines[j], w)
                                            /\ r.lines[j].id = c.lines[j].id
                                            /\ c.lines[j].locked => r.lines[j] = c.lines[j]
<1>0. /\ c \in Carts /\ c.lines \in Seq(Line) /\ Len(c.lines) \in Nat
      /\ DOMAIN c.lines = 1..Len(c.lines) /\ FairLines(c.lines)
  BY LinesShape DEF SoundCart, FairLines
<1> DEFINE new == [i \in DOMAIN c.lines |-> RepriceLine(c.lines[i], w)]
           r == [c EXCEPT !.wholesale = w, !.lines = new]
<1>1. RepriceCart(c, w) = r
  BY DEF RepriceCart
<1>2. \A i \in DOMAIN c.lines : /\ FairLine(new[i]) /\ new[i].id = c.lines[i].id
                                /\ RightPrice(new[i], w)
                                /\ c.lines[i].locked => new[i] = c.lines[i]
  BY <1>0, LineRepriced DEF FairLines
<1>4. DOMAIN new = DOMAIN c.lines /\ new = [i \in DOMAIN new |-> new[i]]
  OBVIOUS
<1> HIDE DEF new
<1>6. FairLines(new)
  BY <1>0, <1>2, <1>4, LinesMapped
<1>7. new \in Seq(Line)
  BY <1>6 DEF FairLines
<1>8. /\ r \in Carts /\ r.lines = new /\ r.discount = c.discount /\ r.wholesale = w
  BY <1>0, <1>7 DEF Carts
<1> HIDE DEF r
<1> QED BY <1>1, <1>2, <1>4, <1>6, <1>8 DEF SoundCart

LEMMA NoLines == FairLines(<<>>) /\ DOMAIN <<>> = {} /\ <<>> \in Seq(Line)
BY DEF FairLines

LEMMA CartCleared ==
    ASSUME NEW c, SoundCart(c)
    PROVE  /\ SoundCart(ClearCart(c)) /\ ClearCart(c).lines = <<>>
           /\ ClearCart(c).wholesale = c.wholesale
<1>1. c \in Carts /\ 0 \in Int
  BY DEF SoundCart
<1>2. /\ ClearCart(c) \in Carts /\ ClearCart(c).lines = <<>> /\ ClearCart(c).wholesale = c.wholesale
  BY <1>1, NoLines DEF ClearCart, Carts
<1> QED BY <1>2, NoLines DEF SoundCart

LEMMA DiscountSet ==
    ASSUME NEW c, SoundCart(c), NEW amount \in Int
    PROVE  LET r == SetCartDiscount(c, amount)
           IN  SoundCart(r) /\ r.lines = c.lines /\ r.wholesale = c.wholesale
<1>0. /\ c \in Carts /\ c.lines \in Seq(Line) /\ Len(c.lines) \in Nat
      /\ DOMAIN c.lines = 1..Len(c.lines) /\ FairLines(c.lines)
  BY LinesShape DEF SoundCart, FairLines
<1> DEFINE after == AfterLineDiscount(c)  d == Clamp(amount, 0, SumCents(after))
<1>1. SumCents(after) \in Int
  <2>1. DOMAIN after = DOMAIN c.lines /\ IsFiniteSet(DOMAIN c.lines)
    <3>1. DOMAIN after = DOMAIN c.lines
      BY DEF AfterLineDiscount
    <3>2. IsFiniteSet(1..Len(c.lines))
      <4>1. Len(c.lines) \in Nat
        BY <1>0
      <4>2. \A m \in Nat : IsFiniteSet(1..m)
        BY FS_Interval
      <4> QED BY <4>1, <4>2
    <3>3. DOMAIN c.lines = 1..Len(c.lines)
      BY <1>0
    <3> QED BY <3>1, <3>2, <3>3
  <2>2. \A i \in DOMAIN after : after[i] \in Int
    <3> TAKE i \in DOMAIN after
    <3>1. c.lines[i] \in Line
      BY <1>0, <2>1
    <3>2. after[i] = LineAmount(c.lines[i].price, c.lines[i].qty) - c.lines[i].discount
      BY <2>1 DEF AfterLineDiscount
    <3> HIDE DEF after
    <3>3. LineAmount(c.lines[i].price, c.lines[i].qty) \in Nat /\ c.lines[i].discount \in Nat
      BY <3>1, LineFields, LineAmountType
    <3> QED BY <3>2, <3>3
  <2> HIDE DEF after
  <2> QED BY <2>1, <2>2, SumType DEF SumCents, SumFunction
<1> HIDE DEF after
<1>2. d \in Int
  BY <1>1 DEF Clamp, Least, Most
<1>3. SetCartDiscount(c, amount) = [c EXCEPT !.discount = d]
  BY DEF SetCartDiscount, after
<1> HIDE DEF d
<1>4. /\ [c EXCEPT !.discount = d] \in Carts /\ [c EXCEPT !.discount = d].lines = c.lines
      /\ [c EXCEPT !.discount = d].wholesale = c.wholesale
  BY <1>0, <1>2 DEF Carts
<1> QED BY <1>0, <1>3, <1>4 DEF SoundCart

\* Promotions change what is taken off a line, and nothing else (applyPromotions).
LEMMA CartPromoted ==
    ASSUME NEW c, SoundCart(c), NEW ps, Offered(ps), NEW d
    PROVE  LET r == ApplyPromotions(c, ps, d)
           IN  /\ SoundCart(r) /\ DOMAIN r.lines = DOMAIN c.lines
               /\ r.discount = c.discount /\ r.wholesale = c.wholesale
               /\ \A j \in DOMAIN r.lines :
                    r.lines[j].discount \in 0..LineAmount(r.lines[j].price, r.lines[j].qty)
<1>0. /\ c \in Carts /\ c.lines \in Seq(Line) /\ Len(c.lines) \in Nat
      /\ DOMAIN c.lines = 1..Len(c.lines) /\ FairLines(c.lines)
  BY LinesShape DEF SoundCart, FairLines
<1> DEFINE new == [i \in DOMAIN c.lines |-> PromoteLine(c.lines[i], ps, d)]
           r == [c EXCEPT !.lines = new]
<1>1. ApplyPromotions(c, ps, d) = r
  BY DEF ApplyPromotions
<1>2. \A i \in DOMAIN c.lines : /\ FairLine(new[i]) /\ new[i].id = c.lines[i].id
                                /\ new[i].discount \in 0..LineAmount(new[i].price, new[i].qty)
  BY <1>0, LinePromoted DEF FairLines
<1>4. DOMAIN new = DOMAIN c.lines /\ new = [i \in DOMAIN new |-> new[i]]
  OBVIOUS
<1> HIDE DEF new
<1>6. FairLines(new)
  BY <1>0, <1>2, <1>4, LinesMapped
<1>7. new \in Seq(Line)
  BY <1>6 DEF FairLines
<1>8. /\ r \in Carts /\ r.lines = new /\ r.discount = c.discount /\ r.wholesale = c.wholesale
  BY <1>0, <1>7 DEF Carts
<1> HIDE DEF r
<1> QED BY <1>1, <1>2, <1>4, <1>6, <1>8 DEF SoundCart

\* The identifier of a new line is the first that is free (newId).
LEMMA NewIdFree ==
    ASSUME SoundCart(cart)
    PROVE  /\ NewId \in Nat \ {0} /\ NewId <= Len(cart.lines) + 1
           /\ \A i \in DOMAIN cart.lines : cart.lines[i].id # NewId
<1> DEFINE D == DOMAIN cart.lines
           Free == {id \in 1..(MaxLines + 1) : \A i \in D : cart.lines[i].id # id}
           First(id) == /\ \A i \in D : cart.lines[i].id # id
                        /\ \A n \in 1..(id - 1) : \E i \in D : cart.lines[i].id = n
<1>0. /\ Len(cart.lines) \in Nat /\ D = 1..Len(cart.lines)
      /\ \A i \in D : cart.lines[i].id \in 1..MaxLines
      /\ \A i, j \in D : i # j => cart.lines[i].id # cart.lines[j].id
  BY LinesShape, LineFields DEF SoundCart, FairLines
<1>1. MaxLines + 1 \in Free
  BY <1>0, CounterBounds
<1> HIDE DEF D
<1>2. PICK least \in Free : \A n \in Free : least <= n
  <2>1. Free \in SUBSET Nat /\ Free # {}
    BY <1>1, CounterBounds
  <2> HIDE DEF Free
  <2> QED BY <2>1, NatMin
<1>3. \A n \in 1..(least - 1) : n \in 1..(MaxLines + 1) /\ ~(least <= n)
  BY CounterBounds
<1>4. First(least) /\ least \in 1..(MaxLines + 1)
  BY <1>2, <1>3
<1>5. NewId = CHOOSE id \in 1..(MaxLines + 1) : First(id)
  BY DEF NewId, D
<1> HIDE DEF First, Free
<1>6. First(NewId) /\ NewId \in 1..(MaxLines + 1)
  BY <1>4, <1>5
<1> DEFINE at == [n \in 1..(NewId - 1) |-> CHOOSE i \in D : cart.lines[i].id = n]
<1>7. \A n \in 1..(NewId - 1) : at[n] \in D /\ cart.lines[at[n]].id = n
  BY <1>6 DEF First
<1>8. at \in Injection(1..(NewId - 1), 1..Len(cart.lines))
  <2>1. at \in [1..(NewId - 1) -> 1..Len(cart.lines)]
    BY <1>0, <1>7
  <2>2. \A m, n \in 1..(NewId - 1) : at[m] = at[n] => m = n
    <3> HIDE DEF at
    <3> QED BY <1>7
  <2> HIDE DEF at
  <2> QED BY <2>1, <2>2 DEF Injection, IsInjective
<1>9. NewId - 1 <= Len(cart.lines)
  <2>1. /\ IsFiniteSet(1..Len(cart.lines)) /\ Cardinality(1..Len(cart.lines)) = Len(cart.lines)
        /\ Cardinality(1..(NewId - 1)) = NewId - 1
    <3> DEFINE k == NewId - 1  l == Len(cart.lines)
    <3>1. k \in Nat /\ l \in Nat
      BY <1>0, <1>6, CounterBounds
    <3> HIDE DEF k, l
    <3>2. IsFiniteSet(1..l) /\ Cardinality(1..l) = l /\ Cardinality(1..k) = k
      BY <3>1, FS_Interval
    <3> QED BY <3>2 DEF k, l
  <2> HIDE DEF at
  <2>2. Cardinality(1..(NewId - 1)) <= Cardinality(1..Len(cart.lines))
    BY <1>8, <2>1, FS_Injection
  <2> QED BY <2>1, <2>2
<1> QED BY <1>0, <1>6, <1>9, CounterBounds DEF First, D

\* Payments put down: change is given on cash only.
Payments ==
  {p \in [method : Methods, amount : Nat \ {0}, tendered : Nat \cup {NoOne}] :
     IF p.method = "cash" THEN p.tendered \in Nat /\ p.amount <= p.tendered
     ELSE p.tendered = NoOne}

Amounts(ps) == [i \in DOMAIN ps |-> ps[i].amount]

LEMMA PaymentBuilt ==
    ASSUME NEW due \in Nat, NEW method \in Methods, NEW value \in Nat,
           BuildPayment(due, method, value) # NoOne
    PROVE  LET d == BuildPayment(due, method, value)
           IN  d \in Payments /\ d.method = method /\ d.amount <= due
<1>1. due > 0
  BY DEF BuildPayment
<1> DEFINE requested == IF value > 0 THEN value ELSE due
           amount == Least(requested, due)
           tendered == IF IsTenderable(method) THEN Most(value, amount) ELSE NoOne
           d == [method |-> method, amount |-> amount, tendered |-> tendered]
<1>2. amount \in Nat \ {0} /\ amount <= due
  BY <1>1 DEF Least
<1>3. BuildPayment(due, method, value) = d
  BY <1>1 DEF BuildPayment
<1> HIDE DEF amount
<1>4. IF method = "cash" THEN tendered \in Nat /\ amount <= tendered ELSE tendered = NoOne
  BY <1>2 DEF IsTenderable, Most
<1>5. tendered \in Nat \cup {NoOne}
  BY <1>4
<1> HIDE DEF tendered
<1>6. d \in Payments
  BY <1>2, <1>4, <1>5 DEF Payments
<1> QED BY <1>2, <1>3, <1>6

LEMMA PaidType ==
    ASSUME NEW ps \in Seq(Payments)
    PROVE  /\ Len(ps) \in Nat /\ DOMAIN ps = 1..Len(ps) /\ IsFiniteSet(DOMAIN ps)
           /\ \A i \in DOMAIN ps : ps[i] \in Payments /\ ps[i].amount \in Nat \ {0}
           /\ SumCents(Amounts(ps)) = SumFunctionOnSet(Amounts(ps), DOMAIN ps)
           /\ SumCents(Amounts(ps)) \in Int
<1>1. Len(ps) \in Nat /\ DOMAIN ps = 1..Len(ps) /\ \A i \in DOMAIN ps : ps[i] \in Payments
  OBVIOUS
<1>2. IsFiniteSet(DOMAIN ps)
  BY <1>1, FS_Interval
<1>3. \A i \in DOMAIN ps : ps[i].amount \in Nat \ {0}
  BY <1>1 DEF Payments
<1>4. SumCents(Amounts(ps)) = SumFunctionOnSet(Amounts(ps), DOMAIN ps)
  BY DEF SumCents, SumFunction, Amounts
<1>5. \A i \in DOMAIN ps : Amounts(ps)[i] \in Int
  BY <1>3 DEF Amounts
<1>6. SumFunctionOnSet(Amounts(ps), DOMAIN ps) \in Int
  BY <1>2, <1>5, SumType
<1> QED BY <1>1, <1>2, <1>3, <1>4, <1>6

LEMMA PaidMore ==
    ASSUME NEW ps \in Seq(Payments), NEW d \in Payments
    PROVE  /\ Append(ps, d) \in Seq(Payments)
           /\ SumCents(Amounts(Append(ps, d))) = SumCents(Amounts(ps)) + d.amount
<1> DEFINE n == Len(ps)  more == Append(ps, d)
<1>1. /\ more \in Seq(Payments) /\ Len(more) = n + 1
      /\ \A i \in 1..n : more[i] = ps[i]
      /\ more[n + 1] = d
  BY AppendProperties
<1>2. n \in Nat /\ DOMAIN ps = 1..n /\ IsFiniteSet(1..n)
  BY PaidType
<1> HIDE DEF n, more
<1>3. DOMAIN more = 1..(n + 1) /\ 1..(n + 1) = (1..n) \cup {n + 1} /\ n + 1 \notin 1..n
  BY <1>1, <1>2, PaidType
<1> DEFINE f == Amounts(ps)  g == Amounts(more)
<1>4. \A i \in 1..n : f[i] \in Int /\ g[i] = f[i]
  <2> TAKE i \in 1..n
  <2>1. i \in DOMAIN ps /\ i \in DOMAIN more /\ more[i] = ps[i]
    BY <1>1, <1>2, <1>3
  <2>2. f[i] = ps[i].amount /\ g[i] = more[i].amount
    BY <2>1 DEF Amounts
  <2>3. ps[i].amount \in Int
    BY <2>1, PaidType
  <2> HIDE DEF f, g
  <2> QED BY <2>1, <2>2, <2>3
<1>5. g[n + 1] = d.amount /\ d.amount \in Int
  BY <1>1, <1>3 DEF Amounts, Payments
<1>6. SumCents(f) = SumFunctionOnSet(f, 1..n) /\ SumCents(g) = SumFunctionOnSet(g, 1..(n + 1))
  BY <1>1, <1>2, <1>3, PaidType
<1>7. SumCents(f) \in Int
  BY PaidType
<1> HIDE DEF f, g
<1>8. SumFunctionOnSet(g, (1..n) \cup {n + 1}) = g[n + 1] + SumFunctionOnSet(g, 1..n)
  BY <1>2, <1>3, <1>4, <1>5, SumAdd
<1>9. SumFunctionOnSet(f, 1..n) = SumFunctionOnSet(g, 1..n)
  BY <1>2, <1>4, SumSame
<1>10. SumCents(g) = SumCents(f) + d.amount
  <2>1. SumFunctionOnSet(g, 1..(n + 1)) = SumFunctionOnSet(g, (1..n) \cup {n + 1})
    BY <1>3
  <2>2. SumCents(g) = d.amount + SumCents(f)
    BY <1>5, <1>6, <1>8, <1>9, <2>1
  <2>3. d.amount \in Int /\ SumCents(f) \in Int
    BY <1>5, <1>7
  <2> QED BY <2>2, <2>3
<1> QED BY <1>1, <1>10 DEF f, g, more

\* What the client hands over is what is imputed and what is given back.
LEMMA GivenIsPaid ==
    ASSUME NEW ps \in Seq(Payments)
    PROVE  SumCents([i \in DOMAIN ps |-> IF ps[i].method = "cash" THEN ps[i].tendered
                                         ELSE ps[i].amount])
             = SumCents(Amounts(ps)) + SumCents([i \in DOMAIN ps |-> ChangeOf(ps[i])])
<1> DEFINE D == DOMAIN ps
           given == [i \in D |-> IF ps[i].method = "cash" THEN ps[i].tendered ELSE ps[i].amount]
           change == [i \in D |-> ChangeOf(ps[i])]
           f == Amounts(ps)
<1>1. IsFiniteSet(D)
  BY PaidType
<1>2. \A i \in D : f[i] \in Int /\ change[i] \in Int /\ given[i] = f[i] + change[i]
  <2> TAKE i \in D
  <2> DEFINE p == ps[i]
  <2>1. /\ p.amount \in Nat
        /\ IF p.method = "cash" THEN p.tendered \in Nat /\ p.amount <= p.tendered
           ELSE p.tendered = NoOne
    BY PaidType DEF Payments
  <2>2. /\ f[i] = p.amount /\ change[i] = ChangeOf(p)
        /\ given[i] = IF p.method = "cash" THEN p.tendered ELSE p.amount
    BY DEF Amounts
  <2> HIDE DEF p, f, change, given
  <2>3. CASE p.method = "cash"
    <3>1. p.tendered # NoOne /\ p.tendered - p.amount \in Nat
      BY <2>1, <2>3, TaxAssumption
    <3>2. ChangeOf(p) = p.tendered - p.amount
      BY <3>1 DEF ChangeOf, Most
    <3> QED BY <2>1, <2>2, <2>3, <3>1, <3>2
  <2>4. CASE p.method # "cash"
    <3>1. ChangeOf(p) = 0
      BY <2>1, <2>4 DEF ChangeOf
    <3> QED BY <2>1, <2>2, <2>4, <3>1
  <2> QED BY <2>3, <2>4
<1>3. /\ SumCents(given) = SumFunctionOnSet(given, D)
      /\ SumCents(change) = SumFunctionOnSet(change, D)
      /\ SumCents(f) = SumFunctionOnSet(f, D)
  BY DEF SumCents, SumFunction, Amounts
<1> HIDE DEF given, change, f, D
<1>4. SumFunctionOnSet(given, D) = SumFunctionOnSet(f, D) + SumFunctionOnSet(change, D)
  BY <1>1, <1>2, SumPlus
<1> QED BY <1>3, <1>4 DEF given, change, f, D

-----------------------------------------------------------------------------
(* The invariant of the counter.                                           *)

CartSound == /\ SoundCart(cart) /\ customer \in Customers \cup {NoOne}
             /\ cart.wholesale = (customer \in Wholesale)

\* The promoted cart is the cart, and each of its lines costs something or nothing.
PromotedSound ==
  /\ SoundCart(promoted) /\ DOMAIN promoted.lines = DOMAIN cart.lines
  /\ promoted.discount = cart.discount /\ promoted.wholesale = cart.wholesale
  /\ \A i \in DOMAIN promoted.lines :
       promoted.lines[i].discount \in 0..LineAmount(promoted.lines[i].price, promoted.lines[i].qty)

ShelfSound == /\ Offered(promotions) /\ lookups \subseteq Codes
              /\ aside = NoOne \/ FairLines(aside)
              /\ \A h \in held : FairLines(h)

\* At most one recording has a panel that waits for it: the busy one.
PanelSound ==
  /\ panel \in {"closed", "open", "busy"} /\ (panel = "closed" => parts = <<>>)
  /\ panel = "busy" <=> \E r \in recordings : r.shown
  /\ \A r, s \in recordings : r.shown /\ s.shown => r = s

Recordings == [total : Int, payments : Seq(Payments), customer : Customers \cup {NoOne},
               shown : BOOLEAN]

\* What is being recorded is paid to the cent.
PaymentsSound ==
  /\ parts \in Seq(Payments) /\ recordings \subseteq Recordings
  /\ \A r \in recordings : SumCents(Amounts(r.payments)) = r.total

ClockSound == outside \in Nat /\ day \in 0..outside

CounterInv == /\ CartSound /\ PromotedSound /\ ShelfSound /\ TariffFollows
              /\ PanelSound /\ PaymentsSound /\ ClockSound

\* The promoted cart adds up.
LEMMA TotalAddsUp ==
    ASSUME CartSound, PromotedSound
    PROVE  TotalsAddUp /\ Totals.total \in Nat
<1>1. /\ promoted.lines \in Seq(Line) /\ promoted.discount \in Int
      /\ Len(promoted.lines) \in Nat /\ DOMAIN promoted.lines = 1..Len(promoted.lines)
      /\ \A i \in DOMAIN promoted.lines : promoted.lines[i] \in Line
  BY LinesShape DEF PromotedSound, SoundCart, Carts
<1>2. Priced(promoted.lines)
  BY <1>1, LineFields DEF PromotedSound, Priced
<1> DEFINE t == ComputeTotals(promoted)
           rates == DOMAIN t.breakdown
           base == SumFunction([rate \in rates |-> t.breakdown[rate].base])
           tax == SumFunction([rate \in rates |-> t.breakdown[rate].tax])
           gross == SumCents([i \in DOMAIN t.lines |-> t.lines[i].gross])
           net == SumCents([i \in DOMAIN t.lines |-> t.lines[i].net])
<1>3. /\ \A i \in DOMAIN t.lines : t.lines[i].net \in 0..t.lines[i].gross
      /\ gross = net + t.discount
      /\ tax = t.tax /\ base + tax = t.total
      /\ t.total \in Nat
  BY <1>1, <1>2, CartAddsUp
<1>4. Totals = t
  BY DEF Totals
<1> QED BY <1>3, <1>4 DEF TotalsAddUp

\* A cart put in the counter is promoted at once.
LEMMA CartPut ==
    ASSUME NEW c, SoundCart(c), Offered(promotions), SetCart(c)
    PROVE  PromotedSound' /\ cart' = c /\ SoundCart(c)
<1>1. cart' = c /\ promoted' = ApplyPromotions(c, promotions, day)
  BY DEF SetCart, Promote
<1> DEFINE r == ApplyPromotions(c, promotions, day)
<1>2. /\ SoundCart(r) /\ DOMAIN r.lines = DOMAIN c.lines
      /\ r.discount = c.discount /\ r.wholesale = c.wholesale
      /\ \A j \in DOMAIN r.lines :
           r.lines[j].discount \in 0..LineAmount(r.lines[j].price, r.lines[j].qty)
  BY CartPromoted
<1> HIDE DEF r
<1> QED BY <1>1, <1>2 DEF PromotedSound, r

\* A line that would be added fits.
LEMMA LineFits ==
    ASSUME NEW c, SoundCart(c), NEW p, NEW new, NEW qty, Mergeable(c, p) = {},
           NEW id, NEW price,
           \/ WithinBounds(AddProduct(c, p, new, qty))
           \/ WithinBounds(SetLinePrice(AddProduct(c, p, new, qty), id, price))
    PROVE  Len(c.lines) + 1 <= MaxLines
<1> DEFINE l == LineFromProduct(new, p, qty, c.wholesale)
           ls == Append(c.lines, l)
           r == AddProduct(c, p, new, qty)
           T == Line \cup {l}
           again == [i \in DOMAIN r.lines |->
              IF r.lines[i].id = id THEN [r.lines[i] EXCEPT !.price = price, !.locked = TRUE]
              ELSE r.lines[i]]
<1>1. c \in Carts /\ c.lines \in Seq(Line) /\ Len(c.lines) \in Nat
  BY LinesShape DEF SoundCart, FairLines
<1>2. r = [c EXCEPT !.lines = ls]
  BY DEF AddProduct
<1>3. r.lines = ls /\ r = [lines |-> ls, discount |-> c.discount, wholesale |-> c.wholesale]
  BY <1>1, <1>2 DEF Carts
<1> HIDE DEF l
<1>4. ls \in Seq(T) /\ Len(ls) = Len(c.lines) + 1
  <2>1. c.lines \in Seq(T) /\ l \in T
    BY <1>1, SeqMonotonic
  <2> HIDE DEF T
  <2> QED BY <2>1, AppendProperties
<1>5. DOMAIN ls = 1..(Len(c.lines) + 1)
  BY <1>1, <1>4
<1>6. SetLinePrice(r, id, price) = [r EXCEPT !.lines = again]
  BY DEF SetLinePrice
<1>7. SetLinePrice(r, id, price).lines = again
  <2> HIDE DEF again, ls
  <2> QED BY <1>3, <1>6
<1>8. Len(again) = Len(c.lines) + 1
  <2> DEFINE n == Len(c.lines) + 1  E == {again[i] : i \in 1..n}
  <2>1. n \in Nat /\ DOMAIN again = 1..n /\ again = [i \in 1..n |-> again[i]]
    <3>1. DOMAIN again = DOMAIN r.lines /\ again = [i \in DOMAIN again |-> again[i]]
      OBVIOUS
    <3> HIDE DEF again
    <3>2. n \in Nat /\ DOMAIN again = 1..n
      BY <1>1, <1>3, <1>5, <3>1
    <3> HIDE DEF n
    <3> QED BY <3>1, <3>2
  <2> HIDE DEF again, n
  <2>2. again \in [1..n -> E]
    BY <2>1
  <2> HIDE DEF E
  <2> QED BY <2>1, <2>2 DEF n
<1> HIDE DEF again, ls
<1>9. CASE WithinBounds(r)
  BY <1>3, <1>4, <1>9 DEF WithinBounds
<1>10. CASE WithinBounds(SetLinePrice(r, id, price))
  BY <1>7, <1>8, <1>10 DEF WithinBounds
<1> QED BY <1>9, <1>10

\* What a scan leaves of the lines: the right prices stay right, and the fixed ones fixed.
LEMMA ScanPrices ==
    ASSUME CartSound, TariffFollows, NEW p, NEW c, SoundCart(c), c.wholesale = cart.wholesale,
           \A j \in DOMAIN c.lines :
              \/ \E i \in DOMAIN cart.lines : i \notin Joins(cart, p) /\ c.lines[j] = cart.lines[i]
              \/ /\ RightPrice(c.lines[j], cart.wholesale)
                 /\ \/ c.lines[j].id = NewId
                    \/ \E i \in Joins(cart, p) : c.lines[j].id = cart.lines[i].id,
           cart' = c, customer' = customer,
           resumed' = resumed \ {cart.lines[i].id : i \in Joins(cart, p)}
    PROVE  TariffFollows' /\ LockedPriceKept
<1>0. /\ cart.wholesale = (customer \in Wholesale)
      /\ \A i, j \in DOMAIN cart.lines : i # j => cart.lines[i].id # cart.lines[j].id
      /\ \A i \in DOMAIN cart.lines : cart.lines[i].id # NewId
      /\ Joins(cart, p) \subseteq DOMAIN cart.lines
      /\ \A i \in Joins(cart, p) : ~cart.lines[i].locked
  BY NewIdFree, JoinsOne DEF CartSound, SoundCart, FairLines
<1> HIDE DEF SoundCart
<1>1. ASSUME NEW j \in DOMAIN c.lines
      PROVE  \/ c.lines[j].locked \/ c.lines[j].id \in resumed'
             \/ c.lines[j].price = ResolveUnitPrice(c.lines[j].product, c.lines[j].qty, customer \in Wholesale)
  <2>1. CASE \E i \in DOMAIN cart.lines : i \notin Joins(cart, p) /\ c.lines[j] = cart.lines[i]
    <3>1. PICK i \in DOMAIN cart.lines : i \notin Joins(cart, p) /\ c.lines[j] = cart.lines[i]
      BY <2>1
    <3>2. cart.lines[i].id \notin {cart.lines[k].id : k \in Joins(cart, p)}
      BY <1>0, <3>1
    <3>3. \/ cart.lines[i].locked \/ cart.lines[i].id \in resumed
          \/ cart.lines[i].price = ResolveUnitPrice(cart.lines[i].product, cart.lines[i].qty, customer \in Wholesale)
      BY DEF TariffFollows
    <3> QED BY <3>1, <3>2, <3>3
  <2>2. CASE RightPrice(c.lines[j], cart.wholesale)
    BY <1>0, <2>2 DEF RightPrice
  <2> QED BY <2>1, <2>2
<1>2. TariffFollows'
  BY <1>1 DEF TariffFollows
<1>3. ASSUME NEW i \in DOMAIN cart.lines, NEW j \in DOMAIN c.lines, cart.lines[i].locked,
             c.lines[j].id = cart.lines[i].id
      PROVE  c.lines[j] = cart.lines[i]
  BY <1>0, <1>3
<1>4. LockedPriceKept
  BY <1>3 DEF LockedPriceKept
<1> QED BY <1>2, <1>4

\* A cart that loses lines, or that does not change, keeps its prices.
LEMMA PricesStay ==
    ASSUME CartSound, cart' = cart
    PROVE  LockedPriceKept
<1>1. \A i, j \in DOMAIN cart.lines : cart.lines[i].id = cart.lines[j].id => i = j
  BY DEF CartSound, SoundCart, FairLines
<1> QED BY <1>1 DEF LockedPriceKept

LEMMA CartTaken ==
    ASSUME NEW c \in Carts, NEW ls \in Seq(Line), NEW d \in Int
    PROVE  LET r == [c EXCEPT !.lines = ls, !.discount = d]
           IN  r \in Carts /\ r.lines = ls /\ r.wholesale = c.wholesale
BY DEF Carts

\* An empty counter has no price to keep.
LEMMA NoPrices ==
    ASSUME cart'.lines = <<>>
    PROVE  TariffFollows' /\ LockedPriceKept
<1>1. DOMAIN cart'.lines = {}
  BY NoLines
<1> QED BY <1>1 DEF TariffFollows, LockedPriceKept

\* What leaves the cart alone.
LEMMA CartSame ==
    ASSUME CartSound, PromotedSound, TariffFollows,
           UNCHANGED <<cart, customer, promoted, resumed>>
    PROVE  CartSound' /\ PromotedSound' /\ TariffFollows' /\ LockedPriceKept
BY PricesStay DEF CartSound, PromotedSound, TariffFollows

LEMMA ShelfSame ==
    ASSUME ShelfSound, UNCHANGED <<promotions, lookups, aside, held>>
    PROVE  ShelfSound'
BY DEF ShelfSound

\* Init.
LEMMA CounterInitInv == CounterInit => CounterInv
<1> SUFFICES ASSUME CounterInit PROVE CounterInv
  OBVIOUS
<1>1. /\ EmptyCart \in Carts /\ EmptyCart.lines = <<>> /\ EmptyCart.wholesale = FALSE
      /\ SoundCart(EmptyCart)
  BY NoLines DEF EmptyCart, Carts, SoundCart
<1>2. CartSound
  <2>1. (NoOne \in Wholesale) = FALSE
    BY CounterAssumption
  <2> QED BY <1>1, <2>1 DEF CounterInit, CartSound
<1>3. PromotedSound
  BY <1>1, NoLines DEF CounterInit, PromotedSound
<1>4. ShelfSound
  BY DEF CounterInit, ShelfSound, Offered
<1>5. TariffFollows
  BY <1>1, NoLines DEF CounterInit, TariffFollows
<1>6. PanelSound /\ ClockSound
  BY DEF CounterInit, PanelSound, ClockSound
<1>7. PaymentsSound
  <2>1. <<>> \in Seq(Payments)
    BY EmptySeq
  <2> QED BY <2>1 DEF CounterInit, PaymentsSound
<1> QED BY <1>2, <1>3, <1>4, <1>5, <1>6, <1>7 DEF CounterInv

\* A scan that is answered.
LEMMA Scanned ==
    ASSUME CartSound, ShelfSound, TariffFollows, NEW p \in Products, NEW qty \in Nat,
           NEW c,
           \/ c = AddProduct(cart, p, NewId, qty)
           \/ \E price \in Nat : c = SetLinePrice(AddProduct(cart, p, NewId, qty), NewId, price),
           SetCart(c), customer' = customer,
           resumed' = resumed \ {cart.lines[i].id : i \in Joins(cart, p)}
    PROVE  CartSound' /\ PromotedSound' /\ TariffFollows' /\ LockedPriceKept
<1> DEFINE new == NewId  r == AddProduct(cart, p, new, qty)
           Fine(item) ==
              \/ \E i \in DOMAIN cart.lines : i \notin Joins(cart, p) /\ item = cart.lines[i]
              \/ /\ RightPrice(item, cart.wholesale)
                 /\ \/ item.id = NewId
                    \/ \E i \in Joins(cart, p) : item.id = cart.lines[i].id
<1>0. SoundCart(cart) /\ Len(cart.lines) \in Nat
  BY LinesShape DEF CartSound, SoundCart
<1>1. /\ new \in Nat \ {0} /\ new <= Len(cart.lines) + 1
      /\ \A i \in DOMAIN cart.lines : cart.lines[i].id # new
  BY <1>0, NewIdFree
<1>2. Mergeable(cart, p) = {} => Len(cart.lines) + 1 <= MaxLines
  <2> SUFFICES ASSUME Mergeable(cart, p) = {} PROVE Len(cart.lines) + 1 <= MaxLines
    OBVIOUS
  <2>1. WithinBounds(c)
    BY DEF SetCart
  <2>2. CASE c = r
    BY <1>0, <2>1, <2>2, LineFits
  <2>3. CASE \E price \in Nat : c = SetLinePrice(r, new, price)
    <3>1. PICK price \in Nat : c = SetLinePrice(r, new, price)
      BY <2>3
    <3> HIDE DEF new
    <3>2. WithinBounds(SetLinePrice(AddProduct(cart, p, new, qty), new, price))
      BY <2>1, <3>1
    <3> QED BY <1>0, <3>2, LineFits
  <2> QED BY <2>2, <2>3
<1>3. /\ SoundCart(r) /\ r.wholesale = cart.wholesale
      /\ \A j \in DOMAIN r.lines : Fine(r.lines[j])
  <2> HIDE DEF new
  <2>1. /\ SoundCart(r) /\ r.wholesale = cart.wholesale
        /\ \A j \in DOMAIN r.lines :
              \/ \E i \in DOMAIN cart.lines : i \notin Joins(cart, p) /\ r.lines[j] = cart.lines[i]
              \/ /\ RightPrice(r.lines[j], cart.wholesale)
                 /\ \/ r.lines[j].id = new
                    \/ \E i \in Joins(cart, p) : r.lines[j].id = cart.lines[i].id
    BY <1>0, <1>1, <1>2, ProductAdded
  <2> QED BY <2>1 DEF new
<1>4. /\ SoundCart(c) /\ c.wholesale = cart.wholesale
      /\ \A j \in DOMAIN c.lines : Fine(c.lines[j])
  <2>1. CASE c = r
    BY <1>3, <2>1
  <2>2. CASE \E price \in Nat : c = SetLinePrice(r, new, price)
    <3>1. PICK price \in Nat : c = SetLinePrice(r, new, price)
      BY <2>2
    <3> HIDE DEF new, r, Fine
    <3>2. /\ SoundCart(c) /\ DOMAIN c.lines = DOMAIN r.lines /\ c.wholesale = r.wholesale
          /\ \A j \in DOMAIN c.lines :
               \/ c.lines[j] = r.lines[j]
               \/ c.lines[j].id = new /\ c.lines[j].locked
      BY <1>3, <3>1, PriceSet
    <3>3. \A item : item.id = new /\ item.locked => Fine(item)
      BY DEF Fine, RightPrice, new
    <3> QED BY <1>3, <3>2, <3>3
  <2> QED BY <2>1, <2>2
<1>5. PromotedSound' /\ cart' = c
  BY <1>4, CartPut DEF ShelfSound
<1>6. TariffFollows' /\ LockedPriceKept
  BY <1>4, <1>5, ScanPrices
<1>7. CartSound'
  <2> HIDE DEF Fine
  <2> QED BY <1>4, <1>5 DEF CartSound
<1> QED BY <1>5, <1>6, <1>7

\* Every step keeps the cart sound and its prices right.
LEMMA CartKept ==
    ASSUME CounterInv, CounterNext
    PROVE  CartSound' /\ PromotedSound' /\ ShelfSound' /\ TariffFollows' /\ LockedPriceKept
<1> DEFINE Goal == CartSound' /\ PromotedSound' /\ ShelfSound' /\ TariffFollows' /\ LockedPriceKept
<1> USE DEF CounterInv
<1>0. /\ SoundCart(cart) /\ cart \in Carts /\ Offered(promotions) /\ cart.wholesale \in BOOLEAN
      /\ customer \in Customers \cup {NoOne} /\ cart.wholesale = (customer \in Wholesale)
  BY DEF CartSound, SoundCart, ShelfSound, Carts
<1>1. ASSUME NEW p \in Products, Tile(p) PROVE Goal
  <2>1. QtyScale \in Nat
    BY ScalesAssumption
  <2>2. CartSound' /\ PromotedSound' /\ TariffFollows' /\ LockedPriceKept
    BY <1>1, <2>1, Scanned DEF Tile
  <2>3. ShelfSound'
    BY <1>1, ShelfSame DEF Tile
  <2> QED BY <2>2, <2>3
<1>2. ASSUME NEW code \in Codes, Scan(code) PROVE Goal
  <2>1. ShelfSound'
    BY <1>2 DEF Scan, ShelfSound
  <2> QED BY <1>2, <2>1, CartSame DEF Scan
<1>3. ASSUME NEW l \in lookups, Found(l) PROVE Goal
  <2>1. l.product \in Products /\ l.value \in Nat /\ QtyScale \in Nat
    BY ScalesAssumption, CounterAssumption DEF ShelfSound
  <2> DEFINE p == l.product
             qty == IF l.kind = "weight" THEN l.value ELSE QtyScale
             added == AddProduct(cart, p, NewId, qty)
             c == IF l.kind = "price" THEN SetLinePrice(added, NewId, l.value) ELSE added
  <2>2. /\ SetCart(c) /\ customer' = customer
        /\ resumed' = resumed \ {cart.lines[i].id : i \in Joins(cart, p)}
    BY <1>3 DEF Found
  <2>3. qty \in Nat /\ p \in Products
    BY <2>1
  <2>4. \/ c = AddProduct(cart, p, NewId, qty)
        \/ \E price \in Nat : c = SetLinePrice(AddProduct(cart, p, NewId, qty), NewId, price)
    BY <2>1
  <2> HIDE DEF c, qty, p
  <2>5. CartSound' /\ PromotedSound' /\ TariffFollows' /\ LockedPriceKept
    BY <2>2, <2>3, <2>4, Scanned
  <2>6. ShelfSound'
    BY <1>3 DEF Found, ShelfSound
  <2> QED BY <2>5, <2>6
<1>4. ASSUME NEW l \in lookups, NotFound(l) PROVE Goal
  <2>1. ShelfSound'
    BY <1>4 DEF NotFound, ShelfSound
  <2> QED BY <1>4, <2>1, CartSame DEF NotFound
<1>5. ASSUME NEW k \in DOMAIN cart.lines, NEW qty \in 0..(MaxQty + QtyScale), ChangeQuantity(k, qty)
      PROVE  Goal
  <2> DEFINE id == cart.lines[k].id  c == UpdateQuantity(cart, id, qty)
  <2>1. /\ SetCart(c) /\ resumed' = resumed \ {id} /\ customer' = customer
        /\ UNCHANGED <<promotions, lookups, aside, held>>
    BY <1>5 DEF ChangeQuantity
  <2>2. qty \in Int
    BY CounterBounds, ScalesAssumption
  <2> HIDE DEF id
  <2>3. /\ SoundCart(c) /\ c.wholesale = cart.wholesale
        /\ \A j \in DOMAIN c.lines : \E i \in DOMAIN cart.lines :
              \/ cart.lines[i].id # id /\ c.lines[j] = cart.lines[i]
              \/ /\ cart.lines[i].id = id /\ c.lines[j].id = id
                 /\ RightPrice(c.lines[j], cart.wholesale)
                 /\ c.lines[j].locked = cart.lines[i].locked
                 /\ c.lines[j].locked => c.lines[j].price = cart.lines[i].price
    BY <1>0, <2>2, QuantityUpdated
  <2> HIDE DEF c
  <2>4. PromotedSound' /\ cart' = c
    BY <1>0, <2>1, <2>3, CartPut
  <2>5. CartSound'
    BY <1>0, <2>1, <2>3, <2>4 DEF CartSound
  <2>6. ShelfSound'
    BY <2>1, ShelfSame
  <2>7. TariffFollows'
    <3>1. ASSUME NEW j \in DOMAIN c.lines
          PROVE  \/ c.lines[j].locked \/ c.lines[j].id \in resumed'
                 \/ c.lines[j].price = ResolveUnitPrice(c.lines[j].product, c.lines[j].qty, customer \in Wholesale)
      <4>1. PICK i \in DOMAIN cart.lines :
              \/ cart.lines[i].id # id /\ c.lines[j] = cart.lines[i]
              \/ RightPrice(c.lines[j], cart.wholesale)
        BY <2>3
      <4>2. CASE cart.lines[i].id # id /\ c.lines[j] = cart.lines[i]
        BY <2>1, <4>2 DEF TariffFollows
      <4>3. CASE RightPrice(c.lines[j], cart.wholesale)
        BY <1>0, <4>3 DEF RightPrice
      <4> QED BY <4>1, <4>2, <4>3
    <3> QED BY <2>1, <2>4, <3>1 DEF TariffFollows
  <2>8. LockedPriceKept
    <3>1. \A i, j \in DOMAIN cart.lines : cart.lines[i].id = cart.lines[j].id => i = j
      BY <1>0 DEF SoundCart, FairLines
    <3>2. ASSUME NEW i \in DOMAIN cart.lines, NEW j \in DOMAIN c.lines, cart.lines[i].locked,
                 c.lines[j].id = cart.lines[i].id
          PROVE  c.lines[j].price = cart.lines[i].price
      <4>1. PICK n \in DOMAIN cart.lines :
              \/ cart.lines[n].id # id /\ c.lines[j] = cart.lines[n]
              \/ /\ cart.lines[n].id = id /\ c.lines[j].id = id
                 /\ c.lines[j].locked = cart.lines[n].locked
                 /\ c.lines[j].locked => c.lines[j].price = cart.lines[n].price
        BY <2>3
      <4>2. n = i
        BY <3>1, <3>2, <4>1
      <4> QED BY <3>2, <4>1, <4>2
    <3> QED BY <1>5, <2>4, <3>2 DEF LockedPriceKept, ChangeQuantity
  <2> QED BY <2>4, <2>5, <2>6, <2>7, <2>8
<1>6. ASSUME Clear PROVE Goal
  <2>1. /\ SoundCart(ClearCart(cart)) /\ ClearCart(cart).lines = <<>>
        /\ ClearCart(cart).wholesale = cart.wholesale
    BY <1>0, CartCleared
  <2>2. PromotedSound' /\ cart' = ClearCart(cart) /\ customer' = customer
    BY <1>0, <1>6, <2>1, CartPut DEF Clear
  <2>3. CartSound'
    BY <1>0, <2>1, <2>2 DEF CartSound
  <2>4. ShelfSound'
    BY <1>6, ShelfSame DEF Clear
  <2> QED BY <2>1, <2>2, <2>3, <2>4, NoPrices
<1>7. ASSUME NEW amount \in Discounts, AskDiscount(amount) PROVE Goal
  <2> DEFINE c == SetCartDiscount(cart, amount)
  <2>1. amount \in Int
    BY TypedAssumption
  <2>2. SoundCart(c) /\ c.lines = cart.lines /\ c.wholesale = cart.wholesale
    BY <1>0, <2>1, DiscountSet
  <2>3. /\ SetCart(c) /\ UNCHANGED <<customer, resumed, lookups>>
        /\ UNCHANGED <<promotions, lookups, aside, held>>
    BY <1>7 DEF AskDiscount
  <2> HIDE DEF c
  <2>4. PromotedSound' /\ cart' = c
    BY <1>0, <2>2, <2>3, CartPut
  <2>5. CartSound'
    BY <1>0, <2>2, <2>3, <2>4 DEF CartSound
  <2>6. ShelfSound'
    BY <2>3, ShelfSame
  <2>7. TariffFollows'
    BY <2>2, <2>3, <2>4 DEF TariffFollows
  <2>8. \A i, j \in DOMAIN cart.lines : cart.lines[i].id = cart.lines[j].id => i = j
    BY <1>0 DEF SoundCart, FairLines
  <2>9. LockedPriceKept
    BY <2>2, <2>4, <2>8 DEF LockedPriceKept
  <2> QED BY <2>4, <2>5, <2>6, <2>7, <2>9
<1>8. ASSUME NEW d \in Customers \cup {NoOne}, ChooseCustomer(d) PROVE Goal
  <2> DEFINE w == d \in Wholesale  c == RepriceCart(cart, w)
  <2>1. /\ SetCart(c) /\ customer' = d /\ UNCHANGED <<promotions, lookups, aside, held>>
    BY <1>8 DEF ChooseCustomer
  <2>2. w \in BOOLEAN
    OBVIOUS
  <2> HIDE DEF w
  <2>3. /\ SoundCart(c) /\ DOMAIN c.lines = DOMAIN cart.lines /\ c.wholesale = w
        /\ \A j \in DOMAIN c.lines : /\ RightPrice(c.lines[j], w)
                                     /\ c.lines[j].id = cart.lines[j].id
                                     /\ cart.lines[j].locked => c.lines[j] = cart.lines[j]
    BY <1>0, <2>2, CartRepriced
  <2> HIDE DEF c
  <2>4. PromotedSound' /\ cart' = c
    BY <1>0, <2>1, <2>3, CartPut
  <2>5. CartSound'
    BY <2>1, <2>3, <2>4 DEF CartSound, w
  <2>6. ShelfSound'
    BY <2>1, ShelfSame
  <2>7. TariffFollows'
    BY <2>1, <2>3, <2>4 DEF TariffFollows, RightPrice, w
  <2>8. \A i, j \in DOMAIN cart.lines : cart.lines[i].id = cart.lines[j].id => i = j
    BY <1>0 DEF SoundCart, FairLines
  <2>9. LockedPriceKept
    BY <2>1, <2>3, <2>4, <2>8 DEF LockedPriceKept
  <2> QED BY <2>4, <2>5, <2>6, <2>7, <2>9
<1>9. CASE PutAside
  <2>1. FairLines(promoted.lines)
    BY DEF PromotedSound, SoundCart
  <2>2. ShelfSound'
    BY <1>9, <2>1 DEF PutAside, ShelfSound
  <2> QED BY <1>9, <2>2, CartSame DEF PutAside
<1>10. CASE DoNotHold
  <2>1. ShelfSound'
    BY <1>10 DEF DoNotHold, ShelfSound
  <2> QED BY <1>10, <2>1, CartSame DEF DoNotHold
<1>11. ASSUME NEW kind \in {"attente", "devis"}, Hold(kind) PROVE Goal
  <2> DEFINE e == ClearCart(cart)  c == RepriceCart(e, FALSE)
  <2>1. SetCart(c) /\ customer' = NoOne
    BY <1>11 DEF Hold
  <2>2. SoundCart(e) /\ e.lines = <<>>
    BY <1>0, CartCleared
  <2> HIDE DEF e
  <2>3. SoundCart(c) /\ DOMAIN c.lines = DOMAIN e.lines /\ c.wholesale = FALSE
    BY <2>2, CartRepriced
  <2> HIDE DEF c
  <2>4. c.lines = <<>>
    <3>1. c.lines \in Seq(Line) /\ DOMAIN c.lines = {}
      BY <2>2, <2>3, NoLines DEF SoundCart, FairLines
    <3>2. Len(c.lines) \in Nat /\ DOMAIN c.lines = 1..Len(c.lines)
      BY <2>3, LinesShape DEF SoundCart
    <3>3. Len(c.lines) = 0
      BY <3>1, <3>2
    <3> QED BY <3>1, <3>3, EmptySeq
  <2>5. PromotedSound' /\ cart' = c
    BY <1>0, <2>1, <2>3, CartPut
  <2>6. CartSound'
    <3>1. (NoOne \in Wholesale) = FALSE
      BY CounterAssumption
    <3> QED BY <2>1, <2>3, <2>5, <3>1 DEF CartSound
  <2>7. ShelfSound'
    BY <1>11 DEF Hold, ShelfSound
  <2> QED BY <2>4, <2>5, <2>6, <2>7, NoPrices
<1>12. ASSUME NEW h \in held, Resume(h) PROVE Goal
  <2> DEFINE nil == 0  c == [cart EXCEPT !.lines = h, !.discount = nil]
  <2>1. /\ SetCart(c) /\ customer' = customer /\ resumed' = {h[i].id : i \in DOMAIN h}
        /\ cart.lines = <<>>
    BY <1>12 DEF Resume
  <2>2. FairLines(h) /\ h \in Seq(Line)
    BY DEF ShelfSound, FairLines
  <2>3. c \in Carts /\ c.lines = h /\ c.wholesale = cart.wholesale
    <3>1. cart \in Carts /\ nil \in Int
      BY <1>0
    <3> HIDE DEF nil
    <3>2. h \in Seq(Line)
      BY <2>2
    <3> QED BY ONLY <3>1, <3>2, CartTaken
  <2> HIDE DEF c
  <2>4. SoundCart(c)
    BY <2>2, <2>3 DEF SoundCart
  <2>5. PromotedSound' /\ cart' = c
    BY <1>0, <2>1, <2>4, CartPut
  <2>6. CartSound'
    BY <1>0, <2>1, <2>3, <2>4, <2>5 DEF CartSound
  <2>7. ShelfSound'
    BY <1>12 DEF Resume, ShelfSound
  <2>8. TariffFollows'
    BY <2>1, <2>3, <2>5 DEF TariffFollows
  <2>9. LockedPriceKept
    BY <2>1, NoLines DEF LockedPriceKept
  <2> QED BY <2>5, <2>6, <2>7, <2>8, <2>9
<1>13. CASE Pay
  BY <1>13, CartSame, ShelfSame DEF Pay
<1>14. CASE ClosePanel
  BY <1>14, CartSame, ShelfSame DEF ClosePanel
<1>15. ASSUME NEW m \in Methods, NEW v \in Typed \cup {0}, AddPart(m, v, Remaining) PROVE Goal
  BY <1>15, CartSame, ShelfSame DEF AddPart
<1>16. ASSUME NEW m \in Methods, NEW v \in Typed \cup {0}, Confirm(m, v, Remaining) PROVE Goal
  BY <1>16, CartSame, ShelfSame DEF Confirm
<1>17. ASSUME NEW i \in DOMAIN parts, RemovePart(i) PROVE Goal
  BY <1>17, CartSame, ShelfSame DEF RemovePart
<1>18. ASSUME NEW r \in recordings, Recorded(r) PROVE Goal
  <2> DEFINE e == RepriceCart(cart, FALSE)  c == ClearCart(e)
  <2>1. SetCart(c) /\ customer' = NoOne /\ UNCHANGED <<promotions, lookups, aside, held>>
    BY <1>18 DEF Recorded
  <2>2. SoundCart(e) /\ e.wholesale = FALSE
    BY <1>0, CartRepriced
  <2> HIDE DEF e
  <2>3. SoundCart(c) /\ c.lines = <<>> /\ c.wholesale = FALSE
    BY <2>2, CartCleared
  <2> HIDE DEF c
  <2>5. PromotedSound' /\ cart' = c
    BY <1>0, <2>1, <2>3, CartPut
  <2>6. CartSound'
    <3>1. (NoOne \in Wholesale) = FALSE
      BY CounterAssumption
    <3> QED BY <2>1, <2>3, <2>5, <3>1 DEF CartSound
  <2>7. ShelfSound'
    BY <2>1, ShelfSame
  <2> QED BY <2>3, <2>5, <2>6, <2>7, NoPrices
<1>19. ASSUME NEW r \in recordings, NotRecorded(r) PROVE Goal
  BY <1>19, CartSame, ShelfSame DEF NotRecorded
<1>20. CASE Mount
  <2>1. /\ SoundCart(EmptyCart) /\ EmptyCart.lines = <<>> /\ EmptyCart.wholesale = FALSE
    BY NoLines DEF EmptyCart, Carts, SoundCart
  <2>2. CartSound'
    <3>1. (NoOne \in Wholesale) = FALSE
      BY CounterAssumption
    <3> QED BY <1>20, <2>1, <3>1 DEF Mount, CartSound
  <2>3. PromotedSound'
    BY <1>20, <2>1, NoLines DEF Mount, PromotedSound
  <2>4. Offered(Active)
    <3> DEFINE S == {i \in DOMAIN Promotions : stored[Promotions[i].name]}
    <3>1. Active = [i \in S |-> Promotions[i]]
      BY DEF Active, Restrict
    <3> QED BY <3>1 DEF Offered
  <2>5. ShelfSound'
    BY <1>20, <2>4 DEF Mount, ShelfSound
  <2>6. cart'.lines = <<>>
    BY <1>20, <2>1 DEF Mount
  <2> QED BY <2>2, <2>3, <2>5, <2>6, NoPrices
<1>21. CASE NextDay
  BY <1>21, CartSame, ShelfSame DEF NextDay
<1>22. ASSUME NEW i \in DOMAIN Promotions, ChangePromotion(Promotions[i]) PROVE Goal
  BY <1>22, CartSame, ShelfSame DEF ChangePromotion
<1> HIDE DEF CounterInv
<1>23. CASE Article
  BY <1>1, <1>2, <1>3, <1>4, <1>5, <1>6, <1>23 DEF Article
<1>24. CASE Aside
  BY <1>9, <1>10, <1>11, <1>12, <1>24 DEF Aside
<1>25. CASE Payment
  BY <1>13, <1>14, <1>15, <1>16, <1>17, <1>18, <1>19, <1>25 DEF Payment
<1>26. Goal
  BY <1>7, <1>8, <1>20, <1>21, <1>22, <1>23, <1>24, <1>25 DEF CounterNext
<1> QED BY <1>26 DEF Goal


\* What leaves the panel alone.
LEMMA PanelSame ==
    ASSUME PanelSound, PaymentsSound, UNCHANGED <<panel, parts, recordings>>
    PROVE  PanelSound' /\ PaymentsSound'
BY DEF PanelSound, PaymentsSound

LEMMA Unshown ==
    ASSUME NEW r \in Recordings
    PROVE  LET u == [r EXCEPT !.shown = FALSE]
           IN  u \in Recordings /\ u.shown = FALSE /\ u.payments = r.payments /\ u.total = r.total
BY DEF Recordings

\* A panel that closes is waited for by nobody.
LEMMA PanelClosed ==
    ASSUME PaymentsSound, NEW R \in SUBSET recordings,
           panel' = "closed", parts' = <<>>, recordings' = {[r EXCEPT !.shown = FALSE] : r \in R}
    PROVE  PanelSound' /\ PaymentsSound'
<1>1. \A r \in R : r \in Recordings /\ SumCents(Amounts(r.payments)) = r.total
  BY DEF PaymentsSound
<1>2. \A u \in recordings' : /\ u \in Recordings /\ u.shown = FALSE
                             /\ SumCents(Amounts(u.payments)) = u.total
  <2> TAKE u \in recordings'
  <2>1. PICK r \in R : u = [r EXCEPT !.shown = FALSE]
    OBVIOUS
  <2>2. /\ u \in Recordings /\ u.shown = FALSE /\ u.payments = r.payments /\ u.total = r.total
    BY <1>1, <2>1, Unshown
  <2> QED BY <1>1, <2>2
<1>3. PanelSound'
  BY <1>2 DEF PanelSound
<1>4. <<>> \in Seq(Payments)
  BY EmptySeq
<1>5. PaymentsSound'
  BY <1>2, <1>4 DEF PaymentsSound
<1> QED BY <1>3, <1>5

LEMMA PartRemoved ==
    ASSUME NEW ps \in Seq(Payments), NEW i \in DOMAIN ps
    PROVE  SubSeq(ps, 1, i - 1) \o SubSeq(ps, i + 1, Len(ps)) \in Seq(Payments)
<1>1. i \in 1..Len(ps)
  BY PaidType
<1> QED BY <1>1, Removed DEF RemoveAt

\* What is due is what is not paid.
LEMMA WhatIsDue ==
    ASSUME CartSound, PromotedSound, PaymentsSound
    PROVE  /\ Remaining \in Nat /\ Totals.total \in Nat
           /\ Remaining > 0 => SumCents(Amounts(parts)) + Remaining = Totals.total
<1> DEFINE total == Totals.total  paid == SumCents(Amounts(parts))
<1>1. total \in Nat
  BY TotalAddsUp
<1>2. paid \in Int
  BY PaidType DEF PaymentsSound
<1>3. Remaining = Most(0, total - paid)
  BY DEF Remaining, SummarizePayments, Amounts
<1> HIDE DEF total, paid
<1>4. /\ Remaining \in Nat /\ (Remaining > 0 => paid + Remaining = total)
  BY <1>1, <1>2, <1>3 DEF Most
<1> QED BY <1>1, <1>4 DEF total, paid

\* Every step keeps the panel and its payments sound.
LEMMA PanelKept ==
    ASSUME CounterInv, CounterNext
    PROVE  PanelSound' /\ PaymentsSound'
<1> USE DEF CounterInv
<1>1. ASSUME UNCHANGED <<panel, parts, recordings>> PROVE PanelSound' /\ PaymentsSound'
  BY <1>1, PanelSame
<1>2. CASE Article
  <2>1. ASSUME NEW p \in Products, Tile(p) PROVE UNCHANGED <<panel, parts, recordings>>
    BY <2>1 DEF Tile
  <2>2. ASSUME NEW code \in Codes, Scan(code) PROVE UNCHANGED <<panel, parts, recordings>>
    BY <2>2 DEF Scan
  <2>3. ASSUME NEW l \in lookups, Found(l) \/ NotFound(l)
        PROVE  UNCHANGED <<panel, parts, recordings>>
    BY <2>3 DEF Found, NotFound
  <2>4. ASSUME NEW i, NEW qty, ChangeQuantity(i, qty)
        PROVE  UNCHANGED <<panel, parts, recordings>>
    BY <2>4 DEF ChangeQuantity
  <2>5. Clear => UNCHANGED <<panel, parts, recordings>>
    BY DEF Clear
  <2> QED BY <1>1, <1>2, <2>1, <2>2, <2>3, <2>4, <2>5 DEF Article
<1>3. CASE Aside
  <2>1. ASSUME NEW kind, Hold(kind) PROVE UNCHANGED <<panel, parts, recordings>>
    BY <2>1 DEF Hold
  <2>2. ASSUME NEW h \in held, Resume(h) PROVE UNCHANGED <<panel, parts, recordings>>
    BY <2>2 DEF Resume
  <2>3. PutAside \/ DoNotHold => UNCHANGED <<panel, parts, recordings>>
    BY DEF PutAside, DoNotHold
  <2> QED BY <1>1, <1>3, <2>1, <2>2, <2>3 DEF Aside
<1>4. ASSUME NEW amount, AskDiscount(amount) PROVE UNCHANGED <<panel, parts, recordings>>
  BY <1>4 DEF AskDiscount
<1>5. ASSUME NEW c, ChooseCustomer(c) PROVE UNCHANGED <<panel, parts, recordings>>
  BY <1>5 DEF ChooseCustomer
<1>6. CASE Pay
  <2>1. <<>> \in Seq(Payments)
    BY EmptySeq
  <2>2. PaymentsSound'
    BY <1>6, <2>1 DEF Pay, PaymentsSound
  <2>3. PanelSound'
    BY <1>6 DEF Pay, AtCounter, PanelSound
  <2> QED BY <2>2, <2>3
<1>7. CASE ClosePanel
  BY <1>7, PanelClosed DEF ClosePanel
<1>8. ASSUME NEW m \in Methods, NEW v \in Typed \cup {0}, panel = "open",
             AddPart(m, v, Remaining) \/ Confirm(m, v, Remaining)
      PROVE  PanelSound' /\ PaymentsSound'
  <2> DEFINE due == Remaining  draft == BuildPayment(due, m, v)
  <2>1. /\ due \in Nat /\ (due > 0 => SumCents(Amounts(parts)) + due = Totals.total)
        /\ Totals.total \in Nat
    BY WhatIsDue
  <2>2. v \in Nat /\ draft # NoOne
    BY <1>8, TypedAssumption DEF AddPart, Confirm
  <2> HIDE DEF due
  <2>3. draft \in Payments /\ draft.amount <= due
    BY <2>1, <2>2, PaymentBuilt
  <2> HIDE DEF draft
  <2>4. /\ Append(parts, draft) \in Seq(Payments)
        /\ SumCents(Amounts(Append(parts, draft))) = SumCents(Amounts(parts)) + draft.amount
    BY <2>3, PaidMore DEF PaymentsSound
  <2>5. CASE AddPart(m, v, Remaining)
    <3>1. /\ parts' = Append(parts, draft) /\ UNCHANGED <<panel, recordings>> /\ panel = "open"
      BY <2>5 DEF AddPart, draft, due
    <3>2. PanelSound'
      BY <3>1 DEF PanelSound
    <3>3. PaymentsSound'
      BY <2>4, <3>1 DEF PaymentsSound
    <3> QED BY <3>2, <3>3
  <2>6. CASE Confirm(m, v, Remaining)
    <3> DEFINE r == [total |-> Totals.total, payments |-> Append(parts, draft),
                     customer |-> customer, shown |-> TRUE]
    <3>1. /\ panel = "open" /\ panel' = "busy" /\ recordings' = recordings \cup {r}
          /\ parts' = parts /\ draft.amount >= due
      BY <2>6 DEF Confirm, Covers, draft, due
    <3>2. draft.amount \in Nat \ {0}
      BY <2>3 DEF Payments
    <3>3. draft.amount = due /\ due > 0
      BY <2>1, <2>3, <3>1, <3>2
    <3>4. r \in Recordings /\ r.shown = TRUE /\ r.payments = Append(parts, draft)
          /\ r.total = Totals.total
      BY <2>1, <2>4 DEF Recordings, CartSound
    <3> HIDE DEF r
    <3>5. SumCents(Amounts(r.payments)) = r.total
      BY <2>1, <2>4, <3>3, <3>4
    <3>6. PaymentsSound'
      BY <3>1, <3>4, <3>5 DEF PaymentsSound
    <3>7. \A s \in recordings : ~s.shown
      BY <3>1 DEF PanelSound
    <3>8. PanelSound'
      BY <3>1, <3>4, <3>7 DEF PanelSound
    <3> QED BY <3>6, <3>8
  <2> QED BY <1>8, <2>5, <2>6
<1>9. ASSUME NEW i \in DOMAIN parts, RemovePart(i) PROVE PanelSound' /\ PaymentsSound'
  <2>1. parts' \in Seq(Payments)
    BY <1>9, PartRemoved DEF RemovePart, PaymentsSound
  <2>2. PaymentsSound'
    BY <1>9, <2>1 DEF RemovePart, PaymentsSound
  <2>3. PanelSound'
    BY <1>9 DEF RemovePart, PanelSound
  <2> QED BY <2>2, <2>3
<1>10. ASSUME NEW r \in recordings, Recorded(r) PROVE PanelSound' /\ PaymentsSound'
  <2>1. recordings \ {r} \in SUBSET recordings
    OBVIOUS
  <2> QED BY <1>10, <2>1, PanelClosed DEF Recorded
<1>11. ASSUME NEW r \in recordings, NotRecorded(r) PROVE PanelSound' /\ PaymentsSound'
  <2>1. PaymentsSound'
    BY <1>11 DEF NotRecorded, PaymentsSound
  <2>2. /\ recordings' = recordings \ {r} /\ parts' = parts
        /\ panel' = IF r.shown THEN "open" ELSE panel
    BY <1>11 DEF NotRecorded
  <2>3. CASE r.shown
    <3>1. panel = "busy" /\ \A s \in recordings' : ~s.shown
      BY <2>2, <2>3 DEF PanelSound
    <3> QED BY <2>1, <2>2, <2>3, <3>1 DEF PanelSound
  <2>4. CASE ~r.shown
    <3>1. (\E s \in recordings : s.shown) <=> (\E s \in recordings' : s.shown)
      BY <2>2, <2>4
    <3> QED BY <2>1, <2>2, <2>4, <3>1 DEF PanelSound
  <2> QED BY <2>3, <2>4
<1>12. CASE Mount
  <2>1. <<>> \in Seq(Payments)
    BY EmptySeq
  <2>2. PaymentsSound'
    BY <1>12, <2>1 DEF Mount, PaymentsSound
  <2>3. PanelSound'
    BY <1>12 DEF Mount, PanelSound
  <2> QED BY <2>2, <2>3
<1>13. NextDay => UNCHANGED <<panel, parts, recordings>>
  BY DEF NextDay
<1>14. ASSUME NEW p, ChangePromotion(p) PROVE UNCHANGED <<panel, parts, recordings>>
  BY <1>14 DEF ChangePromotion
<1> HIDE DEF CounterInv
<1>15. CASE Payment
  BY <1>6, <1>7, <1>8, <1>9, <1>10, <1>11, <1>15 DEF Payment
<1> QED BY <1>1, <1>2, <1>3, <1>4, <1>5, <1>12, <1>13, <1>14, <1>15 DEF CounterNext

\* The day goes on one change around the counter at a time.
LEMMA ClockKept ==
    ASSUME ClockSound, CounterNext
    PROVE  ClockSound'
<1>1. ASSUME UNCHANGED <<day, outside>> PROVE ClockSound'
  BY <1>1 DEF ClockSound
<1>2. CASE Article
  BY <1>1, <1>2 DEF Article, Tile, Scan, Found, NotFound, ChangeQuantity, Clear
<1>3. CASE Aside
  BY <1>1, <1>3 DEF Aside, PutAside, DoNotHold, Hold, Resume
<1>4. CASE Payment
  BY <1>1, <1>4 DEF Payment, Pay, ClosePanel, AddPart, Confirm, RemovePart, Recorded, NotRecorded
<1>5. ASSUME NEW amount, AskDiscount(amount) PROVE ClockSound'
  BY <1>1, <1>5 DEF AskDiscount
<1>6. ASSUME NEW c, ChooseCustomer(c) PROVE ClockSound'
  BY <1>1, <1>6 DEF ChooseCustomer
<1>7. CASE Mount
  BY <1>1, <1>7 DEF Mount
<1>8. CASE NextDay
  BY <1>8 DEF NextDay, MayHappen, ClockSound
<1>9. ASSUME NEW p, ChangePromotion(p) PROVE ClockSound'
  BY <1>9 DEF ChangePromotion, MayHappen, ClockSound
<1> QED BY <1>2, <1>3, <1>4, <1>5, <1>6, <1>7, <1>8, <1>9 DEF CounterNext

LEMMA CounterStep == CounterInv /\ [CounterNext]_counterVars => CounterInv'
<1> SUFFICES ASSUME CounterInv, [CounterNext]_counterVars PROVE CounterInv'
  OBVIOUS
<1>1. CASE CounterNext
  <2>1. CartSound' /\ PromotedSound' /\ ShelfSound' /\ TariffFollows'
    BY <1>1, CartKept
  <2>2. PanelSound' /\ PaymentsSound'
    BY <1>1, PanelKept
  <2>3. ClockSound'
    BY <1>1, ClockKept DEF CounterInv
  <2> QED BY <2>1, <2>2, <2>3 DEF CounterInv
<1>2. CASE UNCHANGED counterVars
  <2>1. CartSound' /\ PromotedSound' /\ TariffFollows'
    BY <1>2, CartSame DEF counterVars, CounterInv
  <2>2. ShelfSound'
    BY <1>2, ShelfSame DEF counterVars, CounterInv
  <2>3. PanelSound' /\ PaymentsSound'
    BY <1>2, PanelSame DEF counterVars, CounterInv
  <2>4. ClockSound'
    BY <1>2 DEF counterVars, CounterInv, ClockSound
  <2> QED BY <2>1, <2>2, <2>3, <2>4 DEF CounterInv
<1> QED BY <1>1, <1>2

\* What the invariant says of the shape of the state.
LEMMA CounterShape == CounterInv => CounterTypeOK
<1> SUFFICES ASSUME CounterInv PROVE CounterTypeOK
  OBVIOUS
<1> USE DEF CounterInv
<1>1. /\ cart \in Carts /\ FairLines(cart.lines)
      /\ promoted \in Carts /\ DOMAIN promoted.lines = DOMAIN cart.lines
      /\ promoted.discount = cart.discount /\ promoted.wholesale = cart.wholesale
  BY DEF CartSound, PromotedSound, SoundCart
<1>2. \A i \in DOMAIN cart.lines : cart.lines[i] \in Line
  BY <1>1, LinesShape
<1>3. \A i, j \in DOMAIN cart.lines : i # j => cart.lines[i].id # cart.lines[j].id
  BY <1>1 DEF FairLines
<1>4. cart.discount \in Int /\ [promoted EXCEPT !.lines = <<>>] = [cart EXCEPT !.lines = <<>>]
  BY <1>1 DEF Carts
<1> HIDE DEF CounterInv
<1>5. cart.wholesale = (customer \in Wholesale) /\ customer \in Customers \cup {NoOne}
  BY DEF CounterInv, CartSound
<1>6. day \in 0..outside
  BY DEF CounterInv, ClockSound
<1>7. /\ panel \in {"closed", "open", "busy"} /\ (panel = "closed" => parts = <<>>)
      /\ (panel = "busy" <=> \E r \in recordings : r.shown)
  BY DEF CounterInv, PanelSound
<1> QED BY <1>1, <1>2, <1>3, <1>4, <1>5, <1>6, <1>7 DEF CounterTypeOK

LEMMA CounterSettled == CounterInv => SettledExactly
<1> SUFFICES ASSUME CounterInv, NEW r \in recordings, ~Refuses(r)
             PROVE  LET s == SummarizePayments(r.total, r.payments)
                        given == SumCents([i \in DOMAIN r.payments |->
                                   IF r.payments[i].method = "cash" THEN r.payments[i].tendered
                                   ELSE r.payments[i].amount])
                        credit == \E i \in DOMAIN r.payments : r.payments[i].method = "credit"
                    IN  /\ s.paid = r.total /\ given = s.paid + s.change
                        /\ \A i \in DOMAIN r.payments : r.payments[i].amount > 0
                        /\ credit => r.customer # NoOne
  BY DEF SettledExactly
<1> DEFINE ps == r.payments
           s == SummarizePayments(r.total, ps)
<1>1. ps \in Seq(Payments) /\ SumCents(Amounts(ps)) = r.total
  BY DEF CounterInv, PaymentsSound, Recordings
<1>2. s.paid = SumCents(Amounts(ps)) /\ s.change = SumCents([i \in DOMAIN ps |-> ChangeOf(ps[i])])
  BY DEF SummarizePayments, Amounts
<1>3. \A i \in DOMAIN ps : ps[i].amount > 0
  BY <1>1, PaidType
<1>4. (\E i \in DOMAIN ps : ps[i].method = "credit") => r.customer # NoOne
  BY DEF Refuses
<1> QED BY <1>1, <1>2, <1>3, <1>4, GivenIsPaid

\* What the screen shows adds up, whatever was scanned, discounted or promoted
\* (computeTotals, distributeProportionally).
THEOREM TotalsAddUpCorrect == CounterSpec => []TotalsAddUp
<1>1. CounterInv => TotalsAddUp
  BY TotalAddsUp DEF CounterInv
<1> QED BY <1>1, CounterInitInv, CounterStep, PTL DEF CounterSpec

\* A ticket is settled to the cent, and nothing that was paid stays in a closed panel
\* (buildPayment, ClosePanel).
THEOREM CounterSettlesCorrect == CounterSpec => []CounterSettles
<1>1. CounterInv => CounterSettles
  BY CounterShape, CounterSettled DEF CounterSettles
<1> QED BY <1>1, CounterInitInv, CounterStep, PTL DEF CounterSpec

\* Prices follow the tariff, and those that were fixed do not move (RepriceLine, AddProduct).
THEOREM PricesRightCorrect == CounterSpec => PricesRight
<1>1. CounterInv /\ [CounterNext]_counterVars => [TariffFollows' /\ LockedPriceKept]_counterVars
  BY CartKept
<1> QED BY <1>1, CounterInitInv, CounterStep, PTL DEF CounterSpec, PricesRight
-----------------------------------------------------------------------------
(* The tickets of a till and what their days earned.                       *)

TicketLines == [product : STRING, rate : Nat, total : Int, tax : Int]
TicketRows ==
  [total : Int, tax : Int, added : BOOLEAN, lines : Seq(TicketLines),
   method : {"cash", "card", "none"}, session : Nat, at : 0..LastInstant, of : Nat, here : BOOLEAN]

LinesWorth(ticket) == SumFunction([k \in DOMAIN ticket.lines |-> ticket.lines[k].total])
LinesTaxes(ticket) == SumFunction([k \in DOMAIN ticket.lines |-> ticket.lines[k].tax])

\* What a ticket that kept its lines is worth: them, and their taxes when these are added.
WorthItsLines(ticket) ==
  /\ ticket.tax = LinesTaxes(ticket)
  /\ ticket.total = LinesWorth(ticket) + (IF ticket.added THEN ticket.tax ELSE 0)

\* A ticket that kept its lines is worth them, and a refund is one of a sale.
TicketsSound ==
  /\ tickets \in Seq(TicketRows)
  /\ \A i \in DOMAIN tickets :
       /\ tickets[i].session <= Len(drawers)
       /\ tickets[i].of # 0 => tickets[i].of \in DOMAIN tickets /\ tickets[tickets[i].of].of = 0
       /\ tickets[i].lines # <<>> => WorthItsLines(tickets[i])

TotalOf == [i \in DOMAIN tickets |-> tickets[i].total]
TaxesPaid == [i \in DOMAIN tickets |-> tickets[i].tax]

LEMMA TicketFields ==
    ASSUME TicketsSound
    PROVE  /\ Len(tickets) \in Nat /\ DOMAIN tickets = 1..Len(tickets) /\ IsFiniteSet(DOMAIN tickets)
           /\ \A i \in DOMAIN tickets :
                /\ tickets[i] \in TicketRows /\ tickets[i].total \in Int /\ TotalOf[i] = tickets[i].total
                /\ tickets[i].tax \in Int /\ TaxesPaid[i] = tickets[i].tax /\ tickets[i].added \in BOOLEAN
                /\ tickets[i].lines \in Seq(TicketLines) /\ tickets[i].at \in 0..LastInstant
                /\ tickets[i].method \in {"cash", "card", "none"} /\ tickets[i].of \in Nat
                /\ tickets[i].session \in Nat
<1>1. tickets \in Seq(TicketRows)
  BY DEF TicketsSound
<1>2. Len(tickets) \in Nat /\ DOMAIN tickets = 1..Len(tickets) /\ \A i \in DOMAIN tickets : tickets[i] \in TicketRows
  BY <1>1
<1>3. IsFiniteSet(DOMAIN tickets)
  BY <1>2, FS_Interval
<1> QED BY <1>2, <1>3 DEF TicketRows, TotalOf, TaxesPaid

LEMMA WorthIs ==
    ASSUME TicketsSound, NEW S \in SUBSET DOMAIN tickets
    PROVE  IsFiniteSet(S) /\ Worth(S) = SumFunctionOnSet(TotalOf, S) /\ Worth(S) \in Int
<1> DEFINE f == [i \in S |-> tickets[i].total]
<1>1. IsFiniteSet(S)
  BY TicketFields, FS_Subset
<1>2. \A i \in S : f[i] \in Int /\ TotalOf[i] = f[i]
  BY TicketFields
<1>3. Worth(S) = SumFunctionOnSet(f, S)
  BY DEF Worth, SumFunction
<1> HIDE DEF f
<1>4. SumFunctionOnSet(f, S) = SumFunctionOnSet(TotalOf, S) /\ SumFunctionOnSet(f, S) \in Int
  BY <1>1, <1>2, SumSame, SumType
<1> QED BY <1>1, <1>3, <1>4

LEMMA TaxesIs ==
    ASSUME TicketsSound, NEW S \in SUBSET DOMAIN tickets
    PROVE  TaxesOf(S) = SumFunctionOnSet(TaxesPaid, S) /\ TaxesOf(S) \in Int
<1> DEFINE f == [i \in S |-> tickets[i].tax]
<1>1. IsFiniteSet(S)
  BY TicketFields, FS_Subset
<1>2. \A i \in S : f[i] \in Int /\ TaxesPaid[i] = f[i]
  BY TicketFields
<1>3. TaxesOf(S) = SumFunctionOnSet(f, S)
  BY DEF TaxesOf, SumFunction
<1> HIDE DEF f
<1>4. SumFunctionOnSet(f, S) = SumFunctionOnSet(TaxesPaid, S) /\ SumFunctionOnSet(f, S) \in Int
  BY <1>1, <1>2, SumSame, SumType
<1> QED BY <1>3, <1>4

LEMMA WorthSplit ==
    ASSUME TicketsSound, NEW S \in SUBSET DOMAIN tickets, NEW T \in SUBSET S
    PROVE  Worth(S) = Worth(T) + Worth(S \ T)
<1>1. IsFiniteSet(S) /\ \A i \in S : TotalOf[i] \in Int
  BY WorthIs, TicketFields
<1>2. SumFunctionOnSet(TotalOf, S) = SumFunctionOnSet(TotalOf, T) + SumFunctionOnSet(TotalOf, S \ T)
  BY <1>1, SumSplit
<1>3. T \in SUBSET DOMAIN tickets /\ S \ T \in SUBSET DOMAIN tickets
  OBVIOUS
<1> QED BY <1>2, <1>3, WorthIs

\* Sums by the values of a key are the sum.
LEMMA GroupsAddUp ==
    ASSUME NEW key, NEW amount, IsFiniteSet(DOMAIN key), \A r \in DOMAIN key : amount[r] \in Int
    PROVE  SumFunction(Grouped(key, amount)) = SumFunctionOnSet(amount, DOMAIN key)
<1> DEFINE S == DOMAIN key  R == Range(key)
           g == [x \in R |-> SumFunctionOnSet(amount, {r \in S : key[r] = x})]
           k == [r \in S |-> key[r]]
<1>1. k \in Surjection(S, R)
  BY DEF Range, Surjection
<1>2. IsFiniteSet(R)
  <2> HIDE DEF k, R
  <2> QED BY <1>1, FS_Surjection
<1>3. \A r \in S : key[r] \in R
  BY DEF Range
<1>4. SumFunctionOnSet(g, R) = SumFunctionOnSet(amount, S)
  <2> HIDE DEF R
  <2> QED BY <1>2, <1>3, SumGroups
<1>5. Grouped(key, amount) = g /\ DOMAIN g = R
  BY DEF Grouped
<1> HIDE DEF g, R
<1> QED BY <1>4, <1>5 DEF SumFunction

\* The lines of some tickets, and the sum of an amount of theirs, ticket by ticket.
LEMMA LinesByTicket ==
    ASSUME TicketsSound, NEW S \in SUBSET DOMAIN tickets, NEW w,
           \A i \in S : \A k \in DOMAIN tickets[i].lines : w[<<i, k>>] \in Int
    PROVE  /\ IsFiniteSet(LinesOf(S)) /\ \A l \in LinesOf(S) : LineAt(l) \in TicketLines
           /\ \A l \in LinesOf(S) : w[l] \in Int
           /\ SumFunctionOnSet(w, LinesOf(S)) =
                SumFunctionOnSet([i \in S |-> SumFunction([k \in DOMAIN tickets[i].lines |-> w[<<i, k>>]])], S)
<1> DEFINE lines == LinesOf(S)
           per(i) == SumFunction([k \in DOMAIN tickets[i].lines |-> w[<<i, k>>]])
           Of(i) == {<<i, k>> : k \in DOMAIN tickets[i].lines}
           key == [l \in lines |-> l[1]]
           h == [i \in S |-> SumFunctionOnSet(w, {l \in lines : key[l] = i})]
<1>1. IsFiniteSet(S) /\ \A i \in S : i \in DOMAIN tickets
  BY WorthIs
<1>2. \A i \in S : /\ tickets[i].lines \in Seq(TicketLines)
                   /\ Len(tickets[i].lines) \in Nat /\ DOMAIN tickets[i].lines = 1..Len(tickets[i].lines)
                   /\ IsFiniteSet(DOMAIN tickets[i].lines)
                   /\ \A k \in DOMAIN tickets[i].lines : tickets[i].lines[k] \in TicketLines
  <2> TAKE i \in S
  <2>1. tickets[i].lines \in Seq(TicketLines)
    BY <1>1, TicketFields
  <2> DEFINE ls == tickets[i].lines
  <2> HIDE DEF ls
  <2>2. ls \in Seq(TicketLines)
    BY <2>1 DEF ls
  <2>3. Len(ls) \in Nat /\ DOMAIN ls = 1..Len(ls) /\ \A k \in DOMAIN ls : ls[k] \in TicketLines
    BY <2>2
  <2>4. IsFiniteSet(DOMAIN ls)
    BY <2>3, FS_Interval
  <2> QED BY <2>2, <2>3, <2>4 DEF ls
<1>3. \A l : l \in lines <=> \E i \in S : \E k \in DOMAIN tickets[i].lines : l = <<i, k>>
  BY DEF LinesOf
<1>4. IsFiniteSet(lines)
  <2>1. lines = UNION {Of(i) : i \in S}
    BY DEF LinesOf
  <2>2. ASSUME NEW i \in S PROVE IsFiniteSet(Of(i))
    <3> DEFINE pair == [k \in DOMAIN tickets[i].lines |-> <<i, k>>]
    <3>1. pair \in Surjection(DOMAIN tickets[i].lines, Of(i))
      BY DEF Surjection
    <3> HIDE DEF pair, Of
    <3> QED BY <1>2, <3>1, FS_Surjection
  <2> DEFINE pieces == {Of(i) : i \in S}  piece == [i \in S |-> Of(i)]
  <2>3. piece \in Surjection(S, pieces)
    BY DEF Surjection
  <2>4. \A x \in pieces : IsFiniteSet(x)
    BY <2>2
  <2> HIDE DEF pieces, piece
  <2>5. IsFiniteSet(pieces)
    BY <1>1, <2>3, FS_Surjection
  <2>6. IsFiniteSet(UNION pieces)
    BY <2>4, <2>5, FS_UNION
  <2> QED BY <2>1, <2>6 DEF pieces
<1>5. ASSUME NEW i \in S, NEW k \in DOMAIN tickets[i].lines
      PROVE  /\ <<i, k>> \in lines /\ key[<<i, k>>] = i /\ w[<<i, k>>] \in Int
             /\ LineAt(<<i, k>>) = tickets[i].lines[k]
  <2>1. <<i, k>> \in lines
    BY <1>3
  <2> HIDE DEF lines
  <2> QED BY <2>1 DEF LineAt
<1>6. \A l \in lines : key[l] \in S /\ w[l] \in Int /\ LineAt(l) \in TicketLines
  <2> TAKE l \in lines
  <2>1. PICK i \in S : \E k \in DOMAIN tickets[i].lines : l = <<i, k>>
    BY <1>3
  <2>2. PICK k \in DOMAIN tickets[i].lines : l = <<i, k>>
    BY <2>1
  <2> HIDE DEF lines, key
  <2> QED BY <1>2, <1>5, <2>2
<1>7. SumFunctionOnSet(h, S) = SumFunctionOnSet(w, lines)
  <2> HIDE DEF lines, key
  <2> QED BY <1>1, <1>4, <1>6, SumGroups
<1>8. \A i \in S : h[i] = per(i)
  <2> TAKE i \in S
  <2> DEFINE D == DOMAIN tickets[i].lines
             f == [k \in D |-> w[<<i, k>>]]
             T == {l \in lines : key[l] = i}
             b == [k \in D |-> <<i, k>>]
  <2>1. h[i] = SumFunctionOnSet(w, T)
    OBVIOUS
  <2>2. IsFiniteSet(T) /\ IsFiniteSet(D)
    <3>1. T \in SUBSET lines
      OBVIOUS
    <3> HIDE DEF T, lines
    <3> QED BY <1>2, <1>4, <3>1, FS_Subset
  <2>3. \A k \in D : b[k] \in T /\ w[b[k]] = f[k] /\ f[k] \in Int
    <3> TAKE k \in D
    <3>1. b[k] = <<i, k>> /\ f[k] = w[<<i, k>>]
      OBVIOUS
    <3> HIDE DEF b, f, key, lines
    <3> QED BY <1>5, <3>1
  <2>4. \A t \in T : \E k \in D : b[k] = t
    <3> TAKE t \in T
    <3>1. PICK j \in S : \E k \in DOMAIN tickets[j].lines : t = <<j, k>>
      BY <1>3
    <3>2. PICK k \in DOMAIN tickets[j].lines : t = <<j, k>>
      BY <3>1
    <3>3. key[t] = i /\ key[t] = j
      <4>1. key[t] = i
        OBVIOUS
      <4> HIDE DEF T, key, lines
      <4> QED BY <1>5, <3>2, <4>1
    <3> QED BY <3>2, <3>3
  <2>5. \A x, y \in D : b[x] = b[y] => x = y
    OBVIOUS
  <2>6. per(i) = SumFunctionOnSet(f, D)
    BY DEF SumFunction
  <2> HIDE DEF b, f, T, D
  <2>7. SumFunctionOnSet(f, D) = SumFunctionOnSet(w, T)
    BY <2>2, <2>3, <2>4, <2>5, SumMoved
  <2> HIDE DEF h, per
  <2> QED BY <2>1, <2>6, <2>7
<1>9. h = [i \in S |-> per(i)]
  BY <1>8
<1> HIDE DEF h
<1> QED BY <1>4, <1>6, <1>7, <1>9

\* What the lines of tickets are worth, with the taxes added to them and those that lost their
\* lines, is what the tickets are; and their taxes are those of the tickets that kept their lines.
LEMMA LinesAddUp ==
    ASSUME TicketsSound, NEW S \in SUBSET DOMAIN tickets
    PROVE  LET lines == LinesOf(S)
               total == [l \in lines |-> LineAt(l).total]
               tax == [l \in lines |-> LineAt(l).tax]
               bare == {i \in S : tickets[i].lines = <<>>}
           IN  /\ IsFiniteSet(lines) /\ \A l \in lines : LineAt(l) \in TicketLines
               /\ Worth(S) = SumFunctionOnSet(total, lines)
                               + (Worth(bare) + TaxesOf({i \in S \ bare : tickets[i].added}))
               /\ TaxesOf(S) = SumFunctionOnSet(tax, lines) + TaxesOf(bare)
<1> DEFINE lines == LinesOf(S)
           total == [l \in lines |-> LineAt(l).total]
           tax == [l \in lines |-> LineAt(l).tax]
           bare == {i \in S : tickets[i].lines = <<>>}
           full == S \ bare
           plus == {i \in full : tickets[i].added}
           worths == [i \in S |-> SumFunction([k \in DOMAIN tickets[i].lines |-> total[<<i, k>>]])]
           taxes == [i \in S |-> SumFunction([k \in DOMAIN tickets[i].lines |-> tax[<<i, k>>]])]
           extra == [i \in S |-> IF tickets[i].added THEN tickets[i].tax ELSE 0]
<1>1. IsFiniteSet(S) /\ \A i \in S : i \in DOMAIN tickets /\ TotalOf[i] \in Int /\ TaxesPaid[i] \in Int
  BY WorthIs, TicketFields
<1>2. ASSUME NEW i \in S, NEW k \in DOMAIN tickets[i].lines
      PROVE  /\ total[<<i, k>>] = tickets[i].lines[k].total /\ total[<<i, k>>] \in Int
             /\ tax[<<i, k>>] = tickets[i].lines[k].tax /\ tax[<<i, k>>] \in Int
  <2>1. <<i, k>> \in lines
    BY DEF LinesOf
  <2>2. tickets[i].lines \in Seq(TicketLines)
    BY <1>1, TicketFields
  <2>3. tickets[i].lines[k] \in TicketLines
    <3> DEFINE ls == tickets[i].lines
    <3> HIDE DEF ls
    <3>1. ls \in Seq(TicketLines) /\ k \in DOMAIN ls
      BY <2>2 DEF ls
    <3>2. ls[k] \in TicketLines
      BY <3>1
    <3> QED BY <3>2 DEF ls
  <2>4. tickets[i].lines[k].total \in Int /\ tickets[i].lines[k].tax \in Int
    BY <2>3 DEF TicketLines
  <2> HIDE DEF lines
  <2> QED BY <2>1, <2>4 DEF LineAt
<1>3. \A i \in S : worths[i] = LinesWorth(tickets[i]) /\ taxes[i] = LinesTaxes(tickets[i])
  <2> TAKE i \in S
  <2>1. \A k \in DOMAIN tickets[i].lines : /\ total[<<i, k>>] = tickets[i].lines[k].total
                                           /\ tax[<<i, k>>] = tickets[i].lines[k].tax
    BY <1>2
  <2> HIDE DEF total, tax
  <2>2. /\ [k \in DOMAIN tickets[i].lines |-> total[<<i, k>>]]
             = [k \in DOMAIN tickets[i].lines |-> tickets[i].lines[k].total]
        /\ [k \in DOMAIN tickets[i].lines |-> tax[<<i, k>>]]
             = [k \in DOMAIN tickets[i].lines |-> tickets[i].lines[k].tax]
    BY <2>1
  <2> QED BY <2>2 DEF LinesWorth, LinesTaxes
<1>4. /\ IsFiniteSet(lines) /\ \A l \in lines : LineAt(l) \in TicketLines
      /\ SumFunctionOnSet(total, lines) = SumFunctionOnSet(worths, S)
      /\ SumFunctionOnSet(tax, lines) = SumFunctionOnSet(taxes, S)
  <2> HIDE DEF total, tax
  <2> QED BY <1>2, LinesByTicket
<1>5. \A i \in bare : worths[i] = 0 /\ taxes[i] = 0
  <2> TAKE i \in bare
  <2>1. DOMAIN tickets[i].lines = {}
    <3>1. tickets[i].lines = <<>>
      OBVIOUS
    <3> QED BY <3>1
  <2> DEFINE f == [k \in DOMAIN tickets[i].lines |-> tickets[i].lines[k].total]
             g == [k \in DOMAIN tickets[i].lines |-> tickets[i].lines[k].tax]
  <2>2. /\ LinesWorth(tickets[i]) = SumFunctionOnSet(f, DOMAIN tickets[i].lines)
        /\ LinesTaxes(tickets[i]) = SumFunctionOnSet(g, DOMAIN tickets[i].lines)
    BY DEF LinesWorth, LinesTaxes, SumFunction
  <2> HIDE DEF f, g, worths, taxes
  <2>3. LinesWorth(tickets[i]) = 0 /\ LinesTaxes(tickets[i]) = 0
    BY <2>1, <2>2, SumEmpty
  <2> QED BY <1>3, <2>3
<1> HIDE DEF worths, taxes, total, tax, lines
<1>6. \A i \in full : /\ TaxesPaid[i] \in Int /\ TaxesPaid[i] = taxes[i] /\ extra[i] \in Int /\ worths[i] \in Int
                      /\ TotalOf[i] = worths[i] + extra[i]
  <2> TAKE i \in full
  <2>1. WorthItsLines(tickets[i]) /\ i \in S
    BY <1>1 DEF TicketsSound
  <2>2. /\ tickets[i].tax \in Int /\ tickets[i].total \in Int /\ tickets[i].added \in BOOLEAN
        /\ TotalOf[i] = tickets[i].total /\ TaxesPaid[i] = tickets[i].tax
    BY <1>1, <2>1, TicketFields
  <2>3. extra[i] = IF tickets[i].added THEN tickets[i].tax ELSE 0
    BY <2>1
  <2>4. LinesWorth(tickets[i]) \in Int
    <3> DEFINE f == [k \in DOMAIN tickets[i].lines |-> tickets[i].lines[k].total]
    <3>1. tickets[i].lines \in Seq(TicketLines)
      BY <1>1, <2>1, TicketFields
    <3>2. IsFiniteSet(DOMAIN tickets[i].lines) /\ \A k \in DOMAIN tickets[i].lines : f[k] \in Int
      <4> DEFINE ls == tickets[i].lines
      <4> HIDE DEF ls
      <4>1. ls \in Seq(TicketLines)
        BY <3>1 DEF ls
      <4>2. Len(ls) \in Nat /\ DOMAIN ls = 1..Len(ls) /\ \A k \in DOMAIN ls : ls[k] \in TicketLines
        BY <4>1
      <4>3. IsFiniteSet(DOMAIN ls)
        <5>1. 1 \in Int /\ Len(ls) \in Int
          BY <4>2
        <5>2. IsFiniteSet(1..Len(ls))
          BY ONLY <5>1, FS_Interval
        <5> QED BY <4>2, <5>2
      <4>4. \A k \in DOMAIN ls : ls[k].total \in Int
        BY <4>2 DEF TicketLines
      <4>5. \A k \in DOMAIN tickets[i].lines : tickets[i].lines[k].total \in Int
        BY <4>4 DEF ls
      <4> QED BY <4>3, <4>5 DEF ls
    <3>3. LinesWorth(tickets[i]) = SumFunctionOnSet(f, DOMAIN tickets[i].lines)
      BY DEF LinesWorth, SumFunction
    <3> HIDE DEF f
    <3> QED BY <3>2, <3>3, SumType
  <2> HIDE DEF extra
  <2>5. tickets[i].tax = LinesTaxes(tickets[i])
        /\ tickets[i].total = LinesWorth(tickets[i]) + (IF tickets[i].added THEN tickets[i].tax ELSE 0)
    BY <2>1 DEF WorthItsLines
  <2> QED BY <1>3, <2>1, <2>2, <2>3, <2>4, <2>5
<1>7. /\ full \in SUBSET S /\ bare \in SUBSET S /\ S \ full = bare /\ IsFiniteSet(full)
      /\ plus \in SUBSET full /\ plus \in SUBSET DOMAIN tickets /\ full \in SUBSET DOMAIN tickets
      /\ bare \in SUBSET DOMAIN tickets
  <2>1. full \in SUBSET S /\ bare \in SUBSET S /\ S \ full = bare /\ plus \in SUBSET full
    OBVIOUS
  <2>2. IsFiniteSet(full)
    BY <1>1, <2>1, FS_Subset
  <2> QED BY <2>1, <2>2
<1>8. \A i \in plus : TaxesPaid[i] \in Int /\ extra[i] = TaxesPaid[i]
  BY <1>1, TicketFields
<1>9. \A i \in full \ plus : extra[i] = 0
  OBVIOUS
<1> HIDE DEF extra, bare, plus, full
<1>10. SumFunctionOnSet(worths, S) = SumFunctionOnSet(worths, full)
       /\ SumFunctionOnSet(taxes, S) = SumFunctionOnSet(TaxesPaid, full)
  BY <1>1, <1>5, <1>6, <1>7, SumOnly
<1>11. SumFunctionOnSet(TotalOf, full) = SumFunctionOnSet(worths, full) + SumFunctionOnSet(extra, full)
  BY <1>6, <1>7, SumPlus
<1>12. SumFunctionOnSet(extra, full) = SumFunctionOnSet(TaxesPaid, plus)
  BY <1>7, <1>8, <1>9, SumOnly
<1>13. /\ Worth(S) = Worth(bare) + Worth(full) /\ Worth(full) = SumFunctionOnSet(TotalOf, full)
       /\ Worth(full) \in Int /\ Worth(bare) \in Int
       /\ TaxesOf(plus) = SumFunctionOnSet(TaxesPaid, plus) /\ TaxesOf(plus) \in Int
  <2>1. S \ bare = full
    BY DEF full
  <2> QED BY <1>7, <2>1, WorthSplit, WorthIs, TaxesIs
<1>14. SumFunctionOnSet(worths, full) \in Int
  BY <1>6, <1>7, SumType
<1>15. Worth(S) = SumFunctionOnSet(total, lines) + (Worth(bare) + TaxesOf(plus))
  BY <1>4, <1>10, <1>11, <1>12, <1>13, <1>14
<1>16. TaxesOf(S) = SumFunctionOnSet(tax, lines) + TaxesOf(bare)
  <2>1. SumFunctionOnSet(TaxesPaid, S) = SumFunctionOnSet(TaxesPaid, full) + SumFunctionOnSet(TaxesPaid, bare)
    BY <1>1, <1>7, SumSplit
  <2>2. /\ TaxesOf(S) = SumFunctionOnSet(TaxesPaid, S) /\ TaxesOf(bare) = SumFunctionOnSet(TaxesPaid, bare)
    BY <1>7, TaxesIs
  <2> QED BY <1>4, <1>10, <2>1, <2>2
<1> QED BY <1>4, <1>15, <1>16 DEF lines, total, tax, bare, plus, full

\* What a summary says of some tickets, by any of its groupings (summarizeSales).
LEMMA SummaryAddsUp ==
    ASSUME TicketsSound, NEW S \in SUBSET DOMAIN tickets
    PROVE  LET daily == SummaryOf(S)
               bare == {i \in S : tickets[i].lines = <<>>}
               unpaid == {i \in S : tickets[i].method = "none"}
               apart == Worth(bare) + TaxesOf({i \in S \ bare : tickets[i].added})
           IN  /\ daily.net = Worth(S)
               /\ daily.net = SumFunction(daily.byHour)
               /\ daily.net = SumFunction(daily.byProduct) + apart
               /\ daily.net = SumFunction(daily.bases) + SumFunction(daily.byRate) + apart
               /\ daily.taxes = SumFunction(daily.byRate) + TaxesOf(bare)
               /\ daily.net = SumFunction(daily.byMethod) + Worth(unpaid)
<1> DEFINE daily == SummaryOf(S)
           bare == {i \in S : tickets[i].lines = <<>>}
           unpaid == {i \in S : tickets[i].method = "none"}
           refunds == {i \in S : IsRefund(i)}
           paid == {i \in S : tickets[i].method # "none"}
           lines == LinesOf(S)
           worth == [i \in S |-> tickets[i].total]
           methods == [i \in paid |-> tickets[i].method]
           hour == [i \in S |-> HourOf(tickets[i].at)]
           rates == [l \in lines |-> LineAt(l).rate]
           products == [l \in lines |-> LineAt(l).product]
           total == [l \in lines |-> LineAt(l).total]
           base == [l \in lines |-> LineAt(l).total - LineAt(l).tax]
           tax == [l \in lines |-> LineAt(l).tax]
           apart == Worth(bare) + TaxesOf({i \in S \ bare : tickets[i].added})
<1>1. /\ daily.net = Worth(S \ refunds) + Worth(refunds) /\ daily.taxes = TaxesOf(S)
      /\ daily.byMethod = Grouped(methods, worth)
      /\ daily.bases = Grouped(rates, base) /\ daily.byRate = Grouped(rates, tax)
      /\ daily.byHour = Grouped(hour, worth) /\ daily.byProduct = Grouped(products, total)
  BY DEF SummaryOf
<1>2. /\ DOMAIN methods = paid /\ DOMAIN rates = lines /\ DOMAIN hour = S /\ DOMAIN products = lines
      /\ \A i \in S : worth[i] = tickets[i].total
      /\ \A l \in lines : total[l] = LineAt(l).total
      /\ \A l \in lines : base[l] = LineAt(l).total - LineAt(l).tax /\ tax[l] = LineAt(l).tax
  OBVIOUS
<1>3. /\ IsFiniteSet(lines) /\ \A l \in lines : LineAt(l) \in TicketLines
      /\ Worth(S) = SumFunctionOnSet(total, lines) + apart
      /\ TaxesOf(S) = SumFunctionOnSet(tax, lines) + TaxesOf(bare)
  BY LinesAddUp
<1>4. /\ IsFiniteSet(S) /\ IsFiniteSet(paid) /\ refunds \in SUBSET S /\ paid \in SUBSET S
      /\ S \ paid = unpaid /\ S \ refunds \in SUBSET DOMAIN tickets /\ refunds \in SUBSET DOMAIN tickets
      /\ paid \in SUBSET DOMAIN tickets
  <2>1. IsFiniteSet(S) /\ paid \in SUBSET S
    BY WorthIs
  <2>2. IsFiniteSet(paid)
    BY <2>1, FS_Subset
  <2> QED BY <2>1, <2>2
<1>5. \A i \in S : worth[i] \in Int /\ worth[i] = TotalOf[i]
  <2> HIDE DEF worth
  <2> QED BY <1>2, TicketFields
<1>6. \A l \in lines : base[l] \in Int /\ tax[l] \in Int /\ total[l] = base[l] + tax[l] /\ total[l] \in Int
  <2> TAKE l \in lines
  <2>1. LineAt(l).total \in Int /\ LineAt(l).tax \in Int
    BY <1>3 DEF TicketLines
  <2>2. total[l] = LineAt(l).total /\ base[l] = LineAt(l).total - LineAt(l).tax /\ tax[l] = LineAt(l).tax
    BY <1>2
  <2> HIDE DEF total, base, tax, lines
  <2> QED BY <2>1, <2>2
<1> HIDE DEF daily, bare, unpaid, refunds, lines, worth, methods, hour, rates, products, total, base, tax, apart
<1>7. Worth(S) = Worth(refunds) + Worth(S \ refunds)
  BY <1>4, WorthSplit
<1>8. Worth(S) \in Int /\ Worth(refunds) \in Int /\ Worth(S \ refunds) \in Int
  BY <1>4, WorthIs
<1>9. daily.net = Worth(S)
  BY <1>1, <1>7, <1>8
<1>10. SumFunction(daily.byHour) = Worth(S)
  <2>1. SumFunction(daily.byHour) = SumFunctionOnSet(worth, S)
    BY <1>1, <1>2, <1>4, <1>5, GroupsAddUp
  <2>2. SumFunctionOnSet(worth, S) = SumFunctionOnSet(TotalOf, S)
    BY <1>4, <1>5, SumSame
  <2> QED BY <2>1, <2>2, WorthIs
<1>11. SumFunction(daily.byMethod) = Worth(paid)
  <2> HIDE DEF paid
  <2>1. \A i \in paid : worth[i] \in Int /\ TotalOf[i] = worth[i]
    BY <1>4, <1>5
  <2>2. SumFunction(daily.byMethod) = SumFunctionOnSet(worth, paid)
    BY <1>1, <1>2, <1>4, <2>1, GroupsAddUp
  <2>3. SumFunctionOnSet(worth, paid) = SumFunctionOnSet(TotalOf, paid)
    BY <1>4, <2>1, SumSame
  <2> QED BY <1>4, <2>2, <2>3, WorthIs
<1>12. SumFunction(daily.byProduct) = SumFunctionOnSet(total, lines)
  BY <1>1, <1>2, <1>3, <1>6, GroupsAddUp
<1>13. /\ SumFunction(daily.bases) = SumFunctionOnSet(base, lines)
       /\ SumFunction(daily.byRate) = SumFunctionOnSet(tax, lines)
       /\ SumFunctionOnSet(total, lines) = SumFunctionOnSet(base, lines) + SumFunctionOnSet(tax, lines)
  <2>1. SumFunction(daily.bases) = SumFunctionOnSet(base, lines)
    BY <1>1, <1>2, <1>3, <1>6, GroupsAddUp
  <2>2. SumFunction(daily.byRate) = SumFunctionOnSet(tax, lines)
    BY <1>1, <1>2, <1>3, <1>6, GroupsAddUp
  <2>3. SumFunctionOnSet(total, lines) = SumFunctionOnSet(base, lines) + SumFunctionOnSet(tax, lines)
    BY <1>3, <1>6, SumPlus
  <2> QED BY <2>1, <2>2, <2>3
<1>14. Worth(S) = Worth(paid) + Worth(unpaid)
  <2> HIDE DEF paid
  <2>1. Worth(S) = Worth(paid) + Worth(S \ paid)
    BY <1>4, WorthSplit
  <2> QED BY <1>4, <2>1
<1> HIDE DEF paid
<1>15. /\ daily.net = SumFunction(daily.byHour)
       /\ daily.net = SumFunction(daily.byProduct) + apart
       /\ daily.net = SumFunction(daily.bases) + SumFunction(daily.byRate) + apart
       /\ daily.taxes = SumFunction(daily.byRate) + TaxesOf(bare)
       /\ daily.net = SumFunction(daily.byMethod) + Worth(unpaid)
  BY <1>1, <1>3, <1>9, <1>10, <1>11, <1>12, <1>13, <1>14
<1> QED BY <1>9, <1>15 DEF daily, bare, unpaid, apart

\* A number is in one multiple of another.
LEMMA OneDay ==
    ASSUME NEW n \in Nat, NEW w \in Nat \ {0}, NEW d \in Nat
    PROVE  /\ n \div w \in Nat
           /\ (d * w <= n /\ n <= (d + 1) * w - 1) <=> d = n \div w
<1> DEFINE q == n \div w  r == n % w
<1>1. q \in Nat /\ r \in 0..(w - 1) /\ n = w * q + r
  BY Divided
<1> HIDE DEF q, r
<1>2. \A x, y \in Nat : x <= y => w * x <= w * y
  BY Multiplied
<1>3. d * w = w * d /\ (d + 1) * w = w * (d + 1) /\ w * d \in Nat /\ w * (d + 1) \in Nat /\ w * q \in Nat
      /\ w * (q + 1) = w * q + w
  BY <1>1
<1>4. ASSUME d = q PROVE d * w <= n /\ n <= (d + 1) * w - 1
  BY <1>1, <1>3, <1>4
<1>5. ASSUME d * w <= n, n <= (d + 1) * w - 1 PROVE d = q
  <2>1. CASE d < q
    <3>1. w * (d + 1) <= w * q
      BY <1>1, <1>2, <2>1
    <3> QED BY <1>1, <1>3, <1>5, <3>1
  <2>2. CASE q < d
    <3>1. w * (q + 1) <= w * d
      BY <1>1, <1>2, <2>2
    <3> QED BY <1>1, <1>3, <1>5, <3>1
  <2> QED BY <1>1, <2>1, <2>2
<1> QED BY <1>1, <1>4, <1>5 DEF q

LEMMA DaysOfTickets ==
    ASSUME TicketsSound
    PROVE  /\ IsFiniteSet(BookDays)
           /\ \A i \in DOMAIN tickets : (tickets[i].at + Offset) \div DayLength \in BookDays
           /\ \A d \in BookDays : SalesOfDay(d) =
                {i \in DOMAIN tickets : (tickets[i].at + Offset) \div DayLength = d}
<1>0. LastInstant \in Nat /\ Offset \in Nat /\ DayLength \in Nat \ {0} /\ LastInstant + Offset \in Nat
  BY BooksAssumption
<1> DEFINE last == (LastInstant + Offset) \div DayLength
<1>1. last \in Nat
  BY <1>0, OneDay
<1>2. IsFiniteSet(BookDays) /\ \A d : d \in BookDays <=> d \in Nat /\ d <= last
  <2> HIDE DEF last
  <2>1. IsFiniteSet(0..last) /\ \A d : d \in 0..last <=> d \in Nat /\ d <= last
    BY <1>1, FS_Interval
  <2> QED BY <2>1 DEF BookDays, last
<1>3. ASSUME NEW i \in DOMAIN tickets
      PROVE  LET n == tickets[i].at + Offset
                 q == n \div DayLength
             IN  /\ n \in Nat /\ n <= LastInstant + Offset /\ q \in Nat /\ q <= last
                 /\ \A d \in Nat : (tickets[i].at \in DayRange(d).from..DayRange(d).to) <=> d = q
  <2> DEFINE n == tickets[i].at + Offset  q == n \div DayLength
  <2>1. tickets[i].at \in Nat /\ n \in Nat /\ n <= LastInstant + Offset
    BY <1>0, TicketFields
  <2> HIDE DEF n
  <2>2. q \in Nat /\ \A d \in Nat : (d * DayLength <= n /\ n <= (d + 1) * DayLength - 1) <=> d = q
    BY <1>0, <2>1, OneDay
  <2>3. \A d \in Nat : (d * DayLength <= LastInstant + Offset /\ LastInstant + Offset <= (d + 1) * DayLength - 1) <=> d = last
    BY <1>0, OneDay
  <2> HIDE DEF q, last
  <2>4. q <= last
    <3> SUFFICES ASSUME last < q PROVE FALSE
      BY <1>1, <2>2
    <3>1. last + 1 <= q /\ last + 1 \in Nat
      BY <1>1, <2>2
    <3>2. DayLength * (last + 1) <= DayLength * q
      BY <1>0, <2>2, <3>1, Multiplied
    <3>3. /\ DayLength * (last + 1) = (last + 1) * DayLength /\ DayLength * q = q * DayLength
          /\ (last + 1) * DayLength \in Nat /\ q * DayLength \in Nat
      BY <1>0, <1>1, <2>2
    <3>4. q * DayLength <= n
      BY <2>2
    <3>5. LastInstant + Offset <= (last + 1) * DayLength - 1
      BY <1>1, <2>3
    <3> QED BY <1>0, <2>1, <3>2, <3>3, <3>4, <3>5
  <2>5. ASSUME NEW d \in Nat
        PROVE  (tickets[i].at \in DayRange(d).from..DayRange(d).to) <=> d = q
    <3>1. d * DayLength \in Int /\ (d + 1) * DayLength \in Int
      BY <1>0
    <3>2. DayRange(d).from = d * DayLength - Offset /\ DayRange(d).to = (d + 1) * DayLength - Offset - 1
      BY DEF DayRange
    <3>3. (tickets[i].at \in DayRange(d).from..DayRange(d).to)
            <=> d * DayLength <= n /\ n <= (d + 1) * DayLength - 1
      <4> DEFINE a == d * DayLength  b == (d + 1) * DayLength
      <4> HIDE DEF a, b
      <4>1. DayRange(d).from = a - Offset /\ DayRange(d).to = b - Offset - 1 /\ a \in Int /\ b \in Int
        BY <3>1, <3>2 DEF a, b
      <4>2. (tickets[i].at \in DayRange(d).from..DayRange(d).to) <=> a <= n /\ n <= b - 1
        BY <1>0, <2>1, <4>1 DEF n
      <4> QED BY <4>2 DEF a, b
    <3> QED BY <2>2, <3>3
  <2> QED BY <2>1, <2>2, <2>4, <2>5 DEF n, q
<1>4. \A i \in DOMAIN tickets : (tickets[i].at + Offset) \div DayLength \in BookDays
  BY <1>2, <1>3
<1>5. ASSUME NEW d \in BookDays
      PROVE  SalesOfDay(d) = {i \in DOMAIN tickets : (tickets[i].at + Offset) \div DayLength = d}
  <2>1. d \in Nat
    BY <1>2
  <2>2. \A i \in DOMAIN tickets : (tickets[i].at \in DayRange(d).from..DayRange(d).to)
                                     <=> (tickets[i].at + Offset) \div DayLength = d
    BY <1>3, <2>1
  <2> QED BY <2>2 DEF SalesOfDay
<1> QED BY <1>2, <1>4, <1>5

\* The days add up to what the tickets are worth (salesOfDay, summarizeSales, refundedBySale).
LEMMA TicketsAddUp ==
    ASSUME TicketsSound
    PROVE  DaysAddUp
<1> DEFINE D == DOMAIN tickets
           daily == [i \in D |-> (tickets[i].at + Offset) \div DayLength]
           net == [d \in BookDays |-> SummaryOf(SalesOfDay(d)).net]
           perDay == [d \in BookDays |-> SumFunctionOnSet(TotalOf, {i \in D : daily[i] = d})]
           First == {i \in D : tickets[i].of = 0}
           Back == {i \in D : tickets[i].of # 0}
           of == [i \in Back |-> tickets[i].of]
           back == [i \in First |-> SumFunctionOnSet(TotalOf, {r \in Back : of[r] = i})]
           left == [i \in First |-> tickets[i].total - RefundedBySale(i)]
<1>0. IsFiniteSet(D) /\ (\A i \in D : TotalOf[i] \in Int /\ TotalOf[i] = tickets[i].total)
  BY TicketFields
<1>1. \A d \in BookDays : SalesOfDay(d) \in SUBSET D
  BY DEF SalesOfDay
<1>2. SumFunction(net) = SumFunctionOnSet(TotalOf, D)
  <2>1. \A d \in BookDays : net[d] = perDay[d] /\ net[d] \in Int
    <3> TAKE d \in BookDays
    <3>1. SalesOfDay(d) = {i \in D : daily[i] = d} /\ SalesOfDay(d) \in SUBSET D
      BY <1>1, DaysOfTickets
    <3>2. net[d] = SummaryOf(SalesOfDay(d)).net /\ perDay[d] = SumFunctionOnSet(TotalOf, SalesOfDay(d))
      BY <3>1
    <3> HIDE DEF net, perDay, D
    <3>3. SummaryOf(SalesOfDay(d)).net = Worth(SalesOfDay(d))
      BY <3>1, SummaryAddsUp DEF D
    <3> QED BY <3>1, <3>2, <3>3, WorthIs DEF D
  <2>2. IsFiniteSet(BookDays) /\ \A i \in D : daily[i] \in BookDays
    BY DaysOfTickets
  <2>3. SumFunctionOnSet(perDay, BookDays) = SumFunctionOnSet(TotalOf, D)
    <3> HIDE DEF daily, D
    <3> QED BY <1>0, <2>2, SumGroups
  <2>4. SumFunction(net) = SumFunctionOnSet(net, BookDays)
    BY DEF SumFunction
  <2> HIDE DEF net, perDay
  <2>5. SumFunctionOnSet(net, BookDays) = SumFunctionOnSet(perDay, BookDays)
    BY <2>1, <2>2, SumSame
  <2> QED BY <2>3, <2>4, <2>5
<1>3. First \in SUBSET D /\ D \ First = Back /\ Back \in SUBSET D
  OBVIOUS
<1>4. IsFiniteSet(First) /\ IsFiniteSet(Back)
  <2> HIDE DEF First, Back, D
  <2> QED BY <1>0, <1>3, FS_Subset
<1>5. \A r \in Back : of[r] \in First
  BY DEF TicketsSound
<1>6. ASSUME NEW i \in First
      PROVE  /\ back[i] = Worth({r \in D : tickets[r].of = i}) /\ back[i] \in Int
             /\ left[i] = TotalOf[i] + back[i]
  <2> DEFINE R == {r \in D : tickets[r].of = i}
  <2>1. i \in Nat \ {0} /\ R \in SUBSET D
    BY TicketFields
  <2>2. {r \in Back : of[r] = i} = R
    BY <2>1
  <2>3. back[i] = SumFunctionOnSet(TotalOf, R) /\ left[i] = tickets[i].total - (-Worth(R))
    BY <2>2 DEF RefundedBySale
  <2>4. Worth(R) = SumFunctionOnSet(TotalOf, R) /\ Worth(R) \in Int
    BY <2>1, WorthIs
  <2>5. TotalOf[i] \in Int /\ TotalOf[i] = tickets[i].total
    BY <1>0
  <2> HIDE DEF back, left, R
  <2>6. back[i] = Worth(R) /\ back[i] \in Int /\ left[i] = TotalOf[i] + back[i]
    BY <2>3, <2>4, <2>5
  <2> QED BY <2>6 DEF R
<1>7. SumFunctionOnSet(back, First) = SumFunctionOnSet(TotalOf, Back)
  <2>1. \A x \in Back : TotalOf[x] \in Int
    BY <1>0
  <2> HIDE DEF First, Back, of
  <2> QED BY <1>4, <1>5, <2>1, SumGroups
<1>8. SumFunctionOnSet(left, First) = SumFunctionOnSet(TotalOf, First) + SumFunctionOnSet(back, First)
  <2>1. \A i \in First : TotalOf[i] \in Int /\ back[i] \in Int /\ left[i] = TotalOf[i] + back[i]
    BY <1>0, <1>6
  <2> HIDE DEF First, left, back
  <2> QED BY <1>4, <2>1, SumPlus
<1>9. SumFunctionOnSet(TotalOf, D) = SumFunctionOnSet(TotalOf, First) + SumFunctionOnSet(TotalOf, Back)
  <2> HIDE DEF First, Back, D
  <2> QED BY <1>0, <1>3, SumSplit
<1>10. SumFunction(left) = SumFunctionOnSet(left, First)
  BY DEF SumFunction
<1>11. SumFunction(net) = SumFunction(left)
  <2> HIDE DEF net, left, First, Back, D, back
  <2> QED BY <1>2, <1>7, <1>8, <1>9, <1>10
<1>12. SumFunction([d \in BookDays |-> SummaryOf(SalesOfDay(d)).net])
         = SumFunction([i \in {i \in DOMAIN tickets : tickets[i].of = 0} |->
                          tickets[i].total - RefundedBySale(i)])
  BY <1>11
<1>13. ASSUME NEW d \in BookDays
       PROVE  LET is == SalesOfDay(d)
                  s == SummaryOf(is)
                  bare == {i \in is : tickets[i].lines = <<>>}
                  unpaid == {i \in is : tickets[i].method = "none"}
                  apart == Worth(bare) + TaxesOf({i \in is \ bare : tickets[i].added})
              IN /\ s.net = SumFunction(s.byHour)
                 /\ s.net = SumFunction(s.byProduct) + apart
                 /\ s.net = SumFunction(s.bases) + SumFunction(s.byRate) + apart
                 /\ s.taxes = SumFunction(s.byRate) + TaxesOf(bare)
                 /\ s.net = SumFunction(s.byMethod) + Worth(unpaid)
  BY <1>1, SummaryAddsUp
<1> HIDE DEF net, left
<1> QED BY <1>12, <1>13 DEF DaysAddUp

-----------------------------------------------------------------------------
(* The drawers of a till.                                                  *)

DrawerRows ==
  [status : {"open", "closed"}, float : Nat, opening : DrawerCounts, expected : Int,
   counted : Nat, difference : Int, closing : DrawerCounts]

\* One drawer is open at most, and what was counted governs.
DrawersSound ==
  /\ drawers \in Seq(DrawerRows)
  /\ \A s, t \in DOMAIN drawers :
       drawers[s].status = "open" /\ drawers[t].status = "open" => s = t
  /\ \A s \in DOMAIN drawers :
       /\ drawers[s].opening # NoCount => drawers[s].float = CountTotal(drawers[s].opening)
       /\ drawers[s].closing # NoCount => drawers[s].counted = CountTotal(drawers[s].closing)

\* The drawer that is open, or none is (current).
LEMMA OneOpen ==
    ASSUME NEW d \in Seq(DrawerRows),
           \A s, t \in DOMAIN d : d[s].status = "open" /\ d[t].status = "open" => s = t
    PROVE  LET current == Max({0} \cup {s \in DOMAIN d : d[s].status = "open"})
           IN  /\ Len(d) \in Nat /\ DOMAIN d = 1..Len(d) /\ \A s \in DOMAIN d : d[s] \in DrawerRows
               /\ current \in 0..Len(d)
               /\ current # 0 => current \in DOMAIN d /\ d[current].status = "open"
               /\ \A s \in DOMAIN d : d[s].status = "open" => current = s
<1> DEFINE Open == {0} \cup {s \in DOMAIN d : d[s].status = "open"}
           current == Max(Open)
<1>1. Len(d) \in Nat /\ DOMAIN d = 1..Len(d) /\ \A s \in DOMAIN d : d[s] \in DrawerRows
  OBVIOUS
<1>2. Open \in SUBSET (0..Len(d)) /\ Open # {} /\ Open \in SUBSET Nat
  BY <1>1
<1>3. IsFiniteSet(Open)
  <2> HIDE DEF Open
  <2>1. IsFiniteSet(0..Len(d))
    BY <1>1, FS_Interval
  <2> QED BY <1>2, <2>1, FS_Subset
<1>4. current \in Open /\ \A x \in Open : x <= current
  <2> HIDE DEF Open
  <2> QED BY <1>2, <1>3, GreatestIs
<1> HIDE DEF current
<1>5. current \in 0..Len(d)
  <2> HIDE DEF Open
  <2> QED BY <1>2, <1>4
<1>6. current = 0 \/ (current \in DOMAIN d /\ d[current].status = "open")
  BY <1>4
<1>7. ASSUME NEW s \in DOMAIN d, d[s].status = "open"
      PROVE  current = s
  <2>1. s \in Open
    BY <1>7
  <2>2. s <= current /\ s \in 1..Len(d)
    BY <1>1, <1>4, <2>1
  <2>3. current # 0
    BY <1>1, <1>5, <2>2
  <2> QED BY <1>6, <1>7, <2>3
<1> QED BY <1>1, <1>5, <1>6, <1>7 DEF current

LEMMA CurrentIs ==
    ASSUME DrawersSound
    PROVE  /\ Len(drawers) \in Nat /\ DOMAIN drawers = 1..Len(drawers)
           /\ \A s \in DOMAIN drawers : drawers[s] \in DrawerRows
           /\ CurrentDrawer \in 0..Len(drawers)
           /\ CurrentDrawer # 0 => CurrentDrawer \in DOMAIN drawers /\ drawers[CurrentDrawer].status = "open"
           /\ \A s \in DOMAIN drawers : drawers[s].status = "open" => CurrentDrawer = s
BY OneOpen DEF DrawersSound, CurrentDrawer

\* A count that found something is worth more than nothing (Billetage.saisir, verifyCount).
LEMMA CountGoverns ==
    ASSUME NEW typed \in Floats, NEW count \in DrawerCounts
    PROVE  /\ Governing(typed, count) \in Nat
           /\ count # NoCount => Governing(typed, count) = CountTotal(count)
<1>0. typed \in Nat /\ Pieces \subseteq Nat \ {0} /\ IsFiniteSet(Pieces) /\ MostPieces \in Nat
  BY BooksAssumption
<1>1. PICK values \in SUBSET Pieces : count \in [values -> 1..MostPieces]
  BY DEF DrawerCounts
<1>2. DOMAIN count = values /\ IsFiniteSet(values) /\ \A v \in values : count[v] \in Nat /\ count[v] >= 1
  <2>1. IsFiniteSet(values)
    BY <1>0, FS_Subset
  <2> QED BY <1>0, <1>1, <2>1
<1>3. CountPieces(count) = SumFunctionOnSet(count, values)
  BY <1>2 DEF CountPieces, SumFunction
<1>4. CountTotal(count) \in Nat
  <2> DEFINE T == DOMAIN count \cap Pieces  f == [v \in T |-> v * count[v]]
  <2>1. T = values
    BY <1>2
  <2>2. \A v \in T : f[v] = v * count[v] /\ v \in Nat /\ count[v] \in Nat
    BY <1>0, <1>2
  <2> HIDE DEF f, T
  <2>3. \A v \in T : f[v] \in Nat
    BY <2>2, Multiplied
  <2>4. SumFunctionOnSet(f, T) \in Nat
    <3>1. IsFiniteSet(T)
      BY <1>2, <2>1
    <3>2. CASE T = {}
      BY <3>2, SumEmpty
    <3>3. CASE T # {}
      <4>1. PICK x \in T : TRUE
        BY <3>3
      <4> QED BY <2>3, <3>1, <4>1, SumTerm
    <3> QED BY <3>2, <3>3
  <2>5. CountTotal(count) = SumFunctionOnSet(f, T)
    BY DEF CountTotal, SumFunction, f, T
  <2> QED BY <2>4, <2>5
<1>5. ASSUME count # NoCount PROVE CountPieces(count) # 0
  <2>1. values # {}
    <3> SUFFICES ASSUME values = {} PROVE FALSE
      OBVIOUS
    <3>1. count \in [{} -> 1..MostPieces]
      BY <1>1
    <3>2. count = [v \in {} |-> count[v]]
      BY <3>1
    <3> QED BY <1>5, <3>2 DEF NoCount
  <2>2. PICK v \in values : TRUE
    BY <2>1
  <2>3. SumFunctionOnSet(count, values) \in Nat /\ count[v] <= SumFunctionOnSet(count, values)
    BY <1>2, SumTerm
  <2> QED BY <1>2, <1>3, <2>2, <2>3
<1> QED BY <1>0, <1>4, <1>5 DEF Governing

-----------------------------------------------------------------------------
(* What the panel of the drawer shows.                                     *)

MovementRows ==
  [customer : Debtors, amount : Int, at : Int, method : {"cash", "card", "none"}, session : Nat]

Accounts == [state : {"none", "opening", "here", "cut"}, brought : Nat, at : Nat]

\* A customer's movements have each its hour, the one to come included, and what was brought
\* over by an account that is whole is one of them.
LedgerSound ==
  /\ IsFiniteSet(ledger) /\ ledger \subseteq MovementRows
  /\ accounts \in [Debtors -> Accounts]
  /\ \A m \in ledger : m.session <= Len(drawers) /\ accounts[m.customer].state # "none"
  /\ \A m, n \in ledger : m.customer = n.customer /\ m.at = n.at => m = n
  /\ \A c \in Debtors :
       /\ accounts[c].state = "opening" => \A m \in MovementsOf(c) : m.at # accounts[c].at
       /\ accounts[c].state = "here" /\ accounts[c].brought # 0 =>
            \E m \in MovementsOf(c) : m.amount = accounts[c].brought /\ m.at = accounts[c].at

PanelTells == ~moved => shown = Report

CashSettled(s) == {m \in ledger : m.session = s /\ m.method = "cash" /\ m.amount < 0}

\* An amount expected is one.
LEMMA ExpectedIs ==
    ASSUME TicketsSound, DrawersSound, LedgerSound, NEW s \in DOMAIN drawers
    PROVE  ExpectedInDrawer(s) \in Int
<1>1. PaidCash(s) \in SUBSET DOMAIN tickets
  BY DEF PaidCash
<1>2. Worth(PaidCash(s)) \in Int
  BY <1>1, WorthIs
<1>3. CollectedOnAccounts(s) \in Int
  <2> DEFINE f == [m \in CashSettled(s) |-> -m.amount]
  <2>1. CashSettled(s) \in SUBSET ledger /\ IsFiniteSet(ledger) /\ \A m \in ledger : m.amount \in Int
    BY DEF LedgerSound, CashSettled, MovementRows
  <2>2. IsFiniteSet(CashSettled(s))
    BY <2>1, FS_Subset
  <2>3. \A m \in CashSettled(s) : f[m] \in Int
    BY <2>1
  <2>4. CollectedOnAccounts(s) = SumFunctionOnSet(f, CashSettled(s))
    BY DEF CollectedOnAccounts, CashSettled, SumFunction
  <2> HIDE DEF f
  <2> QED BY <2>2, <2>3, <2>4, SumType
<1>4. drawers[s].float \in Int
  <2>1. drawers[s] \in DrawerRows
    BY CurrentIs
  <2> QED BY <2>1 DEF DrawerRows
<1> QED BY <1>2, <1>3, <1>4 DEF ExpectedInDrawer

\* A ticket that moves no cash of the open drawer changes nothing of the report.
LEMMA TicketUntold ==
    ASSUME TicketsSound, DrawersSound, PanelTells, NEW row \in TicketRows,
           tickets' = Append(tickets, row), UNCHANGED <<drawers, ledger, shown>>,
           ~moved' => ~moved /\ ~(row.session # 0 /\ row.session = CurrentDrawer /\ row.method = "cash")
    PROVE  PanelTells'
<1> SUFFICES ASSUME ~moved' PROVE shown' = Report'
  BY DEF PanelTells
<1>1. CurrentDrawer' = CurrentDrawer
  BY DEF CurrentDrawer
<1>2. CASE CurrentDrawer = 0
  BY <1>1, <1>2 DEF Report, PanelTells
<1>3. CASE CurrentDrawer # 0
  <2> DEFINE s == CurrentDrawer
  <2>1. Len(tickets) \in Nat /\ DOMAIN tickets = 1..Len(tickets) /\ tickets \in Seq(TicketRows)
    BY TicketFields DEF TicketsSound
  <2>2. /\ DOMAIN tickets' = 1..(Len(tickets) + 1) /\ tickets'[Len(tickets) + 1] = row
        /\ \A i \in DOMAIN tickets : tickets'[i] = tickets[i]
    BY <2>1
  <2>3. ~(row.session = s /\ row.method = "cash")
    BY <1>3
  <2> HIDE DEF s
  <2>4. PaidCash(s)' = PaidCash(s)
    <3>1. \A i : (i \in DOMAIN tickets' /\ tickets'[i].session = s /\ tickets'[i].method = "cash")
                   <=> (i \in DOMAIN tickets /\ tickets[i].session = s /\ tickets[i].method = "cash")
      <4> TAKE i
      <4>1. i \in DOMAIN tickets' <=> i \in DOMAIN tickets \/ i = Len(tickets) + 1
        BY <2>1, <2>2
      <4>2. i = Len(tickets) + 1 => tickets'[i] = row
        BY <2>2
      <4> QED BY <2>2, <2>3, <4>1, <4>2
    <3>2. s' = s
      BY <1>1 DEF s
    <3> QED BY <3>1, <3>2 DEF PaidCash
  <2>5. [i \in PaidCash(s) |-> tickets'[i].total] = [i \in PaidCash(s) |-> tickets[i].total]
    BY <2>2 DEF PaidCash
  <2>6. Worth(PaidCash(s))' = Worth(PaidCash(s))
    BY <2>4, <2>5 DEF Worth
  <2>7. CollectedOnAccounts(s)' = CollectedOnAccounts(s) /\ s' = s
    BY <1>1 DEF CollectedOnAccounts, s
  <2>8. ExpectedInDrawer(s)' = ExpectedInDrawer(s)
    BY <2>6, <2>7 DEF ExpectedInDrawer
  <2> QED BY <1>1, <1>3, <2>8 DEF Report, PanelTells, s
<1> QED BY <1>2, <1>3

\* No more does a movement.
LEMMA MovementUntold ==
    ASSUME DrawersSound, PanelTells, NEW row,
           ledger' = ledger \cup {row}, UNCHANGED <<drawers, tickets, shown>>,
           ~moved' => ~moved /\ ~(row.session # 0 /\ row.session = CurrentDrawer /\ row.method = "cash")
    PROVE  PanelTells'
<1> SUFFICES ASSUME ~moved' PROVE shown' = Report'
  BY DEF PanelTells
<1>1. CurrentDrawer' = CurrentDrawer
  BY DEF CurrentDrawer
<1>2. CASE CurrentDrawer = 0
  BY <1>1, <1>2 DEF Report, PanelTells
<1>3. CASE CurrentDrawer # 0
  <2> DEFINE s == CurrentDrawer
  <2>1. ~(row.session = s /\ row.method = "cash")
    BY <1>3
  <2>2. s' = s
    BY <1>1
  <2> HIDE DEF s
  <2>3. {m \in ledger' : m.session = s /\ m.method = "cash" /\ m.amount < 0}
          = {m \in ledger : m.session = s /\ m.method = "cash" /\ m.amount < 0}
    BY <2>1
  <2>4. CollectedOnAccounts(s)' = CollectedOnAccounts(s)
    BY <2>2, <2>3 DEF CollectedOnAccounts
  <2>5. Worth(PaidCash(s))' = Worth(PaidCash(s))
    BY <2>2 DEF Worth, PaidCash
  <2>6. ExpectedInDrawer(s)' = ExpectedInDrawer(s)
    BY <2>2, <2>4, <2>5 DEF ExpectedInDrawer
  <2> QED BY <1>1, <1>3, <2>6 DEF Report, PanelTells, s
<1> QED BY <1>2, <1>3

-----------------------------------------------------------------------------
(* Openings and closings.                                                  *)

LEMMA NoneCounted == NoCount \in DrawerCounts /\ CountTotal(NoCount) \in Int
<1>1. NoCount \in [{} -> 1..MostPieces] /\ {} \in SUBSET Pieces
  BY DEF NoCount
<1>2. CountTotal(NoCount) = 0
  <2> DEFINE T == DOMAIN NoCount \cap Pieces  f == [v \in T |-> v * NoCount[v]]
  <2>1. T = {}
    BY DEF NoCount
  <2>2. CountTotal(NoCount) = SumFunctionOnSet(f, T)
    BY DEF CountTotal, SumFunction
  <2> HIDE DEF f, T
  <2> QED BY <2>1, <2>2, SumEmpty
<1> QED BY <1>1, <1>2 DEF DrawerCounts

\* The report of a drawer just opened is its float (open, and the panel's reload).
LEMMA OpensDrawer ==
    ASSUME TicketsSound, DrawersSound, LedgerSound, NEW typed \in Floats, NEW count \in DrawerCounts,
           OpenDrawer(typed, count)
    PROVE  DrawersSound' /\ PanelTells' /\ Len(drawers)' = Len(drawers) + 1
<1> DEFINE float == Governing(typed, count)
           row == [status |-> "open", float |-> float, opening |-> count, expected |-> 0,
                   counted |-> 0, difference |-> 0, closing |-> NoCount]
           n == Len(drawers) + 1
<1>1. /\ CurrentDrawer = 0 /\ drawers' = Append(drawers, row) /\ shown' = float /\ ~moved'
      /\ tickets' = tickets /\ ledger' = ledger
  BY DEF OpenDrawer
<1>2. float \in Nat /\ (count # NoCount => float = CountTotal(count))
  BY CountGoverns
<1> HIDE DEF float
<1>3. row \in DrawerRows
  BY <1>2, NoneCounted DEF DrawerRows
<1>4. /\ row.status = "open" /\ row.float = float /\ row.opening = count /\ row.closing = NoCount
      /\ drawers \in Seq(DrawerRows)
  BY DEF DrawersSound
<1> HIDE DEF row
<1>5. /\ Len(drawers) \in Nat /\ DOMAIN drawers = 1..Len(drawers)
      /\ drawers' \in Seq(DrawerRows) /\ Len(drawers') = n /\ DOMAIN drawers' = 1..n
      /\ drawers'[n] = row /\ \A s \in DOMAIN drawers : drawers'[s] = drawers[s]
  BY <1>1, <1>3, <1>4
<1>6. \A s \in DOMAIN drawers' : s = n \/ s \in DOMAIN drawers
  BY <1>5
<1>7. \A s \in DOMAIN drawers : drawers[s].status # "open"
  <2> TAKE s \in DOMAIN drawers
  <2>1. drawers[s].status = "open" => CurrentDrawer = s
    BY CurrentIs
  <2> QED BY <1>1, <1>5, <2>1
<1>8. \A s \in DOMAIN drawers' : drawers'[s].status = "open" => s = n
  BY <1>5, <1>6, <1>7
<1>9. DrawersSound'
  <2>1. \A s, t \in DOMAIN drawers' : drawers'[s].status = "open" /\ drawers'[t].status = "open" => s = t
    BY <1>8
  <2>2. ASSUME NEW s \in DOMAIN drawers'
        PROVE  /\ drawers'[s].opening # NoCount => drawers'[s].float = CountTotal(drawers'[s].opening)
               /\ drawers'[s].closing # NoCount => drawers'[s].counted = CountTotal(drawers'[s].closing)
    <3>1. CASE s = n
      BY <1>2, <1>4, <1>5, <3>1
    <3>2. CASE s \in DOMAIN drawers
      BY <1>5, <3>2 DEF DrawersSound
    <3> QED BY <1>6, <3>1, <3>2
  <2> QED BY <1>5, <2>1, <2>2 DEF DrawersSound, CountTotal
<1>10. CurrentDrawer' = n
  <2>1. n \in DOMAIN drawers' /\ drawers'[n].status = "open"
    BY <1>4, <1>5
  <2>2. \A s, t \in DOMAIN drawers' : drawers'[s].status = "open" /\ drawers'[t].status = "open" => s = t
    BY <1>8
  <2>3. Max({0} \cup {s \in DOMAIN drawers' : drawers'[s].status = "open"}) = n
    BY <1>5, <2>1, <2>2, OneOpen
  <2> QED BY <2>3 DEF CurrentDrawer
<1>11. n # 0 /\ drawers'[n].float = float
  BY <1>4, <1>5
<1>12. {i \in DOMAIN tickets' : tickets'[i].session = n /\ tickets'[i].method = "cash"} = {}
  <2>1. \A i \in DOMAIN tickets : tickets[i].session \in Nat /\ tickets[i].session <= Len(drawers)
    BY TicketFields DEF TicketsSound
  <2> QED BY <1>1, <1>5, <2>1
<1>13. {m \in ledger' : m.session = n /\ m.method = "cash" /\ m.amount < 0} = {}
  <2>1. \A m \in ledger : m.session \in Nat /\ m.session <= Len(drawers)
    BY DEF LedgerSound, MovementRows
  <2> QED BY <1>1, <1>5, <2>1
<1>14. PanelTells'
  <2> DEFINE none == {i \in DOMAIN tickets' : tickets'[i].session = n /\ tickets'[i].method = "cash"}
             f == [i \in none |-> tickets'[i].total]
             settled == {m \in ledger' : m.session = n /\ m.method = "cash" /\ m.amount < 0}
             g == [m \in settled |-> -m.amount]
             cur == CurrentDrawer
  <2>1. cur' = n
    BY <1>10
  <2> HIDE DEF cur
  <2>2. Worth(PaidCash(cur))' = SumFunctionOnSet(f, none)
    BY <2>1 DEF Worth, PaidCash, SumFunction
  <2>3. CollectedOnAccounts(cur)' = SumFunctionOnSet(g, settled)
    BY <2>1 DEF CollectedOnAccounts, SumFunction
  <2>4. none = {} /\ settled = {}
    BY <1>12, <1>13
  <2> HIDE DEF f, g, none, settled
  <2>5. Worth(PaidCash(cur))' = 0 /\ CollectedOnAccounts(cur)' = 0
    BY <2>2, <2>3, <2>4, SumEmpty
  <2>6. ExpectedInDrawer(cur)' = float
    <3>1. ExpectedInDrawer(cur)'
            = drawers'[cur'].float + Worth(PaidCash(cur))' + CollectedOnAccounts(cur)'
      BY DEF ExpectedInDrawer
    <3> QED BY <1>2, <1>11, <2>1, <2>5, <3>1
  <2>7. Report' = float
    BY <1>10, <1>11, <2>6 DEF Report, cur
  <2> QED BY <1>1, <2>7 DEF PanelTells
<1> QED BY <1>5, <1>9, <1>14

\* A drawer that is closed leaves none open, and its count governs (close).
LEMMA ClosesDrawer ==
    ASSUME TicketsSound, DrawersSound, LedgerSound, NEW typed \in Floats, NEW count \in DrawerCounts,
           CloseDrawer(typed, count)
    PROVE  DrawersSound' /\ PanelTells' /\ Len(drawers)' = Len(drawers)
<1> DEFINE s == CurrentDrawer
           counted == Governing(typed, count)
           gap == counted - ExpectedInDrawer(s)
           row == [drawers[s] EXCEPT !.status = "closed", !.closing = count,
                     !.expected = ExpectedInDrawer(s), !.counted = counted, !.difference = gap]
<1>1. /\ s # 0 /\ shown' = NoReport /\ ~moved'
      /\ drawers' = [drawers EXCEPT ![s].status = "closed", ![s].closing = count,
           ![s].expected = ExpectedInDrawer(s), ![s].counted = counted, ![s].difference = gap]
  BY DEF CloseDrawer
<1>2. s \in DOMAIN drawers /\ drawers[s] \in DrawerRows /\ drawers[s].status = "open"
  BY <1>1, CurrentIs
<1>3. counted \in Nat /\ (count # NoCount => counted = CountTotal(count)) /\ ExpectedInDrawer(s) \in Int
  BY <1>2, CountGoverns, ExpectedIs
<1>4. gap \in Int
  <2> HIDE DEF counted, s
  <2> QED BY <1>3
<1>5. drawers \in Seq(DrawerRows) /\ Len(drawers) \in Nat /\ DOMAIN drawers = 1..Len(drawers)
  BY CurrentIs DEF DrawersSound
<1>6. drawers' = [drawers EXCEPT ![s] = row]
  <2> HIDE DEF counted, gap, s
  <2> QED BY <1>1, <1>2, <1>5
<1>7. /\ row \in DrawerRows /\ row.status = "closed" /\ row.float = drawers[s].float
      /\ row.opening = drawers[s].opening /\ row.closing = count /\ row.counted = counted
  <2> HIDE DEF counted, gap, s
  <2> QED BY <1>2, <1>3, <1>4 DEF DrawerRows
<1> HIDE DEF row, counted, gap, s
<1>8. /\ drawers' \in Seq(DrawerRows) /\ DOMAIN drawers' = DOMAIN drawers /\ Len(drawers') = Len(drawers)
      /\ drawers'[s] = row /\ \A t \in DOMAIN drawers : t # s => drawers'[t] = drawers[t]
  BY <1>2, <1>5, <1>6, <1>7
<1>9. \A t \in DOMAIN drawers : t # s => drawers[t].status # "open"
  BY <1>2 DEF DrawersSound
<1>10. \A t \in DOMAIN drawers' : drawers'[t].status # "open"
  BY <1>7, <1>8, <1>9
<1>11. DrawersSound'
  <2>1. ASSUME NEW t \in DOMAIN drawers'
        PROVE  /\ drawers'[t].opening # NoCount => drawers'[t].float = CountTotal(drawers'[t].opening)
               /\ drawers'[t].closing # NoCount => drawers'[t].counted = CountTotal(drawers'[t].closing)
    <3>1. CASE t = s
      BY <1>2, <1>3, <1>7, <1>8, <3>1 DEF DrawersSound
    <3>2. CASE t # s
      BY <1>8, <3>2 DEF DrawersSound
    <3> QED BY <3>1, <3>2
  <2> QED BY <1>8, <1>10, <2>1 DEF DrawersSound, CountTotal
<1>12. CurrentDrawer' = 0
  <2>1. Max({0} \cup {t \in DOMAIN drawers' : drawers'[t].status = "open"}) = 0
    BY <1>8, <1>10, OneOpen
  <2> QED BY <2>1 DEF CurrentDrawer
<1> QED BY <1>1, <1>8, <1>11, <1>12 DEF PanelTells, Report

\* Nothing else of the books touches the drawers.
LEMMA DrawersKept ==
    ASSUME DrawersSound, UNCHANGED drawers
    PROVE  DrawersSound'
BY DEF DrawersSound, CountTotal

-----------------------------------------------------------------------------
(* Tickets are written.                                                    *)

\* A ticket of some session that is one, worth its lines if it has any, keeps them sound.
LEMMA TicketWritten ==
    ASSUME TicketsSound, NEW row \in TicketRows, row.session <= Len(drawers),
           row.of # 0 => row.of \in DOMAIN tickets /\ tickets[row.of].of = 0,
           row.lines # <<>> => WorthItsLines(row),
           tickets' = Append(tickets, row), UNCHANGED drawers
    PROVE  TicketsSound'
<1>1. Len(tickets) \in Nat /\ DOMAIN tickets = 1..Len(tickets) /\ tickets \in Seq(TicketRows)
  BY TicketFields DEF TicketsSound
<1>2. /\ DOMAIN tickets' = 1..(Len(tickets) + 1) /\ tickets'[Len(tickets) + 1] = row
      /\ \A i \in DOMAIN tickets : tickets'[i] = tickets[i] /\ i \in DOMAIN tickets'
      /\ tickets' \in Seq(TicketRows)
  BY <1>1
<1>3. ASSUME NEW i \in DOMAIN tickets'
      PROVE  /\ tickets'[i].session <= Len(drawers')
             /\ tickets'[i].of # 0 => tickets'[i].of \in DOMAIN tickets' /\ tickets'[tickets'[i].of].of = 0
             /\ tickets'[i].lines # <<>> => WorthItsLines(tickets'[i])
  <2>1. CASE i = Len(tickets) + 1
    BY <1>2, <2>1
  <2>2. CASE i \in DOMAIN tickets
    BY <1>2, <2>2 DEF TicketsSound
  <2>3. i = Len(tickets) + 1 \/ i \in DOMAIN tickets
    BY <1>1, <1>2
  <2> QED BY <2>1, <2>2, <2>3
<1> QED BY <1>2, <1>3 DEF TicketsSound, WorthItsLines, LinesWorth, LinesTaxes

\* What a basket is worth, and its taxes.
LEMMA BasketWorth ==
    ASSUME NEW basket, IsFiniteSet(DOMAIN basket),
           \A k \in DOMAIN basket : basket[k].total \in Int /\ basket[k].tax \in Int
    PROVE  /\ SumFunction([k \in DOMAIN basket |-> basket[k].total]) \in Int
           /\ SumFunction([k \in DOMAIN basket |-> basket[k].tax]) \in Int
<1> DEFINE f == [k \in DOMAIN basket |-> basket[k].total]
           g == [k \in DOMAIN basket |-> basket[k].tax]
<1>1. \A k \in DOMAIN basket : f[k] \in Int /\ g[k] \in Int
  OBVIOUS
<1>2. /\ SumFunction(f) = SumFunctionOnSet(f, DOMAIN basket)
      /\ SumFunction(g) = SumFunctionOnSet(g, DOMAIN basket)
  BY DEF SumFunction
<1> HIDE DEF f, g
<1>3. SumFunctionOnSet(f, DOMAIN basket) \in Int /\ SumFunctionOnSet(g, DOMAIN basket) \in Int
  BY <1>1, SumType
<1> QED BY <1>2, <1>3 DEF f, g

\* What a till writes of its day is sound at any time.
BooksInv ==
  /\ hours \in 0..LastInstant
  /\ TicketsSound /\ DrawersSound /\ LedgerSound /\ PanelTells

LEMMA LedgerKept ==
    ASSUME LedgerSound, UNCHANGED <<ledger, accounts>>, Len(drawers) <= Len(drawers'),
           Len(drawers) \in Nat, Len(drawers') \in Nat
    PROVE  LedgerSound'
<1>1. \A m \in ledger : m.session \in Nat
  BY DEF LedgerSound, MovementRows
<1>2. \A m \in ledger : m.session <= Len(drawers')
  BY <1>1 DEF LedgerSound
<1> QED BY <1>2 DEF LedgerSound, MovementsOf

LEMMA TicketsKept ==
    ASSUME TicketsSound, UNCHANGED tickets, Len(drawers) <= Len(drawers'),
           Len(drawers) \in Nat, Len(drawers') \in Nat
    PROVE  TicketsSound'
<1>1. \A i \in DOMAIN tickets : tickets[i].session \in Nat
  BY TicketFields
<1>2. \A i \in DOMAIN tickets : tickets[i].session <= Len(drawers')
  BY <1>1 DEF TicketsSound
<1> QED BY <1>2 DEF TicketsSound, WorthItsLines, LinesWorth, LinesTaxes

LEMMA ShownKept ==
    ASSUME PanelTells, UNCHANGED <<tickets, drawers, ledger, shown, moved>>
    PROVE  PanelTells'
BY DEF PanelTells, Report, CurrentDrawer, ExpectedInDrawer, Worth, PaidCash, CollectedOnAccounts

\* A movement of a customer who has none at that hour, in a session that is one.
LEMMA MovementWritten ==
    ASSUME LedgerSound, NEW row \in MovementRows, row.session <= Len(drawers),
           accounts[row.customer].state \in {"opening", "here", "cut"},
           \A m \in MovementsOf(row.customer) : m.at # row.at,
           accounts[row.customer].state = "opening" => row.at # accounts[row.customer].at,
           ledger' = ledger \cup {row}, UNCHANGED <<accounts, drawers>>
    PROVE  LedgerSound'
<1>1. IsFiniteSet(ledger') /\ ledger' \subseteq MovementRows
  BY FS_AddElement DEF LedgerSound
<1>2. \A m \in ledger' : m.session <= Len(drawers') /\ accounts'[m.customer].state # "none"
  BY DEF LedgerSound
<1>3. \A m, n \in ledger' : m.customer = n.customer /\ m.at = n.at => m = n
  BY DEF LedgerSound, MovementsOf
<1>4. ASSUME NEW c \in Debtors
      PROVE  /\ accounts'[c].state = "opening" => \A m \in ledger' : m.customer = c => m.at # accounts'[c].at
             /\ accounts'[c].state = "here" /\ accounts'[c].brought # 0 =>
                  \E m \in ledger' : m.customer = c /\ m.amount = accounts'[c].brought /\ m.at = accounts'[c].at
  BY DEF LedgerSound, MovementsOf
<1>5. accounts' \in [Debtors -> Accounts]
  BY DEF LedgerSound
<1> QED BY <1>1, <1>2, <1>3, <1>4, <1>5 DEF LedgerSound, MovementsOf

LEMMA BooksStart == BooksInit => BooksInv
<1> SUFFICES ASSUME BooksInit PROVE BooksInv
  OBVIOUS
<1>1. hours \in 0..LastInstant
  BY BooksAssumption DEF BooksInit
<1>2. TicketsSound
  <2>1. tickets \in Seq(TicketRows) /\ DOMAIN tickets = {}
    BY DEF BooksInit
  <2> QED BY <2>1 DEF TicketsSound
<1>3. drawers \in Seq(DrawerRows) /\ DOMAIN drawers = {} /\ Len(drawers) = 0
  BY DEF BooksInit
<1>4. DrawersSound
  BY <1>3 DEF DrawersSound
<1>5. LedgerSound
  <2>1. accounts \in [Debtors -> Accounts] /\ \A c \in Debtors : accounts[c].state = "none"
    BY DEF BooksInit, Accounts
  <2>2. ledger = {} /\ IsFiniteSet(ledger)
    BY FS_EmptySet DEF BooksInit
  <2> QED BY <2>1, <2>2 DEF LedgerSound
<1>6. CurrentDrawer = 0
  BY <1>3, <1>4, CurrentIs
<1>7. PanelTells
  BY <1>6 DEF PanelTells, Report, BooksInit
<1> QED BY <1>1, <1>2, <1>4, <1>5, <1>7 DEF BooksInv

\* A sale, whole or cut.
LEMMA SaleSound ==
    ASSUME BooksInv, NEW basket \in Baskets, NEW added \in BOOLEAN, NEW method \in {"cash", "card"},
           NEW lost \in {"no", "unpaid", "bare"}, RecordTicket(basket, added, method, lost)
    PROVE  BooksInv'
<1> DEFINE whole == Ticket(basket, added, method, CurrentDrawer, hours, 0, TRUE)
           kept == CASE lost = "bare" -> [whole EXCEPT !.lines = <<>>, !.method = "none"]
                     [] lost = "unpaid" -> [whole EXCEPT !.method = "none"]
                     [] OTHER -> whole
           tax == SumFunction([k \in DOMAIN basket |-> basket[k].tax])
           worth == SumFunction([k \in DOMAIN basket |-> basket[k].total]) + (IF added THEN tax ELSE 0)
<1>0. /\ hours \in 0..LastInstant /\ TicketsSound /\ DrawersSound /\ LedgerSound /\ PanelTells
      /\ tickets' = Append(tickets, kept) /\ UNCHANGED <<hours, drawers, ledger, accounts, shown>>
      /\ moved' = (moved \/ (CurrentDrawer # 0 /\ CurrentDrawer = CurrentDrawer /\ kept.method = "cash"))
  BY DEF BooksInv, RecordTicket, Touches
<1>1. /\ basket \in Seq(TicketLines) /\ IsFiniteSet(DOMAIN basket)
      /\ \A k \in DOMAIN basket : basket[k].total \in Int /\ basket[k].tax \in Int
  <2> DEFINE Sold == [product : STRING, rate : Nat, total : Nat, tax : Nat]
  <2>0. \A l \in Sold : l \in TicketLines /\ l.total \in Int /\ l.tax \in Int
    BY DEF TicketLines
  <2>1. basket \in Seq(Sold)
    BY BasketsAssumption
  <2> HIDE DEF Sold
  <2>2. Len(basket) \in Nat /\ DOMAIN basket = 1..Len(basket) /\ \A k \in 1..Len(basket) : basket[k] \in Sold
    BY <2>1
  <2>3. \A k \in 1..Len(basket) : basket[k] \in TicketLines /\ basket[k].total \in Int /\ basket[k].tax \in Int
    BY <2>0, <2>2
  <2>4. IsFiniteSet(1..Len(basket))
    BY <2>2, FS_Interval
  <2>5. basket \in Seq(TicketLines)
    BY <2>1, <2>2, <2>3
  <2> QED BY <2>2, <2>3, <2>4, <2>5
<1>2. worth \in Int /\ tax \in Int
  <2> DEFINE bare == SumFunction([k \in DOMAIN basket |-> basket[k].total])
  <2>1. bare \in Int /\ tax \in Int
    BY <1>1, BasketWorth
  <2> HIDE DEF bare, tax
  <2>2. bare + (IF added THEN tax ELSE 0) \in Int
    BY <2>1
  <2> QED BY <2>1, <2>2 DEF bare
<1>2a. whole = [total |-> worth, tax |-> tax, added |-> added, lines |-> basket, method |-> method,
               session |-> CurrentDrawer, at |-> hours, of |-> 0, here |-> TRUE]
  BY DEF Ticket
<1> HIDE DEF worth, tax
<1>3. CurrentDrawer \in 0..Len(drawers) /\ Len(drawers) \in Nat
  BY <1>0, CurrentIs
<1> HIDE DEF whole
<1>5. /\ kept.total = worth /\ kept.tax = tax /\ kept.added = added /\ kept.session = CurrentDrawer /\ kept.at = hours /\ kept.of = 0
      /\ kept.lines \in {<<>>, basket} /\ kept.method \in {"cash", "card", "none"} /\ kept.here = TRUE
      /\ kept = [total |-> worth, tax |-> tax, added |-> added, lines |-> kept.lines,
                 method |-> kept.method, session |-> CurrentDrawer, at |-> hours, of |-> 0, here |-> TRUE]
  BY <1>2a
<1>6. kept \in TicketRows
  <2> DEFINE ls == kept.lines  by == kept.method
  <2>1. <<>> \in Seq(TicketLines)
    OBVIOUS
  <2>2. ls \in Seq(TicketLines) /\ by \in {"cash", "card", "none"}
    BY <1>1, <1>5, <2>1
  <2>3. kept = [total |-> worth, tax |-> tax, added |-> added, lines |-> ls, method |-> by,
                session |-> CurrentDrawer, at |-> hours, of |-> 0, here |-> TRUE]
    BY <1>5
  <2>4. CurrentDrawer \in Nat
    BY <1>3
  <2> HIDE DEF kept, ls, by
  <2> QED BY <1>0, <1>2, <2>2, <2>3, <2>4 DEF TicketRows
<1> HIDE DEF kept
<1>7. kept.lines # <<>> => WorthItsLines(kept)
  BY <1>5 DEF WorthItsLines, LinesWorth, LinesTaxes, worth, tax
<1>8. TicketsSound'
  BY <1>0, <1>3, <1>5, <1>6, <1>7, TicketWritten
<1>9. PanelTells'
  BY <1>0, <1>5, <1>6, TicketUntold
<1>10. LedgerSound' /\ DrawersSound'
  BY <1>0, <1>3, LedgerKept, DrawersKept
<1> QED BY <1>0, <1>8, <1>9, <1>10 DEF BooksInv

\* A refund, in the session of its ticket.
LEMMA RefundSound ==
    ASSUME BooksInv, NEW i \in DOMAIN tickets, NEW at \in 0..LastInstant, NEW here \in BOOLEAN,
           RefundTicket(i, at, here)
    PROVE  BooksInv'
<1> DEFINE ticket == tickets[i]
           method == IF ticket.method = "none" THEN "cash" ELSE ticket.method
           lines == Negative(ticket.lines)
           row == Ticket(lines, FALSE, method, ticket.session, at, i, here)
           worth == SumFunction([k \in DOMAIN lines |-> lines[k].total])
           tax == SumFunction([k \in DOMAIN lines |-> lines[k].tax])
<1>0. /\ hours \in 0..LastInstant /\ TicketsSound /\ DrawersSound /\ LedgerSound /\ PanelTells
      /\ tickets' = Append(tickets, row) /\ UNCHANGED <<hours, drawers, ledger, accounts, shown>>
      /\ moved' = (moved \/ (ticket.session # 0 /\ ticket.session = CurrentDrawer /\ method = "cash"))
      /\ ticket.of = 0
  BY DEF BooksInv, RefundTicket, Touches
<1>1. /\ ticket.lines \in Seq(TicketLines) /\ ticket.method \in {"cash", "card", "none"}
      /\ ticket.session \in Nat /\ ticket.session <= Len(drawers)
      /\ i \in Nat /\ i \in DOMAIN tickets /\ tickets[i].of = 0
  BY <1>0, TicketFields DEF TicketsSound
<1>2. method \in {"cash", "card"}
  BY <1>1
<1>3. /\ lines \in Seq(TicketLines) /\ IsFiniteSet(DOMAIN lines)
      /\ \A k \in DOMAIN lines : lines[k].total \in Int /\ lines[k].tax \in Int
  <2> DEFINE basket == ticket.lines
  <2>1. basket \in Seq(TicketLines)
    BY <1>1
  <2>2. lines = [k \in DOMAIN basket |->
                   [basket[k] EXCEPT !.total = -basket[k].total, !.tax = -basket[k].tax]]
    BY DEF Negative
  <2> HIDE DEF basket, lines
  <2>3. /\ Len(basket) \in Nat /\ DOMAIN basket = 1..Len(basket)
        /\ \A k \in 1..Len(basket) : basket[k] \in TicketLines
    BY <2>1
  <2>4. \A k \in 1..Len(basket) : lines[k] \in TicketLines /\ lines[k].total \in Int /\ lines[k].tax \in Int
    <3> TAKE k \in 1..Len(basket)
    <3> DEFINE b == basket[k]
    <3>1. lines[k] = [b EXCEPT !.total = -b.total, !.tax = -b.tax] /\ b \in TicketLines
      BY <2>2, <2>3
    <3> HIDE DEF b
    <3>2. -b.total \in Int /\ -b.tax \in Int
      BY <3>1 DEF TicketLines
    <3> QED BY <3>1, <3>2 DEF TicketLines
  <2>5. DOMAIN lines = 1..Len(basket) /\ lines \in [1..Len(basket) -> TicketLines]
    BY <2>2, <2>3, <2>4
  <2>6. lines \in Seq(TicketLines)
    BY <2>3, <2>5
  <2>7. IsFiniteSet(1..Len(basket))
    BY <2>3, FS_Interval
  <2> QED BY <2>4, <2>5, <2>6, <2>7
<1>4. worth \in Int /\ tax \in Int
  <2> HIDE DEF lines
  <2> QED BY <1>3, BasketWorth
<1>4a. row = [total |-> worth + 0, tax |-> tax, added |-> FALSE, lines |-> lines, method |-> method,
             session |-> ticket.session, at |-> at, of |-> i, here |-> here]
  <2> HIDE DEF lines, method, ticket
  <2> QED BY DEF Ticket
<1> HIDE DEF ticket, method, lines, worth, tax, row
<1>5. row = [total |-> worth, tax |-> tax, added |-> FALSE, lines |-> lines, method |-> method,
             session |-> ticket.session, at |-> at, of |-> i, here |-> here]
  <2>1. worth + 0 = worth
    BY <1>4
  <2> QED BY <1>4a, <2>1
<1>6. row \in TicketRows
  BY <1>1, <1>2, <1>3, <1>4, <1>5 DEF TicketRows
<1>7. WorthItsLines(row)
  <2>1. worth = worth + 0
    BY <1>4
  <2>2. row.total = worth /\ row.tax = tax /\ row.added = FALSE /\ row.lines = lines
    BY <1>5
  <2>3. LinesWorth(row) = worth /\ LinesTaxes(row) = tax
    BY <2>2 DEF LinesWorth, LinesTaxes, worth, tax
  <2> QED BY <2>1, <2>2, <2>3 DEF WorthItsLines
<1>8. row.of \in DOMAIN tickets /\ tickets[row.of].of = 0 /\ row.session <= Len(drawers)
      /\ row.session = ticket.session /\ row.method = method
  BY <1>1, <1>5
<1>9. TicketsSound'
  BY <1>0, <1>6, <1>7, <1>8, TicketWritten
<1>10. PanelTells'
  BY <1>0, <1>6, <1>8, TicketUntold
<1>11. LedgerSound' /\ DrawersSound'
  <2>1. Len(drawers) \in Nat
    BY <1>0, CurrentIs
  <2> QED BY <1>0, <2>1, LedgerKept, DrawersKept
<1> QED BY <1>0, <1>9, <1>10, <1>11 DEF BooksInv

\* An account written of, its opening balance written or lost, a charge or a settlement.
LEMMA AccountSound ==
    ASSUME BooksInv, NEW c \in Debtors, NEW brought \in Sums \cup {0}, CreateDebtor(c, brought)
    PROVE  BooksInv'
<1>0. /\ hours \in 0..LastInstant /\ TicketsSound /\ DrawersSound /\ LedgerSound /\ PanelTells
      /\ accounts[c].state = "none"
      /\ accounts' = [accounts EXCEPT ![c] =
           [state |-> IF brought = 0 THEN "here" ELSE "opening", brought |-> brought, at |-> hours]]
      /\ UNCHANGED <<hours, tickets, drawers, ledger, shown, moved>>
  BY DEF BooksInv, CreateDebtor
<1>1. accounts \in [Debtors -> Accounts] /\ brought \in Nat /\ hours \in Nat
  BY <1>0, BooksAssumption DEF LedgerSound
<1>2. accounts' \in [Debtors -> Accounts]
  BY <1>0, <1>1 DEF Accounts
<1>3. /\ accounts'[c].state # "none" /\ (accounts'[c].state = "here" => accounts'[c].brought = 0)
      /\ \A x \in Debtors : x # c => accounts'[x] = accounts[x]
  BY <1>0, <1>1
<1>4. \A m \in ledger : m.customer \in Debtors /\ m.customer # c
  BY <1>0 DEF LedgerSound, MovementRows
<1>5. LedgerSound'
  <2>1. \A m \in ledger' : m.session <= Len(drawers') /\ accounts'[m.customer].state # "none"
    BY <1>0, <1>3, <1>4 DEF LedgerSound
  <2>2. ASSUME NEW x \in Debtors
        PROVE  /\ accounts'[x].state = "opening" => \A m \in ledger' : m.customer = x => m.at # accounts'[x].at
               /\ accounts'[x].state = "here" /\ accounts'[x].brought # 0 =>
                    \E m \in ledger' : m.customer = x /\ m.amount = accounts'[x].brought /\ m.at = accounts'[x].at
    <3>1. CASE x = c
      BY <1>0, <1>3, <1>4, <3>1
    <3>2. CASE x # c
      BY <1>0, <1>3, <3>2 DEF LedgerSound, MovementsOf
    <3> QED BY <3>1, <3>2
  <2> QED BY <1>0, <1>2, <2>1, <2>2 DEF LedgerSound, MovementsOf
<1>6. TicketsSound' /\ DrawersSound' /\ PanelTells'
  <2>1. Len(drawers) \in Nat
    BY <1>0, CurrentIs
  <2> QED BY <1>0, <2>1, TicketsKept, DrawersKept, ShownKept
<1> QED BY <1>0, <1>5, <1>6 DEF BooksInv

LEMMA OpeningSound ==
    ASSUME BooksInv, NEW c \in Debtors, WriteOpening(c) \/ CutOpening(c)
    PROVE  BooksInv'
<1> DEFINE row == Movement(c, accounts[c].brought, accounts[c].at, "none", 0)
<1>0. /\ hours \in 0..LastInstant /\ TicketsSound /\ DrawersSound /\ LedgerSound /\ PanelTells
      /\ accounts[c].state = "opening" /\ UNCHANGED <<hours, tickets, drawers, shown, moved>>
      /\ \/ /\ accounts' = [accounts EXCEPT ![c].state = "here"] /\ ledger' = ledger \cup {row}
         \/ /\ accounts' = [accounts EXCEPT ![c].state = "cut"] /\ ledger' = ledger
  BY DEF BooksInv, WriteOpening, CutOpening
<1>1. accounts \in [Debtors -> Accounts] /\ accounts[c] \in Accounts /\ Len(drawers) \in Nat
  BY <1>0, CurrentIs DEF LedgerSound
<1>2. /\ row \in MovementRows /\ row.customer = c /\ row.amount = accounts[c].brought
      /\ row.at = accounts[c].at /\ row.session = 0 /\ row.method = "none"
  BY <1>1 DEF Accounts, Movement, MovementRows
<1> HIDE DEF row
<1>3. /\ accounts' \in [Debtors -> Accounts] /\ accounts'[c].state \in {"here", "cut"}
      /\ accounts'[c].brought = accounts[c].brought /\ accounts'[c].at = accounts[c].at
      /\ \A x \in Debtors : x # c => accounts'[x] = accounts[x]
      /\ accounts'[c].state = "here" => row \in ledger'
  <2> DEFINE account == accounts[c]
  <2>1. ASSUME NEW state \in {"here", "cut"}, accounts' = [accounts EXCEPT ![c].state = state]
        PROVE  /\ accounts' \in [Debtors -> Accounts] /\ accounts'[c].state = state
               /\ accounts'[c].brought = accounts[c].brought /\ accounts'[c].at = accounts[c].at
               /\ \A x \in Debtors : x # c => accounts'[x] = accounts[x]
    <3>1. accounts' = [accounts EXCEPT ![c] = [account EXCEPT !.state = state]]
      BY <1>1, <2>1
    <3>2. account \in Accounts
      BY <1>1
    <3> HIDE DEF account
    <3>3. /\ [account EXCEPT !.state = state] \in Accounts
          /\ [account EXCEPT !.state = state].state = state
          /\ [account EXCEPT !.state = state].brought = account.brought
          /\ [account EXCEPT !.state = state].at = account.at
      BY <3>2 DEF Accounts
    <3>4. /\ accounts' \in [Debtors -> Accounts] /\ accounts'[c] = [account EXCEPT !.state = state]
          /\ \A x \in Debtors : x # c => accounts'[x] = accounts[x]
      BY <1>1, <3>1, <3>3
    <3> QED BY <3>3, <3>4 DEF account
  <2>2. \/ accounts' = [accounts EXCEPT ![c].state = "here"] /\ row \in ledger'
        \/ accounts' = [accounts EXCEPT ![c].state = "cut"]
    BY <1>0
  <2>3. CASE accounts' = [accounts EXCEPT ![c].state = "here"] /\ row \in ledger'
    BY <2>1, <2>3
  <2>4. CASE accounts' = [accounts EXCEPT ![c].state = "cut"]
    BY <2>1, <2>4
  <2> QED BY <2>2, <2>3, <2>4
<1>4. ledger' \in {ledger, ledger \cup {row}}
  BY <1>0
<1>5. LedgerSound'
  <2>1. IsFiniteSet(ledger') /\ ledger' \subseteq MovementRows
    BY <1>0, <1>2, <1>4, FS_AddElement DEF LedgerSound
  <2>2. \A m \in ledger' : m.session <= Len(drawers') /\ accounts'[m.customer].state # "none"
    <3> TAKE m \in ledger'
    <3>1. CASE m = row
      BY <1>0, <1>1, <1>2, <1>3, <3>1
    <3>2. CASE m \in ledger
      BY <1>0, <1>3, <3>2 DEF LedgerSound, MovementRows
    <3> QED BY <1>4, <3>1, <3>2
  <2>3. \A m, n \in ledger' : m.customer = n.customer /\ m.at = n.at => m = n
    BY <1>0, <1>2, <1>4 DEF LedgerSound, MovementsOf
  <2>4. ASSUME NEW x \in Debtors
        PROVE  /\ accounts'[x].state = "opening" => \A m \in ledger' : m.customer = x => m.at # accounts'[x].at
               /\ accounts'[x].state = "here" /\ accounts'[x].brought # 0 =>
                    \E m \in ledger' : m.customer = x /\ m.amount = accounts'[x].brought /\ m.at = accounts'[x].at
    <3>1. CASE x = c
      BY <1>2, <1>3, <3>1
    <3>2. CASE x # c
      BY <1>0, <1>2, <1>3, <1>4, <3>2 DEF LedgerSound, MovementsOf
    <3> QED BY <3>1, <3>2
  <2> QED BY <1>3, <2>1, <2>2, <2>3, <2>4 DEF LedgerSound, MovementsOf
<1>6. PanelTells'
  <2>1. CASE ledger' = ledger
    BY <1>0, <2>1, ShownKept
  <2>2. CASE ledger' = ledger \cup {row}
    BY <1>0, <1>2, <2>2, MovementUntold
  <2> QED BY <1>4, <2>1, <2>2
<1>7. TicketsSound' /\ DrawersSound'
  BY <1>0, <1>1, TicketsKept, DrawersKept
<1> QED BY <1>0, <1>5, <1>6, <1>7 DEF BooksInv

LEMMA MovementSound ==
    ASSUME BooksInv, NEW c \in Debtors, NEW amount \in Int, NEW at \in 0..LastInstant,
           NEW method \in {"cash", "card", "none"}, NEW here \in BOOLEAN,
           EnterMovement(c, amount, at, method, here)
    PROVE  BooksInv'
<1> DEFINE s == IF here /\ method # "none" THEN CurrentDrawer ELSE 0
           row == Movement(c, amount, at, method, s)
<1>0. /\ hours \in 0..LastInstant /\ TicketsSound /\ DrawersSound /\ LedgerSound /\ PanelTells
      /\ accounts[c].state # "none" /\ (\A m \in MovementsOf(c) : m.at # at)
      /\ accounts[c].state = "opening" => accounts[c].at # at
      /\ ledger' = ledger \cup {row} /\ UNCHANGED <<hours, tickets, drawers, accounts, shown>>
      /\ moved' = (moved \/ (s # 0 /\ s = CurrentDrawer /\ method = "cash"))
  BY DEF BooksInv, EnterMovement, Touches
<1>1. Len(drawers) \in Nat /\ CurrentDrawer \in 0..Len(drawers) /\ accounts[c] \in Accounts
  BY <1>0, CurrentIs DEF LedgerSound
<1>2. s \in 0..Len(drawers)
  BY <1>1
<1> HIDE DEF s
<1>3. /\ row \in MovementRows /\ row.customer = c /\ row.at = at /\ row.session = s /\ row.method = method
  BY <1>1, <1>2 DEF Movement, MovementRows
<1> HIDE DEF row
<1>4. accounts[c].state \in {"opening", "here", "cut"} /\ row.session <= Len(drawers)
  BY <1>0, <1>1, <1>2, <1>3 DEF Accounts
<1>5. LedgerSound'
  BY <1>0, <1>3, <1>4, MovementWritten
<1>6. PanelTells'
  BY <1>0, <1>3, MovementUntold
<1>7. TicketsSound' /\ DrawersSound'
  BY <1>0, <1>1, TicketsKept, DrawersKept
<1> QED BY <1>0, <1>5, <1>6, <1>7 DEF BooksInv

LEMMA BooksStep == BooksInv /\ [BooksNext]_booksVars => BooksInv'
<1> SUFFICES ASSUME BooksInv, [BooksNext]_booksVars PROVE BooksInv'
  OBVIOUS
<1>0. /\ hours \in 0..LastInstant /\ TicketsSound /\ DrawersSound /\ LedgerSound /\ PanelTells
      /\ Len(drawers) \in Nat
  BY CurrentIs DEF BooksInv
<1>1. ASSUME hours' \in 0..LastInstant, UNCHANGED <<tickets, drawers, ledger, accounts>>, PanelTells'
      PROVE  BooksInv'
  <2>1. Len(drawers) <= Len(drawers') /\ Len(drawers') \in Nat
    BY <1>0, <1>1
  <2> QED BY <1>0, <1>1, <2>1, LedgerKept, TicketsKept, DrawersKept DEF BooksInv
<1>2. CASE Elapse
  <2>1. hours' \in 0..LastInstant
    BY <1>0, <1>2, BooksAssumption DEF Elapse
  <2> QED BY <1>0, <1>1, <1>2, <2>1, ShownKept DEF Elapse
<1>3. CASE LoadPanel
  <2>1. shown' = Report /\ UNCHANGED <<hours, tickets, drawers, ledger, accounts>>
    BY <1>3 DEF LoadPanel
  <2>2. Report' = Report
    BY <2>1 DEF Report, CurrentDrawer, ExpectedInDrawer, Worth, PaidCash, CollectedOnAccounts
  <2> QED BY <1>0, <1>1, <2>1, <2>2 DEF PanelTells
<1>4. CASE \E b \in Baskets, added \in BOOLEAN, m \in {"cash", "card"}, lost \in {"no", "unpaid", "bare"} :
             RecordTicket(b, added, m, lost)
  BY <1>4, SaleSound
<1>5. CASE \E i \in DOMAIN tickets, at \in 0..LastInstant, here \in BOOLEAN : RefundTicket(i, at, here)
  BY <1>5, RefundSound
<1>6. ASSUME NEW typed \in Floats, NEW count \in DrawerCounts,
             OpenDrawer(typed, count) \/ CloseDrawer(typed, count)
      PROVE  BooksInv'
  <2>1. UNCHANGED <<hours, tickets, ledger, accounts>>
    BY <1>6 DEF OpenDrawer, CloseDrawer
  <2>2. DrawersSound' /\ PanelTells' /\ Len(drawers)' \in {Len(drawers), Len(drawers) + 1}
    BY <1>0, <1>6, OpensDrawer, ClosesDrawer
  <2>3. Len(drawers) <= Len(drawers') /\ Len(drawers') \in Nat
    BY <1>0, <2>2
  <2> QED BY <1>0, <2>1, <2>2, <2>3, LedgerKept, TicketsKept DEF BooksInv
<1>7. ASSUME NEW c \in Debtors, NEW brought \in Sums \cup {0}, CreateDebtor(c, brought)
      PROVE  BooksInv'
  BY <1>7, AccountSound
<1>8. ASSUME NEW c \in Debtors, WriteOpening(c) \/ CutOpening(c)
      PROVE  BooksInv'
  BY <1>8, OpeningSound
<1>9. ASSUME NEW c \in Debtors, NEW amount \in Sums, NEW sign \in {1, -1}, NEW at \in 0..LastInstant,
             NEW method \in {"cash", "card", "none"}, NEW here \in BOOLEAN,
             EnterMovement(c, sign * amount, at, method, here)
      PROVE  BooksInv'
  <2>1. sign * amount \in Int
    <3>1. amount \in Int /\ (sign = 1 \/ sign = -1)
      BY BooksAssumption
    <3> QED BY <3>1
  <2> QED BY <1>9, <2>1, MovementSound
<1>10. CASE UNCHANGED booksVars
  BY <1>0, <1>1, <1>10, ShownKept DEF booksVars
<1> QED BY <1>2, <1>3, <1>4, <1>5, <1>6, <1>7, <1>8, <1>9, <1>10 DEF BooksNext

-----------------------------------------------------------------------------
(* The age of a debt.                                                      *)

LEMMA MovementsAre ==
    ASSUME LedgerSound, NEW c \in Debtors
    PROVE  /\ IsFiniteSet(MovementsOf(c)) /\ Cardinality(MovementsOf(c)) \in Nat
           /\ \A m \in MovementsOf(c) : m.amount \in Int /\ m.at \in Int
           /\ \A m, n \in MovementsOf(c) : m.at = n.at => m = n
<1>1. MovementsOf(c) \in SUBSET ledger /\ IsFiniteSet(ledger)
  BY DEF MovementsOf, LedgerSound
<1>2. IsFiniteSet(MovementsOf(c)) /\ Cardinality(MovementsOf(c)) \in Nat
  <2>1. IsFiniteSet(MovementsOf(c))
    BY <1>1, FS_Subset
  <2> QED BY <2>1, FS_CardinalityType
<1>3. \A m \in MovementsOf(c) : m.amount \in Int /\ m.at \in Int
  BY DEF LedgerSound, MovementRows, MovementsOf
<1>4. \A m, n \in MovementsOf(c) : m.at = n.at => m = n
  BY DEF LedgerSound, MovementsOf
<1> QED BY <1>2, <1>3, <1>4

\* The movements of a customer can be put in order.
LEMMA JournalExists ==
    ASSUME LedgerSound, NEW c \in Debtors
    PROVE  \E journal \in Journals(c) : \A i, j \in DOMAIN journal : i < j => journal[i].at < journal[j].at
<1> DEFINE M == MovementsOf(c)  n == Cardinality(M)
           before == [x \in M |-> {y \in M : y.at < x.at}]
           Ranked(x) == Cardinality(before[x])
           journal == [k \in 1..n |-> CHOOSE x \in M : Cardinality(before[x]) = k - 1]
<1>1. IsFiniteSet(M) /\ n \in Nat /\ (\A m \in M : m.at \in Int) /\ (\A x, y \in M : x.at = y.at => x = y)
  BY MovementsAre
<1> HIDE DEF M
<1>2. IsOrder(before, M)
  <2>1. before \in [M -> SUBSET M]
    OBVIOUS
  <2>2. \A x \in M : x \notin before[x]
    BY <1>1
  <2>3. \A x, y \in M : x # y => x \in before[y] \/ y \in before[x]
    <3> TAKE x, y \in M
    <3>1. x # y => x.at # y.at
      BY <1>1
    <3>2. x.at < y.at \/ y.at < x.at \/ x.at = y.at
      BY <1>1
    <3> QED BY <3>1, <3>2
  <2>4. \A x, y \in M : y \in before[x] => before[y] \subseteq before[x]
    BY <1>1
  <2> HIDE DEF before
  <2> QED BY <2>1, <2>2, <2>3, <2>4 DEF IsOrder
<1>3. /\ \A x, y \in M : Cardinality(before[x]) < Cardinality(before[y]) <=> x \in before[y]
      /\ \A k \in 0..(n - 1) : \E x \in M : Cardinality(before[x]) = k
  <2> HIDE DEF before
  <2> QED BY <1>1, <1>2, RanksGiven
<1>4. \A x, y \in M : x \in before[y] => x.at < y.at
  OBVIOUS
<1> HIDE DEF before
<1>5. \A k \in 1..n : journal[k] \in M /\ Cardinality(before[journal[k]]) = k - 1
  <2> TAKE k \in 1..n
  <2>1. k - 1 \in 0..(n - 1)
    BY <1>1
  <2>2. \E x \in M : Cardinality(before[x]) = k - 1
    BY <1>3, <2>1
  <2>3. journal[k] = CHOOSE x \in M : Cardinality(before[x]) = k - 1
    OBVIOUS
  <2> HIDE DEF journal, n
  <2> QED BY <2>2, <2>3
<1>6. DOMAIN journal = 1..n /\ journal \in [1..n -> M]
  <2>1. journal = [k \in 1..n |-> journal[k]]
    OBVIOUS
  <2> HIDE DEF journal, n
  <2> QED BY <1>5, <2>1
<1>7. journal \in Journals(c)
  BY <1>6 DEF Journals, M
<1> HIDE DEF journal
<1>8. \A i, j \in 1..n : i < j => journal[i].at < journal[j].at
  <2> TAKE i, j \in 1..n
  <2> SUFFICES ASSUME i < j PROVE journal[i].at < journal[j].at
    OBVIOUS
  <2>1. i - 1 < j - 1
    BY <1>1
  <2>2. Cardinality(before[journal[i]]) < Cardinality(before[journal[j]])
    BY <1>5, <2>1
  <2> QED BY <1>3, <1>4, <1>5, <2>2
<1> QED BY <1>6, <1>7, <1>8

\* The sorted journal holds every movement, once.
LEMMA JournalIs ==
    ASSUME LedgerSound, NEW c \in Debtors
    PROVE  LET n == Cardinality(MovementsOf(c))
               journal == Ordered(c)
           IN  /\ n \in Nat /\ DOMAIN journal = 1..n /\ Len(journal) = n
               /\ \A k \in 1..n : journal[k] \in MovementsOf(c) /\ journal[k].at \in Int /\ journal[k].amount \in Int
               /\ \A i, j \in 1..n : i < j <=> journal[i].at < journal[j].at
               /\ \A i, j \in 1..n : journal[i] = journal[j] => i = j
               /\ \A m \in MovementsOf(c) : \E k \in 1..n : journal[k] = m
<1> DEFINE M == MovementsOf(c)  n == Cardinality(M)  journal == Ordered(c)
<1>1. IsFiniteSet(M) /\ n \in Nat /\ \A m \in M : m.at \in Int /\ m.amount \in Int
  BY MovementsAre
<1>2. journal \in Journals(c) /\ \A i, j \in DOMAIN journal : i < j => journal[i].at < journal[j].at
  BY JournalExists DEF Ordered
<1> HIDE DEF journal
<1>3. journal \in [1..n -> M]
  BY <1>2 DEF Journals
<1> HIDE DEF M
<1>4. DOMAIN journal = 1..n /\ journal \in Seq(M) /\ Len(journal) = n
  BY <1>1, <1>3
<1>5. \A k \in 1..n : journal[k] \in M /\ journal[k].at \in Int /\ journal[k].amount \in Int
  BY <1>1, <1>3
<1>6. \A i, j \in 1..n : i < j => journal[i].at < journal[j].at
  BY <1>2, <1>4
<1>7. \A i, j \in 1..n : i < j <=> journal[i].at < journal[j].at
  <2> TAKE i, j \in 1..n
  <2>1. i < j \/ i = j \/ j < i
    BY <1>1
  <2>2. journal[i].at \in Int /\ journal[j].at \in Int
    BY <1>5
  <2> HIDE DEF n
  <2> QED BY <1>6, <2>1, <2>2
<1>8. \A i, j \in 1..n : journal[i] = journal[j] => i = j
  <2> TAKE i, j \in 1..n
  <2> SUFFICES ASSUME journal[i] = journal[j], i # j PROVE FALSE
    OBVIOUS
  <2>1. i < j \/ j < i
    BY <1>1
  <2>2. journal[i].at < journal[j].at \/ journal[j].at < journal[i].at
    BY <1>6, <2>1
  <2>3. journal[i].at = journal[j].at /\ journal[i].at \in Int
    BY <1>5
  <2> QED BY <2>2, <2>3
<1>9. journal \in Injection(1..n, M)
  BY <1>3, <1>8 DEF Injection, IsInjective
<1>10. IsFiniteSet(1..n) /\ Cardinality(1..n) = n
  <2>1. 1 \in Int /\ n \in Int
    BY <1>1
  <2>2. IsFiniteSet(1..n) /\ Cardinality(1..n) = IF 1 > n THEN 0 ELSE n - 1 + 1
    BY <2>1, FS_Interval
  <2> HIDE DEF n
  <2> QED BY <1>1, <2>2
<1>11. journal \in Surjection(1..n, M)
  <2>1. Cardinality(1..n) = Cardinality(M)
    BY <1>10
  <2> HIDE DEF n
  <2> QED BY <1>1, <1>9, <2>1, FS_Injection
<1>12. \A m \in M : \E k \in 1..n : journal[k] = m
  BY <1>11 DEF Surjection
<1> QED BY <1>1, <1>4, <1>5, <1>7, <1>8, <1>12 DEF M, journal

\* What was owed once the first movements of the journal were made.
OwedAfter(c, k) == SumFunctionOnSet([j \in DOMAIN Ordered(c) |-> Ordered(c)[j].amount], 1..k)

\* Undoing the last movements gives what was owed before them (accountAgeDays).
LEMMA UndoneFromLast ==
    ASSUME LedgerSound, NEW c \in Debtors, NEW k \in 1..Cardinality(MovementsOf(c))
    PROVE  LET journal == Ordered(c)
               amounts == [j \in DOMAIN journal |-> journal[j].amount]
               n == Cardinality(MovementsOf(c))
           IN  /\ OwedAfter(c, k) \in Int /\ OwedAfter(c, k - 1) \in Int
               /\ BalanceOf(c) - SumFunctionOnSet(amounts, k..Len(journal)) = OwedAfter(c, k - 1)
               /\ BalanceAt(c, journal[k].at) = OwedAfter(c, k)
               /\ BalanceOf(c) = OwedAfter(c, n)
<1> DEFINE journal == Ordered(c)
           n == Cardinality(MovementsOf(c))
           M == MovementsOf(c)
           D == DOMAIN journal
           amounts == [j \in D |-> journal[j].amount]
           all == [m \in M |-> m.amount]
           Until == {m \in M : m.at <= journal[k].at}
           until == [m \in Until |-> m.amount]
<1>1. /\ n \in Nat /\ DOMAIN journal = 1..n /\ Len(journal) = n
      /\ \A j \in 1..n : journal[j] \in M /\ journal[j].at \in Int /\ journal[j].amount \in Int
      /\ \A i, j \in 1..n : i < j <=> journal[i].at < journal[j].at
      /\ \A i, j \in 1..n : journal[i] = journal[j] => i = j
      /\ \A m \in M : \E j \in 1..n : journal[j] = m
  BY JournalIs
<1>2. IsFiniteSet(M)
  BY MovementsAre
<1>3. /\ BalanceOf(c) = SumFunctionOnSet(all, M) /\ BalanceAt(c, journal[k].at) = SumFunctionOnSet(until, Until)
      /\ OwedAfter(c, k) = SumFunctionOnSet(amounts, 1..k)
      /\ OwedAfter(c, k - 1) = SumFunctionOnSet(amounts, 1..(k - 1))
      /\ OwedAfter(c, n) = SumFunctionOnSet(amounts, 1..n)
  BY DEF BalanceOf, BalanceAt, OwedAfter, SumFunction
<1> HIDE DEF journal, n, M
<1>4. /\ \A j \in 1..n : amounts[j] = journal[j].amount /\ amounts[j] \in Int
      /\ \A m \in M : all[m] = m.amount
      /\ \A m \in Until : until[m] = m.amount
      /\ Until \in SUBSET M /\ k \in 1..n
  BY <1>1 DEF n, M
<1>5. \A m \in Until : m \in M /\ m.at <= journal[k].at
  OBVIOUS
<1>6. \A m \in M : m.at <= journal[k].at => m \in Until
  OBVIOUS
<1> HIDE DEF amounts, all, until, Until, D
<1>7. /\ IsFiniteSet(1..n) /\ IsFiniteSet(1..k) /\ IsFiniteSet(1..(k - 1)) /\ IsFiniteSet(Until)
      /\ (1..n) \ (k..n) = 1..(k - 1) /\ (k..n) \in SUBSET (1..n)
      /\ \A j : j \in 1..k => j \in 1..n
      /\ \A j : j \in 1..(k - 1) => j \in 1..n
  <2>1. IsFiniteSet(1..n) /\ IsFiniteSet(1..k) /\ IsFiniteSet(1..(k - 1))
    <3>1. n \in Int /\ k \in Int /\ k - 1 \in Int /\ 1 \in Int
      BY <1>1, <1>4
    <3> QED BY <3>1, FS_Interval
  <2>2. IsFiniteSet(Until)
    BY <1>2, <1>4, FS_Subset
  <2> QED BY <1>1, <1>4, <2>1, <2>2
<1>8. SumFunctionOnSet(amounts, 1..n) = SumFunctionOnSet(all, M)
  <2>1. \A j \in 1..n : journal[j] \in M /\ all[journal[j]] = amounts[j]
    BY <1>1, <1>4
  <2> DEFINE I == 1..n
  <2>2. /\ IsFiniteSet(I) /\ (\A j \in I : amounts[j] \in Int)
        /\ (\A j \in I : journal[j] \in M /\ all[journal[j]] = amounts[j])
        /\ (\A m \in M : \E j \in I : journal[j] = m)
        /\ (\A i, j \in I : journal[i] = journal[j] => i = j)
    BY <1>1, <1>4, <1>7, <2>1
  <2> HIDE DEF I
  <2>3. SumFunctionOnSet(amounts, I) = SumFunctionOnSet(all, M)
    BY <1>2, <2>2, SumMoved
  <2> QED BY <2>3 DEF I
<1>9. SumFunctionOnSet(amounts, 1..k) = SumFunctionOnSet(until, Until)
  <2> DEFINE I == 1..k
  <2>1. \A j \in I : journal[j] \in Until
    <3> TAKE j \in I
    <3>1. j \in 1..n /\ ~(k < j)
      BY <1>4, <1>7
    <3>2. ~(journal[k].at < journal[j].at) /\ journal[j].at \in Int /\ journal[k].at \in Int
      BY <1>1, <1>4, <3>1
    <3>3. journal[j].at <= journal[k].at
      BY <3>2
    <3> QED BY <1>1, <1>6, <3>1, <3>3
  <2>2. \A m \in Until : \E j \in I : journal[j] = m
    <3> TAKE m \in Until
    <3>1. PICK j \in 1..n : journal[j] = m
      BY <1>1, <1>5
    <3>2. ~(journal[k].at < journal[j].at)
      BY <1>1, <1>4, <1>5, <3>1
    <3>3. ~(k < j)
      BY <1>1, <1>4, <3>2
    <3>4. j \in I
      BY <1>1, <1>4, <3>3
    <3> QED BY <3>1, <3>4
  <2>3. /\ IsFiniteSet(I) /\ IsFiniteSet(Until) /\ (\A j \in I : amounts[j] \in Int)
        /\ (\A j \in I : journal[j] \in Until /\ until[journal[j]] = amounts[j])
        /\ (\A i, j \in I : journal[i] = journal[j] => i = j)
    BY <1>1, <1>4, <1>7, <2>1
  <2> HIDE DEF I
  <2>4. SumFunctionOnSet(amounts, I) = SumFunctionOnSet(until, Until)
    BY ONLY <2>2, <2>3, SumMoved
  <2> QED BY <2>4 DEF I
<1>10. SumFunctionOnSet(amounts, 1..n)
         = SumFunctionOnSet(amounts, k..n) + SumFunctionOnSet(amounts, 1..(k - 1))
  <2> DEFINE I == 1..n  T == k..n
  <2>1. IsFiniteSet(I) /\ (\A j \in I : amounts[j] \in Int) /\ T \in SUBSET I /\ I \ T = 1..(k - 1)
    BY <1>4, <1>7
  <2> HIDE DEF I, T
  <2>2. SumFunctionOnSet(amounts, I) = SumFunctionOnSet(amounts, T) + SumFunctionOnSet(amounts, I \ T)
    BY <2>1, SumSplit
  <2> QED BY <2>1, <2>2 DEF I, T
<1>11. /\ SumFunctionOnSet(amounts, 1..k) \in Int /\ SumFunctionOnSet(amounts, 1..(k - 1)) \in Int
       /\ SumFunctionOnSet(amounts, k..n) \in Int
  <2>1. \A S : S \in SUBSET (1..n) => SumFunctionOnSet(amounts, S) \in Int
    <3> TAKE S
    <3> SUFFICES ASSUME S \in SUBSET (1..n) PROVE SumFunctionOnSet(amounts, S) \in Int
      OBVIOUS
    <3>1. IsFiniteSet(S) /\ \A j \in S : amounts[j] \in Int
      BY <1>4, <1>7, FS_Subset
    <3> QED BY <3>1, SumType
  <2>2. (1..k) \in SUBSET (1..n) /\ (1..(k - 1)) \in SUBSET (1..n) /\ (k..n) \in SUBSET (1..n)
    BY <1>7
  <2> QED BY <2>1, <2>2
<1>12. BalanceOf(c) - SumFunctionOnSet(amounts, k..n) = SumFunctionOnSet(amounts, 1..(k - 1))
  BY <1>3, <1>8, <1>10, <1>11
<1>13. /\ OwedAfter(c, k) \in Int /\ OwedAfter(c, k - 1) \in Int
       /\ BalanceOf(c) - SumFunctionOnSet(amounts, k..Len(journal)) = OwedAfter(c, k - 1)
       /\ BalanceAt(c, journal[k].at) = OwedAfter(c, k)
       /\ BalanceOf(c) = OwedAfter(c, n)
  BY <1>1, <1>3, <1>8, <1>9, <1>11, <1>12
<1> QED BY <1>13 DEF journal, n, amounts, D

\* The journal undone as far as nothing was owed stops where the debt began.
LEMMA AgedFromStart ==
    ASSUME LedgerSound, NEW c \in Debtors, BalanceOf(c) > 0
    PROVE  AgeDays(c) = DaysSince(OwedSince(c))
<1> DEFINE journal == Ordered(c)
           M == MovementsOf(c)
           n == Cardinality(MovementsOf(c))
           amounts == [k \in DOMAIN journal |-> journal[k].amount]
           before(k) == BalanceOf(c) - SumFunctionOnSet(amounts, k..Len(journal))
           K == {k \in DOMAIN journal : before(k) <= 0}
           owing == {m \in M : \A x \in M : x.at >= m.at => BalanceAt(c, x.at) > 0}
           since == {m.at : m \in owing}
<1>1. /\ n \in Nat /\ DOMAIN journal = 1..n
      /\ \A j \in 1..n : journal[j] \in M /\ journal[j].at \in Int
      /\ \A i, j \in 1..n : i < j <=> journal[i].at < journal[j].at
      /\ \A m \in M : \E j \in 1..n : journal[j] = m
  BY JournalIs
<1>2. ASSUME NEW k \in 1..n
      PROVE  /\ OwedAfter(c, k) \in Int /\ OwedAfter(c, k - 1) \in Int
             /\ before(k) = OwedAfter(c, k - 1)
             /\ BalanceAt(c, journal[k].at) = OwedAfter(c, k)
             /\ BalanceOf(c) = OwedAfter(c, n)
  BY UndoneFromLast
<1>3. AgeDays(c) = DaysSince(journal[Max(K)].at)
  BY DEF AgeDays
<1>4. OwedSince(c) = Min(since)
  BY DEF OwedSince
<1>5. OwedAfter(c, 0) = 0
  <2> DEFINE f == [j \in DOMAIN Ordered(c) |-> Ordered(c)[j].amount]  I == 1..0
  <2>1. I = {} /\ OwedAfter(c, 0) = SumFunctionOnSet(f, I)
    BY DEF OwedAfter
  <2> HIDE DEF f, I
  <2> QED BY <2>1, SumEmpty
<1>6. n >= 1
  <2> SUFFICES ASSUME ~(n >= 1) PROVE FALSE
    OBVIOUS
  <2>1. IsFiniteSet(M) /\ n = 0
    <3>1. IsFiniteSet(M)
      BY MovementsAre
    <3> HIDE DEF n
    <3> QED BY <1>1, <3>1
  <2> DEFINE f == [m \in M |-> m.amount]
  <2>2. BalanceOf(c) = SumFunctionOnSet(f, M)
    BY DEF BalanceOf, SumFunction
  <2>3. M = {}
    BY <2>1, FS_EmptySet
  <2> HIDE DEF f, M
  <2> QED BY <2>2, <2>3, SumEmpty
<1> HIDE DEF n, journal, M
<1>7. \A k : k \in K <=> k \in 1..n /\ OwedAfter(c, k - 1) <= 0
  BY <1>1, <1>2
<1> HIDE DEF K
<1>8. 1 \in K
  BY <1>1, <1>5, <1>6, <1>7
<1>9. Max(K) \in K /\ \A k \in K : k <= Max(K)
  <2>1. IsFiniteSet(1..n) /\ K \in SUBSET (1..n) /\ K \in SUBSET Nat /\ K # {}
    <3>1. 1 \in Int /\ n \in Int /\ (1..n) \in SUBSET Nat
      BY <1>1
    <3>2. IsFiniteSet(1..n)
      BY <3>1, FS_Interval
    <3>3. K \in SUBSET (1..n) /\ K # {}
      BY <1>7, <1>8
    <3> HIDE DEF since
    <3> QED BY <3>1, <3>2, <3>3
  <2>2. IsFiniteSet(K)
    BY <2>1, FS_Subset
  <2> QED BY <2>1, <2>2, GreatestIs
<1> DEFINE k == Max(K)  t == journal[k].at
<1> HIDE DEF k
<1>10. k \in 1..n /\ OwedAfter(c, k - 1) <= 0 /\ k \in Nat
  <2>1. k \in 1..n /\ OwedAfter(c, k - 1) <= 0
    BY <1>7, <1>9 DEF k
  <2> QED BY <2>1
<1>11. \A j \in 1..n : j >= k => OwedAfter(c, j) > 0
  <2> TAKE j \in 1..n
  <2> SUFFICES ASSUME j >= k PROVE OwedAfter(c, j) > 0
    OBVIOUS
  <2>1. CASE j = n
    BY <1>2, <2>1
  <2>2. CASE j # n
    <3>1. j + 1 \in 1..n /\ ~(j + 1 <= k) /\ (j + 1) - 1 = j
      BY <1>1, <1>10, <2>2
    <3>2. j + 1 \notin K
      BY <1>9, <3>1 DEF k
    <3>3. ~(OwedAfter(c, j) <= 0)
      BY <1>7, <3>1, <3>2
    <3>4. OwedAfter(c, j) \in Int
      BY <1>2
    <3> QED BY <3>3, <3>4
  <2> QED BY <2>1, <2>2
<1>12. t \in since
  <2>1. ASSUME NEW x \in M, x.at >= t PROVE BalanceAt(c, x.at) > 0
    <3>1. PICK j \in 1..n : journal[j] = x
      BY <1>1
    <3>2. ~(journal[j].at < journal[k].at)
      <4>1. journal[j].at \in Int /\ journal[k].at \in Int /\ journal[j].at >= journal[k].at
        BY <1>1, <1>10, <2>1, <3>1
      <4> QED BY <4>1
    <3>3. ~(j < k)
      BY <1>1, <1>10, <3>2
    <3>4. j >= k
      BY <1>10, <3>3
    <3>5. BalanceAt(c, journal[j].at) = OwedAfter(c, j) /\ OwedAfter(c, j) > 0
      BY <1>2, <1>11, <3>4
    <3> QED BY <3>1, <3>5
  <2>2. journal[k] \in M
    BY <1>1, <1>10
  <2> QED BY <2>1, <2>2
<1>13. \A u \in since : u \in Int /\ t <= u
  <2> TAKE u \in since
  <2>1. PICK m \in owing : m.at = u
    OBVIOUS
  <2>2. m \in M /\ \A x \in M : x.at >= m.at => BalanceAt(c, x.at) > 0
    OBVIOUS
  <2>3. PICK j \in 1..n : journal[j] = m
    BY <1>1, <2>2
  <2>4. u \in Int /\ t \in Int /\ u = journal[j].at
    BY <1>1, <1>10, <2>1, <2>3
  <2>5. j >= k
    <3> SUFFICES ASSUME ~(j >= k) PROVE FALSE
      OBVIOUS
    <3> DEFINE p == k - 1
    <3>1. p \in 1..n /\ p >= j /\ p + 1 = k
      BY <1>1, <1>10
    <3> HIDE DEF p
    <3>2. ~(p < j)
      BY <3>1
    <3>3. ~(journal[p].at < journal[j].at) /\ journal[p].at \in Int /\ journal[j].at \in Int
      BY <1>1, <3>1, <3>2
    <3>4. journal[p].at >= m.at /\ journal[p] \in M
      BY <1>1, <2>3, <3>1, <3>3
    <3>5. BalanceAt(c, journal[p].at) > 0
      BY <2>2, <3>4
    <3>6. OwedAfter(c, p) > 0 /\ OwedAfter(c, p) \in Int
      BY <1>2, <3>1, <3>5
    <3>7. OwedAfter(c, p) <= 0
      <4>1. p = k - 1
        BY DEF p
      <4> QED BY <1>10, <4>1
    <3> QED BY <3>6, <3>7
  <2>6. ~(j < k)
    BY <1>10, <2>5
  <2>7. ~(journal[j].at < journal[k].at)
    BY <1>1, <1>10, <2>6
  <2> QED BY <2>4, <2>7
<1> HIDE DEF since
<1>14. Min(since) = t
  <2>1. Min(since) \in since /\ \A y \in since : Min(since) <= y
    BY <1>12, <1>13 DEF Min
  <2>2. Min(since) <= t /\ t <= Min(since) /\ Min(since) \in Int /\ t \in Int
    BY <1>12, <1>13, <2>1
  <2> HIDE DEF t
  <2> QED BY <2>2
<1> QED BY <1>3, <1>4, <1>14 DEF k, t

LEMMA DebtsDated ==
    ASSUME LedgerSound
    PROVE  DebtsAreDated
<1>1. ASSUME NEW account \in OpenAccounts
      PROVE  account.age = DaysSince(OwedSince(account.customer))
  <2>1. PICK c \in Debtors : BalanceOf(c) > 0 /\ account = [customer |-> c, balance |-> BalanceOf(c), age |-> AgeDays(c)]
    BY DEF OpenAccounts
  <2> QED BY <2>1, AgedFromStart
<1> QED BY <1>1 DEF DebtsAreDated, LedgerSound

-----------------------------------------------------------------------------
(* What a till tells of its day.                                           *)

LEMMA BooksTell == BooksInv => BooksAgree
<1> SUFFICES ASSUME BooksInv PROVE BooksAgree
  OBVIOUS
<1>1. DaysAddUp /\ DebtsAreDated
  BY TicketsAddUp, DebtsDated DEF BooksInv
<1>2. DrawersTellTrue
  BY DEF BooksInv, DrawersTellTrue, PanelTells, DrawersSound
<1> QED BY <1>1, <1>2 DEF BooksAgree

\* The books of a till agree: the days add up by every grouping, the drawer's panel and counts
\* tell true, and a debt is as old as it is (summarizeSales, computeCashReport, verifyCount,
\* accountAgeDays).
THEOREM BooksAgreeCorrect == BooksSpec => []BooksAgree
<1>1. BooksInit => BooksInv
  BY BooksStart
<1>2. BooksInv /\ [BooksNext]_booksVars => BooksInv'
  BY BooksStep
<1>3. BooksInv => BooksAgree
  BY BooksTell
<1> QED BY <1>1, <1>2, <1>3, PTL DEF BooksSpec

-----------------------------------------------------------------------------
(* The shop is its parts, one at a time.                                   *)

THEOREM ShopIsItsParts == ShopSpec => CounterSpec /\ BooksSpec /\ Spec
<1>1. ShopInit => CounterInit /\ BooksInit /\ Init
  BY DEF ShopInit
<1>2. [ShopNext]_<<part, counterVars, booksVars, vars>>
        => [CounterNext]_counterVars /\ [BooksNext]_booksVars /\ [Next]_vars
  BY DEF ShopNext
<1> QED BY <1>1, <1>2, PTL DEF ShopSpec, CounterSpec, BooksSpec, Spec
=============================================================================
