----------------------------- MODULE ServerDesk -----------------------------
(***************************************************************************)
(* The back office of the API: products and categories (modules/catalog),  *)
(* stock (modules/stock) and the tills attached to a shop                  *)
(* (modules/devices), each writing the change log with its rows.           *)
(*                                                                         *)
(* A request is one transaction at READ COMMITTED: each statement that     *)
(* reads sees what the others have committed by then, and its writes show  *)
(* together when it commits.  The rows it writes are locked from the first *)
(* write on, so the writes and the commit are one step.  The company has   *)
(* one shop, which its staff may all work on.                              *)
(***************************************************************************)
EXTENDS Integers, FiniteSets, Functions, Sequences

CONSTANTS
    Callers,     \* requests open at once
    Products, Categories,
    Quantities,  \* moved, or counted on the shelf
    Posts,       \* the tills
    MaxDepth,    \* levels assertNoCycle climbs
    MaxRequests, \* bound: requests
    Nil

Keep == "keep"   \* a field the request leaves out

ASSUME DeskAssumption ==
    /\ IsFiniteSet(Callers)
    /\ {Nil, Keep} \cap Categories = {} /\ Nil \notin Int
    /\ Quantities \subseteq Int
    /\ {MaxDepth, MaxRequests} \subseteq Nat

VARIABLES
    product,   \* version (0 before it exists), category, whether deleted
    category,  \* version, parent, whether deleted
    stock,     \* stock_level of each product, Nil without a row
    registers, \* the receipt prefix of each register: number n stands for "C<n>"
    post,      \* device: Nil, or its register and whether it is revoked
    told,      \* change_log
    request,   \* what each request asks, its next statement, what it has read
    asked,     \* requests so far
    overlapped \* two of them have been open at once

tables == <<product, category, stock, registers, post, told>>
deskVars == <<tables, request, asked, overlapped>>

Absence == [product |-> [v |-> 0, cat |-> Nil, del |-> FALSE],
            category |-> [v |-> 0, parent |-> Nil, del |-> FALSE]]

DeskInit ==
    /\ product = [p \in Products |-> Absence.product]
    /\ category = [k \in Categories |-> Absence.category]
    /\ stock = [p \in Products |-> Nil]
    /\ registers = <<>>
    /\ post = [t \in Posts |-> Nil]
    /\ told = <<>>
    /\ request = [c \in Callers |-> Nil]
    /\ asked = 0
    /\ overlapped = FALSE

Live(r) == r.v > 0 /\ ~r.del

-----------------------------------------------------------------------------
(* What a request may ask, and the statement it begins with.                *)

\* A version the caller may have on screen.
Shown(r) == 1..r.v

Asking(op, id, base, to, qty, at) ==
    [op |-> op, id |-> id, base |-> base, to |-> to, qty |-> qty, at |-> at, here |-> Nil, depth |-> 0]

Asks ==
    {Asking("newProduct", p, 0, k, q, "category") :
        p \in {p \in Products : product[p].v = 0}, k \in Categories \cup {Nil}, q \in Quantities \cup {0}}
    \cup {Asking("newCategory", k, 0, up, 0, "category") :
        k \in {k \in Categories : category[k].v = 0}, up \in Categories \cup {Nil}}
    \cup (UNION {{Asking("editProduct", p, b, k, 0, "read") :
        b \in Shown(product[p]), k \in Categories \cup {Nil, Keep}} : p \in Products})
    \cup (UNION {{Asking("editCategory", k, b, up, 0, "read") :
        b \in Shown(category[k]), up \in Categories \cup {Nil, Keep}} : k \in Categories})
    \cup {Asking("removeProduct", p, 0, Nil, 0, "read") : p \in Products}
    \cup {Asking("removeCategory", k, 0, Nil, 0, "read") : k \in Categories}
    \cup {Asking(o, p, 0, Nil, q, "read") : o \in {"adjust", "count"}, p \in Products, q \in Quantities}
    \cup {Asking("enroll", t, 0, Nil, n, "register") : t \in Posts, n \in 0..2}

Ask(c) ==
    /\ request[c] = Nil /\ asked < MaxRequests
    /\ \E a \in Asks : request' = [request EXCEPT ![c] = a]
    /\ asked' = asked + 1
    /\ overlapped' = (overlapped \/ \E d \in Callers : request[d] # Nil)
    /\ UNCHANGED tables

Doing(c, ops, at) == request[c] # Nil /\ request[c].op \in ops /\ request[c].at = at
Close(c) == request' = [request EXCEPT ![c] = Nil]

\* A statement that reads: refused, or on to the next one.
Check(c, ok, next) ==
    /\ IF ok THEN request' = [request EXCEPT ![c].at = next] ELSE Close(c)
    /\ UNCHANGED <<tables, asked, overlapped>>

-----------------------------------------------------------------------------
(* The statements that read.                                                *)

FindProduct(c) ==
    LET r == request[c] IN
    /\ Doing(c, {"editProduct", "removeProduct", "adjust", "count"}, "read")
    /\ Check(c, Live(product[r.id]) /\ (r.op = "editProduct" => product[r.id].v = r.base),
             CASE r.op = "editProduct" -> "category" [] r.op = "count" -> "level" [] OTHER -> "write")

FindCategory(c) ==
    LET r == request[c] IN
    /\ Doing(c, {"editCategory", "removeCategory"}, "read")
    /\ Check(c, Live(category[r.id])
                /\ (r.op = "editCategory" => category[r.id].v = r.base /\ r.to # r.id),
             IF r.op = "editCategory" THEN "category" ELSE "children")

\* assertCategoryExists
CheckCategory(c) ==
    LET r == request[c] IN
    /\ Doing(c, {"newProduct", "editProduct", "newCategory", "editCategory"}, "category")
    /\ Check(c, r.to \in Categories => Live(category[r.to]),
             IF r.op = "editCategory" /\ r.to \in Categories THEN "climb" ELSE "write")

\* assertNoCycle, one category at a time.
Climb(c) ==
    LET r    == request[c]
        here == IF r.depth = 0 THEN r.to ELSE r.here
        up   == category[here].parent IN
    /\ Doing(c, {"editCategory"}, "climb")
    /\ IF here = r.id THEN Close(c)
       ELSE request' = [request EXCEPT ![c] = [r EXCEPT !.here = up, !.depth = r.depth + 1,
                          !.at = IF up = Nil \/ r.depth + 1 >= MaxDepth THEN "write" ELSE "climb"]]
    /\ UNCHANGED <<tables, asked, overlapped>>

CountChildren(c) ==
    LET k == request[c].id IN
    /\ Doing(c, {"removeCategory"}, "children")
    /\ Check(c, \A x \in Categories : Live(category[x]) => category[x].parent # k, "write")

OnShelf(p) == IF stock[p] = Nil THEN 0 ELSE stock[p]

\* What was counted becomes a movement; none if it is what the level says.
CountToDelta(c) ==
    LET r     == request[c]
        delta == r.qty - OnShelf(r.id) IN
    /\ Doing(c, {"count"}, "level")
    /\ IF delta = 0 THEN Close(c)
       ELSE request' = [request EXCEPT ![c] = [r EXCEPT !.qty = delta, !.at = "write"]]
    /\ UNCHANGED <<tables, asked, overlapped>>

\* The register asked for, or the prefix of a new one: one more than the registers.
ChooseRegister(c) ==
    LET r == request[c]
        Made(n) == /\ request' = [request EXCEPT ![c] = [r EXCEPT !.base = n, !.qty = 0, !.at = "write"]]
                   /\ UNCHANGED <<tables, asked, overlapped>> IN
    /\ Doing(c, {"enroll"}, "register")
    /\ IF r.qty > 0 THEN Check(c, r.qty \in DOMAIN registers, "write") \/ Made(r.qty)
       ELSE Made(Len(registers) + 1)

-----------------------------------------------------------------------------
(* The writes, with the entries of the log: all of them or, when a code is  *)
(* taken, an index refuses one or the database fails, none.                 *)

Change(kind, c, v, state) ==
    [kind |-> kind, id |-> request[c].id, base |-> request[c].base, v |-> v, state |-> state]

Fail(c) ==
    /\ request[c] # Nil
    /\ Close(c)
    /\ UNCHANGED <<tables, asked, overlapped>>

Over(old, new) == IF new = Keep THEN old ELSE new

\* Seeded fault: the version is counted from the one the caller had.
NextOfBase(c, old) == IF request[c].op = "editProduct" THEN request[c].base + 1 ELSE old + 1
\* version: { increment: 1 }, over the row as it is then.
NextVersion(c, old) == old + 1

PutProduct(c, new) ==
    /\ product' = [product EXCEPT ![request[c].id] = new]
    /\ Close(c)
    /\ UNCHANGED <<category, registers, post, asked, overlapped>>
ProductTold(c, new) == Append(told, Change("product", c, new.v, new))

\* The movement, told, and the cached level.
Movement(c, q) == Change("movement", c, 1, q)
Levelled(p, q) == [stock EXCEPT ![p] = OnShelf(p) + q]

CreateProduct(c) ==
    LET r   == request[c]
        new == [v |-> 1, cat |-> r.to, del |-> FALSE] IN
    /\ Doing(c, {"newProduct"}, "write")
    /\ product[r.id].v = 0
    /\ PutProduct(c, new)
    /\ \/ r.qty = 0 /\ told' = ProductTold(c, new) /\ UNCHANGED stock
       \/ /\ r.qty # 0
          /\ told' = Append(ProductTold(c, new), Movement(c, r.qty))
          /\ stock' = Levelled(r.id, r.qty)

\* The row is found by its identifier alone: deleted meanwhile, it is written all the same.
UpdateProduct(c) ==
    LET old == product[request[c].id]
        new == [old EXCEPT !.v = NextVersion(c, old.v), !.cat = Over(old.cat, request[c].to)] IN
    /\ Doing(c, {"editProduct"}, "write")
    /\ PutProduct(c, new) /\ told' = ProductTold(c, new) /\ UNCHANGED stock

RemoveProduct(c) ==
    LET old == product[request[c].id]
        new == [old EXCEPT !.v = NextVersion(c, old.v), !.del = TRUE] IN
    /\ Doing(c, {"removeProduct"}, "write")
    /\ PutProduct(c, new) /\ told' = ProductTold(c, new) /\ UNCHANGED stock

PutCategory(c, new) ==
    /\ category' = [category EXCEPT ![request[c].id] = new]
    /\ told' = Append(told, Change("category", c, new.v, new))
    /\ Close(c)
    /\ UNCHANGED <<stock, registers, post, asked, overlapped>>

CreateCategory(c) ==
    /\ Doing(c, {"newCategory"}, "write")
    /\ category[request[c].id].v = 0
    /\ PutCategory(c, [v |-> 1, parent |-> request[c].to, del |-> FALSE])
    /\ UNCHANGED product

UpdateCategory(c) ==
    LET old == category[request[c].id] IN
    /\ Doing(c, {"editCategory"}, "write")
    /\ PutCategory(c, [old EXCEPT !.v = NextVersion(c, old.v), !.parent = Over(old.parent, request[c].to)])
    /\ UNCHANGED product

\* Its products are left without a category: neither a version nor an entry says so.
RemoveCategory(c) ==
    LET k == request[c].id
        old == category[k] IN
    /\ Doing(c, {"removeCategory"}, "write")
    /\ PutCategory(c, [old EXCEPT !.v = NextVersion(c, old.v), !.del = TRUE])
    /\ product' = [p \in Products |-> IF Live(product[p]) /\ product[p].cat = k
                                      THEN [product[p] EXCEPT !.cat = Nil] ELSE product[p]]

\* applyDelta
MoveStock(c) ==
    LET r == request[c] IN
    /\ Doing(c, {"adjust", "count"}, "write")
    /\ stock' = Levelled(r.id, r.qty)
    /\ told' = Append(told, Movement(c, r.qty))
    /\ Close(c)
    /\ UNCHANGED <<product, category, registers, post, asked, overlapped>>

\* setMinimum: a level that had no row gets one.
SetMinimum(p) ==
    /\ product[p].v > 0
    /\ stock' = [stock EXCEPT ![p] = OnShelf(p)]
    /\ UNCHANGED <<product, category, registers, post, told, request, asked, overlapped>>

\* A revoked till is refused, and the register asked for it goes with the refusal.
Enroll(c) ==
    LET r == request[c]
        n == IF r.qty > 0 THEN r.qty ELSE Len(registers) + 1 IN
    /\ Doing(c, {"enroll"}, "write")
    /\ post[r.id] # Nil => ~post[r.id].revoked
    /\ IF r.qty > 0 THEN UNCHANGED <<registers, told>>
       ELSE /\ \A i \in DOMAIN registers : registers[i] # r.base
            /\ registers' = Append(registers, r.base)
            /\ told' = Append(told, [Change("register", c, 1, r.base) EXCEPT !.id = n])
    /\ post' = [post EXCEPT ![r.id] = [register |-> n, revoked |-> FALSE]]
    /\ Close(c)
    /\ UNCHANGED <<product, category, stock, asked, overlapped>>

Revoke(t) ==
    /\ post[t] # Nil
    /\ post' = [post EXCEPT ![t].revoked = TRUE]
    /\ UNCHANGED <<product, category, stock, registers, told, request, asked, overlapped>>

DeskNext ==
    \/ \E c \in Callers :
        \/ Ask(c) \/ Fail(c)
        \/ FindProduct(c) \/ FindCategory(c) \/ CheckCategory(c) \/ Climb(c)
        \/ CountChildren(c) \/ CountToDelta(c) \/ ChooseRegister(c)
        \/ CreateProduct(c) \/ UpdateProduct(c) \/ RemoveProduct(c)
        \/ CreateCategory(c) \/ UpdateCategory(c) \/ RemoveCategory(c)
        \/ MoveStock(c) \/ Enroll(c)
    \/ \E p \in Products : SetMinimum(p)
    \/ \E t \in Posts : Revoke(t)

DeskSpec == DeskInit /\ [][DeskNext]_deskVars

-----------------------------------------------------------------------------
(* Properties.                                                              *)

\* The entries of the log about a row, by their places.
ToldOf(kind, id) == {i \in DOMAIN told : told[i].kind = kind /\ told[i].id = id}

\* They tell the versions up to v, each once and in order.
InOrder(places, v) ==
    /\ {told[i].v : i \in places} = 1..v
    /\ \A i, j \in places : i < j => told[i].v < told[j].v

\* Requests overlap, and yet the log tells each version of a product or category
\* once, in order, and ends with what the row holds: all a till will know of it
\* (change-log.service.ts:28).  One thing alone is not told: that a product has
\* lost a category that was removed.
LogTold ==
    /\ \A k \in Categories :
        /\ InOrder(ToldOf("category", k), category[k].v)
        /\ \A i \in ToldOf("category", k) :
            told[i].v = category[k].v => told[i].state = category[k]
    /\ \A p \in Products :
        /\ InOrder(ToldOf("product", p), product[p].v)
        /\ \A i \in ToldOf("product", p) :
            told[i].v = product[p].v =>
                \/ told[i].state = product[p]
                \/ /\ told[i].state = [product[p] EXCEPT !.cat = told[i].state.cat]
                   /\ product[p].cat = Nil
                   /\ told[i].state.cat \in Categories /\ category[told[i].state.cat].del

\* The version a caller sends keeps him from writing over a colleague: of the
\* changes that succeed one alone is asked from a given version, or as many as
\* there were requests open at once (products.service.ts:131).
FewFromOneVersion ==
    \A i \in DOMAIN told :
        told[i].base > 0 /\ told[i].kind \in {"product", "category"} =>
            Cardinality({j \in ToldOf(told[i].kind, told[i].id) : told[j].base = told[i].base})
                <= Cardinality(Callers)

\* As long as requests are asked one after the other, the categories are a tree: none
\* leads back to itself in as many levels as are climbed (categories.service.ts:141),
\* none that is alive is under a removed one, and no product for sale is in a removed one.
TreeHolds ==
    overlapped \/
    /\ ~ \E S \in (SUBSET Categories) \ {{}} :
            /\ IsFiniteSet(S) /\ Cardinality(S) <= MaxDepth
            /\ \A k \in S : category[k].parent \in S
    /\ \A k \in Categories : Live(category[k]) /\ category[k].parent # Nil =>
                                Live(category[category[k].parent])
    /\ \A p \in Products : Live(product[p]) /\ product[p].cat # Nil => Live(category[product[p].cat])

\* The cached level is the sum of the movements told, whatever was sold between
\* the reading and the writing of a count (stock.service.ts:92).
LevelsAddUp ==
    \A p \in Products :
        OnShelf(p) = SumFunctionOnSet([i \in DOMAIN told |-> told[i].state], ToldOf("movement", p))

\* Every register is told once, under a prefix of its own, and a till works on
\* one that was (devices.service.ts:70).
RegistersTold ==
    /\ \A i, j \in DOMAIN registers : registers[i] = registers[j] => i = j
    /\ \A i \in DOMAIN registers : Cardinality(ToldOf("register", i)) = 1
    /\ \A t \in Posts : post[t] # Nil => post[t].register \in DOMAIN registers

DeskHolds == LogTold /\ FewFromOneVersion /\ TreeHolds /\ LevelsAddUp /\ RegistersTold
=============================================================================
