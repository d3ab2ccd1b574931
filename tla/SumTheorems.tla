---------------------------- MODULE SumTheorems ----------------------------
(***************************************************************************)
(* Facts about SumFunctionOnSet, the sum of a function over a finite set:  *)
(* the fold it stands for is defined, and the order it takes the elements  *)
(* in does not matter.  An induction is stated about a set of subsets, and *)
(* proved from the well-foundedness of the numbers.                        *)
(***************************************************************************)
EXTENDS Integers, FiniteSetsExt, Functions, FiniteSetTheorems, WellFoundedInduction, TLAPS

LEMMA NatMin ==
    ASSUME NEW T \in SUBSET Nat, T # {}
    PROVE  \E n \in T : \A k \in T : n <= k
<1> DEFINE R == OpToRel(<, Nat)
<1>1. PICK n \in T : \A k \in T : ~(<<k, n>> \in R)
  <2>1. IsWellFoundedOn(R, Nat)
    BY NatLessThanWellFounded
  <2> HIDE DEF R
  <2> QED BY <2>1, WFMin
<1>2. \A k \in T : ~(k < n)
  BY <1>1 DEF OpToRel
<1> QED BY <1>2

\* What holds of the empty set and of a set when it holds of the smaller ones.
LEMMA SetClimb ==
    ASSUME NEW S, IsFiniteSet(S), NEW P,
           {} \in P,
           \A T \in SUBSET S :
               T # {} /\ (\A U \in SUBSET S : Cardinality(U) < Cardinality(T) => U \in P) => T \in P
    PROVE  SUBSET S \subseteq P
<1>1. \A T \in SUBSET S : Cardinality(T) \in Nat
  BY FS_Subset, FS_CardinalityType
<1> DEFINE Bad == {n \in Nat : \E T \in SUBSET S : Cardinality(T) = n /\ T \notin P}
<1>2. SUFFICES ASSUME Bad # {} PROVE FALSE
  BY <1>1
<1>3. PICK n \in Bad : \A k \in Bad : n <= k
  BY <1>2, NatMin
<1>4. PICK T \in SUBSET S : Cardinality(T) = n /\ T \notin P
  BY <1>3
<1>5. \A U \in SUBSET S : Cardinality(U) < Cardinality(T) => U \in P
  BY <1>1, <1>3, <1>4
<1> QED BY <1>4, <1>5

\* The fold that SumFunctionOnSet makes.
IsSum(g, f, S) ==
    g = [s \in SUBSET S |-> IF s = {} THEN 0
                            ELSE LET x == CHOOSE x \in s : TRUE IN f[x] + g[s \ {x}]]
Iter(f, S) == CHOOSE g : IsSum(g, f, S)

LEMMA SumIsFold ==
    ASSUME NEW f, NEW S
    PROVE  SumFunctionOnSet(f, S) = Iter(f, S)[S]
BY DEF SumFunctionOnSet, FoldFunctionOnSet, MapThenFoldSet, Iter, IsSum

Picked(s) == CHOOSE x \in s : TRUE
LEMMA Smaller ==
    ASSUME NEW s, s # {}, IsFiniteSet(s)
    PROVE  /\ Picked(s) \in s /\ s \ {Picked(s)} \subseteq s
           /\ IsFiniteSet(s \ {Picked(s)})
           /\ Cardinality(s) \in Nat /\ Cardinality(s \ {Picked(s)}) \in Nat
           /\ Cardinality(s \ {Picked(s)}) = Cardinality(s) - 1
<1>1. Picked(s) \in s
  BY DEF Picked
<1> QED BY <1>1, FS_RemoveElement, FS_CardinalityType

\* The fold is defined.
LEMMA FoldExists ==
    ASSUME NEW f, NEW S, IsFiniteSet(S)
    PROVE  IsSum(Iter(f, S), f, S)
<1> DEFINE Small(n) == {s \in SUBSET S : Cardinality(s) <= n}
           Body(g, s) == IF s = {} THEN 0 ELSE f[Picked(s)] + g[s \ {Picked(s)}]
           Part(g, n) == g = [s \in Small(n) |-> Body(g, s)]
           G == {n \in Nat : \E g : Part(g, n)}
<1>0. \A s \in SUBSET S : IsFiniteSet(s) /\ Cardinality(s) \in Nat
  BY FS_Subset, FS_CardinalityType
<1>1. 0 \in G
  <2> DEFINE g == [s \in Small(0) |-> 0]
  <2>1. \A s \in Small(0) : s = {}
    BY <1>0, FS_EmptySet
  <2>2. Part(g, 0)
    BY <2>1
  <2> QED BY <2>2
<1>2. ASSUME NEW n \in G
      PROVE  n + 1 \in G
  <2>1. PICK g : Part(g, n)
    BY <1>2
  <2> DEFINE h == [s \in Small(n + 1) |-> Body(g, s)]
  <2>2. ASSUME NEW s \in Small(n + 1)
        PROVE  Body(g, s) = Body(h, s)
    <3>1. CASE s = {}
      BY <3>1
    <3>2. CASE s # {}
      <4> DEFINE t == s \ {Picked(s)}
      <4>1. t \in Small(n) /\ t \in Small(n + 1)
        BY <1>0, <3>2, Smaller
      <4>2. g[t] = Body(g, t) /\ h[t] = Body(g, t)
        BY <2>1, <4>1
      <4> QED BY <3>2, <4>2
    <3> QED BY <3>1, <3>2
  <2>3. Part(h, n + 1)
    BY <2>2
  <2>4. n + 1 \in Nat
    OBVIOUS
  <2> QED BY <2>3, <2>4
<1>3. Nat \subseteq G
  <2> HIDE DEF G
  <2>1. SUFFICES ASSUME Nat \ G # {} PROVE FALSE
    OBVIOUS
  <2>2. PICK n \in Nat \ G : \A k \in Nat \ G : n <= k
    BY <2>1, NatMin
  <2>3. n # 0
    BY <1>1, <2>2
  <2>4. n - 1 \in Nat /\ n - 1 \in G
    BY <2>2, <2>3
  <2>5. n \in G
    BY <1>2, <2>4
  <2> QED BY <2>2, <2>5
<1>4. PICK g : Part(g, Cardinality(S))
  BY <1>0, <1>3
<1>5. Small(Cardinality(S)) = SUBSET S
  BY FS_Subset, FS_CardinalityType
<1>6. g = [s \in SUBSET S |-> Body(g, s)]
  BY <1>4, <1>5
<1>7. IsSum(g, f, S)
  BY <1>6 DEF IsSum, Picked
<1>8. \E h : IsSum(h, f, S)
  BY <1>7
<1> HIDE DEF Small, Body, Part, G
<1> QED BY <1>8 DEF Iter

LEMMA FoldStep ==
    ASSUME NEW f, NEW S, IsFiniteSet(S), NEW s \in SUBSET S
    PROVE  Iter(f, S)[s] = IF s = {} THEN 0 ELSE f[Picked(s)] + Iter(f, S)[s \ {Picked(s)}]
<1> DEFINE g == Iter(f, S)
<1>1. IsSum(g, f, S)
  BY FoldExists
<1> HIDE DEF g
<1>2. g[s] = IF s = {} THEN 0 ELSE f[Picked(s)] + g[s \ {Picked(s)}]
  BY <1>1 DEF IsSum, Picked
<1> QED BY <1>2 DEF g

\* The fold over a set agrees with the folds over what contains it.
LEMMA FoldLocal ==
    ASSUME NEW f, NEW S, IsFiniteSet(S), NEW T \in SUBSET S
    PROVE  Iter(f, S)[T] = Iter(f, T)[T]
<1> DEFINE P == {u \in SUBSET S : \A v \in SUBSET S : u \subseteq v => Iter(f, v)[u] = Iter(f, S)[u]}
<1>0. \A v \in SUBSET S : IsFiniteSet(v) /\ Cardinality(v) \in Nat
  BY FS_Subset, FS_CardinalityType
<1>1. {} \in P
  BY <1>0, FoldStep
<1>2. ASSUME NEW u \in SUBSET S, u # {}, \A w \in SUBSET S : Cardinality(w) < Cardinality(u) => w \in P
      PROVE  u \in P
  <2>1. ASSUME NEW v \in SUBSET S, u \subseteq v
        PROVE  Iter(f, v)[u] = Iter(f, S)[u]
    <3> DEFINE w == u \ {Picked(u)}
    <3>1. w \in SUBSET S /\ w \subseteq v /\ Cardinality(w) < Cardinality(u)
      BY <1>0, <1>2, <2>1, Smaller
    <3>2. Iter(f, v)[w] = Iter(f, S)[w]
      BY <1>2, <2>1, <3>1
    <3>3. Iter(f, v)[u] = f[Picked(u)] + Iter(f, v)[w]
      BY <1>0, <1>2, <2>1, FoldStep
    <3>4. Iter(f, S)[u] = f[Picked(u)] + Iter(f, S)[w]
      BY <1>2, FoldStep
    <3> QED BY <3>2, <3>3, <3>4
  <2> QED BY <2>1
<1>3. SUBSET S \subseteq P
  <2> HIDE DEF P
  <2> QED BY <1>1, <1>2, SetClimb
<1> QED BY <1>3

-----------------------------------------------------------------------------
(* Sums.                                                                    *)

THEOREM SumEmpty == ASSUME NEW f PROVE SumFunctionOnSet(f, {}) = 0
<1>1. IsFiniteSet({})
  BY FS_EmptySet
<1>2. Iter(f, {})[{}] = 0
  BY <1>1, FoldStep
<1> QED BY <1>2, SumIsFold

LEMMA SumPicked ==
    ASSUME NEW f, NEW S, IsFiniteSet(S), S # {}
    PROVE  SumFunctionOnSet(f, S) = f[Picked(S)] + SumFunctionOnSet(f, S \ {Picked(S)})
<1>1. Iter(f, S)[S] = f[Picked(S)] + Iter(f, S)[S \ {Picked(S)}]
  BY FoldStep
<1>2. Iter(f, S)[S \ {Picked(S)}] = Iter(f, S \ {Picked(S)})[S \ {Picked(S)}]
  BY FoldLocal
<1> QED BY <1>1, <1>2, SumIsFold

\* A sum of integers is one.
THEOREM SumType ==
    ASSUME NEW f, NEW S, IsFiniteSet(S), \A x \in S : f[x] \in Int
    PROVE  SumFunctionOnSet(f, S) \in Int
<1> DEFINE P == {u \in SUBSET S : SumFunctionOnSet(f, u) \in Int}
<1>0. \A v \in SUBSET S : IsFiniteSet(v) /\ Cardinality(v) \in Nat
  BY FS_Subset, FS_CardinalityType
<1>1. {} \in P
  BY SumEmpty
<1>2. ASSUME NEW u \in SUBSET S, u # {}, \A w \in SUBSET S : Cardinality(w) < Cardinality(u) => w \in P
      PROVE  u \in P
  <2>1. /\ Picked(u) \in u /\ u \ {Picked(u)} \in SUBSET S
        /\ Cardinality(u \ {Picked(u)}) < Cardinality(u)
    BY <1>0, <1>2, Smaller
  <2>2. SumFunctionOnSet(f, u \ {Picked(u)}) \in Int
    BY <1>2, <2>1
  <2>3. f[Picked(u)] \in Int
    BY <2>1
  <2>4. SumFunctionOnSet(f, u) = f[Picked(u)] + SumFunctionOnSet(f, u \ {Picked(u)})
    BY <1>0, <1>2, SumPicked
  <2> QED BY <2>2, <2>3, <2>4
<1>3. SUBSET S \subseteq P
  <2> HIDE DEF P
  <2> QED BY <1>1, <1>2, SetClimb
<1> QED BY <1>3

\* Any element may be taken apart.
THEOREM SumTake ==
    ASSUME NEW f, NEW S, IsFiniteSet(S), \A y \in S : f[y] \in Int, NEW x \in S
    PROVE  SumFunctionOnSet(f, S) = f[x] + SumFunctionOnSet(f, S \ {x})
<1> DEFINE P == {u \in SUBSET S : \A y \in u :
                     SumFunctionOnSet(f, u) = f[y] + SumFunctionOnSet(f, u \ {y})}
<1>0. \A v \in SUBSET S : IsFiniteSet(v) /\ Cardinality(v) \in Nat /\ SumFunctionOnSet(f, v) \in Int
  BY FS_Subset, FS_CardinalityType, SumType
<1>1. {} \in P
  OBVIOUS
<1>2. ASSUME NEW u \in SUBSET S, u # {}, \A w \in SUBSET S : Cardinality(w) < Cardinality(u) => w \in P
      PROVE  u \in P
  <2> DEFINE c == Picked(u)
  <2>1. /\ c \in u /\ c \in S /\ u \ {c} \in SUBSET S /\ Cardinality(u \ {c}) < Cardinality(u)
    BY <1>0, <1>2, Smaller
  <2>2. SumFunctionOnSet(f, u) = f[c] + SumFunctionOnSet(f, u \ {c})
    BY <1>0, <1>2, SumPicked
  <2> HIDE DEF c, P
  <2>3. ASSUME NEW y \in u
        PROVE  SumFunctionOnSet(f, u) = f[y] + SumFunctionOnSet(f, u \ {y})
    <3>1. CASE y = c
      BY <2>2, <3>1
    <3>2. CASE y # c
      <4> DEFINE v == u \ {c, y}
      <4>1. v = (u \ {c}) \ {y} /\ v = (u \ {y}) \ {c} /\ v \in SUBSET S /\ y \in u \ {c} /\ c \in u \ {y}
        BY <2>1, <3>2
      <4>2. u \ {y} \in SUBSET S /\ Cardinality(u \ {y}) < Cardinality(u)
        BY <1>0, FS_RemoveElement
      <4>3. SumFunctionOnSet(f, u \ {c}) = f[y] + SumFunctionOnSet(f, v)
        BY <1>2, <2>1, <4>1 DEF P
      <4>4. SumFunctionOnSet(f, u \ {y}) = f[c] + SumFunctionOnSet(f, v)
        BY <1>2, <4>1, <4>2 DEF P
      <4>5. f[c] \in Int /\ f[y] \in Int /\ SumFunctionOnSet(f, v) \in Int
        BY <1>0, <2>1, <4>1
      <4> HIDE DEF v
      <4> QED BY <2>2, <4>3, <4>4, <4>5
    <3> QED BY <3>1, <3>2
  <2> QED BY <2>3 DEF P
<1>3. SUBSET S \subseteq P
  <2> HIDE DEF P
  <2> QED BY <1>1, <1>2, SetClimb
<1>4. S \in P
  BY <1>3
<1> QED BY <1>4

\* A set with one element more.
THEOREM SumAdd ==
    ASSUME NEW f, NEW S, IsFiniteSet(S), \A y \in S : f[y] \in Int, NEW x, x \notin S, f[x] \in Int
    PROVE  SumFunctionOnSet(f, S \cup {x}) = f[x] + SumFunctionOnSet(f, S)
<1>1. IsFiniteSet(S \cup {x}) /\ (S \cup {x}) \ {x} = S
  BY FS_AddElement
<1>2. \A y \in S \cup {x} : f[y] \in Int
  OBVIOUS
<1> QED BY <1>1, <1>2, SumTake

\* A larger function has a larger sum.
THEOREM SumAtMost ==
    ASSUME NEW f, NEW g, NEW S, IsFiniteSet(S),
           \A x \in S : f[x] \in Int /\ g[x] \in Int /\ f[x] <= g[x]
    PROVE  SumFunctionOnSet(f, S) <= SumFunctionOnSet(g, S)
<1> DEFINE P == {u \in SUBSET S : SumFunctionOnSet(f, u) <= SumFunctionOnSet(g, u)}
<1>0. \A v \in SUBSET S : /\ IsFiniteSet(v) /\ Cardinality(v) \in Nat
                          /\ SumFunctionOnSet(f, v) \in Int /\ SumFunctionOnSet(g, v) \in Int
  BY FS_Subset, FS_CardinalityType, SumType
<1>1. {} \in P
  BY SumEmpty
<1>2. ASSUME NEW u \in SUBSET S, u # {}, \A w \in SUBSET S : Cardinality(w) < Cardinality(u) => w \in P
      PROVE  u \in P
  <2> DEFINE c == Picked(u)
  <2>1. /\ c \in u /\ c \in S /\ u \ {c} \in SUBSET S
        /\ Cardinality(u \ {c}) < Cardinality(u)
    BY <1>0, <1>2, Smaller
  <2>2. SumFunctionOnSet(f, u \ {c}) <= SumFunctionOnSet(g, u \ {c})
    BY <1>2, <2>1
  <2>3. /\ SumFunctionOnSet(f, u) = f[c] + SumFunctionOnSet(f, u \ {c})
        /\ SumFunctionOnSet(g, u) = g[c] + SumFunctionOnSet(g, u \ {c})
    BY <1>0, <1>2, SumPicked
  <2>4. f[c] \in Int /\ g[c] \in Int /\ f[c] <= g[c]
    BY <2>1
  <2>5. SumFunctionOnSet(f, u \ {c}) \in Int /\ SumFunctionOnSet(g, u \ {c}) \in Int
    BY <1>0, <2>1
  <2> HIDE DEF c
  <2>6. SumFunctionOnSet(f, u) <= SumFunctionOnSet(g, u)
    BY <2>2, <2>3, <2>4, <2>5
  <2> QED BY <2>6
<1>3. SUBSET S \subseteq P
  <2> HIDE DEF P
  <2> QED BY <1>1, <1>2, SetClimb
<1> QED BY <1>3

\* The sum depends on the values over the set alone.
THEOREM SumSame ==
    ASSUME NEW f, NEW g, NEW S, IsFiniteSet(S), \A x \in S : f[x] \in Int /\ g[x] = f[x]
    PROVE  SumFunctionOnSet(f, S) = SumFunctionOnSet(g, S)
<1>1. SumFunctionOnSet(f, S) \in Int /\ SumFunctionOnSet(g, S) \in Int
  BY SumType
<1>2. SumFunctionOnSet(f, S) <= SumFunctionOnSet(g, S) /\ SumFunctionOnSet(g, S) <= SumFunctionOnSet(f, S)
  BY SumAtMost
<1> QED BY <1>1, <1>2

\* A change at one element changes the sum by as much.
THEOREM SumPut ==
    ASSUME NEW f, NEW g, NEW S, IsFiniteSet(S), \A y \in S : f[y] \in Int /\ g[y] \in Int,
           NEW x \in S, \A y \in S : y # x => g[y] = f[y]
    PROVE  SumFunctionOnSet(g, S) = SumFunctionOnSet(f, S) + g[x] - f[x]
<1>1. IsFiniteSet(S \ {x})
  BY FS_RemoveElement
<1>2. SumFunctionOnSet(f, S \ {x}) = SumFunctionOnSet(g, S \ {x})
  BY <1>1, SumSame
<1>3. /\ SumFunctionOnSet(f, S) = f[x] + SumFunctionOnSet(f, S \ {x})
      /\ SumFunctionOnSet(g, S) = g[x] + SumFunctionOnSet(g, S \ {x})
  BY SumTake
<1>4. SumFunctionOnSet(f, S \ {x}) \in Int
  BY <1>1, SumType
<1>5. f[x] \in Int /\ g[x] \in Int
  OBVIOUS
<1> QED BY <1>2, <1>3, <1>4, <1>5

\* What is null everywhere.
THEOREM SumZeros ==
    ASSUME NEW f, NEW S, IsFiniteSet(S), \A x \in S : f[x] = 0
    PROVE  SumFunctionOnSet(f, S) = 0
<1> DEFINE P == {u \in SUBSET S : SumFunctionOnSet(f, u) = 0}
<1>1. {} \in P
  BY SumEmpty
<1>2. ASSUME NEW u \in SUBSET S, u # {}, \A w \in SUBSET S : Cardinality(w) < Cardinality(u) => w \in P
      PROVE  u \in P
  <2>1. /\ Picked(u) \in u /\ u \ {Picked(u)} \in SUBSET S
        /\ Cardinality(u \ {Picked(u)}) < Cardinality(u) /\ IsFiniteSet(u)
    BY <1>2, Smaller, FS_Subset
  <2>2. SumFunctionOnSet(f, u) = f[Picked(u)] + SumFunctionOnSet(f, u \ {Picked(u)})
    BY <1>2, <2>1, SumPicked
  <2>3. f[Picked(u)] = 0 /\ SumFunctionOnSet(f, u \ {Picked(u)}) = 0
    BY <1>2, <2>1
  <2>4. SumFunctionOnSet(f, u) = 0
    BY <2>2, <2>3
  <2> QED BY <2>4
<1>3. SUBSET S \subseteq P
  <2> HIDE DEF P
  <2> QED BY <1>1, <1>2, SetClimb
<1> QED BY <1>3

\* No term of natural numbers exceeds their sum.
THEOREM SumTerm ==
    ASSUME NEW f, NEW S, IsFiniteSet(S), \A y \in S : f[y] \in Nat, NEW x \in S
    PROVE  SumFunctionOnSet(f, S) \in Nat /\ f[x] <= SumFunctionOnSet(f, S)
<1> DEFINE z == [y \in S |-> 0]
<1>1. IsFiniteSet(S \ {x}) /\ \A y \in S \ {x} : f[y] \in Int /\ z[y] = 0 /\ z[y] <= f[y] /\ z[y] \in Int
  BY FS_RemoveElement
<1> HIDE DEF z
<1>2. SumFunctionOnSet(z, S \ {x}) = 0 /\ SumFunctionOnSet(z, S \ {x}) <= SumFunctionOnSet(f, S \ {x})
  BY <1>1, SumZeros, SumAtMost
<1>3. SumFunctionOnSet(f, S \ {x}) \in Int
  BY <1>1, SumType
<1>4. SumFunctionOnSet(f, S) = f[x] + SumFunctionOnSet(f, S \ {x})
  BY SumTake
<1>5. f[x] \in Nat
  OBVIOUS
<1> QED BY <1>2, <1>3, <1>4, <1>5

\* A function that is larger somewhere and smaller nowhere has a larger sum.
THEOREM SumBelow ==
    ASSUME NEW f, NEW g, NEW S, IsFiniteSet(S),
           \A y \in S : f[y] \in Int /\ g[y] \in Int /\ f[y] <= g[y],
           NEW x \in S, f[x] < g[x]
    PROVE  SumFunctionOnSet(f, S) < SumFunctionOnSet(g, S)
<1>1. IsFiniteSet(S \ {x})
  BY FS_RemoveElement
<1>2. SumFunctionOnSet(f, S \ {x}) <= SumFunctionOnSet(g, S \ {x})
  BY <1>1, SumAtMost
<1>3. /\ SumFunctionOnSet(f, S) = f[x] + SumFunctionOnSet(f, S \ {x})
      /\ SumFunctionOnSet(g, S) = g[x] + SumFunctionOnSet(g, S \ {x})
  BY SumTake
<1>4. SumFunctionOnSet(f, S \ {x}) \in Int /\ SumFunctionOnSet(g, S \ {x}) \in Int
  BY <1>1, SumType
<1>5. f[x] \in Int /\ g[x] \in Int
  OBVIOUS
<1> QED BY <1>2, <1>3, <1>4, <1>5

\* The sum over a set is within that over another when what it has of its own counts for nothing.
THEOREM SumWithin ==
    ASSUME NEW f, NEW S, NEW T, IsFiniteSet(S), IsFiniteSet(T),
           \A x \in S \cup T : f[x] \in Nat, \A x \in S \ T : f[x] = 0
    PROVE  SumFunctionOnSet(f, S) <= SumFunctionOnSet(f, T)
<1> DEFINE P == {u \in SUBSET S : SumFunctionOnSet(f, u) <= SumFunctionOnSet(f, u \cap T)}
<1>0. \A v : v \in SUBSET S \/ v \in SUBSET T =>
              /\ IsFiniteSet(v) /\ Cardinality(v) \in Nat /\ SumFunctionOnSet(f, v) \in Int
              /\ \A x \in v : f[x] \in Int
  BY FS_Subset, FS_CardinalityType, SumType
<1>1. {} \in P
  BY SumEmpty
<1>2. ASSUME NEW u \in SUBSET S, u # {}, \A w \in SUBSET S : Cardinality(w) < Cardinality(u) => w \in P
      PROVE  u \in P
  <2> DEFINE c == Picked(u)  v == u \ {c}
  <2>1. c \in u /\ v \in SUBSET S /\ Cardinality(v) < Cardinality(u) /\ u = v \cup {c} /\ c \notin v
    BY <1>0, <1>2, Smaller
  <2> HIDE DEF c, v
  <2>2. SumFunctionOnSet(f, v) <= SumFunctionOnSet(f, v \cap T)
    BY <1>2, <2>1
  <2>3. SumFunctionOnSet(f, u) = f[c] + SumFunctionOnSet(f, v) /\ f[c] \in Nat
    BY <1>0, <2>1, SumAdd
  <2>4. /\ c \in T => SumFunctionOnSet(f, u \cap T) = f[c] + SumFunctionOnSet(f, v \cap T)
        /\ c \notin T => SumFunctionOnSet(f, u \cap T) = SumFunctionOnSet(f, v \cap T)
    <3>1. ASSUME c \in T
          PROVE  SumFunctionOnSet(f, u \cap T) = f[c] + SumFunctionOnSet(f, v \cap T)
      <4>1. u \cap T = (v \cap T) \cup {c} /\ c \notin v \cap T /\ v \cap T \in SUBSET S
        BY <2>1, <3>1
      <4>2. SumFunctionOnSet(f, (v \cap T) \cup {c}) = f[c] + SumFunctionOnSet(f, v \cap T)
        BY <1>0, <2>3, <4>1, SumAdd
      <4> QED BY <4>1, <4>2
    <3>2. ASSUME c \notin T PROVE u \cap T = v \cap T
      BY <2>1, <3>2
    <3> QED BY <3>1, <3>2
  <2>5. c \notin T => f[c] = 0
    BY <1>2, <2>1
  <2>6. SumFunctionOnSet(f, v) \in Int /\ SumFunctionOnSet(f, v \cap T) \in Int
    BY <1>0, <2>1
  <2>7. SumFunctionOnSet(f, u) <= SumFunctionOnSet(f, u \cap T)
    BY <2>2, <2>3, <2>4, <2>5, <2>6
  <2> QED BY <2>7
<1>3. SUBSET S \subseteq P
  <2> HIDE DEF P
  <2> QED BY <1>1, <1>2, SetClimb
<1>4. SumFunctionOnSet(f, S) <= SumFunctionOnSet(f, S \cap T)
  BY <1>3
<1>5. SumFunctionOnSet(f, S \cap T) <= SumFunctionOnSet(f, T)
  <2> DEFINE R == T \ S
  <2>1. T \cap S \in SUBSET T /\ R \in SUBSET T /\ T = (S \cap T) \cup R
    OBVIOUS
  <2> DEFINE Q == {w \in SUBSET R : SumFunctionOnSet(f, S \cap T) <= SumFunctionOnSet(f, (S \cap T) \cup w)}
  <2>2. {} \in Q
    <3>1. (S \cap T) \cup {} = S \cap T /\ SumFunctionOnSet(f, S \cap T) \in Int
      BY <1>0
    <3> QED BY <3>1
  <2>3. ASSUME NEW u \in SUBSET R, u # {}, \A w \in SUBSET R : Cardinality(w) < Cardinality(u) => w \in Q
        PROVE  u \in Q
    <3> DEFINE c == Picked(u)  v == u \ {c}  W == (S \cap T) \cup v
    <3>0. IsFiniteSet(u) /\ u # {}
      BY <1>0, <2>1, <2>3
    <3> HIDE DEF Q
    <3>1. c \in u /\ v \in SUBSET R /\ Cardinality(v) < Cardinality(u)
      BY <3>0, Smaller
    <3>2. W \in SUBSET T /\ (S \cap T) \cup u = W \cup {c} /\ c \notin W /\ c \in T
      BY <3>1
    <3> HIDE DEF c, W
    <3>3. SumFunctionOnSet(f, S \cap T) <= SumFunctionOnSet(f, W)
      BY <2>3, <3>1 DEF Q, W
    <3>4. SumFunctionOnSet(f, W \cup {c}) = f[c] + SumFunctionOnSet(f, W) /\ f[c] \in Nat
      BY <1>0, <3>2, SumAdd
    <3>5. SumFunctionOnSet(f, W) \in Int /\ SumFunctionOnSet(f, S \cap T) \in Int
      BY <1>0, <3>2
    <3>6. SumFunctionOnSet(f, S \cap T) <= SumFunctionOnSet(f, W \cup {c})
      BY <3>3, <3>4, <3>5
    <3>7. SumFunctionOnSet(f, S \cap T) <= SumFunctionOnSet(f, (S \cap T) \cup u)
      BY <3>2, <3>6
    <3> QED BY <3>7 DEF Q
  <2>4. SUBSET R \subseteq Q
    <3>1. IsFiniteSet(R)
      BY <1>0, <2>1
    <3> HIDE DEF R, Q
    <3> QED BY <2>2, <2>3, <3>1, SetClimb
  <2> QED BY <2>1, <2>4
<1>6. /\ SumFunctionOnSet(f, S) \in Int /\ SumFunctionOnSet(f, S \cap T) \in Int
      /\ SumFunctionOnSet(f, T) \in Int
  BY <1>0
<1> QED BY <1>4, <1>5, <1>6

\* The sum of two functions added up term by term.
THEOREM SumPlus ==
    ASSUME NEW f, NEW g, NEW h, NEW S, IsFiniteSet(S),
           \A x \in S : f[x] \in Int /\ g[x] \in Int /\ h[x] = f[x] + g[x]
    PROVE  SumFunctionOnSet(h, S) = SumFunctionOnSet(f, S) + SumFunctionOnSet(g, S)
<1> DEFINE P == {u \in SUBSET S :
                   SumFunctionOnSet(h, u) = SumFunctionOnSet(f, u) + SumFunctionOnSet(g, u)}
<1>0. \A v \in SUBSET S : /\ IsFiniteSet(v) /\ Cardinality(v) \in Nat
                          /\ SumFunctionOnSet(f, v) \in Int /\ SumFunctionOnSet(g, v) \in Int
  BY FS_Subset, FS_CardinalityType, SumType
<1>1. {} \in P
  BY SumEmpty
<1>2. ASSUME NEW u \in SUBSET S, u # {}, \A w \in SUBSET S : Cardinality(w) < Cardinality(u) => w \in P
      PROVE  u \in P
  <2> DEFINE c == Picked(u)
  <2>1. c \in u /\ c \in S /\ u \ {c} \in SUBSET S /\ Cardinality(u \ {c}) < Cardinality(u)
    BY <1>0, <1>2, Smaller
  <2>2. SumFunctionOnSet(h, u \ {c}) = SumFunctionOnSet(f, u \ {c}) + SumFunctionOnSet(g, u \ {c})
    BY <1>2, <2>1
  <2>3. /\ SumFunctionOnSet(f, u) = f[c] + SumFunctionOnSet(f, u \ {c})
        /\ SumFunctionOnSet(g, u) = g[c] + SumFunctionOnSet(g, u \ {c})
        /\ SumFunctionOnSet(h, u) = h[c] + SumFunctionOnSet(h, u \ {c})
    BY <1>0, <1>2, SumPicked
  <2>4. f[c] \in Int /\ g[c] \in Int /\ h[c] = f[c] + g[c]
    BY <2>1
  <2>5. SumFunctionOnSet(f, u \ {c}) \in Int /\ SumFunctionOnSet(g, u \ {c}) \in Int
    BY <1>0, <2>1
  <2> HIDE DEF c
  <2>6. SumFunctionOnSet(h, u) = SumFunctionOnSet(f, u) + SumFunctionOnSet(g, u)
    BY <2>2, <2>3, <2>4, <2>5
  <2> QED BY <2>6
<1>3. SUBSET S \subseteq P
  <2> HIDE DEF P
  <2> QED BY <1>1, <1>2, SetClimb
<1> QED BY <1>3

\* A common factor.
THEOREM SumScale ==
    ASSUME NEW f, NEW g, NEW a \in Int, NEW S, IsFiniteSet(S),
           \A x \in S : f[x] \in Int /\ g[x] = a * f[x]
    PROVE  SumFunctionOnSet(g, S) = a * SumFunctionOnSet(f, S)
<1> DEFINE P == {u \in SUBSET S : SumFunctionOnSet(g, u) = a * SumFunctionOnSet(f, u)}
<1>0. \A v \in SUBSET S : /\ IsFiniteSet(v) /\ Cardinality(v) \in Nat
                          /\ SumFunctionOnSet(f, v) \in Int
  BY FS_Subset, FS_CardinalityType, SumType
<1>1. {} \in P
  BY SumEmpty
<1>2. ASSUME NEW u \in SUBSET S, u # {}, \A w \in SUBSET S : Cardinality(w) < Cardinality(u) => w \in P
      PROVE  u \in P
  <2> DEFINE c == Picked(u)
  <2>1. c \in u /\ c \in S /\ u \ {c} \in SUBSET S /\ Cardinality(u \ {c}) < Cardinality(u)
    BY <1>0, <1>2, Smaller
  <2>2. SumFunctionOnSet(g, u \ {c}) = a * SumFunctionOnSet(f, u \ {c})
    BY <1>2, <2>1
  <2>3. /\ SumFunctionOnSet(f, u) = f[c] + SumFunctionOnSet(f, u \ {c})
        /\ SumFunctionOnSet(g, u) = g[c] + SumFunctionOnSet(g, u \ {c})
    BY <1>0, <1>2, SumPicked
  <2>4. f[c] \in Int /\ g[c] = a * f[c]
    BY <2>1
  <2>5. SumFunctionOnSet(f, u \ {c}) \in Int
    BY <1>0, <2>1
  <2> HIDE DEF c
  <2>6. SumFunctionOnSet(g, u) = a * SumFunctionOnSet(f, u)
    <3>1. \A x, y \in Int : a * (x + y) = a * x + a * y
      OBVIOUS
    <3> QED BY <2>2, <2>3, <2>4, <2>5, <3>1
  <2> QED BY <2>6
<1>3. SUBSET S \subseteq P
  <2> HIDE DEF P
  <2> QED BY <1>1, <1>2, SetClimb
<1> QED BY <1>3

\* A sum taken by groups: each term is counted in the group of its key.
THEOREM SumGroups ==
    ASSUME NEW f, NEW S, IsFiniteSet(S), \A x \in S : f[x] \in Int,
           NEW R, IsFiniteSet(R), NEW key, \A x \in S : key[x] \in R
    PROVE  SumFunctionOnSet([r \in R |-> SumFunctionOnSet(f, {x \in S : key[x] = r})], R)
             = SumFunctionOnSet(f, S)
<1> DEFINE Of(u, r) == {x \in u : key[x] = r}
           G(u) == [r \in R |-> SumFunctionOnSet(f, Of(u, r))]
           P == {u \in SUBSET S : SumFunctionOnSet(G(u), R) = SumFunctionOnSet(f, u)}
<1>0. \A v \in SUBSET S : IsFiniteSet(v) /\ Cardinality(v) \in Nat /\ SumFunctionOnSet(f, v) \in Int
  BY FS_Subset, FS_CardinalityType, SumType
<1>01. \A v \in SUBSET S, r \in R : G(v)[r] = SumFunctionOnSet(f, Of(v, r)) /\ G(v)[r] \in Int
  <2>1. ASSUME NEW v \in SUBSET S, NEW r \in R
        PROVE  Of(v, r) \in SUBSET S
    OBVIOUS
  <2> HIDE DEF Of
  <2> QED BY <1>0, <2>1
<1>1. {} \in P
  <2>1. \A r \in R : Of({}, r) = {}
    OBVIOUS
  <2>2. \A r \in R : G({})[r] = 0
    <3> HIDE DEF Of
    <3> QED BY <2>1, SumEmpty
  <2> HIDE DEF G
  <2>3. SumFunctionOnSet(G({}), R) = 0
    BY <2>2, SumZeros
  <2> QED BY <2>3, SumEmpty
<1>2. ASSUME NEW u \in SUBSET S, u # {}, \A w \in SUBSET S : Cardinality(w) < Cardinality(u) => w \in P
      PROVE  u \in P
  <2> DEFINE c == Picked(u)  v == u \ {c}
  <2>1. /\ c \in u /\ c \in S /\ v \in SUBSET S /\ Cardinality(v) < Cardinality(u)
        /\ c \notin v /\ u = v \cup {c}
    BY <1>0, <1>2, Smaller
  <2> HIDE DEF c, v
  <2>2. v \in P
    BY <1>2, <2>1
  <2>3. SumFunctionOnSet(f, u) = f[c] + SumFunctionOnSet(f, v) /\ f[c] \in Int
    BY <1>0, <2>1, SumAdd
  <2>4. key[c] \in R
    BY <2>1
  <2>5. \A r \in R : r # key[c] => G(u)[r] = G(v)[r]
    <3>1. \A r \in R : r # key[c] => Of(u, r) = Of(v, r)
      BY <2>1
    <3> HIDE DEF Of
    <3> QED BY <3>1
  <2>6. G(u)[key[c]] = f[c] + G(v)[key[c]]
    <3>1. Of(u, key[c]) = Of(v, key[c]) \cup {c} /\ c \notin Of(v, key[c]) /\ Of(v, key[c]) \in SUBSET S
      BY <2>1
    <3> HIDE DEF Of
    <3>2. SumFunctionOnSet(f, Of(v, key[c]) \cup {c}) = f[c] + SumFunctionOnSet(f, Of(v, key[c]))
      BY <1>0, <2>3, <3>1, SumAdd
    <3> QED BY <2>4, <3>1, <3>2
  <2> HIDE DEF G
  <2>7. SumFunctionOnSet(G(u), R) = SumFunctionOnSet(G(v), R) + G(u)[key[c]] - G(v)[key[c]]
    <3>1. \A r \in R : G(u)[r] \in Int /\ G(v)[r] \in Int
      BY <1>01, <2>1
    <3> QED BY <2>4, <2>5, <3>1, SumPut
  <2>8. SumFunctionOnSet(G(v), R) = SumFunctionOnSet(f, v)
    BY <2>2
  <2>9. SumFunctionOnSet(f, v) \in Int /\ G(v)[key[c]] \in Int
    BY <1>0, <1>01, <2>1, <2>4
  <2>10. SumFunctionOnSet(G(u), R) = SumFunctionOnSet(f, u)
    BY <2>3, <2>6, <2>7, <2>8, <2>9
  <2> QED BY <2>10
<1>3. SUBSET S \subseteq P
  <2> HIDE DEF P
  <2> QED BY <1>1, <1>2, SetClimb
<1>4. SumFunctionOnSet(G(S), R) = SumFunctionOnSet(f, S)
  BY <1>3
<1> QED BY <1>4

\* Counting is adding ones.
THEOREM SumCount ==
    ASSUME NEW S, IsFiniteSet(S), NEW T \in SUBSET S
    PROVE  SumFunctionOnSet([x \in S |-> IF x \in T THEN 1 ELSE 0], S) = Cardinality(T)
<1> DEFINE g == [x \in S |-> IF x \in T THEN 1 ELSE 0]
           P == {u \in SUBSET S : SumFunctionOnSet(g, u) = Cardinality(u \cap T)}
<1>0. \A v \in SUBSET S : IsFiniteSet(v) /\ Cardinality(v) \in Nat /\ Cardinality(v \cap T) \in Nat
  <2>1. \A v \in SUBSET S : v \cap T \in SUBSET S
    OBVIOUS
  <2> QED BY <2>1, FS_Subset, FS_CardinalityType
<1>01. \A x \in S : g[x] = (IF x \in T THEN 1 ELSE 0) /\ g[x] \in Int
  OBVIOUS
<1> HIDE DEF g
<1>1. {} \in P
  <2>1. {} \cap T = {} /\ Cardinality({}) = 0
    BY FS_EmptySet
  <2> QED BY <2>1, SumEmpty
<1>2. ASSUME NEW u \in SUBSET S, u # {}, \A w \in SUBSET S : Cardinality(w) < Cardinality(u) => w \in P
      PROVE  u \in P
  <2> DEFINE c == Picked(u)  v == u \ {c}
  <2>0. IsFiniteSet(u) /\ u # {}
    BY <1>0, <1>2
  <2>1. c \in u /\ c \in S /\ v \in SUBSET S /\ Cardinality(v) < Cardinality(u)
    <3>0. /\ c \in u /\ v \subseteq u /\ Cardinality(u) \in Nat
          /\ Cardinality(v) = Cardinality(u) - 1
      BY <2>0, Smaller
    <3>1. c \in u /\ v \subseteq u /\ Cardinality(v) < Cardinality(u)
      BY <3>0
    <3> HIDE DEF c, v
    <3> QED BY <1>2, <3>1
  <2>2. SumFunctionOnSet(g, u) = g[c] + SumFunctionOnSet(g, v)
    BY <1>0, <1>2, SumPicked
  <2>3. SumFunctionOnSet(g, v) = Cardinality(v \cap T)
    BY <1>2, <2>1
  <2>4. /\ c \in T => Cardinality(v \cap T) = Cardinality(u \cap T) - 1
        /\ c \notin T => Cardinality(v \cap T) = Cardinality(u \cap T)
    <3>1. v \cap T = (u \cap T) \ {c} /\ IsFiniteSet(u \cap T) /\ (c \in u \cap T <=> c \in T)
      <4>1. u \cap T \in SUBSET S
        OBVIOUS
      <4> QED BY <2>1, <4>1, FS_Subset
    <3>2. c \in T => Cardinality((u \cap T) \ {c}) = Cardinality(u \cap T) - 1
      BY <3>1, FS_RemoveElement
    <3>3. c \notin T => (u \cap T) \ {c} = u \cap T
      BY <3>1
    <3> HIDE DEF c, v
    <3> QED BY <3>1, <3>2, <3>3
  <2>5. g[c] = IF c \in T THEN 1 ELSE 0
    BY <1>01, <2>1
  <2>6. Cardinality(u \cap T) \in Nat
    BY <1>0
  <2> HIDE DEF c, v
  <2>7. SumFunctionOnSet(g, u) = Cardinality(u \cap T)
    BY <2>2, <2>3, <2>4, <2>5, <2>6
  <2> QED BY <2>7
<1>3. SUBSET S \subseteq P
  <2> HIDE DEF P
  <2> QED BY <1>1, <1>2, SetClimb
<1>4. SumFunctionOnSet(g, S) = Cardinality(S \cap T) /\ S \cap T = T
  BY <1>3
<1> QED BY <1>4 DEF g

\* A set is two of its parts.
THEOREM SumSplit ==
    ASSUME NEW f, NEW S, IsFiniteSet(S), \A x \in S : f[x] \in Int, NEW T \in SUBSET S
    PROVE  SumFunctionOnSet(f, S) = SumFunctionOnSet(f, T) + SumFunctionOnSet(f, S \ T)
<1> DEFINE key == [x \in S |-> IF x \in T THEN 1 ELSE 2]
           g == [r \in {1, 2} |-> SumFunctionOnSet(f, {x \in S : key[x] = r})]
<1>1. IsFiniteSet({1, 2}) /\ {1, 2} \ {1} = {2} /\ {2} \ {2} = {} /\ IsFiniteSet({2})
  <2>1. IsFiniteSet({2})
    BY FS_Singleton
  <2>2. IsFiniteSet({2} \cup {1}) /\ {2} \cup {1} = {1, 2}
    BY <2>1, FS_AddElement
  <2> QED BY <2>1, <2>2
<1>2. \A x \in S : key[x] \in {1, 2}
  OBVIOUS
<1>3. {x \in S : key[x] = 1} = T /\ {x \in S : key[x] = 2} = S \ T
  OBVIOUS
<1>4. g[1] = SumFunctionOnSet(f, T) /\ g[2] = SumFunctionOnSet(f, S \ T)
  BY <1>3
<1>5. IsFiniteSet(T) /\ IsFiniteSet(S \ T)
  BY FS_Subset
<1>6. g[1] \in Int /\ g[2] \in Int
  <2>1. SumFunctionOnSet(f, T) \in Int /\ SumFunctionOnSet(f, S \ T) \in Int
    BY <1>5, SumType
  <2> HIDE DEF g
  <2> QED BY <1>4, <2>1
<1>7. SumFunctionOnSet(g, {1, 2}) = SumFunctionOnSet(f, S)
  <2> DEFINE R == {1, 2}
  <2>1. IsFiniteSet(R) /\ \A x \in S : key[x] \in R
    BY <1>1, <1>2
  <2> HIDE DEF key, R
  <2>2. SumFunctionOnSet([r \in R |-> SumFunctionOnSet(f, {x \in S : key[x] = r})], R)
          = SumFunctionOnSet(f, S)
    BY <2>1, SumGroups
  <2> QED BY <2>2 DEF R
<1> HIDE DEF g, key
<1>8. SumFunctionOnSet(g, {1, 2}) = g[1] + SumFunctionOnSet(g, {2})
  <2>1. \A y \in {1, 2} : g[y] \in Int
    BY <1>6
  <2>2. SumFunctionOnSet(g, {1, 2}) = g[1] + SumFunctionOnSet(g, {1, 2} \ {1})
    BY <1>1, <2>1, SumTake
  <2> QED BY <1>1, <2>2
<1>9. SumFunctionOnSet(g, {2}) = g[2]
  <2>1. \A y \in {2} : g[y] \in Int
    BY <1>6
  <2>2. SumFunctionOnSet(g, {2}) = g[2] + SumFunctionOnSet(g, {2} \ {2})
    BY <1>1, <2>1, SumTake
  <2> QED BY <1>1, <1>6, <2>2, SumEmpty
<1> QED BY <1>4, <1>6, <1>7, <1>8, <1>9

\* What is nothing outside of a part.
THEOREM SumOnly ==
    ASSUME NEW f, NEW g, NEW S, IsFiniteSet(S), NEW T \in SUBSET S,
           \A x \in T : f[x] \in Int /\ g[x] = f[x], \A x \in S \ T : g[x] = 0
    PROVE  SumFunctionOnSet(g, S) = SumFunctionOnSet(f, T)
<1>1. \A x \in S : g[x] \in Int
  OBVIOUS
<1>2. IsFiniteSet(T) /\ IsFiniteSet(S \ T)
  BY FS_Subset
<1>3. SumFunctionOnSet(g, S) = SumFunctionOnSet(g, T) + SumFunctionOnSet(g, S \ T)
  BY <1>1, SumSplit
<1>4. SumFunctionOnSet(g, S \ T) = 0
  BY <1>2, SumZeros
<1>5. SumFunctionOnSet(f, T) = SumFunctionOnSet(g, T)
  BY <1>2, SumSame
<1>6. SumFunctionOnSet(f, T) \in Int
  BY <1>2, SumType
<1> QED BY <1>3, <1>4, <1>5, <1>6

\* The same amounts under other names.
THEOREM SumMoved ==
    ASSUME NEW f, NEW g, NEW S, NEW T, IsFiniteSet(S), IsFiniteSet(T), \A x \in S : f[x] \in Int,
           NEW b, \A x \in S : b[x] \in T /\ g[b[x]] = f[x],
           \A t \in T : \E x \in S : b[x] = t,
           \A x, y \in S : b[x] = b[y] => x = y
    PROVE  SumFunctionOnSet(f, S) = SumFunctionOnSet(g, T)
<1> DEFINE h == [t \in T |-> SumFunctionOnSet(f, {x \in S : b[x] = t})]
<1>1. SumFunctionOnSet(h, T) = SumFunctionOnSet(f, S)
  BY SumGroups
<1>2. \A t \in T : g[t] \in Int /\ h[t] = g[t]
  <2> TAKE t \in T
  <2>1. PICK x \in S : b[x] = t
    OBVIOUS
  <2>2. {y \in S : b[y] = t} = {x} /\ {x} \ {x} = {} /\ IsFiniteSet({x})
    BY <2>1, FS_Singleton
  <2>3. h[t] = SumFunctionOnSet(f, {x})
    BY <2>2
  <2> HIDE DEF h
  <2>4. SumFunctionOnSet(f, {x}) = f[x] + SumFunctionOnSet(f, {x} \ {x})
    <3>1. \A y \in {x} : f[y] \in Int
      OBVIOUS
    <3>2. x \in {x}
      OBVIOUS
    <3> QED BY <2>2, <3>1, <3>2, SumTake
  <2>5. SumFunctionOnSet(f, {x}) = f[x]
    BY <2>2, <2>4, SumEmpty
  <2> QED BY <2>1, <2>3, <2>5
<1> HIDE DEF h
<1>3. SumFunctionOnSet(h, T) = SumFunctionOnSet(g, T)
  <2>1. \A t \in T : h[t] \in Int /\ g[t] = h[t]
    BY <1>2
  <2> QED BY <2>1, SumSame
<1> QED BY <1>1, <1>3

-----------------------------------------------------------------------------
(* Ranks in a finite set that is ordered.                                   *)

\* before[x]: what comes before x, of a strict and total order.
IsOrder(before, S) ==
    /\ before \in [S -> SUBSET S]
    /\ \A x \in S : x \notin before[x]
    /\ \A x, y \in S : x # y => x \in before[y] \/ y \in before[x]
    /\ \A x, y \in S : y \in before[x] => before[y] \subseteq before[x]

\* The ranks are the numbers from nothing to the size of the set, each given once.
THEOREM RanksGiven ==
    ASSUME NEW S, IsFiniteSet(S), NEW before, IsOrder(before, S)
    PROVE  /\ \A x \in S : Cardinality(before[x]) \in 0..(Cardinality(S) - 1)
           /\ \A x, y \in S : Cardinality(before[x]) < Cardinality(before[y]) <=> x \in before[y]
           /\ \A k \in 0..(Cardinality(S) - 1) : \E x \in S : Cardinality(before[x]) = k
<1> DEFINE n == Cardinality(S)
           rank == [x \in S |-> Cardinality(before[x])]
<1>0. n \in Nat
  BY FS_CardinalityType
<1>1. \A x \in S : before[x] \in SUBSET S /\ IsFiniteSet(before[x]) /\ Cardinality(before[x]) \in Nat
  BY FS_Subset, FS_CardinalityType DEF IsOrder
<1>2. ASSUME NEW x \in S, NEW y \in S, x \in before[y]
      PROVE  Cardinality(before[x]) < Cardinality(before[y])
  <2>1. before[x] \in SUBSET before[y] /\ before[x] # before[y]
    BY <1>2 DEF IsOrder
  <2>2. Cardinality(before[x]) <= Cardinality(before[y]) /\ Cardinality(before[x]) # Cardinality(before[y])
    BY <1>1, <2>1, FS_Subset
  <2> QED BY <1>1, <2>2
<1>3. \A x \in S : Cardinality(before[x]) \in 0..(n - 1)
  <2> TAKE x \in S
  <2>1. before[x] \in SUBSET S /\ before[x] # S
    BY DEF IsOrder
  <2>2. Cardinality(before[x]) <= n /\ Cardinality(before[x]) # n
    BY <2>1, FS_Subset
  <2> QED BY <1>0, <1>1, <2>2
<1>4. \A x, y \in S : Cardinality(before[x]) < Cardinality(before[y]) <=> x \in before[y]
  <2> TAKE x, y \in S
  <2>1. x = y \/ x \in before[y] \/ y \in before[x]
    BY DEF IsOrder
  <2>2. x \in before[y] => Cardinality(before[x]) < Cardinality(before[y])
    BY <1>2
  <2>3. y \in before[x] => Cardinality(before[y]) < Cardinality(before[x])
    BY <1>2
  <2>4. x = y => x \notin before[y]
    BY DEF IsOrder
  <2> QED BY <1>1, <2>1, <2>2, <2>3, <2>4
<1>5. rank \in Injection(S, 0..(n - 1))
  <2>1. rank \in [S -> 0..(n - 1)]
    BY <1>3
  <2>2. \A x, y \in S : rank[x] = rank[y] => x = y
    <3> SUFFICES ASSUME NEW x \in S, NEW y \in S, rank[x] = rank[y], x # y PROVE FALSE
      OBVIOUS
    <3>1. x \in before[y] \/ y \in before[x]
      BY DEF IsOrder
    <3>2. rank[x] < rank[y] \/ rank[y] < rank[x]
      BY <1>2, <3>1
    <3> QED BY <1>1, <3>2
  <2> QED BY <2>1, <2>2 DEF Injection, IsInjective
<1>6. Cardinality(0..(n - 1)) = n /\ IsFiniteSet(0..(n - 1))
  BY <1>0, FS_Interval
<1>7. rank \in Surjection(S, 0..(n - 1))
  <2> HIDE DEF rank
  <2> QED BY <1>5, <1>6, FS_Injection
<1>8. \A k \in 0..(n - 1) : \E x \in S : rank[x] = k
  BY <1>7 DEF Surjection
<1> QED BY <1>3, <1>4, <1>8

\* As many have a rank below a number as the number says.
THEOREM FirstRanks ==
    ASSUME NEW S, IsFiniteSet(S), NEW before, IsOrder(before, S), NEW k \in 0..Cardinality(S)
    PROVE  Cardinality({x \in S : Cardinality(before[x]) < k}) = k
<1> DEFINE T == {x \in S : Cardinality(before[x]) < k}
           rank == [x \in T |-> Cardinality(before[x])]
<1>0. Cardinality(S) \in Nat /\ T \in SUBSET S /\ IsFiniteSet(T)
  BY FS_CardinalityType, FS_Subset
<1>1. \A x \in S : Cardinality(before[x]) \in 0..(Cardinality(S) - 1)
  BY RanksGiven
<1>2. \A x, y \in S : Cardinality(before[x]) < Cardinality(before[y]) <=> x \in before[y]
  BY RanksGiven
<1>3. \A j \in 0..(Cardinality(S) - 1) : \E x \in S : Cardinality(before[x]) = j
  BY RanksGiven
<1>4. rank \in [T -> 0..(k - 1)]
  BY <1>0, <1>1
<1>5. \A x, y \in T : rank[x] = rank[y] => x = y
  <2> TAKE x, y \in T
  <2>1. x = y \/ x \in before[y] \/ y \in before[x]
    BY DEF IsOrder
  <2>2. rank[x] = rank[y] => x \notin before[y] /\ y \notin before[x]
    BY <1>1, <1>2
  <2> QED BY <2>1, <2>2
<1>6. \A j \in 0..(k - 1) : \E x \in T : rank[x] = j
  <2> TAKE j \in 0..(k - 1)
  <2>1. j \in 0..(Cardinality(S) - 1) /\ j < k
    BY <1>0
  <2>2. PICK x \in S : Cardinality(before[x]) = j
    BY <1>3, <2>1
  <2> QED BY <2>1, <2>2
<1>7. ExistsBijection(T, 0..(k - 1))
  <2> HIDE DEF T, rank
  <2>1. rank \in Bijection(T, 0..(k - 1))
    BY <1>4, <1>5, <1>6 DEF Bijection, Injection, Surjection, IsInjective
  <2> QED BY <2>1 DEF ExistsBijection
<1>8. Cardinality(T) = Cardinality(0..(k - 1))
  BY <1>0, <1>7, FS_Bijection
<1>9. k \in Int /\ Cardinality(0..(k - 1)) = k
  BY <1>0, FS_Interval
<1> QED BY <1>8, <1>9

-----------------------------------------------------------------------------
(* The least and the greatest of some numbers.                             *)

\* A set of numbers that is not empty has a least one, and a finite one has a greatest.
LEMMA LeastIs ==
  ASSUME NEW T \in SUBSET Nat, T # {}
  PROVE  Min(T) \in T /\ \A x \in T : Min(T) <= x
BY NatMin DEF Min

LEMMA GreatestIs ==
  ASSUME NEW T \in SUBSET Nat, T # {}, IsFiniteSet(T)
  PROVE  Max(T) \in T /\ \A x \in T : x <= Max(T)
<1> DEFINE P == {U \in SUBSET T : U # {} => \E m \in U : \A x \in U : m >= x}
<1>1. {} \in P
  OBVIOUS
<1>2. ASSUME NEW U \in SUBSET T, U # {},
             \A V \in SUBSET T : Cardinality(V) < Cardinality(U) => V \in P
      PROVE  U \in P
  <2>1. PICK u : u \in U
    BY <1>2
  <2>2. IsFiniteSet(U)
    BY FS_Subset
  <2>3. U \ {u} \in SUBSET T /\ Cardinality(U \ {u}) < Cardinality(U)
    <3>1. Cardinality(U \ {u}) = Cardinality(U) - 1 /\ Cardinality(U) \in Nat
      BY <2>1, <2>2, FS_RemoveElement, FS_CardinalityType
    <3>2. Cardinality(U \ {u}) < Cardinality(U)
      BY <3>1
    <3> QED BY <3>2
  <2>4. U \ {u} \in P
    BY <1>2, <2>3
  <2>5. CASE U \ {u} = {}
    BY <2>1, <2>5
  <2>6. CASE U \ {u} # {}
    <3>1. PICK m \in U \ {u} : \A x \in U \ {u} : m >= x
      BY <2>4, <2>6
    <3>2. CASE m >= u
      BY <2>1, <3>1, <3>2
    <3>3. CASE u > m
      BY <2>1, <3>1, <3>3
    <3> QED BY <2>1, <3>1, <3>2, <3>3
  <2> QED BY <2>5, <2>6
<1>3. T \in P
  <2> HIDE DEF P
  <2> QED BY <1>1, <1>2, SetClimb
<1> QED BY <1>3 DEF Max

=============================================================================
