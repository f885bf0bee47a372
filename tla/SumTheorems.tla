---------------------------- MODULE SumTheorems ----------------------------
(***************************************************************************)
(* Sums of functions over finite sets.  Every conservation property of the *)
(* contracts compares a counter with SumFunction of a table; these lemmas  *)
(* say how such a sum changes when a table does.  SumFunction is a fold,   *)
(* whose order is a CHOOSE: the lemmas down to SumOnSplit show that it is  *)
(* defined for every finite set and does not depend on that order.         *)
(* Induction is over sets of counterexamples (NaturalInduction and         *)
(* SetInduction take a set, not a predicate).                              *)
(***************************************************************************)
EXTENDS Integers, FiniteSets, Functions, FiniteSetTheorems,
        WellFoundedInduction, TLAPS

\* A set that has 0 and, with a number, its successor has every number.
LEMMA NaturalInduction ==
  ASSUME NEW Q, 0 \in Q, \A n \in Nat : n \in Q => n + 1 \in Q
  PROVE  Nat \subseteq Q
<1>1. SUFFICES ASSUME NEW B, B = Nat \ Q, B # {}
               PROVE  FALSE
  OBVIOUS
<1>2. \E x \in B : \A y \in B : ~ (<<y, x>> \in OpToRel(<, Nat))
  BY <1>1, NatLessThanWellFounded, WFMin
<1>3. PICK x \in B : \A y \in B : ~ (y < x)
  <2>1. \A x, y \in Nat : y < x => <<y, x>> \in OpToRel(<, Nat)
    BY DEF OpToRel
  <2> QED
    BY <1>1, <1>2, <2>1
<1>4. x # 0 /\ x \in Nat /\ x - 1 \in Nat /\ x - 1 < x
  BY <1>1
<1>5. x - 1 \in Q
  BY <1>1, <1>3, <1>4
<1>6. x \in Q
  BY <1>4, <1>5
<1> QED
  BY <1>1, <1>6

\* A set that has every subset of S whose proper subsets it has, has the finite
\* set S.
LEMMA SetInduction ==
  ASSUME NEW S, IsFiniteSet(S), NEW Q,
         \A T \in SUBSET S : (\A U \in SUBSET T : U # T => U \in Q) => T \in Q
  PROVE  S \in Q
<1> DEFINE B == (SUBSET S) \ Q
<1>1. SUFFICES ASSUME B # {}
               PROVE  FALSE
  OBVIOUS
<1>2. IsWellFoundedOn(StrictSubsetOrdering(S), SUBSET S)
  BY FS_StrictSubsetOrderingWellFounded, FS_FiniteSubsetsOfFinite
<1>3. \E T \in B : \A U \in B : ~ (<<U, T>> \in StrictSubsetOrdering(S))
  <2>1. B \subseteq SUBSET S
    OBVIOUS
  <2> HIDE DEF B
  <2> QED
    BY <1>1, <1>2, <2>1, WFMin
<1>4. PICK T \in B : \A U \in B : ~ (U \subseteq T /\ U # T)
  <2>1. \A T, U \in SUBSET S :
           U \subseteq T /\ U # T => <<U, T>> \in StrictSubsetOrdering(S)
    BY DEF StrictSubsetOrdering
  <2>2. PICK T \in B : \A U \in B : ~ (<<U, T>> \in StrictSubsetOrdering(S))
    BY <1>3
  <2>3. \A U \in B : ~ (U \subseteq T /\ U # T)
    <3>1. SUFFICES ASSUME NEW U \in B, U \subseteq T, U # T
                   PROVE  FALSE
      OBVIOUS
    <3>2. T \in SUBSET S /\ U \in SUBSET S
      OBVIOUS
    <3> QED
      BY <2>1, <2>2, <3>1, <3>2
  <2> QED
    BY <2>3
<1>5. \A U \in SUBSET T : U # T => U \in Q
  BY <1>4
<1> QED
  BY <1>4, <1>5

\* The order and the steps of the fold, and the function it builds.
SumPick(s) == CHOOSE x \in s : TRUE

SumStep(f, h, s) == IF s = {} THEN 0 ELSE f[SumPick(s)] + h[s \ {SumPick(s)}]

Running(f, D) == CHOOSE h : h = [s \in SUBSET D |-> SumStep(f, h, s)]

\* The sum is the last value of the running total.
LEMMA RunningTotal ==
  ASSUME NEW f, NEW S
  PROVE  SumFunctionOnSet(f, S) = Running(f, S)[S]
BY DEF SumFunctionOnSet, FoldFunctionOnSet, MapThenFoldSet, Running, SumStep, SumPick

\* The element picked is one of the set.
LEMMA PickIn == \A s : s # {} => SumPick(s) \in s
BY DEF SumPick

\* The running total satisfies its recursive equation on the subsets of a finite
\* set.
LEMMA RunningDef ==
  ASSUME NEW f, NEW D, IsFiniteSet(D)
  PROVE  \A s \in SUBSET D : Running(f, D)[s] = SumStep(f, Running(f, D), s)
<1> DEFINE Small(n) == {s \in SUBSET D : Cardinality(s) <= n}
           Total(h, n) == h = [s \in Small(n) |-> SumStep(f, h, s)]
           Q == {n \in Nat : \E h : Total(h, n)}
<1>1. \A s \in SUBSET D : IsFiniteSet(s) /\ Cardinality(s) \in Nat
  BY FS_Subset, FS_CardinalityType
<1>2. \A n \in Nat : \A s \in Small(n + 1) : s # {} => s \ {SumPick(s)} \in Small(n)
  BY <1>1, PickIn, FS_RemoveElement
<1>3. 0 \in Q
  <2>1. \A s \in Small(0) : s = {}
    BY <1>1, FS_EmptySet
  <2>2. Total([s \in Small(0) |-> 0], 0)
    BY <2>1 DEF SumStep
  <2> QED
    BY <2>2
<1>4. ASSUME NEW n \in Nat, n \in Q
      PROVE  n + 1 \in Q
  <2>1. PICK h : Total(h, n)
    BY <1>4
  <2> DEFINE g == [s \in Small(n + 1) |-> SumStep(f, h, s)]
  <2>2. \A s \in Small(n) : s \in Small(n + 1) /\ g[s] = h[s]
    <3>1. \A s \in Small(n) : s \in Small(n + 1)
      BY <1>1
    <3>2. \A s \in Small(n) : h[s] = SumStep(f, h, s)
      BY <2>1
    <3> QED
      BY <3>1, <3>2
  <2>3. \A s \in Small(n + 1) : SumStep(f, g, s) = SumStep(f, h, s)
    BY <1>2, <2>2 DEF SumStep
  <2>4. Total(g, n + 1)
    BY <2>3
  <2>5. \E k : Total(k, n + 1)
    <3> HIDE DEF g, Total
    <3> QED
      BY <2>4
  <2> QED
    BY <2>5
<1>5. Cardinality(D) \in Q
  BY <1>1, <1>3, <1>4, NaturalInduction
<1>6. Small(Cardinality(D)) = SUBSET D
  BY <1>1, FS_Subset
<1>7. \E h : h = [s \in SUBSET D |-> SumStep(f, h, s)]
  BY <1>5, <1>6
<1>8. Running(f, D) = [s \in SUBSET D |-> SumStep(f, Running(f, D), s)]
  BY <1>7 DEF Running
<1> QED
  BY <1>8

\* The running total at S depends on the values at S only.
LEMMA RunningAgrees ==
  ASSUME NEW f, NEW g, NEW D, IsFiniteSet(D), NEW S \in SUBSET D,
         \A x \in S : f[x] = g[x]
  PROVE  Running(f, D)[S] = Running(g, S)[S]
<1> DEFINE Same(n) == \A s \in SUBSET S : Cardinality(s) <= n => Running(f, D)[s] = Running(g, S)[s]
           Q == {n \in Nat : Same(n)}
<1>1. \A s \in SUBSET S : IsFiniteSet(s) /\ Cardinality(s) \in Nat
  BY FS_Subset, FS_CardinalityType
<1>2. IsFiniteSet(S)
  BY <1>1
<1>3. \A s \in SUBSET S : Running(f, D)[s] = SumStep(f, Running(f, D), s)
  BY RunningDef
<1>4. \A s \in SUBSET S : Running(g, S)[s] = SumStep(g, Running(g, S), s)
  BY <1>2, RunningDef
<1>5. 0 \in Q
  <2>1. \A s \in SUBSET S : Cardinality(s) <= 0 => s = {}
    BY <1>1, FS_EmptySet
  <2> QED
    BY <1>3, <1>4, <2>1 DEF SumStep
<1>6. ASSUME NEW n \in Nat, n \in Q
      PROVE  n + 1 \in Q
  <2>1. SUFFICES ASSUME NEW s \in SUBSET S, Cardinality(s) <= n + 1, s # {}
                 PROVE  Running(f, D)[s] = Running(g, S)[s]
    <3>1. Running(f, D)[{}] = Running(g, S)[{}]
      BY <1>3, <1>4 DEF SumStep
    <3> QED
      BY <3>1
  <2>2. SumPick(s) \in s /\ s \ {SumPick(s)} \in SUBSET S
    BY <2>1, PickIn
  <2>3. Cardinality(s \ {SumPick(s)}) <= n
    BY <1>1, <2>1, <2>2, FS_RemoveElement
  <2>4. Running(f, D)[s \ {SumPick(s)}] = Running(g, S)[s \ {SumPick(s)}]
    BY <1>6, <2>2, <2>3
  <2>5. f[SumPick(s)] = g[SumPick(s)]
    BY <2>2
  <2> QED
    BY <1>3, <1>4, <2>1, <2>4, <2>5 DEF SumStep
<1>7. Same(Cardinality(S))
  BY <1>1, <1>5, <1>6, NaturalInduction
<1> QED
  BY <1>1, <1>2, <1>7

\* The empty sum.
LEMMA SumOfNothing ==
  ASSUME NEW f
  PROVE  SumFunctionOnSet(f, {}) = 0
BY RunningTotal, RunningDef, FS_EmptySet DEF SumStep

\* The first step of the fold.
LEMMA SumFromPick ==
  ASSUME NEW f, NEW S, IsFiniteSet(S), S # {}
  PROVE  SumFunctionOnSet(f, S) = f[SumPick(S)] + SumFunctionOnSet(f, S \ {SumPick(S)})
<1> DEFINE T == S \ {SumPick(S)}
<1>1. Running(f, S)[S] = f[SumPick(S)] + Running(f, S)[T]
  BY RunningDef DEF SumStep
<1>2. Running(f, S)[T] = Running(f, T)[T]
  BY RunningAgrees
<1> QED
  BY <1>1, <1>2, RunningTotal

\* Functions that agree on a set have the same sum over it.
LEMMA SumOnAgrees ==
  ASSUME NEW f, NEW g, NEW S, IsFiniteSet(S), \A x \in S : f[x] = g[x]
  PROVE  SumFunctionOnSet(f, S) = SumFunctionOnSet(g, S)
BY RunningAgrees, RunningTotal

\* A sum of integers is an integer.
LEMMA SumOnIsInt ==
  ASSUME NEW f, NEW S, IsFiniteSet(S), \A x \in S : f[x] \in Int
  PROVE  SumFunctionOnSet(f, S) \in Int
<1> DEFINE Q == {T \in SUBSET S : SumFunctionOnSet(f, T) \in Int}
<1>1. ASSUME NEW T \in SUBSET S, \A U \in SUBSET T : U # T => U \in Q
      PROVE  T \in Q
  <2>1. CASE T = {}
    BY <2>1, SumOfNothing
  <2>2. CASE T # {}
    <3>1. IsFiniteSet(T)
      BY FS_Subset
    <3>2. SumPick(T) \in T
      BY <2>2, PickIn
    <3>3. T \ {SumPick(T)} \in Q
      BY <1>1, <3>2
    <3> QED
      BY <2>2, <3>1, <3>2, <3>3, SumFromPick
  <2> QED
    BY <2>1, <2>2
<1>2. S \in Q
  <2> HIDE DEF Q
  <2> QED
    BY <1>1, SetInduction
<1> QED
  BY <1>2

\* Any element can be split off, not only the one the fold picks.
LEMMA SumOnSplit ==
  ASSUME NEW f, NEW S, IsFiniteSet(S), \A y \in S : f[y] \in Int, NEW x \in S
  PROVE  SumFunctionOnSet(f, S) = f[x] + SumFunctionOnSet(f, S \ {x})
<1> DEFINE Sum(T) == SumFunctionOnSet(f, T)
           Q == {T \in SUBSET S : \A z \in T : Sum(T) = f[z] + Sum(T \ {z})}
<1>1. ASSUME NEW T \in SUBSET S, \A U \in SUBSET T : U # T => U \in Q
      PROVE  T \in Q
  <2>1. SUFFICES ASSUME NEW z \in T
                 PROVE  Sum(T) = f[z] + Sum(T \ {z})
    OBVIOUS
  <2> DEFINE c == SumPick(T)
  <2>2. IsFiniteSet(T) /\ c \in T
    BY FS_Subset, PickIn
  <2>3. Sum(T) = f[c] + Sum(T \ {c})
    BY <2>2, SumFromPick
  <2>4. CASE z = c
    BY <2>3, <2>4
  <2>5. CASE z # c
    <3>1. T \ {c} \in Q /\ T \ {z} \in Q
      BY <1>1, <2>2
    <3>2. (T \ {c}) \ {z} = (T \ {z}) \ {c}
      OBVIOUS
    <3>3. Sum(T \ {c}) = f[z] + Sum((T \ {c}) \ {z})
      BY <2>5, <3>1
    <3>4. Sum(T \ {z}) = f[c] + Sum((T \ {c}) \ {z})
      BY <2>2, <2>5, <3>1, <3>2
    <3>5. Sum((T \ {c}) \ {z}) \in Int
      BY <2>2, FS_Subset, SumOnIsInt
    <3>6. f[c] \in Int /\ f[z] \in Int
      BY <2>2
    <3> HIDE DEF Sum, c
    <3> QED
      BY <2>3, <3>3, <3>4, <3>5, <3>6
  <2> QED
    BY <2>4, <2>5
<1>2. S \in Q
  <2> HIDE DEF Q
  <2> QED
    BY <1>1, SetInduction
<1> QED
  BY <1>2

-----------------------------------------------------------------------------
(***************************************************************************)
(* How the sum of a table follows the table.                               *)
(***************************************************************************)

\* The sum of an integer table is an integer.
LEMMA SumIsInt ==
  ASSUME NEW S, IsFiniteSet(S), NEW f \in [S -> Int]
  PROVE  SumFunction(f) \in Int
BY SumOnIsInt DEF SumFunction

\* The sum of a table of natural numbers is one.
LEMMA SumIsNat ==
  ASSUME NEW S, IsFiniteSet(S), NEW f \in [S -> Nat]
  PROVE  SumFunction(f) \in Nat
<1> DEFINE Q == {T \in SUBSET S : SumFunctionOnSet(f, T) \in Nat}
<1>1. ASSUME NEW T \in SUBSET S, \A U \in SUBSET T : U # T => U \in Q
      PROVE  T \in Q
  <2>1. CASE T = {}
    BY <2>1, SumOfNothing
  <2>2. CASE T # {}
    <3>1. PICK x \in T : TRUE
      BY <2>2
    <3>2. SumFunctionOnSet(f, T) = f[x] + SumFunctionOnSet(f, T \ {x})
      BY FS_Subset, SumOnSplit
    <3>3. T \ {x} \in Q
      BY <1>1
    <3> QED
      BY <3>2, <3>3
  <2> QED
    BY <2>1, <2>2
<1>2. S \in Q
  <2> HIDE DEF Q
  <2> QED
    BY <1>1, SetInduction
<1> QED
  BY <1>2 DEF SumFunction

\* The sum of the empty table.
LEMMA SumOfNone ==
  ASSUME NEW f, DOMAIN f = {}
  PROVE  SumFunction(f) = 0
BY SumOfNothing DEF SumFunction

\* A table grows by one key.
LEMMA SumAddKey ==
  ASSUME NEW S, IsFiniteSet(S), NEW f \in [S -> Int], NEW x, x \notin S,
         NEW g \in [S \cup {x} -> Int], \A y \in S : g[y] = f[y]
  PROVE  SumFunction(g) = SumFunction(f) + g[x]
<1>1. IsFiniteSet(S \cup {x}) /\ (S \cup {x}) \ {x} = S
  BY FS_AddElement
<1>2. SumFunctionOnSet(g, S \cup {x}) = g[x] + SumFunctionOnSet(g, S)
  BY <1>1, SumOnSplit
<1>3. SumFunctionOnSet(g, S) = SumFunctionOnSet(f, S)
  BY SumOnAgrees
<1>4. SumFunctionOnSet(f, S) \in Int /\ g[x] \in Int
  BY SumOnIsInt
<1> QED
  BY <1>2, <1>3, <1>4 DEF SumFunction

\* The same, for a domain known by another name.
LEMMA SumGrows ==
  ASSUME NEW S, IsFiniteSet(S), NEW x, x \notin S, NEW T, T = S \cup {x},
         NEW f \in [S -> Int], NEW g \in [T -> Int], \A y \in S : g[y] = f[y]
  PROVE  SumFunction(g) = SumFunction(f) + g[x]
BY SumAddKey

\* A table loses one key.
LEMMA SumDropKey ==
  ASSUME NEW S, IsFiniteSet(S), NEW f \in [S -> Int], NEW x \in S,
         NEW g \in [S \ {x} -> Int], \A y \in S \ {x} : g[y] = f[y]
  PROVE  SumFunction(g) = SumFunction(f) - f[x]
<1>1. IsFiniteSet(S \ {x})
  BY FS_RemoveElement
<1>2. SumFunctionOnSet(f, S) = f[x] + SumFunctionOnSet(f, S \ {x})
  BY SumOnSplit
<1>3. SumFunctionOnSet(g, S \ {x}) = SumFunctionOnSet(f, S \ {x})
  BY <1>1, SumOnAgrees
<1>4. SumFunctionOnSet(f, S \ {x}) \in Int /\ f[x] \in Int
  BY <1>1, SumOnIsInt
<1> QED
  BY <1>2, <1>3, <1>4 DEF SumFunction

\* The same, for a domain known by another name.
LEMMA SumShrinks ==
  ASSUME NEW S, IsFiniteSet(S), NEW x \in S, NEW T, T = S \ {x},
         NEW f \in [S -> Int], NEW g \in [T -> Int], \A y \in T : g[y] = f[y]
  PROVE  SumFunction(g) = SumFunction(f) - f[x]
BY SumDropKey

\* A table changes at one key.
LEMMA SumChangeKey ==
  ASSUME NEW S, IsFiniteSet(S), NEW f \in [S -> Int], NEW g \in [S -> Int], NEW x \in S,
         \A y \in S \ {x} : g[y] = f[y]
  PROVE  SumFunction(g) = SumFunction(f) - f[x] + g[x]
<1>1. IsFiniteSet(S \ {x})
  BY FS_RemoveElement
<1>2. SumFunctionOnSet(f, S) = f[x] + SumFunctionOnSet(f, S \ {x})
  BY SumOnSplit
<1>3. SumFunctionOnSet(g, S) = g[x] + SumFunctionOnSet(g, S \ {x})
  BY SumOnSplit
<1>4. SumFunctionOnSet(g, S \ {x}) = SumFunctionOnSet(f, S \ {x})
  BY <1>1, SumOnAgrees
<1>5. SumFunctionOnSet(f, S \ {x}) \in Int /\ f[x] \in Int /\ g[x] \in Int
  BY <1>1, SumOnIsInt
<1> QED
  BY <1>2, <1>3, <1>4, <1>5 DEF SumFunction

\* A table gains (or loses) an amount at one key.
LEMMA SumMoves ==
  ASSUME NEW S, IsFiniteSet(S), NEW f \in [S -> Int], NEW g \in [S -> Int], NEW x \in S,
         NEW d \in Int, g[x] = f[x] + d, \A y \in S \ {x} : g[y] = f[y]
  PROVE  SumFunction(g) = SumFunction(f) + d
<1>1. SumFunction(g) = SumFunction(f) - f[x] + g[x]
  BY SumChangeKey
<1>2. SumFunction(f) \in Int
  BY SumIsInt
<1> QED
  BY <1>1, <1>2

\* A table of zeros.
LEMMA SumOfZeros ==
  ASSUME NEW S, IsFiniteSet(S), NEW f \in [S -> Int], \A x \in S : f[x] = 0
  PROVE  SumFunction(f) = 0
<1> DEFINE Q == {T \in SUBSET S : SumFunctionOnSet(f, T) = 0}
<1>1. ASSUME NEW T \in SUBSET S, \A U \in SUBSET T : U # T => U \in Q
      PROVE  T \in Q
  <2>1. CASE T = {}
    BY <2>1, SumOfNothing
  <2>2. CASE T # {}
    <3>1. PICK x \in T : TRUE
      BY <2>2
    <3>2. SumFunctionOnSet(f, T) = f[x] + SumFunctionOnSet(f, T \ {x})
      BY FS_Subset, SumOnSplit
    <3>3. T \ {x} \in Q
      BY <1>1
    <3> QED
      BY <3>2, <3>3
  <2> QED
    BY <2>1, <2>2
<1>2. S \in Q
  <2> HIDE DEF Q
  <2> QED
    BY <1>1, SetInduction
<1> QED
  BY <1>2 DEF SumFunction

\* No entry of a table of natural numbers exceeds the sum.
LEMMA SumMember ==
  ASSUME NEW S, IsFiniteSet(S), NEW f \in [S -> Nat], NEW x \in S
  PROVE  f[x] <= SumFunction(f)
<1> DEFINE g == [y \in S \ {x} |-> f[y]]
<1>1. IsFiniteSet(S \ {x})
  BY FS_RemoveElement
<1>2. g \in [S \ {x} -> Nat] /\ g \in [S \ {x} -> Int] /\ f \in [S -> Int]
  OBVIOUS
<1>3. SumFunction(g) = SumFunction(f) - f[x]
  <2>1. \A y \in S \ {x} : g[y] = f[y]
    OBVIOUS
  <2> HIDE DEF g
  <2> QED
    BY <1>2, <2>1, SumDropKey
<1>4. SumFunction(g) \in Nat /\ SumFunction(f) \in Nat
  <2> HIDE DEF g
  <2> QED
    BY <1>1, <1>2, SumIsNat
<1> HIDE DEF g
<1>5. f[x] \in Nat
  OBVIOUS
<1> QED
  BY <1>3, <1>4, <1>5

\* A table changes at two keys, as in a transfer.
LEMMA SumChangeTwoKeys ==
  ASSUME NEW S, IsFiniteSet(S), NEW f \in [S -> Int], NEW g \in [S -> Int],
         NEW x \in S, NEW y \in S \ {x},
         \A z \in S \ {x, y} : g[z] = f[z]
  PROVE  SumFunction(g) = SumFunction(f) - f[x] - f[y] + g[x] + g[y]
<1> DEFINE h == [f EXCEPT ![x] = g[x]]
<1>1. /\ h \in [S -> Int] /\ h[x] = g[x] /\ h[y] = f[y]
      /\ \A z \in S \ {x} : h[z] = f[z]
      /\ \A z \in S \ {y} : g[z] = h[z]
  OBVIOUS
<1> HIDE DEF h
<1>2. SumFunction(h) = SumFunction(f) - f[x] + g[x]
  BY <1>1, SumChangeKey
<1>3. SumFunction(g) = SumFunction(h) - f[y] + g[y]
  BY <1>1, SumChangeKey
<1>4. /\ SumFunction(f) \in Int /\ f[x] \in Int /\ f[y] \in Int
      /\ g[x] \in Int /\ g[y] \in Int
  BY SumIsInt
<1> QED
  BY <1>2, <1>3, <1>4

\* Sums add up key by key.
LEMMA SumPlus ==
  ASSUME NEW S, IsFiniteSet(S), NEW f \in [S -> Int], NEW g \in [S -> Int],
         NEW h \in [S -> Int], \A x \in S : h[x] = f[x] + g[x]
  PROVE  SumFunction(h) = SumFunction(f) + SumFunction(g)
<1> DEFINE On(k, T) == SumFunctionOnSet(k, T)
           Q == {T \in SUBSET S : On(h, T) = On(f, T) + On(g, T)}
<1>1. ASSUME NEW T \in SUBSET S, \A U \in SUBSET T : U # T => U \in Q
      PROVE  T \in Q
  <2>1. CASE T = {}
    BY <2>1, SumOfNothing
  <2>2. CASE T # {}
    <3>1. PICK x \in T : TRUE
      BY <2>2
    <3>2. IsFiniteSet(T) /\ IsFiniteSet(T \ {x})
      BY FS_Subset
    <3>3. /\ On(h, T) = h[x] + On(h, T \ {x})
          /\ On(f, T) = f[x] + On(f, T \ {x})
          /\ On(g, T) = g[x] + On(g, T \ {x})
      BY <3>2, SumOnSplit
    <3>4. On(h, T \ {x}) = On(f, T \ {x}) + On(g, T \ {x})
      BY <1>1
    <3>5. On(f, T \ {x}) \in Int /\ On(g, T \ {x}) \in Int
      BY <3>2, SumOnIsInt
    <3>6. h[x] = f[x] + g[x] /\ f[x] \in Int /\ g[x] \in Int
      OBVIOUS
    <3>7. On(h, T) = On(f, T) + On(g, T)
      <4> HIDE DEF On
      <4> QED
        BY <3>3, <3>4, <3>5, <3>6
    <3> QED
      BY <3>7
  <2> QED
    BY <2>1, <2>2
<1>2. S \in Q
  <2> HIDE DEF Q
  <2> QED
    BY <1>1, SetInduction
<1> QED
  BY <1>2 DEF SumFunction

\* Keys that count nothing can be left out.
LEMMA SumIgnoresZeros ==
  ASSUME NEW S, IsFiniteSet(S), NEW T \in SUBSET S,
         NEW f \in [S -> Int], NEW g \in [T -> Int],
         \A x \in T : g[x] = f[x], \A x \in S \ T : f[x] = 0
  PROVE  SumFunction(g) = SumFunction(f)
<1> DEFINE Q == {U \in SUBSET S : SumFunctionOnSet(f, U) = SumFunctionOnSet(f, U \cap T)}
<1>1. ASSUME NEW U \in SUBSET S, \A V \in SUBSET U : V # U => V \in Q
      PROVE  U \in Q
  <2>1. CASE U \subseteq T
    <3>1. U \cap T = U
      BY <2>1
    <3> QED
      BY <3>1
  <2>2. CASE ~ (U \subseteq T)
    <3>1. PICK x \in U : x \notin T
      BY <2>2
    <3>2. SumFunctionOnSet(f, U) = f[x] + SumFunctionOnSet(f, U \ {x})
      BY FS_Subset, SumOnSplit
    <3>3. U \ {x} \in Q
      BY <1>1
    <3>4. (U \ {x}) \cap T = U \cap T
      BY <3>1
    <3>5. f[x] = 0
      BY <3>1
    <3>6. SumFunctionOnSet(f, U \cap T) \in Int
      <4>1. IsFiniteSet(U \cap T)
        BY FS_Subset
      <4> QED
        BY <4>1, SumOnIsInt
    <3> QED
      BY <3>2, <3>3, <3>4, <3>5, <3>6
  <2> QED
    BY <2>1, <2>2
<1>2. S \in Q
  <2> HIDE DEF Q
  <2> QED
    BY <1>1, SetInduction
<1>3. S \cap T = T /\ IsFiniteSet(T)
  BY FS_Subset
<1>4. SumFunctionOnSet(f, T) = SumFunctionOnSet(g, T)
  BY <1>3, SumOnAgrees
<1> QED
  BY <1>2, <1>3, <1>4 DEF SumFunction

\* A table that is smaller key by key has the smaller sum.
LEMMA SumMonotone ==
  ASSUME NEW S, IsFiniteSet(S), NEW f \in [S -> Int], NEW g \in [S -> Int],
         \A x \in S : f[x] <= g[x]
  PROVE  SumFunction(f) <= SumFunction(g)
<1> DEFINE d == [x \in S |-> g[x] - f[x]]
<1>1. d \in [S -> Nat] /\ d \in [S -> Int] /\ \A x \in S : g[x] = f[x] + d[x]
  OBVIOUS
<1> HIDE DEF d
<1>2. SumFunction(g) = SumFunction(f) + SumFunction(d)
  BY <1>1, SumPlus
<1>3. SumFunction(d) \in Nat /\ SumFunction(f) \in Int
  BY <1>1, SumIsNat, SumIsInt
<1> QED
  BY <1>2, <1>3

\* Fewer entries of a table of natural numbers have a smaller sum.
LEMMA SumOfFewer ==
  ASSUME NEW S, IsFiniteSet(S), NEW T \in SUBSET S,
         NEW f \in [S -> Nat], NEW g \in [T -> Nat], \A x \in T : g[x] = f[x]
  PROVE  SumFunction(g) <= SumFunction(f)
<1> DEFINE h == [x \in S |-> IF x \in T THEN f[x] ELSE 0]
<1>1. /\ h \in [S -> Int] /\ f \in [S -> Int] /\ g \in [T -> Int]
      /\ (\A x \in T : g[x] = h[x]) /\ (\A x \in S \ T : h[x] = 0)
      /\ \A x \in S : h[x] <= f[x]
  OBVIOUS
<1> HIDE DEF h
<1>2. \A x \in T : g[x] = h[x]
  BY <1>1
<1>3. \A x \in S \ T : h[x] = 0
  BY <1>1
<1>4. SumFunction(g) = SumFunction(h)
  BY <1>1, <1>2, <1>3, SumIgnoresZeros
<1>5. SumFunction(h) <= SumFunction(f)
  BY <1>1, SumMonotone
<1> QED
  BY <1>4, <1>5

\* The terms keep their values under other names.
LEMMA SumReindex ==
  ASSUME NEW S, IsFiniteSet(S), NEW T, NEW b \in Injection(S, T), T = {b[x] : x \in S},
         NEW f \in [S -> Int], NEW g \in [T -> Int], \A x \in S : g[b[x]] = f[x]
  PROVE  SumFunction(g) = SumFunction(f)
<1> DEFINE Img(U) == {b[x] : x \in U}
           Q == {U \in SUBSET S : SumFunctionOnSet(g, Img(U)) = SumFunctionOnSet(f, U)}
<1>1. b \in [S -> T] /\ \A x, y \in S : b[x] = b[y] => x = y
  BY DEF Injection, IsInjective
<1>2. b \in Surjection(S, T)
  BY <1>1 DEF Surjection
<1>3. IsFiniteSet(T)
  BY <1>2, FS_Surjection
<1>4. ASSUME NEW U \in SUBSET S, \A V \in SUBSET U : V # U => V \in Q
      PROVE  U \in Q
  <2>1. CASE U = {}
    <3>1. Img(U) = {}
      BY <2>1
    <3> QED
      BY <2>1, <3>1, SumOfNothing
  <2>2. CASE U # {}
    <3>1. PICK x \in U : TRUE
      BY <2>2
    <3>2. IsFiniteSet(U) /\ Img(U) \in SUBSET T
      BY <1>1, FS_Subset
    <3>3. IsFiniteSet(Img(U))
      BY <1>3, <3>2, FS_Subset
    <3>4. SumFunctionOnSet(f, U) = f[x] + SumFunctionOnSet(f, U \ {x})
      BY <3>2, SumOnSplit
    <3>5. b[x] \in Img(U) /\ Img(U \ {x}) = Img(U) \ {b[x]}
      BY <1>1
    <3>6. SumFunctionOnSet(g, Img(U)) = g[b[x]] + SumFunctionOnSet(g, Img(U) \ {b[x]})
      <4>1. \A y \in Img(U) : g[y] \in Int
        BY <3>2
      <4> DEFINE W == Img(U)  z == b[x]
      <4>2. z \in W /\ IsFiniteSet(W) /\ \A y \in W : g[y] \in Int
        BY <3>3, <3>5, <4>1
      <4> HIDE DEF W, z
      <4>3. SumFunctionOnSet(g, W) = g[z] + SumFunctionOnSet(g, W \ {z})
        BY <4>2, SumOnSplit
      <4> QED
        BY <4>3 DEF W, z
    <3>7. U \ {x} \in Q
      BY <1>4
    <3> QED
      BY <3>4, <3>5, <3>6, <3>7
  <2> QED
    BY <2>1, <2>2
<1>5. S \in Q
  <2> HIDE DEF Q
  <2> QED
    BY <1>4, SetInduction
<1>6. Img(S) = T
  OBVIOUS
<1> QED
  BY <1>1, <1>5, <1>6 DEF SumFunction

\* The sum over a part of a table is that of the part over the whole.
LEMMA SumOnPart ==
  ASSUME NEW U, IsFiniteSet(U), NEW h \in [U -> Int], NEW S \in SUBSET U,
         NEW p \in [U -> Int], \A x \in S : p[x] = h[x], \A x \in U \ S : p[x] = 0
  PROVE  SumFunctionOnSet(h, S) = SumFunction(p)
<1> DEFINE f == [x \in S |-> h[x]]
<1>1. f \in [S -> Int] /\ DOMAIN f = S /\ IsFiniteSet(S)
  BY FS_Subset
<1>2. \A x \in S : f[x] = p[x]
  OBVIOUS
<1>3. \A x \in S : h[x] = f[x]
  OBVIOUS
<1> HIDE DEF f
<1>4. SumFunction(f) = SumFunction(p)
  BY <1>1, <1>2, SumIgnoresZeros
<1>5. SumFunctionOnSet(h, S) = SumFunctionOnSet(f, S)
  BY <1>1, <1>3, SumOnAgrees
<1> QED
  BY <1>1, <1>4, <1>5 DEF SumFunction

\* The sum of a table in two parts.
LEMMA SumOnParts ==
  ASSUME NEW U, IsFiniteSet(U), NEW h \in [U -> Int], NEW S \in SUBSET U
  PROVE  SumFunction(h) = SumFunctionOnSet(h, S) + SumFunctionOnSet(h, U \ S)
<1> DEFINE p == [x \in U |-> IF x \in S THEN h[x] ELSE 0]
           q == [x \in U |-> IF x \in S THEN 0 ELSE h[x]]
           T == U \ S
<1>1. p \in [U -> Int] /\ q \in [U -> Int] /\ T \in SUBSET U
  OBVIOUS
<1>2. \A x \in U : h[x] = p[x] + q[x]
  OBVIOUS
<1>3. (\A x \in S : p[x] = h[x]) /\ (\A x \in U \ S : p[x] = 0)
  OBVIOUS
<1>4. (\A x \in T : q[x] = h[x]) /\ (\A x \in U \ T : q[x] = 0)
  OBVIOUS
<1> HIDE DEF p, q, T
<1>5. SumFunction(h) = SumFunction(p) + SumFunction(q)
  BY <1>1, <1>2, SumPlus
<1>6. SumFunctionOnSet(h, S) = SumFunction(p)
  BY <1>1, <1>3, SumOnPart
<1>7. SumFunctionOnSet(h, T) = SumFunction(q)
  BY <1>1, <1>4, SumOnPart
<1> QED
  BY <1>5, <1>6, <1>7 DEF T

\* The sum of a part as that of a table of its own.
LEMMA SumOfTable ==
  ASSUME NEW f, NEW S, DOMAIN f = S, IsFiniteSet(S), NEW h, \A x \in S : h[x] = f[x]
  PROVE  SumFunctionOnSet(h, S) = SumFunction(f)
BY SumOnAgrees DEF SumFunction

\* The sum of a table with one term.
LEMMA SumOfOne ==
  ASSUME NEW S, IsFiniteSet(S), NEW f \in [S -> Int], NEW x \in S, \A y \in S \ {x} : f[y] = 0
  PROVE  SumFunction(f) = f[x]
<1> DEFINE g == [y \in S |-> 0]
<1>1. g \in [S -> Int] /\ \A y \in S : g[y] = 0
  OBVIOUS
<1>2. \A y \in S \ {x} : f[y] = g[y]
  OBVIOUS
<1> HIDE DEF g
<1>3. SumFunction(g) = 0
  BY <1>1, SumOfZeros
<1>4. SumFunction(f) = SumFunction(g) - g[x] + f[x]
  BY <1>1, <1>2, SumChangeKey
<1> QED
  BY <1>1, <1>3, <1>4

\* Equal terms add up to their multiple.
LEMMA SumOfSame ==
  ASSUME NEW S, IsFiniteSet(S), NEW k \in Int, NEW f, \A x \in S : f[x] = k
  PROVE  SumFunctionOnSet(f, S) = k * Cardinality(S)
<1> DEFINE Q == {T \in SUBSET S : SumFunctionOnSet(f, T) = k * Cardinality(T)}
<1>1. ASSUME NEW T \in SUBSET S, \A U \in SUBSET T : U # T => U \in Q
      PROVE  T \in Q
  <2>1. CASE T = {}
    <3>1. SumFunctionOnSet(f, T) = 0 /\ Cardinality(T) = 0
      BY <2>1, SumOfNothing, FS_EmptySet
    <3> QED
      BY <3>1
  <2>2. CASE T # {}
    <3>1. PICK x \in T : TRUE
      BY <2>2
    <3> DEFINE V == T \ {x}
               c == Cardinality(V)
    <3>2. IsFiniteSet(T) /\ \A y \in T : f[y] \in Int
      BY FS_Subset
    <3>3. SumFunctionOnSet(f, T) = f[x] + SumFunctionOnSet(f, V)
      BY <3>2, SumOnSplit
    <3>4. IsFiniteSet(V) /\ Cardinality(V) = Cardinality(T) - 1
      BY <3>2, FS_RemoveElement
    <3>5. c \in Nat /\ Cardinality(T) \in Nat
      BY <3>2, <3>4, FS_CardinalityType
    <3>6. SumFunctionOnSet(f, V) = k * c
      BY <1>1
    <3> HIDE DEF c
    <3>7. Cardinality(T) = c + 1
      BY <3>4, <3>5 DEF c
    <3>8. k * (c + 1) = k + k * c
      BY <3>5
    <3> QED
      BY <3>3, <3>6, <3>7, <3>8
  <2> QED
    BY <2>1, <2>2
<1>2. S \in Q
  <2> HIDE DEF Q
  <2> QED
    BY <1>1, SetInduction
<1> QED
  BY <1>2

\* The terms owned by each of finitely many owners add up to all of them.
LEMMA SumByOwner ==
  ASSUME NEW S, IsFiniteSet(S), NEW w \in [S -> Int], NEW A, IsFiniteSet(A),
         NEW o \in [S -> A], NEW p,
         p = [a \in A |-> SumFunctionOnSet(w, {x \in S : o[x] = a})]
  PROVE  SumFunction(p) = SumFunction(w)
<1> DEFINE Own(U, a) == {x \in U : o[x] = a}
           Part(U) == [a \in A |-> SumFunctionOnSet(w, Own(U, a))]
           Q == {U \in SUBSET S : SumFunction(Part(U)) = SumFunctionOnSet(w, U)}
<1>1. \A U \in SUBSET S : IsFiniteSet(U)
  BY FS_Subset
<1>2. ASSUME NEW U \in SUBSET S
      PROVE  Part(U) \in [A -> Int]
  <2>1. ASSUME NEW a \in A
        PROVE  SumFunctionOnSet(w, Own(U, a)) \in Int
    <3> DEFINE V == Own(U, a)
    <3>1. IsFiniteSet(V) /\ \A x \in V : w[x] \in Int
      BY <1>1
    <3> HIDE DEF V
    <3>2. SumFunctionOnSet(w, V) \in Int
      BY <3>1, SumOnIsInt
    <3> QED
      BY <3>2 DEF V
  <2> QED
    BY <2>1
<1>3. ASSUME NEW U \in SUBSET S, \A V \in SUBSET U : V # U => V \in Q
      PROVE  U \in Q
  <2>1. CASE U = {}
    <3> DEFINE f == Part(U)
    <3>1. \A a \in A : Own(U, a) = {}
      BY <2>1
    <3>2. f \in [A -> Int] /\ \A a \in A : f[a] = 0
      BY <1>2, <3>1, SumOfNothing
    <3> HIDE DEF f
    <3>3. SumFunction(f) = 0
      BY <3>2, SumOfZeros
    <3> QED
      BY <2>1, <3>3, SumOfNothing DEF f
  <2>2. CASE U # {}
    <3>1. PICK x \in U : TRUE
      BY <2>2
    <3> DEFINE V == U \ {x}
               f == Part(V)
               g == Part(U)
    <3>2. V \in SUBSET U /\ V # U /\ V \in SUBSET S
      BY <3>1
    <3>3. SumFunction(f) = SumFunctionOnSet(w, V)
      BY <1>3, <3>2
    <3>4. SumFunctionOnSet(w, U) = w[x] + SumFunctionOnSet(w, V)
      <4>1. IsFiniteSet(U) /\ \A y \in U : w[y] \in Int
        BY <1>1
      <4> QED
        BY <4>1, SumOnSplit
    <3>5. f \in [A -> Int] /\ g \in [A -> Int]
      BY <1>2, <3>2
    <3>6. ASSUME NEW a \in A \ {o[x]}
          PROVE  g[a] = f[a]
      <4>1. Own(U, a) = Own(V, a)
        OBVIOUS
      <4> QED
        BY <4>1
    <3>7. g[o[x]] = f[o[x]] + w[x]
      <4> DEFINE W == Own(U, o[x])
      <4>1. W \in SUBSET S /\ x \in W /\ \A y \in W : w[y] \in Int
        OBVIOUS
      <4>2. Own(V, o[x]) = W \ {x} /\ IsFiniteSet(W) /\ o[x] \in A
        BY <1>1, <4>1
      <4>3. g[o[x]] = SumFunctionOnSet(w, W) /\ f[o[x]] = SumFunctionOnSet(w, W \ {x})
        BY <4>2
      <4>4. f[o[x]] \in Int /\ w[x] \in Int
        BY <3>5
      <4> HIDE DEF W, f, g
      <4>5. SumFunctionOnSet(w, W) = w[x] + SumFunctionOnSet(w, W \ {x})
        BY <4>1, <4>2, SumOnSplit
      <4> QED
        BY <4>3, <4>4, <4>5
    <3>8. o[x] \in A /\ w[x] \in Int
      OBVIOUS
    <3> HIDE DEF f, g
    <3>9. SumFunction(g) = SumFunction(f) + w[x]
      BY <3>5, <3>6, <3>7, <3>8, SumMoves
    <3>10. SumFunction(f) \in Int
      BY <3>5, SumIsInt
    <3> QED
      BY <3>3, <3>4, <3>8, <3>9, <3>10 DEF g
  <2> QED
    BY <2>1, <2>2
<1>4. S \in Q
  <2> HIDE DEF Q
  <2> QED
    BY <1>3, SetInduction
<1>5. p = Part(S) /\ DOMAIN w = S
  OBVIOUS
<1> QED
  BY <1>4, <1>5 DEF SumFunction
=============================================================================
