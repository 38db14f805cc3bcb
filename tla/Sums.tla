--------------------------------- MODULE Sums ---------------------------------
(***************************************************************************)
(* What the proofs need to know of sums, counts and ranks over finite      *)
(* sets: the parts used and the units received are sums, the figures of    *)
(* the reports are sums and counts of the classes of a grouping, and their *)
(* pages are intervals of ranks.                                           *)
(*                                                                         *)
(* Induction over a finite set is stated for the set of the subsets that   *)
(* have the property, and rests on every nonempty set of numbers having a  *)
(* least element.                                                          *)
(***************************************************************************)
EXTENDS Integers, FiniteSetTheorems, TLAPS

Less == {pair \in Nat \X Nat : pair[1] < pair[2]}

LEMMA LessIsWellFounded == IsWellFoundedOn(Less, Nat)
BY NatLessThanWellFounded DEF OpToRel, Less

LEMMA InLess ==
  ASSUME NEW m \in Nat, NEW n \in Nat, m < n
  PROVE  <<m, n>> \in Less
<1>1. <<m, n>> \in Nat \X Nat
  OBVIOUS
<1>2. PICK pair : pair = <<m, n>>
  OBVIOUS
<1>3. pair[1] = m /\ pair[2] = n
  BY <1>2
<1>. QED
  BY <1>1, <1>2, <1>3 DEF Less

(* A nonempty set of numbers has a least element.                          *)
LEMMA LeastNumber ==
  ASSUME NEW T, T \subseteq Nat, T # {}
  PROVE  \E n \in T : \A m \in T : n <= m
<1>1. PICK n \in T : \A m \in T : ~(<<m, n>> \in Less)
  BY LessIsWellFounded, WFMin
<1>2. \A m \in T : ~(m < n)
  BY <1>1, InLess
<1>. QED
  BY <1>2

LEMMA NumberInduction ==
  ASSUME NEW T, 0 \in T, \A n \in Nat : n \in T => n + 1 \in T
  PROVE  Nat \subseteq T
<1>1. SUFFICES ASSUME ~(Nat \subseteq T)
               PROVE  FALSE
  OBVIOUS
<1>2. PICK n \in Nat \ T : \A m \in Nat \ T : n <= m
  BY <1>1, LeastNumber
<1>3. n - 1 \in Nat /\ n - 1 \notin Nat \ T
  BY <1>2
<1>. QED
  BY <1>2, <1>3

(* A set of subsets of U that holds a subset as soon as it holds all the   *)
(* smaller ones holds U.                                                   *)
Inductive(good, U) ==
  \A s \in SUBSET U : (\A t \in SUBSET s : t # s => t \in good) => s \in good

LEMMA FiniteSetInduction ==
  ASSUME NEW U, IsFiniteSet(U), NEW good, Inductive(good, U)
  PROVE  U \in good
<1> DEFINE bad   == (SUBSET U) \ good
           sizes == {Cardinality(s) : s \in bad}
<1>1. SUFFICES ASSUME U \notin good
               PROVE  FALSE
  OBVIOUS
<1>2. \A s \in SUBSET U : IsFiniteSet(s) /\ Cardinality(s) \in Nat
  BY FS_Subset, FS_CardinalityType
<1>3. sizes \subseteq Nat /\ sizes # {}
  BY <1>1, <1>2
<1>4. PICK n \in sizes : \A m \in sizes : n <= m
  BY <1>3, LeastNumber
<1>5. PICK s \in bad : Cardinality(s) = n
  BY <1>4
<1>6. \A t \in SUBSET s : t # s => t \in good
  <2> SUFFICES ASSUME NEW t \in SUBSET s, t # s
               PROVE  t \in good
    OBVIOUS
  <2>1. Cardinality(t) < Cardinality(s)
    BY <1>2, <1>5, FS_Subset
  <2>2. ~(Cardinality(t) \in sizes)
    BY <1>2, <1>4, <1>5, <2>1
  <2>. QED
    BY <1>5, <2>2
<1>. QED
  BY <1>5, <1>6 DEF Inductive

-----------------------------------------------------------------------------
(* The sums of f over the subsets of U, each from that of a smaller one.   *)

First(s) == CHOOSE x \in s : TRUE

SumFrom(sums, f, s) == IF s = {} THEN 0 ELSE f[First(s)] + sums[s \ {First(s)}]

IsSums(sums, f, U) == sums = [s \in SUBSET U |-> SumFrom(sums, f, s)]

LEMMA FirstIn ==
  ASSUME NEW s, s # {}
  PROVE  First(s) \in s
BY DEF First

LEMMA SumIsChosen ==
  ASSUME NEW f, NEW U
  PROVE  SumFunctionOnSet(f, U) = (CHOOSE sums : IsSums(sums, f, U))[U]
BY DEF SumFunctionOnSet, FoldFunctionOnSet, MapThenFoldSet, IsSums, SumFrom, First

LEMMA SmallerSet ==
  ASSUME NEW U, IsFiniteSet(U), NEW s \in SUBSET U, s # {}
  PROVE  /\ s \ {First(s)} \in SUBSET U
         /\ s \ {First(s)} \in SUBSET s
         /\ s \ {First(s)} # s
         /\ Cardinality(s) \in Nat
         /\ Cardinality(s \ {First(s)}) = Cardinality(s) - 1
<1>1. IsFiniteSet(s) /\ First(s) \in s
  BY FS_Subset, FirstIn
<1>. QED
  BY <1>1, FS_CardinalityType, FS_RemoveElement

(* Sums of f that are right for the sets of at most n elements.            *)
Upto(n, sums, f, U) ==
  \A s \in SUBSET U : Cardinality(s) <= n => sums[s] = SumFrom(sums, f, s)

LEMMA OneSizeMore ==
  ASSUME NEW U, IsFiniteSet(U), NEW f, NEW n \in Nat, NEW sums, Upto(n, sums, f, U)
  PROVE  \E more : Upto(n + 1, more, f, U)
<1> DEFINE more == [s \in SUBSET U |->
                      IF Cardinality(s) <= n THEN sums[s] ELSE SumFrom(sums, f, s)]
<1> SUFFICES ASSUME NEW s \in SUBSET U, Cardinality(s) <= n + 1
             PROVE  more[s] = SumFrom(more, f, s)
  BY DEF Upto
<1>1. more[s] = SumFrom(sums, f, s)
  BY DEF Upto
<1>2. CASE s = {}
  BY <1>1, <1>2 DEF SumFrom
<1>3. CASE s # {}
  <2>1. /\ s \ {First(s)} \in SUBSET U
        /\ Cardinality(s \ {First(s)}) <= n
    BY <1>3, SmallerSet
  <2>2. more[s \ {First(s)}] = sums[s \ {First(s)}]
    BY <2>1
  <2>. QED
    BY <1>1, <1>3, <2>2 DEF SumFrom
<1>. QED
  BY <1>2, <1>3

LEMMA SumsExist ==
  ASSUME NEW U, IsFiniteSet(U), NEW f
  PROVE  \E sums : IsSums(sums, f, U)
<1> DEFINE reached == {n \in Nat : \E sums : Upto(n, sums, f, U)}
<1>1. 0 \in reached
  <2>1. \A s \in SUBSET U : IsFiniteSet(s) /\ Cardinality(s) \in Nat
    BY FS_Subset, FS_CardinalityType
  <2>2. \A s \in SUBSET U : Cardinality(s) <= 0 => s = {}
    BY <2>1, FS_EmptySet
  <2>3. Upto(0, [s \in SUBSET U |-> 0], f, U)
    BY <2>2 DEF Upto, SumFrom
  <2>. QED
    BY <2>3
<1>2. \A n \in Nat : n \in reached => n + 1 \in reached
  BY OneSizeMore
<1>3. Cardinality(U) \in reached
  BY <1>1, <1>2, FS_CardinalityType, NumberInduction
<1>4. PICK sums : Upto(Cardinality(U), sums, f, U)
  BY <1>3
<1>5. \A s \in SUBSET U : sums[s] = SumFrom(sums, f, s)
  BY <1>4, FS_Subset DEF Upto
<1>6. \A s \in SUBSET U : s # {} => s \ {First(s)} \in SUBSET U
  OBVIOUS
<1>7. IsSums([s \in SUBSET U |-> sums[s]], f, U)
  BY <1>5, <1>6 DEF IsSums, SumFrom
<1>. QED
  BY <1>7

(* The sums of two functions that agree on T, over the subsets of T.       *)
LEMMA SumsAgree ==
  ASSUME NEW U, IsFiniteSet(U), NEW T \in SUBSET U, NEW f, NEW g,
         \A x \in T : f[x] = g[x],
         NEW sums, IsSums(sums, f, U), NEW others, IsSums(others, g, T)
  PROVE  sums[T] = others[T]
<1> DEFINE good == {s \in SUBSET T : sums[s] = others[s]}
<1>1. IsFiniteSet(T)
  BY FS_Subset
<1>2. Inductive(good, T)
  <2> SUFFICES ASSUME NEW s \in SUBSET T, \A t \in SUBSET s : t # s => t \in good
               PROVE  s \in good
    BY DEF Inductive
  <2>1. sums[s] = SumFrom(sums, f, s) /\ others[s] = SumFrom(others, g, s)
    BY DEF IsSums
  <2>2. CASE s = {}
    BY <2>1, <2>2 DEF SumFrom
  <2>3. CASE s # {}
    <3>1. First(s) \in T /\ f[First(s)] = g[First(s)]
      BY <2>3, FirstIn
    <3>2. sums[s \ {First(s)}] = others[s \ {First(s)}]
      BY <1>1, <2>3, SmallerSet
    <3>. QED
      BY <2>1, <2>3, <3>1, <3>2 DEF SumFrom
  <2>. QED
    BY <2>2, <2>3
<1>3. T \in good
  BY <1>1, <1>2, FiniteSetInduction
<1>. QED
  BY <1>3

-----------------------------------------------------------------------------
(* Facts about the sum of f over a finite set U.                           *)

LEMMA SumOfSubset ==
  ASSUME NEW U, IsFiniteSet(U), NEW f, NEW sums, IsSums(sums, f, U), NEW T \in SUBSET U
  PROVE  sums[T] = SumFunctionOnSet(f, T)
<1>1. IsFiniteSet(T)
  BY FS_Subset
<1>2. PICK others : /\ others = CHOOSE s : IsSums(s, f, T)
                    /\ IsSums(others, f, T)
  BY <1>1, SumsExist
<1>3. PICK g : g = f /\ \A x \in T : f[x] = g[x]
  OBVIOUS
<1>4. IsSums(others, g, T)
  BY <1>2, <1>3
<1>5. sums[T] = others[T]
  BY <1>3, <1>4, SumsAgree
<1>. QED
  BY <1>2, <1>5, SumIsChosen

(* Functions that agree on a set have the same sum over it.                *)
LEMMA SumAgrees ==
  ASSUME NEW U, IsFiniteSet(U), NEW f, NEW g, \A x \in U : f[x] = g[x]
  PROVE  SumFunctionOnSet(f, U) = SumFunctionOnSet(g, U)
<1>1. PICK sums : IsSums(sums, f, U)
  BY SumsExist
<1>2. PICK others : IsSums(others, g, U)
  BY SumsExist
<1>3. sums[U] = others[U]
  BY <1>1, <1>2, SumsAgree
<1>4. sums[U] = SumFunctionOnSet(f, U) /\ others[U] = SumFunctionOnSet(g, U)
  BY <1>1, <1>2, SumOfSubset
<1>. QED
  BY <1>3, <1>4

LEMMA SumOfNothing ==
  ASSUME NEW f
  PROVE  SumFunctionOnSet(f, {}) = 0
<1>1. IsFiniteSet({})
  BY FS_EmptySet
<1>2. PICK U : U = {}
  OBVIOUS
<1>3. PICK sums : IsSums(sums, f, U)
  BY <1>1, <1>2, SumsExist
<1>4. sums[U] = 0
  BY <1>2, <1>3 DEF IsSums, SumFrom
<1>5. sums[U] = SumFunctionOnSet(f, U)
  BY <1>1, <1>2, <1>3, SumOfSubset
<1>. QED
  BY <1>2, <1>4, <1>5

LEMMA SumFromFirst ==
  ASSUME NEW U, IsFiniteSet(U), U # {}, NEW f
  PROVE  SumFunctionOnSet(f, U) = f[First(U)] + SumFunctionOnSet(f, U \ {First(U)})
<1>1. PICK sums : IsSums(sums, f, U)
  BY SumsExist
<1>2. sums[U] = f[First(U)] + sums[U \ {First(U)}]
  BY <1>1 DEF IsSums, SumFrom
<1>3. PICK rest \in SUBSET U : rest = U \ {First(U)}
  OBVIOUS
<1>4. sums[rest] = SumFunctionOnSet(f, rest)
  BY <1>1, SumOfSubset
<1>5. sums[U] = SumFunctionOnSet(f, U)
  BY <1>1, SumOfSubset
<1>. QED
  BY <1>2, <1>3, <1>4, <1>5

(* The sum of integers is one, and of natural numbers a natural number.    *)
LEMMA SumType ==
  ASSUME NEW U, IsFiniteSet(U), NEW f, NEW Numbers \in {Nat, Int},
         \A x \in U : f[x] \in Numbers
  PROVE  SumFunctionOnSet(f, U) \in Numbers
<1> DEFINE good == {s \in SUBSET U : SumFunctionOnSet(f, s) \in Numbers}
<1>1. Inductive(good, U)
  <2> SUFFICES ASSUME NEW s \in SUBSET U, \A t \in SUBSET s : t # s => t \in good
               PROVE  SumFunctionOnSet(f, s) \in Numbers
    BY DEF Inductive
  <2>1. CASE s = {}
    BY <2>1, SumOfNothing
  <2>2. CASE s # {}
    <3>1. IsFiniteSet(s) /\ First(s) \in U
      BY <2>2, FS_Subset, FirstIn
    <3>2. s \ {First(s)} \in good
      BY <2>2, SmallerSet
    <3>3. SumFunctionOnSet(f, s) = f[First(s)] + SumFunctionOnSet(f, s \ {First(s)})
      BY <2>2, <3>1, SumFromFirst
    <3>4. PICK a, b : /\ a = f[First(s)] /\ b = SumFunctionOnSet(f, s \ {First(s)})
                      /\ a \in Numbers /\ b \in Numbers
      BY <3>1, <3>2
    <3>. QED
      BY <3>3, <3>4
  <2>. QED
    BY <2>1, <2>2
<1>2. U \in good
  BY <1>1, FiniteSetInduction
<1>. QED
  BY <1>2

LEMMA SumOfZeros ==
  ASSUME NEW U, IsFiniteSet(U), NEW f, \A x \in U : f[x] = 0
  PROVE  SumFunctionOnSet(f, U) = 0
<1> DEFINE good == {s \in SUBSET U : SumFunctionOnSet(f, s) = 0}
<1>1. Inductive(good, U)
  <2> SUFFICES ASSUME NEW s \in SUBSET U, \A t \in SUBSET s : t # s => t \in good
               PROVE  SumFunctionOnSet(f, s) = 0
    BY DEF Inductive
  <2>1. CASE s = {}
    BY <2>1, SumOfNothing
  <2>2. CASE s # {}
    <3>1. IsFiniteSet(s) /\ First(s) \in U
      BY <2>2, FS_Subset, FirstIn
    <3>2. s \ {First(s)} \in good
      BY <2>2, SmallerSet
    <3>3. SumFunctionOnSet(f, s) = f[First(s)] + SumFunctionOnSet(f, s \ {First(s)})
      BY <2>2, <3>1, SumFromFirst
    <3>. QED
      BY <3>1, <3>2, <3>3
  <2>. QED
    BY <2>1, <2>2
<1>2. U \in good
  BY <1>1, FiniteSetInduction
<1>. QED
  BY <1>2

(* Any element may be taken out first.                                     *)
LEMMA SumSplits ==
  ASSUME NEW U, IsFiniteSet(U), NEW f, \A x \in U : f[x] \in Int, NEW y \in U
  PROVE  SumFunctionOnSet(f, U) = f[y] + SumFunctionOnSet(f, U \ {y})
<1> DEFINE splits(s, x) == SumFunctionOnSet(f, s) = f[x] + SumFunctionOnSet(f, s \ {x})
           good == {s \in SUBSET U : \A x \in s : splits(s, x)}
<1>1. Inductive(good, U)
  <2> SUFFICES ASSUME NEW s \in SUBSET U, \A t \in SUBSET s : t # s => t \in good, NEW x \in s
               PROVE  splits(s, x)
    BY DEF Inductive
  <2>1. PICK c : c = First(s) /\ c \in s
    BY FirstIn
  <2>2. IsFiniteSet(s)
    BY FS_Subset
  <2>3. splits(s, c)
    BY <2>1, <2>2, SumFromFirst
  <2>4. CASE c = x
    BY <2>3, <2>4
  <2>5. CASE c # x
    <3>1. splits(s \ {c}, x)
      BY <2>1, <2>5
    <3>2. splits(s \ {x}, c)
      BY <2>1, <2>5
    <3>3. (s \ {c}) \ {x} = (s \ {x}) \ {c}
      OBVIOUS
    <3>4. PICK rest \in SUBSET U : rest = (s \ {c}) \ {x}
      OBVIOUS
    <3>5. IsFiniteSet(rest)
      BY FS_Subset
    <3>6. SumFunctionOnSet(f, rest) \in Int
      BY <3>5, SumType
    <3>7. f[x] \in Int /\ f[c] \in Int
      BY <2>1
    <3>8. SumFunctionOnSet(f, s) = f[c] + (f[x] + SumFunctionOnSet(f, rest))
      BY <2>3, <3>1, <3>4
    <3>9. SumFunctionOnSet(f, s \ {x}) = f[c] + SumFunctionOnSet(f, rest)
      BY <3>2, <3>3, <3>4
    <3>. QED
      BY <3>6, <3>7, <3>8, <3>9
  <2>. QED
    BY <2>4, <2>5
<1>2. U \in good
  BY <1>1, FiniteSetInduction
<1>. QED
  BY <1>2

(* What changing the value at one point does to the sum.                   *)
LEMMA SumChanges ==
  ASSUME NEW U, IsFiniteSet(U), NEW f, \A x \in U : f[x] \in Int,
         NEW g, \A x \in U : g[x] \in Int,
         NEW y \in U, \A x \in U \ {y} : g[x] = f[x]
  PROVE  /\ SumFunctionOnSet(f, U) \in Int
         /\ SumFunctionOnSet(g, U) = SumFunctionOnSet(f, U) - f[y] + g[y]
<1>1. PICK rest : rest = U \ {y} /\ IsFiniteSet(rest) /\ rest \in SUBSET U
  BY FS_Subset
<1>2. SumFunctionOnSet(f, rest) = SumFunctionOnSet(g, rest)
  BY <1>1, SumAgrees
<1>3. SumFunctionOnSet(f, rest) \in Int
  BY <1>1, SumType
<1>4. SumFunctionOnSet(f, U) = f[y] + SumFunctionOnSet(f, rest)
  BY <1>1, SumSplits
<1>5. SumFunctionOnSet(g, U) = g[y] + SumFunctionOnSet(g, rest)
  BY <1>1, SumSplits
<1>. QED
  BY <1>2, <1>3, <1>4, <1>5

-----------------------------------------------------------------------------
(* A sum over a set, from those over its parts.                            *)

LEMMA SumOfParts ==
  ASSUME NEW U, IsFiniteSet(U), NEW f, \A x \in U : f[x] \in Int, NEW A \in SUBSET U
  PROVE  /\ SumFunctionOnSet(f, A) \in Int /\ SumFunctionOnSet(f, U \ A) \in Int
         /\ SumFunctionOnSet(f, U) = SumFunctionOnSet(f, A) + SumFunctionOnSet(f, U \ A)
<1> DEFINE splits(s, a) ==
             SumFunctionOnSet(f, s) = SumFunctionOnSet(f, a) + SumFunctionOnSet(f, s \ a)
           good == {s \in SUBSET U : \A a \in SUBSET s : splits(s, a)}
<1>1. \A s \in SUBSET U : IsFiniteSet(s) /\ SumFunctionOnSet(f, s) \in Int
  <2> SUFFICES ASSUME NEW s \in SUBSET U
               PROVE  IsFiniteSet(s) /\ SumFunctionOnSet(f, s) \in Int
    OBVIOUS
  <2>1. IsFiniteSet(s)
    BY FS_Subset
  <2>. QED
    BY <2>1, SumType
<1>2. \A s \in SUBSET U : \A x \in s : SumFunctionOnSet(f, s) = f[x] + SumFunctionOnSet(f, s \ {x})
  <2> SUFFICES ASSUME NEW s \in SUBSET U, NEW x \in s
               PROVE  SumFunctionOnSet(f, s) = f[x] + SumFunctionOnSet(f, s \ {x})
    OBVIOUS
  <2>1. IsFiniteSet(s) /\ \A y \in s : f[y] \in Int
    BY <1>1
  <2>. QED
    BY <2>1, SumSplits
<1>3. Inductive(good, U)
  <2> SUFFICES ASSUME NEW s \in SUBSET U, \A t \in SUBSET s : t # s => t \in good,
                      NEW a \in SUBSET s
               PROVE  splits(s, a)
    BY DEF Inductive
  <2>1. CASE s = {}
    <3>1. a = {} /\ s \ a = {}
      BY <2>1
    <3>. QED
      BY <2>1, <3>1, SumOfNothing
  <2>2. CASE s # {}
    <3>1. PICK x \in s : TRUE
      BY <2>2
    <3>2. PICK t : t = s \ {x}
      OBVIOUS
    <3>3. t \in SUBSET s /\ t # s /\ t \in SUBSET U
      BY <3>1, <3>2
    <3>4. \A b \in SUBSET t : splits(t, b)
      BY <3>3
    <3>5. SumFunctionOnSet(f, s) = f[x] + SumFunctionOnSet(f, t)
      BY <1>2, <3>1, <3>2
    <3>6. f[x] \in Int
      BY <3>1
    <3>7. CASE x \in a
      <4>1. PICK b : b = a \ {x}
        OBVIOUS
      <4>2. b \in SUBSET t /\ t \ b = s \ a /\ b \in SUBSET U /\ s \ a \in SUBSET U
        BY <3>1, <3>2, <3>7, <4>1
      <4>3. SumFunctionOnSet(f, a) = f[x] + SumFunctionOnSet(f, b)
        <5>1. a \in SUBSET U
          OBVIOUS
        <5>. QED
          BY <1>2, <3>7, <4>1, <5>1
      <4>4. SumFunctionOnSet(f, t) = SumFunctionOnSet(f, b) + SumFunctionOnSet(f, t \ b)
        BY <3>4, <4>2
      <4>5. SumFunctionOnSet(f, b) \in Int /\ SumFunctionOnSet(f, s \ a) \in Int
        BY <1>1, <4>2
      <4>6. SumFunctionOnSet(f, t) = SumFunctionOnSet(f, b) + SumFunctionOnSet(f, s \ a)
        BY <4>2, <4>4
      <4>. QED
        BY <3>5, <3>6, <4>3, <4>5, <4>6
    <3>8. CASE x \notin a
      <4>1. PICK b : b = s \ a
        OBVIOUS
      <4>2. PICK c : c = t \ a
        OBVIOUS
      <4>3. x \in b /\ b \in SUBSET U /\ a \in SUBSET t /\ c \in SUBSET U /\ a \in SUBSET U
        BY <3>1, <3>2, <3>8, <4>1, <4>2
      <4>4. b \ {x} = c
        BY <3>2, <4>1, <4>2
      <4>5. SumFunctionOnSet(f, b) = f[x] + SumFunctionOnSet(f, c)
        BY <1>2, <4>3, <4>4
      <4>6. SumFunctionOnSet(f, t) = SumFunctionOnSet(f, a) + SumFunctionOnSet(f, c)
        BY <3>4, <4>2, <4>3
      <4>7. SumFunctionOnSet(f, a) \in Int /\ SumFunctionOnSet(f, c) \in Int
        BY <1>1, <4>3
      <4>8. SumFunctionOnSet(f, s) = SumFunctionOnSet(f, a) + SumFunctionOnSet(f, b)
        BY <3>5, <3>6, <4>5, <4>6, <4>7
      <4>. QED
        BY <4>1, <4>8
    <3>. QED
      BY <3>7, <3>8
  <2>. QED
    BY <2>1, <2>2
<1>4. U \in good
  BY <1>3, FiniteSetInduction
<1>. QED
  <2>1. U \in SUBSET U /\ U \ A \in SUBSET U
    OBVIOUS
  <2>. QED
    BY <1>1, <1>4, <2>1

(* The elements of S that c puts in class k.                               *)
Class(S, c, k) == {x \in S : c[x] = k}

Classes(S, c, K) == {x \in S : c[x] \in K}

(* The sums over the classes add up to the sum over them all.              *)
LEMMA ClassSum ==
  ASSUME NEW S, IsFiniteSet(S), NEW f, \A x \in S : f[x] \in Int,
         NEW K, IsFiniteSet(K), NEW c, \A x \in S : c[x] \in K,
         NEW totals, \A k \in K : totals[k] = SumFunctionOnSet(f, Class(S, c, k))
  PROVE  SumFunctionOnSet(totals, K) = SumFunctionOnSet(f, S)
<1> DEFINE good == {s \in SUBSET K :
                      SumFunctionOnSet(totals, s) = SumFunctionOnSet(f, Classes(S, c, s))}
<1>1. Inductive(good, K)
  <2> SUFFICES ASSUME NEW s \in SUBSET K, \A t \in SUBSET s : t # s => t \in good
               PROVE  SumFunctionOnSet(totals, s) = SumFunctionOnSet(f, Classes(S, c, s))
    BY DEF Inductive
  <2>1. CASE s = {}
    <3>1. Classes(S, c, s) = {}
      BY <2>1 DEF Classes
    <3>. QED
      BY <2>1, <3>1, SumOfNothing
  <2>2. CASE s # {}
    <3>1. IsFiniteSet(s) /\ First(s) \in s
      BY <2>2, FS_Subset, FirstIn
    <3>2. PICK k \in K : k = First(s)
      BY <3>1
    <3>3. PICK t : t = s \ {k} /\ t \in SUBSET s /\ t \in good
      <4>1. s \ {k} \in SUBSET s /\ s \ {k} # s
        BY <3>1, <3>2
      <4>. QED
        BY <4>1
    <3>4. SumFunctionOnSet(totals, s) = totals[k] + SumFunctionOnSet(totals, t)
      BY <2>2, <3>1, <3>2, <3>3, SumFromFirst
    <3>5. PICK all : all = Classes(S, c, s) /\ all \in SUBSET S /\ IsFiniteSet(all)
      <4>1. Classes(S, c, s) \in SUBSET S
        BY DEF Classes
      <4>. QED
        BY <4>1, FS_Subset
    <3>6. /\ Class(S, c, k) \in SUBSET all
          /\ all \ Class(S, c, k) = Classes(S, c, t)
      BY <3>1, <3>2, <3>3, <3>5 DEF Class, Classes
    <3>7. SumFunctionOnSet(f, all)
            = SumFunctionOnSet(f, Class(S, c, k)) + SumFunctionOnSet(f, Classes(S, c, t))
      BY <3>5, <3>6, SumOfParts
    <3>. QED
      BY <3>3, <3>4, <3>5, <3>7
  <2>. QED
    BY <2>1, <2>2
<1>2. K \in good
  BY <1>1, FiniteSetInduction
<1>3. Classes(S, c, K) = S
  BY DEF Classes
<1>. QED
  BY <1>2, <1>3

LEMMA SumOfOnes ==
  ASSUME NEW U, IsFiniteSet(U), NEW f, \A x \in U : f[x] = 1
  PROVE  SumFunctionOnSet(f, U) = Cardinality(U)
<1> DEFINE good == {s \in SUBSET U : SumFunctionOnSet(f, s) = Cardinality(s)}
<1>1. Inductive(good, U)
  <2> SUFFICES ASSUME NEW s \in SUBSET U, \A t \in SUBSET s : t # s => t \in good
               PROVE  SumFunctionOnSet(f, s) = Cardinality(s)
    BY DEF Inductive
  <2>1. CASE s = {}
    BY <2>1, SumOfNothing, FS_EmptySet
  <2>2. CASE s # {}
    <3>1. IsFiniteSet(s) /\ First(s) \in U
      BY <2>2, FS_Subset, FirstIn
    <3>2. s \ {First(s)} \in good
      BY <2>2, SmallerSet
    <3>3. SumFunctionOnSet(f, s) = f[First(s)] + SumFunctionOnSet(f, s \ {First(s)})
      BY <2>2, <3>1, SumFromFirst
    <3>4. Cardinality(s) \in Nat /\ Cardinality(s \ {First(s)}) = Cardinality(s) - 1
      BY <2>2, SmallerSet
    <3>. QED
      BY <3>1, <3>2, <3>3, <3>4
  <2>. QED
    BY <2>1, <2>2
<1>2. U \in good
  BY <1>1, FiniteSetInduction
<1>. QED
  BY <1>2

(* The sizes of the classes add up to the size of the set.                 *)
LEMMA ClassCount ==
  ASSUME NEW S, IsFiniteSet(S), NEW K, IsFiniteSet(K), NEW c, \A x \in S : c[x] \in K,
         NEW counts, \A k \in K : counts[k] = Cardinality(Class(S, c, k))
  PROVE  SumFunctionOnSet(counts, K) = Cardinality(S)
<1>1. PICK ones : \A x \in S : ones[x] = 1
  <2>1. \A x \in S : [y \in S |-> 1][x] = 1
    OBVIOUS
  <2>. QED
    BY <2>1
<1>2. SumFunctionOnSet(ones, S) = Cardinality(S)
  BY <1>1, SumOfOnes
<1>3. \A k \in K : counts[k] = SumFunctionOnSet(ones, Class(S, c, k))
  <2> SUFFICES ASSUME NEW k \in K
               PROVE  counts[k] = SumFunctionOnSet(ones, Class(S, c, k))
    OBVIOUS
  <2>1. PICK s \in SUBSET S : s = Class(S, c, k) /\ IsFiniteSet(s)
    BY FS_Subset DEF Class
  <2>2. SumFunctionOnSet(ones, s) = Cardinality(s)
    BY <1>1, <2>1, SumOfOnes
  <2>. QED
    BY <2>1, <2>2
<1>4. \A x \in S : ones[x] \in Int
  BY <1>1
<1>. QED
  BY <1>2, <1>3, <1>4, ClassSum

-----------------------------------------------------------------------------
(* Elements ranked from 0 on without ties: as many are ranked in an        *)
(* interval as it has numbers.                                             *)

Ranked(S, rank, from, to) == {x \in S : from <= rank[x] /\ rank[x] < to}

LEMMA RankedCount ==
  ASSUME NEW S, IsFiniteSet(S), NEW n \in Nat, n = Cardinality(S),
         NEW rank, \A x \in S : rank[x] \in Nat /\ rank[x] < n,
         \A x, y \in S : x # y => rank[x] # rank[y],
         NEW from \in Nat, NEW to \in Nat, from <= to, to <= n
  PROVE  Cardinality(Ranked(S, rank, from, to)) = to - from
<1>1. PICK all : all = 0 .. n - 1
  OBVIOUS
<1>2. PICK f : f \in Injection(S, all) /\ \A x \in S : f[x] = rank[x]
  <2>1. [x \in S |-> rank[x]] \in Injection(S, all)
    BY <1>1 DEF Injection, IsInjective
  <2>. QED
    BY <2>1
<1>3. IsFiniteSet(all) /\ Cardinality(all) = Cardinality(S)
  BY <1>1, FS_Interval
<1>4. f \in Surjection(S, all)
  BY <1>2, <1>3, FS_Injection, Zenon
<1>5. \A k \in 0 .. n - 1 : \E x \in S : rank[x] = k
  BY <1>1, <1>2, <1>4 DEF Surjection
<1>6. PICK P : P = Ranked(S, rank, from, to) /\ P \in SUBSET S
  BY DEF Ranked
<1>7. PICK I : I = from .. to - 1
  OBVIOUS
<1>8. PICK g : g \in Injection(P, I) /\ \A x \in P : g[x] = rank[x]
  <2>1. [x \in P |-> rank[x]] \in Injection(P, I)
    BY <1>6, <1>7 DEF Ranked, Injection, IsInjective
  <2>. QED
    BY <2>1
<1>9. g \in Surjection(P, I)
  <2>1. ASSUME NEW k \in I
        PROVE  \E x \in P : g[x] = k
    <3>1. PICK x \in S : rank[x] = k
      BY <1>5, <1>7
    <3>2. x \in P
      BY <1>6, <1>7, <3>1 DEF Ranked
    <3>. QED
      BY <1>8, <3>1, <3>2
  <2>2. g \in [P -> I]
    BY <1>8 DEF Injection
  <2>. QED
    BY <2>1, <2>2 DEF Surjection
<1>10. Cardinality(P) = Cardinality(I)
  <2>1. IsFiniteSet(I)
    BY <1>7, FS_Interval
  <2>. QED
    BY <1>8, <1>9, <2>1, FS_Injection, Zenon
<1>11. Cardinality(I) = to - from
  BY <1>7, FS_Interval
<1>. QED
  BY <1>6, <1>10, <1>11
=============================================================================
