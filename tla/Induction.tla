------------------------------ MODULE Induction ------------------------------
(***************************************************************************)
(* Induction, stated of sets instead of operators: a set of numbers that   *)
(* contains 0 and with each number the next one is Nat, and a set of       *)
(* subsets of a finite set that contains {} and with each subset those     *)
(* with one element more contains them all.  The library states both with  *)
(* an operator as parameter; here what is to be shown of each number or    *)
(* subset is given as the set of those it holds for.  The second half is   *)
(* about sums over finite sets, SumFunctionOnSet of the community modules. *)
(***************************************************************************)
EXTENDS Integers, FiniteSetTheorems, TLAPS

NatLess == {ss \in Nat \X Nat : ss[1] < ss[2]}

LEMMA NatLessWF == IsWellFoundedOn(NatLess, Nat)
BY NatLessThanWellFounded DEF OpToRel, NatLess

LEMMA LeastNat ==
    ASSUME NEW T \in SUBSET Nat, T # {}
    PROVE  \E n \in T : \A m \in T : n <= m
<1>1. PICK n \in T : \A m \in T : ~(<<m, n>> \in NatLess)
  BY WFMin, NatLessWF
<1>2. \A m \in T : ~(m < n)
  BY <1>1 DEF NatLess
<1>3. QED
  BY <1>2

\* A set of numbers that is not empty and bounded has a greatest element.
LEMMA GreatestNat ==
    ASSUME NEW b \in Nat, NEW T \in SUBSET (0 .. b), T # {}
    PROVE  \E n \in T : \A m \in T : m <= n
<1> DEFINE D == {b - m : m \in T}
<1>1. D \in SUBSET Nat /\ D # {}
  <2>1. \A m \in T : b - m \in Nat
    OBVIOUS
  <2>2. PICK m \in T : TRUE
    OBVIOUS
  <2>3. b - m \in D
    OBVIOUS
  <2>4. D \subseteq Nat
    BY <2>1
  <2>5. QED
    BY <2>3, <2>4
<1>2. PICK d \in D : \A c \in D : d <= c
  <2> HIDE DEF D
  <2>1. QED
    BY <1>1, LeastNat
<1>3. PICK n \in T : d = b - n
  OBVIOUS
<1>4. ASSUME NEW m \in T PROVE m <= n
  <2>1. b - m \in D
    OBVIOUS
  <2>2. b - n <= b - m
    BY <1>2, <1>3, <2>1
  <2>3. QED
    BY <2>2
<1>5. QED
  BY <1>4

LEMMA NatSetInduction ==
    ASSUME NEW T \in SUBSET Nat, 0 \in T, \A n \in T : n + 1 \in T
    PROVE  T = Nat
<1>1. SUFFICES ASSUME Nat \ T # {} PROVE FALSE
  OBVIOUS
<1>2. PICK n \in Nat \ T : \A m \in Nat \ T : n <= m
  BY <1>1, LeastNat
<1>3. n - 1 \in T
  BY <1>2
<1>4. QED
  BY <1>2, <1>3

\* A set of subsets of a finite set has an element none of whose proper
\* subsets it has too.
LEMMA SmallestSubset ==
    ASSUME NEW S, IsFiniteSet(S), NEW P \in SUBSET SUBSET S, P # {}
    PROVE  \E T \in P : \A U \in SUBSET T : U # T => U \notin P
<1>1. IsWellFoundedOn(StrictSubsetOrdering(S), SUBSET S)
  BY FS_StrictSubsetOrderingWellFounded, FS_FiniteSubsetsOfFinite
<1>2. PICK T \in P : \A U \in P : ~(<<U, T>> \in StrictSubsetOrdering(S))
  BY <1>1, WFMin
<1>3. ASSUME NEW U \in SUBSET T, U # T, U \in P PROVE FALSE
  <2>1. U \in SUBSET S /\ T \in SUBSET S
    OBVIOUS
  <2>2. <<U, T>> \in StrictSubsetOrdering(S)
    BY <2>1, <1>3 DEF StrictSubsetOrdering
  <2>3. QED
    BY <1>2, <1>3, <2>2
<1>4. QED
  BY <1>3

LEMMA SubsetInduction ==
    ASSUME NEW S, IsFiniteSet(S), NEW P \in SUBSET SUBSET S, {} \in P,
           \A T \in P : \A x \in S \ T : T \cup {x} \in P
    PROVE  P = SUBSET S
<1>1. SUFFICES ASSUME (SUBSET S) \ P # {} PROVE FALSE
  OBVIOUS
<1>2. PICK T \in (SUBSET S) \ P :
         \A U \in SUBSET T : U # T => U \notin (SUBSET S) \ P
  <2> DEFINE R == (SUBSET S) \ P
  <2>1. R \in SUBSET SUBSET S /\ R # {}
    BY <1>1
  <2> HIDE DEF R
  <2>2. \E T \in R : \A U \in SUBSET T : U # T => U \notin R
    BY <2>1, SmallestSubset
  <2>3. QED
    BY <2>2 DEF R
<1>3. PICK x \in T : TRUE
  OBVIOUS
<1>4. T \ {x} \in P
  BY <1>2, <1>3
<1>5. T = (T \ {x}) \cup {x} /\ x \in S \ (T \ {x})
  BY <1>3
<1>6. QED
  BY <1>2, <1>4, <1>5

-----------------------------------------------------------------------------
(* Sums.  The library adds up f over S by removing one chosen element      *)
(* after the other; the lemmas say that the choice does not matter.        *)

Pick(T) == CHOOSE x \in T : TRUE

Unfold(it, f, T) == IF T = {} THEN 0 ELSE f[Pick(T)] + it[T \ {Pick(T)}]

AddsUp(it, f, S) == it = [T \in SUBSET S |-> Unfold(it, f, T)]

LEMMA SumShape ==
    ASSUME NEW f, NEW S
    PROVE  SumFunctionOnSet(f, S) = (CHOOSE it : AddsUp(it, f, S))[S]
BY DEF SumFunctionOnSet, FoldFunctionOnSet, MapThenFoldSet, AddsUp, Unfold, Pick

LEMMA PickIn ==
    ASSUME NEW T, T # {}
    PROVE  Pick(T) \in T /\ T \ {Pick(T)} \in SUBSET T /\ T \ {Pick(T)} # T
BY DEF Pick

LEMMA AddsUpOnce ==
    ASSUME NEW f, NEW S, IsFiniteSet(S), NEW i1, NEW i2,
           AddsUp(i1, f, S), AddsUp(i2, f, S)
    PROVE  \A T \in SUBSET S : i1[T] = i2[T]
<1> DEFINE P == {T \in SUBSET S : i1[T] # i2[T]}
<1>1. SUFFICES ASSUME P # {} PROVE FALSE
  OBVIOUS
<1>2. PICK T \in P : \A U \in SUBSET T : U # T => U \notin P
  <2>1. P \in SUBSET SUBSET S
    OBVIOUS
  <2> HIDE DEF P
  <2>2. QED
    BY <1>1, <2>1, SmallestSubset
<1>3. i1[T] = Unfold(i1, f, T) /\ i2[T] = Unfold(i2, f, T)
  BY DEF AddsUp
<1>4. T # {}
  BY <1>2, <1>3 DEF Unfold
<1>5. i1[T \ {Pick(T)}] = i2[T \ {Pick(T)}]
  BY <1>2, <1>4, PickIn
<1>6. QED
  BY <1>2, <1>3, <1>4, <1>5 DEF Unfold

LEMMA AddsUpExists ==
    ASSUME NEW f, NEW S, IsFiniteSet(S)
    PROVE  \E it : AddsUp(it, f, S)
<1> DEFINE Upto(it, n) == \A T \in SUBSET S :
                              Cardinality(T) <= n => it[T] = Unfold(it, f, T)
           Q == {n \in Nat : \E it : Upto(it, n)}
<1>1. \A T \in SUBSET S : IsFiniteSet(T) /\ Cardinality(T) \in Nat
  BY FS_Subset, FS_CardinalityType
<1>2. 0 \in Q
  <2> DEFINE it0 == [T \in SUBSET S |-> 0]
  <2>1. ASSUME NEW T \in SUBSET S, Cardinality(T) <= 0
        PROVE  it0[T] = Unfold(it0, f, T)
    <3>1. T = {}
      BY <1>1, <2>1, FS_EmptySet
    <3>2. QED
      BY <3>1 DEF Unfold
  <2>2. Upto(it0, 0)
    BY <2>1
  <2>3. QED
    BY <2>2
<1>3. ASSUME NEW n \in Q PROVE n + 1 \in Q
  <2>1. PICK it : Upto(it, n)
    OBVIOUS
  <2> DEFINE next == [T \in SUBSET S |-> Unfold(it, f, T)]
  <2>2. ASSUME NEW T \in SUBSET S, Cardinality(T) <= n + 1
        PROVE  next[T] = Unfold(next, f, T)
    <3>1. CASE T = {}
      BY <3>1 DEF Unfold
    <3>2. CASE T # {}
      <4> DEFINE U == T \ {Pick(T)}
      <4>1. U \in SUBSET S
        OBVIOUS
      <4>2. Cardinality(U) <= n
        <5>1. Pick(T) \in T
          BY <3>2, PickIn
        <5>2. Cardinality(U) = Cardinality(T) - 1
          BY <1>1, <5>1, FS_RemoveElement
        <5>3. QED
          BY <1>1, <2>2, <5>2
      <4>3. next[U] = it[U]
        BY <2>1, <4>1, <4>2
      <4>4. QED
        BY <3>2, <4>3 DEF Unfold
    <3>3. QED
      BY <3>1, <3>2
  <2>3. Upto(next, n + 1)
    BY <2>2
  <2> HIDE DEF Upto, next
  <2>4. \E i : Upto(i, n + 1)
    BY <2>3
  <2>5. n \in Nat
    OBVIOUS
  <2>6. QED
    BY <2>4, <2>5
<1>4. Q = Nat
  <2>1. Q \in SUBSET Nat
    OBVIOUS
  <2> HIDE DEF Q
  <2>2. QED
    BY <1>2, <1>3, <2>1, NatSetInduction
<1>5. PICK it : Upto(it, Cardinality(S))
  BY <1>1, <1>4
<1> DEFINE all == [T \in SUBSET S |-> it[T]]
<1>6. \A T \in SUBSET S : Cardinality(T) <= Cardinality(S)
  BY FS_Subset
<1>7. ASSUME NEW T \in SUBSET S PROVE all[T] = Unfold(all, f, T)
  BY <1>5, <1>6 DEF Unfold
<1>8. AddsUp(all, f, S)
  BY <1>7 DEF AddsUp
<1>9. QED
  BY <1>8

\* One function gives the sums over all subsets of a finite set.
LEMMA SumsOfSubsets ==
    ASSUME NEW f, NEW S, IsFiniteSet(S), NEW it, AddsUp(it, f, S),
           NEW T \in SUBSET S
    PROVE  SumFunctionOnSet(f, T) = it[T]
<1> DEFINE i1 == CHOOSE i : AddsUp(i, f, T)
           i2 == [U \in SUBSET T |-> it[U]]
<1>1. IsFiniteSet(T)
  BY FS_Subset
<1>2. AddsUp(i1, f, T)
  BY <1>1, AddsUpExists
<1>3. ASSUME NEW U \in SUBSET T PROVE i2[U] = Unfold(i2, f, U)
  <2>1. it[U] = Unfold(it, f, U)
    BY DEF AddsUp
  <2>2. QED
    BY <2>1 DEF Unfold
<1>4. AddsUp(i2, f, T)
  BY <1>3 DEF AddsUp
<1>5. SumFunctionOnSet(f, T) = i1[T]
  BY SumShape
<1> HIDE DEF i1
<1>6. i1[T] = i2[T]
  BY <1>1, <1>2, <1>4, AddsUpOnce
<1>7. QED
  BY <1>5, <1>6

LEMMA SumPick ==
    ASSUME NEW f, NEW T, IsFiniteSet(T)
    PROVE  SumFunctionOnSet(f, T) =
             IF T = {} THEN 0
             ELSE f[Pick(T)] + SumFunctionOnSet(f, T \ {Pick(T)})
<1>1. PICK it : AddsUp(it, f, T)
  BY AddsUpExists
<1>2. SumFunctionOnSet(f, T) = it[T]
  BY <1>1, SumsOfSubsets
<1>3. SumFunctionOnSet(f, T \ {Pick(T)}) = it[T \ {Pick(T)}]
  BY <1>1, SumsOfSubsets
<1>4. it[T] = Unfold(it, f, T)
  BY <1>1 DEF AddsUp
<1>5. QED
  BY <1>2, <1>3, <1>4 DEF Unfold

LEMMA SumEmpty == \A f : SumFunctionOnSet(f, {}) = 0
BY SumPick, FS_EmptySet

LEMMA SumInt ==
    ASSUME NEW f, NEW S, IsFiniteSet(S), \A x \in S : f[x] \in Int
    PROVE  SumFunctionOnSet(f, S) \in Int
<1> DEFINE P == {T \in SUBSET S : SumFunctionOnSet(f, T) \notin Int}
<1>1. SUFFICES ASSUME P # {} PROVE FALSE
  OBVIOUS
<1>2. PICK T \in P : \A U \in SUBSET T : U # T => U \notin P
  <2>1. P \in SUBSET SUBSET S
    OBVIOUS
  <2> HIDE DEF P
  <2>2. QED
    BY <1>1, <2>1, SmallestSubset
<1>3. IsFiniteSet(T)
  BY FS_Subset
<1>4. T # {}
  <2>1. ASSUME T = {} PROVE SumFunctionOnSet(f, T) = 0
    BY <2>1, SumEmpty
  <2>2. 0 \in Int
    OBVIOUS
  <2>3. QED
    BY <1>2, <2>1, <2>2
<1>5. Pick(T) \in T /\ T \ {Pick(T)} \in SUBSET T /\ T \ {Pick(T)} # T
  BY <1>4, PickIn
<1>6. SumFunctionOnSet(f, T \ {Pick(T)}) \in Int
  BY <1>2, <1>5
<1>7. SumFunctionOnSet(f, T) = f[Pick(T)] + SumFunctionOnSet(f, T \ {Pick(T)})
  BY <1>3, <1>4, SumPick
<1>8. f[Pick(T)] \in Int
  BY <1>5
<1>9. QED
  BY <1>2, <1>6, <1>7, <1>8

\* The element that is taken out first may be any.
LEMMA SumRemove ==
    ASSUME NEW f, NEW S, IsFiniteSet(S), \A x \in S : f[x] \in Int, NEW e \in S
    PROVE  SumFunctionOnSet(f, S) = f[e] + SumFunctionOnSet(f, S \ {e})
<1> DEFINE Sum(T) == SumFunctionOnSet(f, T)
           P == {T \in SUBSET S : \E x \in T : Sum(T) # f[x] + Sum(T \ {x})}
<1>1. SUFFICES ASSUME P # {} PROVE FALSE
  <2>1. S \notin P => \A x \in S : Sum(S) = f[x] + Sum(S \ {x})
    OBVIOUS
  <2>2. QED
    BY <2>1
<1>2. PICK T \in P : \A U \in SUBSET T : U # T => U \notin P
  <2>1. P \in SUBSET SUBSET S
    OBVIOUS
  <2> HIDE DEF P
  <2>2. QED
    BY <1>1, <2>1, SmallestSubset
<1>3. PICK x \in T : Sum(T) # f[x] + Sum(T \ {x})
  OBVIOUS
<1>4. \A U \in SUBSET S : IsFiniteSet(U) /\ Sum(U) \in Int
  BY FS_Subset, SumInt
<1>5. \A U \in SUBSET S : U # {} => Sum(U) = f[Pick(U)] + Sum(U \ {Pick(U)})
  BY <1>4, SumPick
<1> DEFINE p == Pick(T)
<1>6. p \in T /\ T \in SUBSET S
  BY PickIn
<1> HIDE DEF Sum, p, P
<1>7. Sum(T) = f[p] + Sum(T \ {p})
  BY <1>5, <1>6 DEF p
<1>8. p # x
  BY <1>3, <1>7
<1>9. Sum(T \ {p}) = f[x] + Sum((T \ {p}) \ {x})
  <2>1. T \ {p} \notin P /\ T \ {p} \in SUBSET S /\ x \in T \ {p}
    BY <1>2, <1>6, <1>8
  <2>2. QED
    BY <2>1 DEF P
<1>10. Sum(T \ {x}) = f[p] + Sum((T \ {x}) \ {p})
  <2>1. T \ {x} \notin P /\ T \ {x} \in SUBSET S /\ p \in T \ {x}
    BY <1>2, <1>6, <1>8
  <2>2. QED
    BY <2>1 DEF P
<1> DEFINE rest == Sum((T \ {p}) \ {x})
<1>11. Sum((T \ {x}) \ {p}) = rest
  <2>1. (T \ {x}) \ {p} = (T \ {p}) \ {x}
    OBVIOUS
  <2>2. QED
    BY <2>1
<1>12. rest \in Int /\ f[p] \in Int /\ f[x] \in Int
  BY <1>4, <1>6
<1>13. Sum(T) = f[p] + (f[x] + rest) /\ Sum(T \ {x}) = f[p] + rest
  BY <1>7, <1>9, <1>10, <1>11
<1>14. Sum(T) = f[x] + Sum(T \ {x})
  <2> HIDE DEF rest
  <2>1. f[p] + (f[x] + rest) = f[x] + (f[p] + rest)
    BY <1>12
  <2>2. QED
    BY <1>13, <2>1
<1>15. QED
  BY <1>3, <1>14

\* A sum depends on nothing but what it adds up.
LEMMA SumSame ==
    ASSUME NEW f, NEW g, NEW S, IsFiniteSet(S), \A x \in S : f[x] = g[x]
    PROVE  SumFunctionOnSet(f, S) = SumFunctionOnSet(g, S)
<1> DEFINE P == {T \in SUBSET S : SumFunctionOnSet(f, T) # SumFunctionOnSet(g, T)}
<1>1. SUFFICES ASSUME P # {} PROVE FALSE
  OBVIOUS
<1>2. PICK T \in P : \A U \in SUBSET T : U # T => U \notin P
  <2>1. P \in SUBSET SUBSET S
    OBVIOUS
  <2> HIDE DEF P
  <2>2. QED
    BY <1>1, <2>1, SmallestSubset
<1>3. IsFiniteSet(T)
  BY FS_Subset
<1>4. T # {}
  BY <1>2, SumEmpty
<1>5. Pick(T) \in T /\ T \ {Pick(T)} \in SUBSET T /\ T \ {Pick(T)} # T
  BY <1>4, PickIn
<1>6. SumFunctionOnSet(f, T \ {Pick(T)}) = SumFunctionOnSet(g, T \ {Pick(T)})
  BY <1>2, <1>5
<1>7. /\ SumFunctionOnSet(f, T) = f[Pick(T)] + SumFunctionOnSet(f, T \ {Pick(T)})
      /\ SumFunctionOnSet(g, T) = g[Pick(T)] + SumFunctionOnSet(g, T \ {Pick(T)})
  BY <1>3, <1>4, SumPick
<1>8. f[Pick(T)] = g[Pick(T)]
  BY <1>5
<1>9. QED
  BY <1>2, <1>6, <1>7, <1>8

LEMMA SumAdd ==
    ASSUME NEW f, NEW g, NEW h, NEW S, IsFiniteSet(S),
           \A x \in S : f[x] \in Int /\ g[x] \in Int /\ h[x] = f[x] + g[x]
    PROVE  SumFunctionOnSet(h, S) = SumFunctionOnSet(f, S) + SumFunctionOnSet(g, S)
<1> DEFINE P == {T \in SUBSET S : SumFunctionOnSet(h, T) #
                                  SumFunctionOnSet(f, T) + SumFunctionOnSet(g, T)}
<1>1. SUFFICES ASSUME P # {} PROVE FALSE
  OBVIOUS
<1>2. PICK T \in P : \A U \in SUBSET T : U # T => U \notin P
  <2>1. P \in SUBSET SUBSET S
    OBVIOUS
  <2> HIDE DEF P
  <2>2. QED
    BY <1>1, <2>1, SmallestSubset
<1>3. IsFiniteSet(T)
  BY FS_Subset
<1>4. T # {}
  <2>1. 0 = 0 + 0
    OBVIOUS
  <2>2. QED
    BY <1>2, <2>1, SumEmpty
<1> DEFINE p == Pick(T)
           U == T \ {p}
<1>5. p \in T /\ U \in SUBSET T /\ U # T /\ U \in SUBSET S
  BY <1>4, PickIn
<1>6. IsFiniteSet(U)
  BY <1>5, FS_Subset
<1> HIDE DEF p
<1>7. SumFunctionOnSet(h, U) = SumFunctionOnSet(f, U) + SumFunctionOnSet(g, U)
  BY <1>2, <1>5
<1>8. /\ SumFunctionOnSet(f, T) = f[p] + SumFunctionOnSet(f, U)
      /\ SumFunctionOnSet(g, T) = g[p] + SumFunctionOnSet(g, U)
      /\ SumFunctionOnSet(h, T) = h[p] + SumFunctionOnSet(h, U)
  BY <1>3, <1>4, SumPick DEF p
<1>9. \A x \in U : f[x] \in Int /\ g[x] \in Int
  BY <1>5
<1>10. SumFunctionOnSet(f, U) \in Int /\ SumFunctionOnSet(g, U) \in Int
  BY <1>6, <1>9, SumInt
<1>11. f[p] \in Int /\ g[p] \in Int /\ h[p] = f[p] + g[p]
  BY <1>5
<1>12. SumFunctionOnSet(h, T) = SumFunctionOnSet(f, T) + SumFunctionOnSet(g, T)
  <2> HIDE DEF U
  <2>1. QED
    BY <1>7, <1>8, <1>10, <1>11
<1>13. QED
  BY <1>2, <1>12

LEMMA SumLe ==
    ASSUME NEW f, NEW g, NEW S, IsFiniteSet(S),
           \A x \in S : f[x] \in Int /\ g[x] \in Int /\ f[x] <= g[x]
    PROVE  SumFunctionOnSet(f, S) <= SumFunctionOnSet(g, S)
<1> DEFINE P == {T \in SUBSET S : ~(SumFunctionOnSet(f, T) <= SumFunctionOnSet(g, T))}
<1>1. SUFFICES ASSUME P # {} PROVE FALSE
  OBVIOUS
<1>2. PICK T \in P : \A U \in SUBSET T : U # T => U \notin P
  <2>1. P \in SUBSET SUBSET S
    OBVIOUS
  <2> HIDE DEF P
  <2>2. QED
    BY <1>1, <2>1, SmallestSubset
<1>3. IsFiniteSet(T)
  BY FS_Subset
<1>4. T # {}
  <2>1. ASSUME T = {} PROVE SumFunctionOnSet(f, T) = 0 /\ SumFunctionOnSet(g, T) = 0
    BY <2>1, SumEmpty
  <2>2. 0 <= 0
    OBVIOUS
  <2>3. QED
    BY <1>2, <2>1, <2>2
<1> DEFINE p == Pick(T)
           U == T \ {p}
<1>5. p \in T /\ U \in SUBSET T /\ U # T /\ U \in SUBSET S
  BY <1>4, PickIn
<1>6. IsFiniteSet(U)
  BY <1>5, FS_Subset
<1> HIDE DEF p
<1>7. SumFunctionOnSet(f, U) <= SumFunctionOnSet(g, U)
  BY <1>2, <1>5
<1>8. /\ SumFunctionOnSet(f, T) = f[p] + SumFunctionOnSet(f, U)
      /\ SumFunctionOnSet(g, T) = g[p] + SumFunctionOnSet(g, U)
  BY <1>3, <1>4, SumPick DEF p
<1>9. \A x \in U : f[x] \in Int /\ g[x] \in Int
  BY <1>5
<1>10. SumFunctionOnSet(f, U) \in Int /\ SumFunctionOnSet(g, U) \in Int
  BY <1>6, <1>9, SumInt
<1>11. f[p] \in Int /\ g[p] \in Int /\ f[p] <= g[p]
  BY <1>5
<1>12. SumFunctionOnSet(f, T) <= SumFunctionOnSet(g, T)
  <2> HIDE DEF U
  <2>1. QED
    BY <1>7, <1>8, <1>10, <1>11
<1>13. QED
  BY <1>2, <1>12

LEMMA SumZero ==
    ASSUME NEW f, NEW S, IsFiniteSet(S), \A x \in S : f[x] = 0
    PROVE  SumFunctionOnSet(f, S) = 0
<1> DEFINE s == SumFunctionOnSet(f, S)
<1>1. s = s + s
  BY SumAdd
<1>2. s \in Int
  BY SumInt
<1> HIDE DEF s
<1>3. s = 0
  BY <1>1, <1>2
<1>4. QED
  BY <1>3 DEF s

LEMMA SumNat ==
    ASSUME NEW f, NEW S, IsFiniteSet(S), \A x \in S : f[x] \in Nat
    PROVE  SumFunctionOnSet(f, S) \in Nat
<1> DEFINE z == [x \in S |-> 0]
<1>1. SumFunctionOnSet(f, S) \in Int
  BY SumInt
<1>2. SumFunctionOnSet(z, S) = 0
  BY SumZero
<1>3. SumFunctionOnSet(z, S) <= SumFunctionOnSet(f, S)
  BY SumLe
<1> HIDE DEF z
<1>4. QED
  BY <1>1, <1>2, <1>3

\* Two functions that differ in one place.
LEMMA SumChange ==
    ASSUME NEW f, NEW g, NEW S, IsFiniteSet(S), NEW e \in S,
           \A x \in S : f[x] \in Int /\ g[x] \in Int,
           \A x \in S \ {e} : f[x] = g[x]
    PROVE  SumFunctionOnSet(g, S) = SumFunctionOnSet(f, S) + (g[e] - f[e])
<1>1. IsFiniteSet(S \ {e})
  BY FS_Subset
<1>2. /\ SumFunctionOnSet(f, S) = f[e] + SumFunctionOnSet(f, S \ {e})
      /\ SumFunctionOnSet(g, S) = g[e] + SumFunctionOnSet(g, S \ {e})
  BY SumRemove
<1>3. SumFunctionOnSet(f, S \ {e}) = SumFunctionOnSet(g, S \ {e})
  BY <1>1, SumSame
<1>4. SumFunctionOnSet(f, S \ {e}) \in Int
  BY <1>1, SumInt
<1>5. f[e] \in Int /\ g[e] \in Int
  OBVIOUS
<1>6. QED
  BY <1>2, <1>3, <1>4, <1>5

\* What adds nothing may be left out.
LEMMA SumPart ==
    ASSUME NEW f, NEW S, IsFiniteSet(S), NEW T \in SUBSET S,
           \A x \in S : f[x] \in Int, \A x \in S \ T : f[x] = 0
    PROVE  SumFunctionOnSet(f, S) = SumFunctionOnSet(f, T)
<1> DEFINE P == {U \in SUBSET S : T \subseteq U /\
                    SumFunctionOnSet(f, U) # SumFunctionOnSet(f, T)}
<1>1. SUFFICES ASSUME P # {} PROVE FALSE
  OBVIOUS
<1>2. PICK U \in P : \A V \in SUBSET U : V # U => V \notin P
  <2>1. P \in SUBSET SUBSET S
    OBVIOUS
  <2> HIDE DEF P
  <2>2. QED
    BY <1>1, <2>1, SmallestSubset
<1>3. PICK e \in U : e \notin T
  OBVIOUS
<1>4. IsFiniteSet(U)
  BY FS_Subset
<1>5. SumFunctionOnSet(f, U) = f[e] + SumFunctionOnSet(f, U \ {e})
  BY <1>4, SumRemove
<1>6. SumFunctionOnSet(f, U \ {e}) = SumFunctionOnSet(f, T)
  <2>1. U \ {e} \in SUBSET U /\ U \ {e} # U /\ T \subseteq U \ {e}
    BY <1>3
  <2>2. U \ {e} \notin P
    BY <1>2, <2>1
  <2>3. QED
    BY <2>1, <2>2
<1>7. f[e] = 0
  BY <1>3
<1>8. SumFunctionOnSet(f, T) \in Int
  BY FS_Subset, SumInt
<1>9. QED
  BY <1>2, <1>5, <1>6, <1>7, <1>8

LEMMA SumSingle ==
    ASSUME NEW S, IsFiniteSet(S), NEW e \in S, NEW d \in Int, NEW f,
           f[e] = d, \A x \in S \ {e} : f[x] = 0
    PROVE  SumFunctionOnSet(f, S) = d
<1>1. IsFiniteSet(S \ {e})
  BY FS_Subset
<1>2. SumFunctionOnSet(f, S \ {e}) = 0
  BY <1>1, SumZero
<1>3. \A x \in S : f[x] \in Int
  OBVIOUS
<1>4. SumFunctionOnSet(f, S) = f[e] + SumFunctionOnSet(f, S \ {e})
  BY <1>3, SumRemove
<1>5. QED
  BY <1>2, <1>4

\* What f takes away on T, and nothing elsewhere, is the sum of g over T.
LEMMA SumNegated ==
    ASSUME NEW S, IsFiniteSet(S), NEW T \in SUBSET S, NEW f, NEW g,
           \A x \in T : g[x] \in Int /\ f[x] = -g[x],
           \A x \in S \ T : f[x] = 0
    PROVE  SumFunctionOnSet(f, S) = -SumFunctionOnSet(g, T)
<1> DEFINE z == [x \in S |-> 0]
<1>1. IsFiniteSet(T)
  BY FS_Subset
<1>2. \A x \in S : f[x] \in Int
  OBVIOUS
<1>3. SumFunctionOnSet(f, S) = SumFunctionOnSet(f, T)
  BY <1>2, SumPart
<1>4. SumFunctionOnSet(z, T) = 0
  BY <1>1, SumZero
<1>5. \A x \in T : f[x] \in Int /\ g[x] \in Int /\ z[x] = f[x] + g[x]
  OBVIOUS
<1> HIDE DEF z
<1>6. SumFunctionOnSet(z, T) = SumFunctionOnSet(f, T) + SumFunctionOnSet(g, T)
  BY <1>1, <1>5, SumAdd
<1>7. SumFunctionOnSet(f, T) \in Int /\ SumFunctionOnSet(g, T) \in Int
  BY <1>1, <1>5, SumInt
<1>8. QED
  BY <1>3, <1>4, <1>6, <1>7
=============================================================================
