--------------------------- MODULE WebClient_proofs ---------------------------
(***************************************************************************)
(* Theorems about the event log, its connection and the chat page: for all *)
(* runs, scripts, limits of pages, failures and visits of the page.        *)
(***************************************************************************)
EXTENDS WebClient, Induction, SequenceTheorems

(* Sequences of numbers *)

Asc(s) == \A m, n \in DOMAIN s : m < n => s[m] < s[n]

Final(s) == IF s = <<>> THEN 0 ELSE Last(s)

LEMMA InToSet ==
    ASSUME NEW s, NEW x
    PROVE  x \in ToSet(s) <=> \E k \in DOMAIN s : s[k] = x
BY DEF ToSet

LEMMA ToSetFinite ==
    ASSUME NEW S, NEW s \in Seq(S)
    PROVE  IsFiniteSet(ToSet(s)) /\ ToSet(s) \subseteq S
<1>1. DOMAIN s = 1 .. Len(s) /\ Len(s) \in Nat
  BY LenProperties
<1>2. IsFiniteSet(DOMAIN s)
  BY <1>1, FS_Interval
<1> DEFINE f == [k \in DOMAIN s |-> s[k]]
<1>3. f \in Surjection(DOMAIN s, ToSet(s))
  BY DEF Surjection, ToSet
<1>4. IsFiniteSet(ToSet(s))
  BY <1>2, <1>3, FS_Surjection
<1>5. ToSet(s) \subseteq S
  BY <1>1, ElementOfSeq DEF ToSet
<1>6. QED
  BY <1>4, <1>5

LEMMA ToSetConcat ==
    ASSUME NEW S, NEW s \in Seq(S), NEW t \in Seq(S)
    PROVE  ToSet(s \o t) = ToSet(s) \cup ToSet(t)
<1>1. /\ Len(s) \in Nat /\ Len(t) \in Nat /\ s \o t \in Seq(S)
      /\ DOMAIN s = 1 .. Len(s) /\ DOMAIN t = 1 .. Len(t)
      /\ DOMAIN (s \o t) = 1 .. Len(s) + Len(t)
      /\ \A k \in 1 .. Len(s) + Len(t) :
           (s \o t)[k] = IF k <= Len(s) THEN s[k] ELSE t[k - Len(s)]
  BY ConcatProperties, LenProperties
<1>2. ASSUME NEW x \in ToSet(s \o t) PROVE x \in ToSet(s) \cup ToSet(t)
  <2>1. PICK k \in 1 .. Len(s) + Len(t) : (s \o t)[k] = x
    BY <1>1, InToSet
  <2>2. CASE k <= Len(s)
    <3>1. k \in DOMAIN s /\ s[k] = x
      BY <1>1, <2>1, <2>2
    <3>2. QED
      BY <3>1, InToSet
  <2>3. CASE ~(k <= Len(s))
    <3>1. k - Len(s) \in DOMAIN t /\ t[k - Len(s)] = x
      BY <1>1, <2>1, <2>3
    <3>2. QED
      BY <3>1, InToSet
  <2>4. QED
    BY <2>2, <2>3
<1>3. ASSUME NEW x \in ToSet(s) PROVE x \in ToSet(s \o t)
  <2>1. PICK k \in 1 .. Len(s) : s[k] = x
    BY <1>1, InToSet
  <2>2. k \in DOMAIN (s \o t) /\ (s \o t)[k] = x
    BY <1>1, <2>1
  <2>3. QED
    BY <2>2, InToSet
<1>4. ASSUME NEW x \in ToSet(t) PROVE x \in ToSet(s \o t)
  <2>1. PICK k \in 1 .. Len(t) : t[k] = x
    BY <1>1, InToSet
  <2>2. Len(s) + k \in DOMAIN (s \o t) /\ (s \o t)[Len(s) + k] = x
    BY <1>1, <2>1
  <2>3. QED
    BY <2>2, InToSet
<1>5. QED
  BY <1>2, <1>3, <1>4

LEMMA AscConcat ==
    ASSUME NEW s \in Seq(Nat), NEW t \in Seq(Nat), Asc(s), Asc(t),
           \A x \in ToSet(s), y \in ToSet(t) : x < y
    PROVE  Asc(s \o t)
<1>1. /\ Len(s) \in Nat /\ Len(t) \in Nat
      /\ DOMAIN s = 1 .. Len(s) /\ DOMAIN t = 1 .. Len(t)
      /\ DOMAIN (s \o t) = 1 .. Len(s) + Len(t)
      /\ \A k \in 1 .. Len(s) + Len(t) :
           (s \o t)[k] = IF k <= Len(s) THEN s[k] ELSE t[k - Len(s)]
  BY ConcatProperties, LenProperties
<1>2. SUFFICES ASSUME NEW m \in 1 .. Len(s) + Len(t), NEW n \in 1 .. Len(s) + Len(t), m < n
               PROVE  (s \o t)[m] < (s \o t)[n]
  BY <1>1 DEF Asc
<1>3. CASE n <= Len(s)
  <2>1. m \in DOMAIN s /\ n \in DOMAIN s
    BY <1>1, <1>2, <1>3
  <2>2. s[m] < s[n]
    BY <1>2, <2>1 DEF Asc
  <2>3. m <= Len(s)
    BY <1>1, <1>2, <1>3
  <2>4. (s \o t)[m] = s[m] /\ (s \o t)[n] = s[n]
    BY <1>1, <1>2, <1>3, <2>3
  <2>5. QED
    BY <2>2, <2>4
<1>4. CASE m > Len(s)
  <2>1. m - Len(s) \in DOMAIN t /\ n - Len(s) \in DOMAIN t /\ m - Len(s) < n - Len(s)
    BY <1>1, <1>2, <1>4
  <2>2. t[m - Len(s)] < t[n - Len(s)]
    BY <2>1 DEF Asc
  <2>3. QED
    BY <1>1, <1>2, <1>4, <2>2
<1>5. CASE m <= Len(s) /\ ~(n <= Len(s))
  <2>1. m \in DOMAIN s /\ n - Len(s) \in DOMAIN t
    BY <1>1, <1>2, <1>5
  <2>2. s[m] \in ToSet(s) /\ t[n - Len(s)] \in ToSet(t)
    BY <2>1, InToSet
  <2>3. s[m] < t[n - Len(s)]
    BY <2>2
  <2>4. QED
    BY <1>1, <1>2, <1>5, <2>3
<1>6. QED
  BY <1>3, <1>4, <1>5, <1>1

\* the last element of an ascending sequence is its greatest
LEMMA FinalFacts ==
    ASSUME NEW s \in Seq(Nat), Asc(s)
    PROVE  /\ Final(s) \in Nat
           /\ \A x \in ToSet(s) : x <= Final(s)
           /\ s # <<>> => Final(s) = Last(s) /\ Last(s) \in ToSet(s)
           /\ s = <<>> => ToSet(s) = {}
<1>1. DOMAIN s = 1 .. Len(s) /\ Len(s) \in Nat
  BY LenProperties
<1>2. CASE s = <<>>
  BY <1>2 DEF Final, ToSet
<1>3. CASE s # <<>>
  <2>1. Len(s) \in DOMAIN s
    BY <1>1, <1>3, EmptySeq
  <2>2. Last(s) = s[Len(s)]
    BY DEF Last
  <2>3. Last(s) \in ToSet(s) /\ Last(s) \in Nat
    BY <1>1, <2>1, <2>2, InToSet, ElementOfSeq
  <2>4. ASSUME NEW x \in ToSet(s) PROVE x <= Last(s)
    <3>1. PICK k \in 1 .. Len(s) : s[k] = x
      BY <1>1, InToSet
    <3>2. CASE k = Len(s)
      BY <2>2, <2>3, <3>1, <3>2
    <3>3. CASE k < Len(s)
      BY <1>1, <2>1, <2>2, <2>3, <3>1, <3>3, ElementOfSeq DEF Asc
    <3>4. k = Len(s) \/ k < Len(s)
      BY <3>1, LenProperties
    <3>5. QED
      BY <3>2, <3>3, <3>4
  <2>5. QED
    BY <1>3, <2>3, <2>4 DEF Final
<1>4. QED
  BY <1>2, <1>3

\* ORDER BY id
LEMMA AscendingExists ==
    ASSUME NEW b \in Nat, NEW S \in SUBSET (0 .. b)
    PROVE  \E ids \in [1 .. Cardinality(S) -> S] : ToSet(ids) = S /\ Asc(ids)
<1> DEFINE Good(T) == \E ids \in [1 .. Cardinality(T) -> T] : ToSet(ids) = T /\ Asc(ids)
           P == {T \in SUBSET (0 .. b) : ~Good(T)}
<1>1. SUFFICES ASSUME P # {} PROVE FALSE
  BY <1>1
<1>2. IsFiniteSet(0 .. b)
  BY FS_Interval
<1>3. PICK T \in P : \A U \in SUBSET T : U # T => U \notin P
  <2>1. P \in SUBSET SUBSET (0 .. b)
    OBVIOUS
  <2> HIDE DEF P
  <2>2. QED
    BY <1>1, <1>2, <2>1, SmallestSubset
<1>4. T \in SUBSET (0 .. b) /\ ~Good(T)
  OBVIOUS
<1>5. T # {}
  <2>1. SUFFICES ASSUME T = {} PROVE Good(T)
    BY <1>4
  <2>2. Cardinality(T) = 0
    BY <2>1, FS_EmptySet
  <2> DEFINE ids == [n \in 1 .. 0 |-> 0]
  <2>3. ids \in [1 .. Cardinality(T) -> T]
    BY <2>2
  <2>4. ToSet(ids) = T /\ Asc(ids)
    BY <2>1 DEF ToSet, Asc
  <2>5. QED
    BY <2>3, <2>4
<1>6. PICK x \in T : \A y \in T : y <= x
  BY <1>4, <1>5, GreatestNat
<1> DEFINE U == T \ {x}
<1>7. Good(U)
  <2>1. U \in SUBSET T /\ U # T
    BY <1>6
  <2>2. U \notin P
    BY <1>3, <2>1
  <2>3. QED
    BY <1>4, <2>1, <2>2
<1>8. PICK ids \in [1 .. Cardinality(U) -> U] : ToSet(ids) = U /\ Asc(ids)
  BY <1>7
<1>9. IsFiniteSet(T) /\ Cardinality(U) \in Nat /\ Cardinality(T) = Cardinality(U) + 1
  <2>1. IsFiniteSet(T)
    BY <1>2, <1>4, FS_Subset
  <2>2. Cardinality(U) = Cardinality(T) - 1 /\ IsFiniteSet(U)
    BY <1>6, <2>1, FS_RemoveElement
  <2>3. Cardinality(T) \in Nat /\ Cardinality(U) \in Nat
    BY <2>1, <2>2, FS_CardinalityType
  <2>4. QED
    BY <2>1, <2>2, <2>3
<1> DEFINE c == Cardinality(U)
           more == [n \in 1 .. c + 1 |-> IF n = c + 1 THEN x ELSE ids[n]]
<1>10. c \in Nat /\ Cardinality(T) = c + 1
  BY <1>9
<1>11. ids \in [1 .. c -> U] /\ ToSet(ids) = U /\ Asc(ids)
  BY <1>8
<1>12. \A n \in 1 .. c : ids[n] \in U /\ ids[n] \in T /\ ids[n] \in Int /\ ids[n] < x
  <2>1. TAKE n \in 1 .. c
  <2>2. ids[n] \in U
    BY <1>11
  <2>3. ids[n] \in T /\ ids[n] # x
    BY <2>2
  <2>4. ids[n] \in Int /\ x \in Int /\ ids[n] <= x
    <3>1. T \subseteq Int
      BY <1>4
    <3>2. QED
      BY <1>6, <2>3, <3>1
  <2>5. QED
    BY <2>2, <2>3, <2>4
<1>13. DOMAIN more = 1 .. c + 1 /\ more[c + 1] = x /\ \A n \in 1 .. c : more[n] = ids[n]
  <2> HIDE DEF c
  <2>1. QED
    BY <1>10
<1> HIDE DEF c, more
<1>14. more \in [1 .. c + 1 -> T]
  <2>1. \A n \in 1 .. c + 1 : more[n] \in T
    <3>1. TAKE n \in 1 .. c + 1
    <3>2. n = c + 1 \/ n \in 1 .. c
      BY <1>10
    <3>3. QED
      BY <1>6, <1>12, <1>13, <3>2
  <2>2. QED
    BY <1>13, <2>1 DEF more
<1>15. ToSet(more) = T
  <2>1. ASSUME NEW y \in T PROVE y \in ToSet(more)
    <3>1. CASE y = x
      BY <1>10, <1>13, <3>1, InToSet
    <3>2. CASE y # x
      <4>1. y \in ToSet(ids)
        BY <1>11, <3>2
      <4>2. PICK n \in 1 .. c : ids[n] = y
        BY <1>11, <4>1, InToSet
      <4>3. n \in 1 .. c + 1
        BY <1>10, <4>2
      <4>4. n \in DOMAIN more /\ more[n] = y
        BY <1>13, <4>2, <4>3
      <4>5. QED
        BY <4>4, InToSet
    <3>3. QED
      BY <3>1, <3>2
  <2>2. ToSet(more) \subseteq T
    BY <1>13, <1>14 DEF ToSet
  <2>3. QED
    BY <2>1, <2>2
<1>16. Asc(more)
  <2>1. SUFFICES ASSUME NEW m \in 1 .. c + 1, NEW n \in 1 .. c + 1, m < n
                 PROVE  more[m] < more[n]
    BY <1>13 DEF Asc
  <2>2. m \in 1 .. c
    BY <1>10, <2>1
  <2>3. CASE n = c + 1
    BY <1>12, <1>13, <2>2, <2>3
  <2>4. CASE n \in 1 .. c
    <3>1. m \in DOMAIN ids /\ n \in DOMAIN ids
      BY <1>11, <2>2, <2>4
    <3>2. ids[m] < ids[n]
      BY <1>11, <2>1, <3>1 DEF Asc
    <3>3. QED
      BY <1>13, <2>2, <2>4, <3>2
  <2>5. QED
    BY <1>10, <2>3, <2>4
<1>17. Good(T)
  BY <1>10, <1>14, <1>15, <1>16
<1>18. QED
  BY <1>4, <1>17

LEMMA AscendingFacts ==
    ASSUME NEW b \in Nat, NEW S \in SUBSET (0 .. b)
    PROVE  /\ Ascending(S) \in Seq(S)
           /\ Len(Ascending(S)) = Cardinality(S)
           /\ DOMAIN Ascending(S) = 1 .. Cardinality(S)
           /\ Cardinality(S) \in Nat
           /\ ToSet(Ascending(S)) = S
           /\ Asc(Ascending(S))
<1>1. /\ Ascending(S) \in [1 .. Cardinality(S) -> S]
      /\ ToSet(Ascending(S)) = S /\ Asc(Ascending(S))
  <2>1. PICK ids \in [1 .. Cardinality(S) -> S] : ToSet(ids) = S /\ Asc(ids)
    BY AscendingExists
  <2>2. QED
    BY <2>1 DEF Ascending, Asc
<1>2. Cardinality(S) \in Nat
  <2>1. IsFiniteSet(0 .. b)
    BY FS_Interval
  <2>2. IsFiniteSet(S)
    BY <2>1, FS_Subset
  <2>3. QED
    BY <2>2, FS_CardinalityType
<1>3. QED
  BY <1>1, <1>2

-----------------------------------------------------------------------------
(* emitter.py fetch_history *)

\* the rows visible after a number, the oldest first and none left out
LEMMA FetchFacts ==
    ASSUME NEW since \in Nat, NEW limit \in Nat \ {0},
           NEW b \in Nat, commits \in Seq(1 .. b)
    PROVE  /\ FetchHistory(since, limit) \in Seq(Nat)
           /\ Asc(FetchHistory(since, limit))
           /\ \A i \in ToSet(FetchHistory(since, limit)) : i \in Visible /\ i > since
           /\ \A i \in Visible : 
                i > since /\ (\/ FetchHistory(since, limit) = <<>>
                            \/ i <= Last(FetchHistory(since, limit))
                            \/ Len(FetchHistory(since, limit)) < limit)
                  => i \in ToSet(FetchHistory(since, limit))
<1> DEFINE S == {i \in Visible : i > since}
           ids == Ascending(S)
           c == Cardinality(S)
           l == IF Len(ids) < limit THEN Len(ids) ELSE limit
           rows == FetchHistory(since, limit)
<1>1. rows = SubSeq(ids, 1, l)
  BY DEF FetchHistory
<1>2. Visible \subseteq 1 .. b
  BY ToSetFinite DEF Visible
<1>3. S \in SUBSET (0 .. b)
  <2>1. S \subseteq Visible
    OBVIOUS
  <2> HIDE DEF S
  <2>2. \A i \in S : i \in 0 .. b
    BY <1>2, <2>1
  <2>3. QED
    BY <2>2
<1>4. /\ ids \in Seq(S) /\ Len(ids) = c /\ DOMAIN ids = 1 .. c /\ c \in Nat
      /\ ToSet(ids) = S /\ Asc(ids)
  <2> HIDE DEF S
  <2>1. QED
    BY <1>2, <1>3, AscendingFacts
<1>5. l \in Nat /\ l <= c /\ l <= limit /\ (l < c => l = limit) /\ (l = 0 => c = 0)
  BY <1>4
<1>6. S \subseteq Nat
  BY <1>3
<1> HIDE DEF S, ids, c, l, rows
<1>7. \A i \in 1 .. l : ids[i] \in S
  BY <1>4, <1>5, ElementOfSeq
<1>8. /\ rows \in Seq(S) /\ Len(rows) = l /\ DOMAIN rows = 1 .. l
      /\ \A i \in 1 .. l : rows[i] = ids[i]
  <2>1. /\ rows \in Seq(S) /\ Len(rows) = (IF 1 <= l THEN l - 1 + 1 ELSE 0)
        /\ \A i \in 1 .. l - 1 + 1 : rows[i] = ids[1 + i - 1]
    BY <1>1, <1>5, <1>7, SubSeqProperties
  <2>2. Len(rows) = l
    BY <1>5, <2>1
  <2>3. DOMAIN rows = 1 .. l
    BY <2>1, <2>2, LenProperties
  <2>4. ASSUME NEW i \in 1 .. l PROVE rows[i] = ids[i]
    BY <1>5, <2>1, <2>4
  <2>5. QED
    BY <2>1, <2>2, <2>3, <2>4
<1>9. rows \in Seq(Nat)
  BY <1>6, <1>8, SeqMonotonic
<1>10. Asc(rows)
  <2>1. SUFFICES ASSUME NEW m \in 1 .. l, NEW n \in 1 .. l, m < n
                 PROVE  rows[m] < rows[n]
    BY <1>8 DEF Asc
  <2>2. m \in DOMAIN ids /\ n \in DOMAIN ids
    BY <1>4, <1>5
  <2>3. ids[m] < ids[n]
    BY <1>4, <2>1, <2>2 DEF Asc
  <2>4. QED
    BY <1>8, <2>3
<1>11. ASSUME NEW i \in ToSet(rows) PROVE i \in Visible /\ i > since
  <2>1. i \in S
    BY <1>8, ToSetFinite
  <2>2. QED
    BY <2>1 DEF S
<1>12. ASSUME NEW i \in Visible, i > since, i \notin ToSet(rows)
       PROVE  rows # <<>> /\ ~(i <= Last(rows)) /\ ~(Len(rows) < limit)
  <2>1. i \in S
    BY <1>12 DEF S
  <2>2. PICK k \in 1 .. c : ids[k] = i
    BY <1>4, <2>1, InToSet
  <2>3. ~(k \in 1 .. l)
    <3>1. SUFFICES ASSUME k \in 1 .. l PROVE FALSE
      OBVIOUS
    <3>2. k \in DOMAIN rows /\ rows[k] = i
      BY <1>8, <2>2, <3>1
    <3>3. QED
      BY <1>12, <3>2, InToSet
  <2>4. l < k /\ l < c /\ l = limit /\ l \in 1 .. l
    BY <1>4, <1>5, <2>2, <2>3
  <2>5. rows # <<>>
    BY <1>8, <2>4, EmptySeq
  <2>6. Last(rows) = ids[l]
    BY <1>8, <2>4 DEF Last
  <2>7. ids[l] < ids[k]
    <3>1. l \in 1 .. c
      BY <1>4, <1>5, <2>4
    <3>2. l \in DOMAIN ids /\ k \in DOMAIN ids
      BY <1>4, <2>2, <3>1
    <3>3. QED
      BY <1>4, <2>4, <3>2 DEF Asc
  <2>8. ids[l] \in Int /\ i \in Int
    <3>1. ids[l] \in S
      BY <1>7, <2>4
    <3>2. ids[l] \in Nat /\ i \in Nat
      BY <1>6, <2>1, <3>1
    <3>3. QED
      BY <3>2
  <2>9. ~(i <= Last(rows))
    BY <2>2, <2>6, <2>7, <2>8
  <2>10. QED
    BY <1>8, <2>4, <2>5, <2>9
<1>13. QED
  BY <1>9, <1>10, <1>11, <1>12 DEF rows

-----------------------------------------------------------------------------
(* The types *)

Row == [run : Runs, kind : Kinds, at : Nat]

\* every insert begins at a time of its own, and those of a run one after another
Timed ==
    /\ clock \in Nat
    /\ begun \in [Runs -> 0 .. clock]
    /\ \A i \in DOMAIN log : log[i].at <= clock
    /\ \A i, j \in DOMAIN log : i < j =>
         /\ log[i].at # log[j].at
         /\ log[i].run = log[j].run => log[i].at < log[j].at
    /\ \A r \in Runs : begun[r] # 0 =>
         /\ SaidBy(r) < Len(Script[r])
         /\ \A q \in Runs \ {r} : begun[q] # begun[r]
         /\ \A i \in DOMAIN log :
              log[i].at # begun[r] /\ (log[i].run = r => log[i].at < begun[r])

LogTyped ==
    /\ started \subseteq Runs
    /\ Timed
    /\ log \in Seq(Row)
    /\ emitting \in [Runs -> 0 .. Len(log)]
    /\ commits \in Seq(1 .. Len(log))
    /\ stream \in Seq(Visible)
    /\ faults \in Nat

ConnTyped ==
    /\ conn.pc \in {"off", "catchup", "subscribe", "tail"}
    /\ conn = [pc |-> conn.pc, last |-> conn.last, pos |-> conn.pos]
    /\ conn.last \in Nat
    /\ conn.pos \in 0 .. Len(stream)
    /\ wire \in Seq(Visible)

PageTyped ==
    /\ generation \in Nat
    /\ boot.pc \in {"reading", "replaying", "ready"}
    /\ boot = [pc |-> boot.pc, rows |-> boot.rows]
    /\ boot.rows \in Seq(Visible)
    /\ applied \in 0 .. Len(log)
    /\ url \in Nat
    /\ polls \subseteq [visit : Nat, rows : Seq(Visible)]
    /\ handled \in Seq(Visible)
    /\ known \subseteq Visible

StoreTyped ==
    /\ plan \in [run : Runs \cup {NoRun}, update : 0 .. Len(log)]
    /\ sending \in started \cup {NoRun}
    /\ answered \subseteq started

Types == LogTyped /\ ConnTyped /\ PageTyped /\ StoreTyped

LEMMA TypesGive ==
    ASSUME LogTyped
    PROVE  /\ Len(log) \in Nat /\ Visible \subseteq 1 .. Len(log) /\ Visible \subseteq Nat
           /\ ToSet(stream) \subseteq Visible /\ Seq(Visible) \subseteq Seq(Nat)
           /\ IsFiniteSet(Visible)
<1>1. Len(log) \in Nat
  BY LenProperties DEF LogTyped
<1>2. Visible \subseteq 1 .. Len(log) /\ IsFiniteSet(Visible)
  BY ToSetFinite DEF LogTyped, Visible
<1>3. Visible \subseteq Nat
  BY <1>1, <1>2
<1>4. ToSet(stream) \subseteq Visible
  BY ToSetFinite DEF LogTyped
<1>5. Seq(Visible) \subseteq Seq(Nat)
  BY <1>3, SeqMonotonic
<1>6. QED
  BY <1>1, <1>2, <1>3, <1>4, <1>5

\* what a read of the table returns consists of visible rows
LEMMA FetchTyped ==
    ASSUME LogTyped, NEW since \in Nat, NEW limit \in Nat \ {0}
    PROVE  /\ FetchHistory(since, limit) \in Seq(Visible)
           /\ ToSet(FetchHistory(since, limit)) \subseteq Visible
           /\ Asc(FetchHistory(since, limit))
           /\ \A i \in ToSet(FetchHistory(since, limit)) : i \in Visible /\ i > since
           /\ \A i \in Visible :
                i > since /\ (\/ FetchHistory(since, limit) = <<>>
                            \/ i <= Last(FetchHistory(since, limit))
                            \/ Len(FetchHistory(since, limit)) < limit)
                  => i \in ToSet(FetchHistory(since, limit))
<1> DEFINE rows == FetchHistory(since, limit)
<1>1. Len(log) \in Nat /\ commits \in Seq(1 .. Len(log))
  BY TypesGive DEF LogTyped
<1>2. /\ rows \in Seq(Nat) /\ Asc(rows)
      /\ \A i \in ToSet(rows) : i \in Visible /\ i > since
      /\ \A i \in Visible :
           i > since /\ (rows = <<>> \/ i <= Last(rows) \/ Len(rows) < limit)
             => i \in ToSet(rows)
  BY <1>1, FetchFacts
<1> HIDE DEF rows
<1>3. rows \in Seq(Visible)
  <2>1. DOMAIN rows = 1 .. Len(rows) /\ Len(rows) \in Nat
    BY <1>2, LenProperties
  <2>2. \A k \in 1 .. Len(rows) : rows[k] \in Visible
    <3>1. TAKE k \in 1 .. Len(rows)
    <3>2. rows[k] \in ToSet(rows)
      BY <2>1, InToSet
    <3>3. QED
      BY <1>2, <3>2
  <2>3. rows = [k \in 1 .. Len(rows) |-> rows[k]]
    BY <1>2, LenProperties
  <2>4. rows \in [1 .. Len(rows) -> Visible]
    BY <2>2, <2>3
  <2>5. QED
    BY <2>1, <2>4
<1>4. QED
  BY <1>2, <1>3 DEF rows

-----------------------------------------------------------------------------
(* useEventStream.ts: what of an answer or a frame is given to the handlers *)

New(ids) ==
    LET places == Ascending({k \in DOMAIN ids : ids[k] > applied})
    IN  [n \in DOMAIN places |-> ids[places[n]]]

LEMMA HandleNew ==
    ASSUME NEW ids, Handle(ids)
    PROVE  /\ plan' = ApplyAll(plan, New(ids))
           /\ handled' = handled \o New(ids)
           /\ applied' = IF New(ids) = <<>> THEN applied ELSE Last(New(ids))
BY DEF Handle, New

LEMMA NewFacts ==
    ASSUME NEW S \in SUBSET Nat, NEW ids \in Seq(S), Asc(ids), applied \in Nat
    PROVE  /\ New(ids) \in Seq(S)
           /\ Asc(New(ids))
           /\ ToSet(New(ids)) = {i \in ToSet(ids) : i > applied}
<1> DEFINE K == {k \in DOMAIN ids : ids[k] > applied}
           places == Ascending(K)
           c == Cardinality(K)
           new == New(ids)
<1>1. DOMAIN ids = 1 .. Len(ids) /\ \A k \in DOMAIN ids : ids[k] \in S
  BY LenProperties, ElementOfSeq
<1>2. Len(ids) \in Nat
  BY LenProperties
<1>3. K \in SUBSET (0 .. Len(ids))
  <2>1. K \subseteq 1 .. Len(ids)
    BY <1>1
  <2> HIDE DEF K
  <2>2. QED
    BY <1>2, <2>1
<1>4. /\ places \in Seq(K) /\ Len(places) = c /\ DOMAIN places = 1 .. c /\ c \in Nat
      /\ ToSet(places) = K /\ Asc(places)
  <2> HIDE DEF K
  <2>1. QED
    BY <1>2, <1>3, AscendingFacts
<1>5. \A n \in 1 .. c : places[n] \in K
  BY <1>4, ElementOfSeq
<1>6. new = [n \in 1 .. c |-> ids[places[n]]]
  BY <1>4 DEF New
<1>7. \A k \in K : k \in DOMAIN ids /\ ids[k] \in S /\ ids[k] > applied /\ k \in Int
  BY <1>1
<1>8. \A k \in DOMAIN ids : ids[k] > applied => k \in K
  OBVIOUS
<1> HIDE DEF K, places, c, new
<1>9. new \in Seq(S) /\ DOMAIN new = 1 .. c
  <2>1. \A n \in 1 .. c : ids[places[n]] \in S
    BY <1>5, <1>7
  <2>2. new \in [1 .. c -> S]
    BY <1>6, <2>1
  <2>3. QED
    BY <1>4, <2>2
<1>10. Asc(new)
  <2>1. SUFFICES ASSUME NEW m \in 1 .. c, NEW n \in 1 .. c, m < n PROVE new[m] < new[n]
    BY <1>9 DEF Asc
  <2>2. places[m] < places[n]
    BY <1>4, <2>1 DEF Asc
  <2>3. places[m] \in DOMAIN ids /\ places[n] \in DOMAIN ids
    BY <1>5, <1>7
  <2>4. ids[places[m]] < ids[places[n]]
    BY <2>2, <2>3 DEF Asc
  <2>5. QED
    BY <1>6, <2>4
<1>11. ASSUME NEW i \in ToSet(new) PROVE i \in ToSet(ids) /\ i > applied
  <2>1. PICK n \in 1 .. c : new[n] = i
    BY <1>9, InToSet
  <2>2. places[n] \in K /\ ids[places[n]] = i
    BY <1>5, <1>6, <2>1
  <2>3. places[n] \in DOMAIN ids /\ i > applied
    BY <1>7, <2>2
  <2>4. QED
    BY <2>2, <2>3, InToSet
<1>12. ASSUME NEW i \in ToSet(ids), i > applied PROVE i \in ToSet(new)
  <2>1. PICK k \in DOMAIN ids : ids[k] = i
    BY InToSet
  <2>2. k \in K
    BY <1>8, <1>12, <2>1
  <2>3. PICK n \in 1 .. c : places[n] = k
    BY <1>4, <2>2, InToSet
  <2>4. n \in DOMAIN new /\ new[n] = i
    BY <1>6, <1>9, <2>1, <2>3
  <2>5. QED
    BY <2>4, InToSet
<1>13. QED
  BY <1>9, <1>10, <1>11, <1>12 DEF new

-----------------------------------------------------------------------------
(* emitter.py emit: rows and messages are only added *)

LEMMA BeforeStays ==
    ASSUME NEW S, NEW s \in Seq(S), NEW x \in S, NEW i, NEW j
    PROVE  /\ Before(s, j, i) => Before(Append(s, x), j, i)
           /\ i = x /\ j \in ToSet(s) => Before(Append(s, x), j, i)
<1> DEFINE t == Append(s, x)
<1>1. /\ Len(s) \in Nat /\ DOMAIN s = 1 .. Len(s) /\ t \in Seq(S)
      /\ Len(t) = Len(s) + 1
      /\ \A k \in 1 .. Len(s) : t[k] = s[k]
      /\ t[Len(s) + 1] = x
  BY LenProperties, AppendProperties
<1>2. DOMAIN t = 1 .. Len(s) + 1
  BY <1>1, LenProperties
<1>3. \A k \in DOMAIN s : k \in DOMAIN t /\ t[k] = s[k] /\ k < Len(s) + 1
  BY <1>1, <1>2
<1>4. Len(s) + 1 \in DOMAIN t
  BY <1>1, <1>2
<1> HIDE DEF t
<1>5. ASSUME Before(s, j, i) PROVE Before(t, j, i)
  <2>1. PICK m, n \in DOMAIN s : m < n /\ s[m] = j /\ s[n] = i
    BY <1>5 DEF Before
  <2>2. m \in DOMAIN t /\ n \in DOMAIN t /\ t[m] = j /\ t[n] = i
    BY <1>3, <2>1
  <2>3. QED
    BY <2>1, <2>2 DEF Before
<1>6. ASSUME i = x, j \in ToSet(s) PROVE Before(t, j, i)
  <2>1. PICK m \in DOMAIN s : s[m] = j
    BY <1>6, InToSet
  <2>2. m \in DOMAIN t /\ t[m] = j /\ m < Len(s) + 1
    BY <1>3, <2>1
  <2>3. QED
    BY <1>1, <1>4, <1>6, <2>2 DEF Before
<1>7. QED
  BY <1>5, <1>6 DEF t

LEMMA ToSetAppend ==
    ASSUME NEW S, NEW s \in Seq(S), NEW x \in S
    PROVE  ToSet(Append(s, x)) = ToSet(s) \cup {x}
<1>1. Append(s, x) = s \o <<x>>
  BY AppendIsConcat
<1> DEFINE t == <<x>>
<1>2. t \in Seq(S) /\ ToSet(t) = {x}
  <2>1. t \in Seq(S) /\ DOMAIN t = {1} /\ t[1] = x
    OBVIOUS
  <2>2. QED
    BY <2>1, Zenon DEF ToSet
<1> HIDE DEF t
<1>3. ToSet(s \o t) = ToSet(s) \cup ToSet(t)
  BY <1>2, ToSetConcat
<1>4. QED
  BY <1>1, <1>2, <1>3 DEF t

\* what a step of the log keeps
LogGrows ==
    /\ Visible \subseteq Visible'
    /\ Len(log) \in Nat /\ Len(log') \in Nat /\ Len(log) <= Len(log')
    /\ \A i \in 1 .. Len(log) : log'[i] = log[i]
    /\ Len(stream) \in Nat /\ Len(stream') \in Nat /\ Len(stream) <= Len(stream')
    /\ \A n \in 1 .. Len(stream) : stream'[n] = stream[n]
    /\ \A i : Overtaken(i) => Overtaken(i)'

LEMMA RowFacts ==
    ASSUME LogTyped
    PROVE  /\ Len(log) \in Nat /\ DOMAIN log = 1 .. Len(log)
           /\ \A k \in DOMAIN log : log[k] \in Row /\ log[k].run \in Runs
<1>1. log \in Seq(Row) /\ Len(log) \in Nat /\ DOMAIN log = 1 .. Len(log)
  BY LenProperties DEF LogTyped
<1>2. \A k \in DOMAIN log : log[k] \in Row
  BY <1>1, ElementOfSeq
<1>3. QED
  BY <1>1, <1>2 DEF Row

LEMMA SaidFacts ==
    ASSUME LogTyped, NEW r
    PROVE  /\ SaidBy(r) \in Nat
           /\ SaidBy(r) = 0 => \A i \in DOMAIN log : log[i].run # r
<1> DEFINE D == {i \in DOMAIN log : log[i].run = r}
<1>1. Len(log) \in Nat /\ DOMAIN log = 1 .. Len(log)
  BY LenProperties DEF LogTyped
<1>2. IsFiniteSet(DOMAIN log)
  BY <1>1, FS_Interval
<1>3. IsFiniteSet(D)
  BY <1>2, FS_Subset
<1>4. Cardinality(D) \in Nat /\ (Cardinality(D) = 0 <=> D = {})
  BY <1>3, FS_CardinalityType, FS_EmptySet
<1>5. SaidBy(r) = Cardinality(D)
  BY DEF SaidBy
<1>6. QED
  BY <1>4, <1>5

\* what an insertion does to the log
LEMMA InsertFacts ==
    ASSUME LogTyped, NEW r \in Runs, Insert(r)
    PROVE  \E n \in Nat \ {0} :
             /\ DOMAIN log = 1 .. n - 1 /\ DOMAIN log' = 1 .. n
             /\ Len(log) = n - 1 /\ Len(log') = n /\ log' \in Seq(Row)
             /\ \A i \in 1 .. n - 1 : log'[i] = log[i]
             /\ log'[n] = [run |-> r, kind |-> Script[r][SaidBy(r) + 1], at |-> begun[r]]
<1> DEFINE row == [run |-> r, kind |-> Script[r][SaidBy(r) + 1], at |-> begun[r]]
<1>1. log \in Seq(Row) /\ log' = Append(log, row)
  BY DEF LogTyped, Insert
<1>2. PICK l \in Nat : l = Len(log)
  BY <1>1, LenProperties
<1>3. DOMAIN log = 1 .. l
  BY <1>1, <1>2, LenProperties
<1>4. row \in Row
  <2>1. Script[r] \in Seq(Kinds) /\ SaidBy(r) < Len(Script[r]) /\ SaidBy(r) \in Nat
    BY StreamAssumption, SaidFacts DEF Insert, LogTyped, Timed
  <2>2. PICK m \in Nat : m = Len(Script[r])
    BY <2>1, LenProperties
  <2>3. SaidBy(r) + 1 \in 1 .. m
    BY <2>1, <2>2
  <2>4. Script[r][SaidBy(r) + 1] \in Kinds
    BY <2>1, <2>2, <2>3, ElementOfSeq
  <2>5. begun[r] \in Nat
    BY DEF LogTyped, Timed
  <2>6. QED
    BY <2>4, <2>5 DEF Row
<1> HIDE DEF row
<1>5. /\ log' \in Seq(Row) /\ Len(log') = l + 1
      /\ \A i \in 1 .. l : log'[i] = log[i]
      /\ log'[l + 1] = row
  BY <1>1, <1>2, <1>4, AppendProperties
<1>6. DOMAIN log' = 1 .. l + 1
  BY <1>5, LenProperties
<1>7. l + 1 \in Nat \ {0} /\ l + 1 - 1 = l
  BY <1>2
<1>8. QED
  BY <1>2, <1>3, <1>5, <1>6, <1>7 DEF row

\* an insertion is one more event of its run
LEMMA SaidMore ==
    ASSUME LogTyped, NEW r \in Runs, Insert(r), NEW q
    PROVE  SaidBy(q) \in Nat /\ SaidBy(q)' = IF q = r THEN SaidBy(q) + 1 ELSE SaidBy(q)
<1> DEFINE D == {i \in DOMAIN log : log[i].run = q}
           DP == {i \in DOMAIN log' : log'[i].run = q}
<1>1. PICK n \in Nat \ {0} :
        /\ DOMAIN log = 1 .. n - 1 /\ DOMAIN log' = 1 .. n
        /\ \A i \in 1 .. n - 1 : log'[i] = log[i]
        /\ log'[n] = [run |-> r, kind |-> Script[r][SaidBy(r) + 1], at |-> begun[r]]
  BY InsertFacts
<1>2. IsFiniteSet(D)
  <2>1. IsFiniteSet(1 .. n - 1)
    BY <1>1, FS_Interval
  <2>2. QED
    BY <1>1, <2>1, FS_Subset
<1>3. DP = IF q = r THEN D \cup {n} ELSE D
  BY <1>1
<1>4. n \notin D
  BY <1>1
<1>5. SaidBy(q) = Cardinality(D) /\ SaidBy(q)' = Cardinality(DP) /\ Cardinality(D) \in Nat
  BY <1>2, FS_CardinalityType DEF SaidBy
<1>6. Cardinality(D \cup {n}) = Cardinality(D) + 1
  BY <1>2, <1>4, FS_AddElement
<1>7. QED
  BY <1>3, <1>5, <1>6

LEMMA InsertTimed ==
    ASSUME LogTyped, NEW r \in Runs, Insert(r)
    PROVE  Timed'
<1>1. PICK n \in Nat \ {0} :
        /\ DOMAIN log = 1 .. n - 1 /\ DOMAIN log' = 1 .. n
        /\ \A i \in 1 .. n - 1 : log'[i] = log[i]
        /\ log'[n] = [run |-> r, kind |-> Script[r][SaidBy(r) + 1], at |-> begun[r]]
  BY InsertFacts
<1>2. /\ clock \in Nat /\ begun \in [Runs -> 0 .. clock] /\ clock' = clock /\ begun[r] # 0
      /\ begun' = [begun EXCEPT ![r] = 0]
  BY DEF Insert, LogTyped, Timed
<1>3. /\ \A i \in 1 .. n - 1 : log[i].at # begun[r] /\ (log[i].run = r => log[i].at < begun[r])
      /\ \A q \in Runs \ {r} : begun[q] # begun[r]
      /\ \A i \in 1 .. n - 1 : log[i].at <= clock
      /\ \A i, j \in 1 .. n - 1 : i < j =>
           /\ log[i].at # log[j].at
           /\ log[i].run = log[j].run => log[i].at < log[j].at
  BY <1>1, <1>2 DEF LogTyped, Timed
<1>4. begun' \in [Runs -> 0 .. clock'] /\ begun'[r] = 0 /\ \A q \in Runs \ {r} : begun'[q] = begun[q]
  BY <1>2
<1>5. \A i \in 1 .. n : i # n => i \in 1 .. n - 1
  BY <1>1
<1>6. log'[n].at = begun[r] /\ log'[n].run = r /\ begun[r] <= clock
  BY <1>1, <1>2
<1>7. ASSUME NEW i \in 1 .. n PROVE log'[i].at <= clock'
  BY <1>1, <1>2, <1>3, <1>5, <1>6
<1>8. ASSUME NEW i \in 1 .. n, NEW j \in 1 .. n, i < j
      PROVE  log'[i].at # log'[j].at /\ (log'[i].run = log'[j].run => log'[i].at < log'[j].at)
  <2>1. i \in 1 .. n - 1
    BY <1>1, <1>8
  <2>2. CASE j = n
    BY <1>1, <1>3, <1>6, <2>1, <2>2
  <2>3. CASE j # n
    BY <1>1, <1>3, <1>5, <1>8, <2>1, <2>3
  <2>4. QED
    BY <2>2, <2>3
<1>9. ASSUME NEW q \in Runs, begun'[q] # 0
      PROVE  /\ SaidBy(q)' < Len(Script[q])
             /\ \A o \in Runs \ {q} : begun'[o] # begun'[q]
             /\ \A i \in 1 .. n :
                  log'[i].at # begun'[q] /\ (log'[i].run = q => log'[i].at < begun'[q])
  <2>1. q # r /\ begun'[q] = begun[q] /\ begun[q] # 0
    BY <1>4, <1>9
  <2>2. /\ SaidBy(q) < Len(Script[q])
        /\ \A o \in Runs \ {q} : begun[o] # begun[q]
        /\ \A i \in 1 .. n - 1 :
             log[i].at # begun[q] /\ (log[i].run = q => log[i].at < begun[q])
    BY <1>1, <2>1 DEF LogTyped, Timed
  <2>3. SaidBy(q)' = SaidBy(q)
    BY <2>1, SaidMore
  <2>4. \A o \in Runs \ {q} : begun'[o] # begun'[q]
    BY <1>4, <1>9, <2>1, <2>2
  <2>5. \A i \in 1 .. n :
          log'[i].at # begun'[q] /\ (log'[i].run = q => log'[i].at < begun'[q])
    BY <1>1, <1>5, <1>6, <2>1, <2>2
  <2>6. QED
    BY <2>2, <2>3, <2>4, <2>5
<1>10. QED
  BY <1>1, <1>2, <1>4, <1>7, <1>8, <1>9 DEF Timed

LEMMA InsertGrows ==
    ASSUME LogTyped, NEW r \in Runs, Insert(r)
    PROVE  LogTyped' /\ LogGrows
<1>1. PICK n \in Nat \ {0} :
        /\ Len(log) = n - 1 /\ Len(log') = n /\ log' \in Seq(Row)
        /\ \A i \in 1 .. n - 1 : log'[i] = log[i]
  BY InsertFacts
<1>2. emitting' = [emitting EXCEPT ![r] = Len(log')]
  BY DEF Insert
<1>3. /\ log' \in Seq(Row) /\ Len(log) \in Nat /\ Len(log') = Len(log) + 1
      /\ \A i \in 1 .. Len(log) : log'[i] = log[i]
  BY <1>1
<1>4. /\ UNCHANGED <<started, commits, stream, faults>> /\ Visible' = Visible
  BY DEF Visible, Insert
<1>5. commits' \in Seq(1 .. Len(log'))
  <2>1. 1 .. Len(log) \subseteq 1 .. Len(log')
    BY <1>3
  <2>2. QED
    BY <1>4, <2>1, SeqMonotonic DEF LogTyped
<1>6. emitting' \in [Runs -> 0 .. Len(log')]
  <2>1. 0 .. Len(log) \subseteq 0 .. Len(log') /\ Len(log') \in 0 .. Len(log')
    BY <1>3
  <2>2. emitting \in [Runs -> 0 .. Len(log')]
    BY <2>1 DEF LogTyped
  <2>3. QED
    BY <1>2, <2>1, <2>2
<1>7. LogTyped'
  BY <1>3, <1>4, <1>5, <1>6, InsertTimed DEF LogTyped
<1>8. \A i : Overtaken(i) => Overtaken(i)'
  BY <1>4 DEF Overtaken, Before
<1>9. Len(stream) \in Nat
  BY LenProperties DEF LogTyped
<1>10. QED
  BY <1>3, <1>4, <1>7, <1>8, <1>9 DEF LogGrows

\* the other steps leave the rows, and all but one of them the times, alone
LEMMA TimesStay ==
    ASSUME Timed, UNCHANGED <<log, begun, clock>>
    PROVE  Timed'
BY DEF Timed, SaidBy

LEMMA BeginGrows ==
    ASSUME LogTyped, NEW r \in Runs, Begin(r)
    PROVE  LogTyped' /\ LogGrows
<1>1. /\ UNCHANGED <<started, emitting, log, commits, stream, faults>> /\ Visible' = Visible
      /\ clock' = clock + 1 /\ begun' = [begun EXCEPT ![r] = clock'] /\ begun[r] = 0
      /\ SaidBy(r) < Len(Script[r])
  BY DEF Begin, Visible
<1>2. Len(log) \in Nat /\ Len(stream) \in Nat
  BY LenProperties DEF LogTyped
<1>3. Timed'
  <2>1. clock \in Nat /\ begun \in [Runs -> 0 .. clock]
    BY DEF LogTyped, Timed
  <2>2. /\ begun'[r] = clock + 1 /\ \A q \in Runs \ {r} : begun'[q] = begun[q]
        /\ \A q \in Runs : begun[q] <= clock /\ begun[q] \in Nat
    BY <1>1, <2>1
  <2>3. begun' \in [Runs -> 0 .. clock']
    <3>1. 0 .. clock \subseteq 0 .. clock' /\ clock' \in 0 .. clock'
      BY <1>1, <2>1
    <3>2. begun \in [Runs -> 0 .. clock']
      BY <2>1, <3>1
    <3>3. QED
      BY <1>1, <3>1, <3>2
  <2>4. \A i \in DOMAIN log : log[i].at <= clock /\ log[i].at \in Nat
    BY RowFacts DEF LogTyped, Timed, Row
  <2>5. ASSUME NEW q \in Runs, begun'[q] # 0
        PROVE  /\ SaidBy(q)' < Len(Script[q])
               /\ \A o \in Runs \ {q} : begun'[o] # begun'[q]
               /\ \A i \in DOMAIN log :
                    log[i].at # begun'[q] /\ (log[i].run = q => log[i].at < begun'[q])
    <3>1. SaidBy(q)' = SaidBy(q)
      BY <1>1 DEF SaidBy
    <3>2. CASE q = r
      BY <1>1, <2>1, <2>2, <2>4, <3>1, <3>2
    <3>3. CASE q # r
      <4>1. /\ SaidBy(q) < Len(Script[q])
            /\ \A o \in Runs \ {q} : begun[o] # begun[q]
            /\ \A i \in DOMAIN log :
                 log[i].at # begun[q] /\ (log[i].run = q => log[i].at < begun[q])
        BY <2>2, <2>5, <3>3 DEF LogTyped, Timed
      <4>2. QED
        BY <2>1, <2>2, <3>1, <3>3, <4>1
    <3>4. QED
      BY <3>2, <3>3
  <2>6. \A i \in DOMAIN log : log[i].at <= clock'
    BY <1>1, <2>1, <2>4
  <2>7. \A i, j \in DOMAIN log : i < j =>
          log[i].at # log[j].at /\ (log[i].run = log[j].run => log[i].at < log[j].at)
    BY DEF LogTyped, Timed
  <2>8. clock' \in Nat
    BY <1>1, <2>1
  <2>9. QED
    BY <1>1, <2>3, <2>5, <2>6, <2>7, <2>8 DEF Timed
<1>4. LogTyped'
  BY <1>1, <1>3 DEF LogTyped
<1>5. \A i : Overtaken(i) => Overtaken(i)'
  BY <1>1 DEF Overtaken
<1>6. QED
  BY <1>1, <1>2, <1>4, <1>5 DEF LogGrows

LEMMA CommitGrows ==
    ASSUME LogTyped, NEW r \in Runs, Commit(r)
    PROVE  LogTyped' /\ LogGrows
<1> USE DEF Commit
<1> DEFINE x == emitting[r]
<1>1. Len(log) \in Nat /\ x \in 1 .. Len(log)
  BY LenProperties DEF LogTyped
<1>2. /\ commits' = Append(commits, x) /\ x \notin Visible
      /\ UNCHANGED <<started, emitting, begun, clock, log, stream, faults>>
  OBVIOUS
<1> HIDE DEF x
<1>3. commits \in Seq(1 .. Len(log))
  BY DEF LogTyped
<1>4. commits' \in Seq(1 .. Len(log))
  BY <1>1, <1>2, <1>3, AppendProperties
<1>5. Visible' = Visible \cup {x}
  BY <1>1, <1>2, <1>3, ToSetAppend DEF Visible
<1>6. stream' \in Seq(Visible')
  BY <1>2, <1>5, SeqMonotonic DEF LogTyped
<1>7. LogTyped'
  BY <1>2, <1>4, <1>6, TimesStay DEF LogTyped
<1>8. ASSUME NEW i, Overtaken(i) PROVE Overtaken(i)'
  <2>1. CASE \E j \in Visible : j > i /\ (i \notin Visible \/ Before(commits, j, i))
    <3>1. PICK j \in Visible : j > i /\ (i \notin Visible \/ Before(commits, j, i))
      BY <2>1
    <3>2. j \in ToSet(commits) /\ j \in Visible'
      BY <1>5, <3>1 DEF Visible
    <3>3. i \notin Visible' \/ Before(commits', j, i)
      BY <1>1, <1>2, <1>3, <1>5, <3>1, <3>2, BeforeStays
    <3>4. QED
      BY <3>1, <3>2, <3>3 DEF Overtaken
  <2>2. CASE \E j \in ToSet(stream) : j > i /\ (i \notin ToSet(stream) \/ Before(stream, j, i))
    BY <1>2, <2>2 DEF Overtaken
  <2>3. QED
    BY <1>8, <2>1, <2>2 DEF Overtaken
<1>9. Len(stream) \in Nat
  BY LenProperties DEF LogTyped
<1>10. QED
  BY <1>1, <1>2, <1>5, <1>7, <1>8, <1>9 DEF LogGrows

LEMMA PublishGrows ==
    ASSUME LogTyped, NEW r \in Runs, Publish(r)
    PROVE  LogTyped' /\ LogGrows
<1> USE DEF Publish
<1> DEFINE x == emitting[r]
<1>1. /\ stream' = Append(stream, x) /\ x \in Visible
      /\ UNCHANGED <<started, begun, clock, log, commits, faults>> /\ Visible' = Visible
  BY DEF Visible
<1>2. emitting' = [emitting EXCEPT ![r] = 0]
  OBVIOUS
<1> HIDE DEF x
<1>3. Len(log) \in Nat
  BY LenProperties DEF LogTyped
<1>4. emitting' \in [Runs -> 0 .. Len(log)]
  BY <1>2, <1>3 DEF LogTyped
<1>5. stream \in Seq(Visible)
  BY DEF LogTyped
<1>6. /\ stream' \in Seq(Visible) /\ Len(stream) \in Nat /\ Len(stream') = Len(stream) + 1
      /\ \A n \in 1 .. Len(stream) : stream'[n] = stream[n]
  BY <1>1, <1>5, AppendProperties, LenProperties
<1>7. LogTyped'
  BY <1>1, <1>4, <1>6, TimesStay DEF LogTyped
<1>8. ToSet(stream') = ToSet(stream) \cup {x}
  BY <1>1, <1>5, ToSetAppend
<1>9. ASSUME NEW i, Overtaken(i) PROVE Overtaken(i)'
  <2>1. CASE \E j \in Visible : j > i /\ (i \notin Visible \/ Before(commits, j, i))
    BY <1>1, <2>1 DEF Overtaken
  <2>2. CASE \E j \in ToSet(stream) : j > i /\ (i \notin ToSet(stream) \/ Before(stream, j, i))
    <3>1. PICK j \in ToSet(stream) : j > i /\ (i \notin ToSet(stream) \/ Before(stream, j, i))
      BY <2>2
    <3>2. j \in ToSet(stream')
      BY <1>8, <3>1
    <3>3. i \notin ToSet(stream') \/ Before(stream', j, i)
      BY <1>1, <1>5, <1>8, <3>1, BeforeStays
    <3>4. QED
      BY <3>1, <3>2, <3>3 DEF Overtaken
  <2>3. QED
    BY <1>9, <2>1, <2>2 DEF Overtaken
<1>10. QED
  BY <1>1, <1>3, <1>6, <1>7, <1>9 DEF LogGrows

LEMMA LoseGrows ==
    ASSUME LogTyped, NEW r \in Runs, LosePublication(r)
    PROVE  LogTyped' /\ LogGrows
<1> USE DEF LosePublication, Fault
<1>1. UNCHANGED <<started, begun, clock, log, commits, stream>> /\ Visible' = Visible
  BY DEF Visible
<1>2. Len(log) \in Nat /\ Len(stream) \in Nat
  BY LenProperties DEF LogTyped
<1>3. LogTyped'
  BY <1>1, <1>2, TimesStay DEF LogTyped
<1>4. \A i : Overtaken(i) => Overtaken(i)'
  BY <1>1 DEF Overtaken
<1>5. QED
  BY <1>1, <1>2, <1>3, <1>4 DEF LogGrows

LEMMA EmitGrows ==
    ASSUME LogTyped, NEW r \in Runs, EmitStep(r)
    PROVE  LogTyped' /\ LogGrows /\ UNCHANGED <<started, connVars>>
<1>1. LogTyped' /\ LogGrows
  BY BeginGrows, InsertGrows, CommitGrows, PublishGrows, LoseGrows DEF EmitStep
<1>2. UNCHANGED <<started, connVars>>
  BY DEF EmitStep, Begin, Insert, Commit, Publish, LosePublication
<1>3. QED
  BY <1>1, <1>2

-----------------------------------------------------------------------------
(* timeline.ts: the order of creation *)

Sorted(lg, ids) == \A m, n \in DOMAIN ids : m < n => lg[ids[m]].at < lg[ids[n]].at

LEMMA SortExists ==
    ASSUME LogTyped, NEW S \in SUBSET DOMAIN log
    PROVE  \E ids \in [1 .. Cardinality(S) -> S] : ToSet(ids) = S /\ Sorted(log, ids)
<1> DEFINE T == {log[i].at : i \in S}
           f == [i \in S |-> log[i].at]
           ts == Ascending(T)
           ids == [n \in 1 .. Cardinality(S) |-> CHOOSE i \in S : log[i].at = ts[n]]
<1>1. /\ clock \in Nat /\ \A i \in DOMAIN log : log[i].at \in 0 .. clock
      /\ \A i, j \in DOMAIN log : log[i].at = log[j].at => i = j
  <2>1. clock \in Nat /\ \A i \in DOMAIN log : log[i].at <= clock /\ log[i].at \in Nat
    BY RowFacts DEF LogTyped, Timed, Row
  <2>2. ASSUME NEW i \in DOMAIN log, NEW j \in DOMAIN log, log[i].at = log[j].at PROVE i = j
    <3>1. i \in Nat /\ j \in Nat
      BY RowFacts
    <3>2. i < j \/ j < i \/ i = j
      BY <3>1
    <3>3. QED
      BY <2>2, <3>2 DEF LogTyped, Timed
  <2>3. QED
    BY <2>1, <2>2
<1>2. IsFiniteSet(S)
  <2>1. IsFiniteSet(DOMAIN log)
    BY RowFacts, FS_Interval
  <2>2. QED
    BY <2>1, FS_Subset
<1>3. T \in SUBSET (0 .. clock)
  BY <1>1
<1>4. Cardinality(T) = Cardinality(S)
  <2>1. f \in Bijection(S, T)
    BY <1>1 DEF Bijection, Injection, Surjection, IsInjective
  <2>2. QED
    BY <1>2, <2>1, FS_Bijection DEF ExistsBijection
<1>5. PICK c \in Nat : c = Cardinality(S)
  BY <1>2, FS_CardinalityType
<1>6. DOMAIN ts = 1 .. c /\ ToSet(ts) = T /\ Asc(ts)
  <2> HIDE DEF T
  <2>1. QED
    BY <1>1, <1>3, <1>4, <1>5, AscendingFacts
<1>7. \A t \in T : \E i \in S : log[i].at = t
  OBVIOUS
<1>8. \A i \in S : log[i].at \in T
  OBVIOUS
<1> HIDE DEF T, f, ts
<1>9. \A n \in 1 .. c : ids[n] \in S /\ log[ids[n]].at = ts[n]
  <2>1. TAKE n \in 1 .. c
  <2>2. ts[n] \in T
    BY <1>6, InToSet
  <2>3. \E i \in S : log[i].at = ts[n]
    BY <1>7, <2>2
  <2>4. QED
    BY <1>5, <2>3
<1>10. ids \in [1 .. Cardinality(S) -> S] /\ DOMAIN ids = 1 .. c
  <2>1. DOMAIN ids = 1 .. c /\ ids = [n \in 1 .. Cardinality(S) |-> ids[n]]
    BY <1>5
  <2> HIDE DEF ids
  <2>2. QED
    BY <1>5, <1>9, <2>1
<1> HIDE DEF ids
<1>11. Sorted(log, ids)
  BY <1>6, <1>9, <1>10 DEF Sorted, Asc
<1>12. ToSet(ids) = S
  <2>1. ASSUME NEW i \in S PROVE i \in ToSet(ids)
    <3>1. PICK n \in DOMAIN ts : ts[n] = log[i].at
      BY <1>6, <1>8, InToSet
    <3>2. n \in 1 .. c /\ ids[n] = i
      BY <1>1, <1>6, <1>9, <3>1
    <3>3. QED
      BY <1>10, <3>2, InToSet
  <2>2. ASSUME NEW i \in ToSet(ids) PROVE i \in S
    <3>1. PICK n \in DOMAIN ids : ids[n] = i
      BY <2>2, InToSet
    <3>2. QED
      BY <1>9, <1>10, <3>1
  <2>3. QED
    BY <2>1, <2>2
<1>13. QED
  BY <1>10, <1>11, <1>12

LEMMA CreationFacts ==
    ASSUME LogTyped, NEW S \in SUBSET DOMAIN log
    PROVE  /\ ByCreation(S) \in Seq(S) /\ ToSet(ByCreation(S)) = S
           /\ Sorted(log, ByCreation(S))
<1>1. /\ ByCreation(S) \in [1 .. Cardinality(S) -> S]
      /\ ToSet(ByCreation(S)) = S /\ Sorted(log, ByCreation(S))
  <2>1. PICK ids \in [1 .. Cardinality(S) -> S] : ToSet(ids) = S /\ Sorted(log, ids)
    BY SortExists
  <2>2. QED
    BY <2>1 DEF ByCreation, Sorted
<1>2. Cardinality(S) \in Nat
  <2>1. IsFiniteSet(DOMAIN log)
    BY RowFacts, FS_Interval
  <2>2. QED
    BY <2>1, FS_Subset, FS_CardinalityType
<1>3. QED
  BY <1>1, <1>2

\* the greatest number of a history
Top(ids) == Max(ToSet(ids) \cup {0})

LEMMA TopFacts ==
    ASSUME LogTyped, NEW ids \in Seq(Visible)
    PROVE  /\ Top(ids) \in 0 .. Len(log)
           /\ \A i \in ToSet(ids) : i \in 1 .. Top(ids)
           /\ Asc(ids) => Top(ids) = Final(ids)
<1> DEFINE T == ToSet(ids) \cup {0}
<1>1. /\ Len(log) \in Nat /\ Visible \subseteq 1 .. Len(log) /\ ToSet(ids) \subseteq Visible
      /\ ids \in Seq(Nat)
  BY TypesGive, ToSetFinite
<1>2. T \in SUBSET (0 .. Len(log)) /\ 0 \in T /\ T # {}
  <2>1. 0 \in T
    OBVIOUS
  <2>2. PICK l \in Nat : l = Len(log)
    BY <1>1
  <2>3. \A i \in ToSet(ids) : i \in 1 .. l
    BY <1>1, <2>2
  <2>4. \A i \in T : i \in 0 .. l
    BY <2>2, <2>3
  <2> HIDE DEF T
  <2>5. QED
    BY <2>1, <2>2, <2>4
<1>3. Max(T) \in T /\ \A i \in T : i <= Max(T)
  <2> HIDE DEF T
  <2>1. PICK x \in T : \A y \in T : y <= x
    BY <1>1, <1>2, GreatestNat
  <2>2. \A y \in T : x >= y
    BY <2>1
  <2>3. Max(T) \in T /\ \A y \in T : Max(T) >= y
    BY <2>2 DEF Max
  <2>4. QED
    BY <1>1, <1>2, <2>3
<1>4. Top(ids) \in T /\ \A i \in T : i <= Top(ids)
  BY <1>3 DEF Top
<1> HIDE DEF T
<1>5. Top(ids) \in 0 .. Len(log)
  BY <1>2, <1>4
<1>6. ASSUME NEW i \in ToSet(ids) PROVE i \in 1 .. Top(ids)
  <2>1. i \in 1 .. Len(log) /\ i <= Top(ids)
    BY <1>1, <1>4 DEF T
  <2>2. QED
    BY <1>1, <1>5, <2>1
<1>7. ASSUME Asc(ids) PROVE Top(ids) = Final(ids)
  <2>1. /\ Final(ids) \in Nat /\ (ids # <<>> => Final(ids) \in ToSet(ids))
        /\ \A i \in ToSet(ids) : i <= Final(ids)
    BY <1>1, <1>7, FinalFacts DEF Final
  <2>2. CASE ids = <<>>
    <3>1. ToSet(ids) = {}
      BY <2>2 DEF ToSet
    <3>2. QED
      BY <1>4, <2>2, <3>1 DEF T, Final
  <2>3. CASE ids # <<>>
    <3>1. Final(ids) \in ToSet(ids) /\ Final(ids) <= Top(ids)
      BY <1>6, <2>1, <2>3
    <3>2. Top(ids) # 0
      BY <1>6, <3>1
    <3>3. Top(ids) \in ToSet(ids)
      BY <1>4, <3>2 DEF T
    <3>4. QED
      BY <1>1, <1>5, <2>1, <3>1, <3>3
  <2>4. QED
    BY <2>2, <2>3
<1>8. QED
  BY <1>5, <1>6, <1>7

-----------------------------------------------------------------------------
(* The plan store: what a sequence of events makes of a plan.  The log is   *)
(* a parameter, for it grows while the plan stays.                          *)

LEMMA UptoInduction ==
    ASSUME NEW n \in Nat, NEW T \in SUBSET (0 .. n), 0 \in T,
           \A k \in T : k < n => k + 1 \in T
    PROVE  T = 0 .. n
<1> DEFINE N == {k \in Nat : k <= n => k \in T}
<1>1. 0 \in N
  OBVIOUS
<1>2. ASSUME NEW k \in N PROVE k + 1 \in N
  OBVIOUS
<1>3. N = Nat
  <2>1. N \in SUBSET Nat
    OBVIOUS
  <2> HIDE DEF N
  <2>2. QED
    BY <1>1, <1>2, <2>1, NatSetInduction
<1>4. ASSUME NEW k \in 0 .. n PROVE k \in T
  <2>1. k \in N /\ k <= n
    BY <1>3
  <2>2. QED
    BY <2>1
<1>5. QED
  BY <1>4

StepOf(lg, p, i) ==
    CASE lg[i].kind = "planning"    -> OnRunStarted(p, lg[i].run)
      [] lg[i].kind = "plan.update" -> OnPlanUpdate(p, lg[i].run, i)
      [] OTHER -> p

UnfoldPlan(lg, p, ids, it, T) ==
    IF T = {} THEN p ELSE StepOf(lg, it[T \ {Max(T)}], ids[Max(T)])

FoldsPlan(lg, p, ids, it, S) == it = [T \in SUBSET S |-> UnfoldPlan(lg, p, ids, it, T)]

Folded(lg, p, ids) == (CHOOSE it : FoldsPlan(lg, p, ids, it, DOMAIN ids))[DOMAIN ids]

LEMMA FoldShape ==
    ASSUME NEW p, NEW ids
    PROVE  ApplyAll(p, ids) = Folded(log, p, ids)
BY DEF ApplyAll, Apply, FoldLeft, MapThenFoldSet, Folded, FoldsPlan, UnfoldPlan, StepOf

LEMMA MaxIn ==
    ASSUME NEW n \in Nat, NEW T \in SUBSET (1 .. n), T # {}
    PROVE  Max(T) \in T /\ T \ {Max(T)} \in SUBSET T /\ T \ {Max(T)} # T
<1>1. T \in SUBSET (0 .. n)
  OBVIOUS
<1>2. PICK x \in T : \A y \in T : y <= x
  BY <1>1, GreatestNat
<1>3. \A y \in T : x >= y
  BY <1>2
<1>4. Max(T) \in T
  BY <1>3 DEF Max
<1>5. QED
  BY <1>4

LEMMA FoldExists ==
    ASSUME NEW lg, NEW p, NEW ids, NEW c \in Nat
    PROVE  \E it : FoldsPlan(lg, p, ids, it, 1 .. c)
<1> DEFINE S == 1 .. c
           Upto(it, n) == \A T \in SUBSET S :
                              Cardinality(T) <= n => it[T] = UnfoldPlan(lg, p, ids, it, T)
           Q == {n \in Nat : \E it : Upto(it, n)}
<1>1. IsFiniteSet(S) /\ \A T \in SUBSET S : IsFiniteSet(T) /\ Cardinality(T) \in Nat
  <2>1. IsFiniteSet(S)
    BY FS_Interval
  <2> HIDE DEF S
  <2>2. QED
    BY <2>1, FS_Subset, FS_CardinalityType
<1>2. \A T \in SUBSET S : T # {} => Max(T) \in T
  BY MaxIn
<1> HIDE DEF S
<1>3. 0 \in Q
  <2> DEFINE it0 == [T \in SUBSET S |-> p]
  <2>1. ASSUME NEW T \in SUBSET S, Cardinality(T) <= 0
        PROVE  it0[T] = UnfoldPlan(lg, p, ids, it0, T)
    <3>1. T = {}
      BY <1>1, <2>1, FS_EmptySet
    <3>2. QED
      BY <3>1 DEF UnfoldPlan
  <2>2. Upto(it0, 0)
    BY <2>1
  <2> HIDE DEF Upto, it0
  <2>3. QED
    BY <2>2
<1>4. ASSUME NEW n \in Q PROVE n + 1 \in Q
  <2>1. PICK it : Upto(it, n)
    OBVIOUS
  <2> DEFINE next == [T \in SUBSET S |-> UnfoldPlan(lg, p, ids, it, T)]
  <2>2. ASSUME NEW T \in SUBSET S, Cardinality(T) <= n + 1
        PROVE  next[T] = UnfoldPlan(lg, p, ids, next, T)
    <3>1. CASE T = {}
      BY <3>1 DEF UnfoldPlan
    <3>2. CASE T # {}
      <4> DEFINE U == T \ {Max(T)}
      <4>1. U \in SUBSET S
        OBVIOUS
      <4>2. Cardinality(U) <= n
        <5>1. Max(T) \in T
          BY <1>2, <3>2
        <5>2. Cardinality(U) = Cardinality(T) - 1
          BY <1>1, <5>1, FS_RemoveElement
        <5>3. QED
          BY <1>1, <2>2, <5>2
      <4>3. next[U] = it[U]
        BY <2>1, <4>1, <4>2
      <4>4. QED
        BY <3>2, <4>3 DEF UnfoldPlan
    <3>3. QED
      BY <3>1, <3>2
  <2>3. Upto(next, n + 1)
    BY <2>2
  <2> HIDE DEF Upto, next
  <2>4. \E i : Upto(i, n + 1)
    BY <2>3
  <2>5. n \in Nat
    OBVIOUS
  <2>6. QED
    BY <2>4, <2>5
<1>5. Q = Nat
  <2>1. Q \in SUBSET Nat
    OBVIOUS
  <2> HIDE DEF Q
  <2>2. QED
    BY <1>3, <1>4, <2>1, NatSetInduction
<1>6. PICK it : Upto(it, Cardinality(S))
  <2>1. Cardinality(S) \in Q
    BY <1>1, <1>5
  <2> HIDE DEF Upto
  <2>2. QED
    BY <2>1
<1> DEFINE all == [T \in SUBSET S |-> it[T]]
<1>7. \A T \in SUBSET S : Cardinality(T) <= Cardinality(S)
  BY <1>1, FS_Subset
<1>8. ASSUME NEW T \in SUBSET S PROVE all[T] = UnfoldPlan(lg, p, ids, all, T)
  BY <1>6, <1>7 DEF UnfoldPlan
<1>9. FoldsPlan(lg, p, ids, all, S)
  BY <1>8 DEF FoldsPlan
<1>10. QED
  BY <1>9 DEF S

\* the plan after each of the events
Trace(lg, p, ids, n, tr) ==
    /\ tr[0] = p
    /\ \A k \in 1 .. n : tr[k] = StepOf(lg, tr[k - 1], ids[k])

LEMMA TraceExists ==
    ASSUME NEW lg, NEW p, NEW S, NEW ids \in Seq(S)
    PROVE  \E tr : Trace(lg, p, ids, Len(ids), tr) /\ Folded(lg, p, ids) = tr[Len(ids)]
<1> DEFINE c == Len(ids)
           D == 1 .. c
<1>1. c \in Nat /\ DOMAIN ids = D
  BY LenProperties
<1> HIDE DEF c
<1>2. \E it : FoldsPlan(lg, p, ids, it, D)
  BY <1>1, FoldExists
<1> DEFINE it == CHOOSE i : FoldsPlan(lg, p, ids, i, D)
           tr == [k \in 0 .. c |-> it[1 .. k]]
<1>3. FoldsPlan(lg, p, ids, it, D)
  BY <1>2
<1>4. Folded(lg, p, ids) = it[D]
  BY <1>1 DEF Folded
<1> HIDE DEF it
<1>5. \A T \in SUBSET D : it[T] = UnfoldPlan(lg, p, ids, it, T)
  BY <1>3 DEF FoldsPlan
<1>6. tr[0] = p
  <2>1. tr[0] = it[1 .. 0] /\ 1 .. 0 = {}
    BY <1>1
  <2>2. it[{}] = p
    BY <1>5 DEF UnfoldPlan
  <2>3. QED
    BY <2>1, <2>2
<1>7. ASSUME NEW k \in 1 .. c PROVE tr[k] = StepOf(lg, tr[k - 1], ids[k])
  <2> DEFINE T == 1 .. k
  <2>1. /\ T \in SUBSET D /\ T # {} /\ T \ {k} = 1 .. k - 1
        /\ k \in T /\ \A y \in T : k >= y
        /\ k \in 0 .. c /\ k - 1 \in 0 .. c
    <3>1. c \in Nat
      BY <1>1
    <3>2. k \in Int /\ 1 <= k /\ k <= c
      BY <3>1
    <3>3. T \in SUBSET D /\ T # {} /\ k \in T /\ \A y \in T : k >= y
      BY <3>1, <3>2
    <3>4. T \ {k} = 1 .. k - 1
      BY <3>2
    <3>5. k \in 0 .. c /\ k - 1 \in 0 .. c
      BY <3>1, <3>2
    <3>6. QED
      BY <3>3, <3>4, <3>5
  <2>2. Max(T) = k
    <3>1. Max(T) \in T /\ \A y \in T : Max(T) >= y
      <4> HIDE DEF T
      <4>1. QED
        BY <2>1 DEF Max
    <3>2. Max(T) >= k /\ k >= Max(T) /\ Max(T) \in Int
      BY <2>1, <3>1
    <3>3. QED
      BY <3>2
  <2>3. it[T] = StepOf(lg, it[1 .. k - 1], ids[k])
    <3> HIDE DEF T
    <3>1. it[T] = UnfoldPlan(lg, p, ids, it, T)
      BY <1>5, <2>1
    <3>2. QED
      BY <2>1, <2>2, <3>1 DEF UnfoldPlan
  <2>4. tr[k] = it[T] /\ tr[k - 1] = it[1 .. k - 1]
    BY <2>1
  <2>5. QED
    BY <2>3, <2>4
<1>8. tr[c] = it[D]
  BY <1>1
<1> HIDE DEF tr
<1>9. Trace(lg, p, ids, c, tr)
  BY <1>6, <1>7 DEF Trace
<1>10. QED
  BY <1>4, <1>8, <1>9 DEF c

LEMMA TracesAgree ==
    ASSUME NEW n \in Nat, NEW lg, NEW l2, NEW p, NEW ids, NEW i2, NEW tr, NEW t2,
           Trace(lg, p, ids, n, tr), Trace(l2, p, i2, n, t2),
           \A k \in 1 .. n : ids[k] = i2[k] /\ lg[ids[k]] = l2[ids[k]]
    PROVE  tr[n] = t2[n]
<1> DEFINE T == {k \in 0 .. n : tr[k] = t2[k]}
<1>1. 0 \in T
  BY DEF Trace
<1>2. ASSUME NEW k \in T, k < n PROVE k + 1 \in T
  <2>1. k + 1 \in 1 .. n /\ k + 1 \in 0 .. n /\ k + 1 - 1 = k
    BY <1>2
  <2>2. /\ tr[k + 1] = StepOf(lg, tr[k], ids[k + 1])
        /\ t2[k + 1] = StepOf(l2, t2[k], i2[k + 1])
    BY <2>1 DEF Trace
  <2>3. tr[k] = t2[k] /\ ids[k + 1] = i2[k + 1] /\ lg[ids[k + 1]] = l2[ids[k + 1]]
    BY <2>1
  <2>4. tr[k + 1] = t2[k + 1]
    BY <2>2, <2>3 DEF StepOf
  <2>5. QED
    BY <2>1, <2>4
<1>3. T = 0 .. n
  <2>1. T \in SUBSET (0 .. n)
    OBVIOUS
  <2> HIDE DEF T
  <2>2. QED
    BY <1>1, <1>2, <2>1, UptoInduction
<1>4. n \in T
  BY <1>3
<1>5. QED
  BY <1>4

\* any function that follows the events ends in the plan they make
LEMMA TraceIs ==
    ASSUME NEW lg, NEW p, NEW S, NEW ids \in Seq(S), NEW tr,
           Trace(lg, p, ids, Len(ids), tr)
    PROVE  Folded(lg, p, ids) = tr[Len(ids)]
<1>1. PICK t2 : Trace(lg, p, ids, Len(ids), t2) /\ Folded(lg, p, ids) = t2[Len(ids)]
  BY TraceExists
<1>2. Len(ids) \in Nat
  BY LenProperties
<1>3. tr[Len(ids)] = t2[Len(ids)]
  BY <1>1, <1>2, TracesAgree
<1>4. QED
  BY <1>1, <1>3

LEMMA FoldSame ==
    ASSUME NEW lg, NEW l2, NEW p, NEW S, NEW ids \in Seq(S),
           \A i \in S : lg[i] = l2[i]
    PROVE  Folded(lg, p, ids) = Folded(l2, p, ids)
<1>1. PICK tr : Trace(lg, p, ids, Len(ids), tr) /\ Folded(lg, p, ids) = tr[Len(ids)]
  BY TraceExists
<1>2. PICK t2 : Trace(l2, p, ids, Len(ids), t2) /\ Folded(l2, p, ids) = t2[Len(ids)]
  BY TraceExists
<1>3. Len(ids) \in Nat /\ \A k \in 1 .. Len(ids) : ids[k] \in S
  BY LenProperties, ElementOfSeq
<1>4. \A k \in 1 .. Len(ids) : ids[k] = ids[k] /\ lg[ids[k]] = l2[ids[k]]
  BY <1>3
<1>5. tr[Len(ids)] = t2[Len(ids)]
  BY <1>1, <1>2, <1>3, <1>4, TracesAgree
<1>6. QED
  BY <1>1, <1>2, <1>5

LEMMA FoldEmpty ==
    ASSUME NEW lg, NEW p
    PROVE  Folded(lg, p, <<>>) = p
<1>1. PICK tr : Trace(lg, p, <<>>, Len(<<>>), tr) /\ Folded(lg, p, <<>>) = tr[Len(<<>>)]
  <2>1. <<>> \in Seq(Nat)
    OBVIOUS
  <2>2. QED
    BY <2>1, TraceExists
<1>2. QED
  BY <1>1 DEF Trace

LEMMA FoldConcat ==
    ASSUME NEW lg, NEW p, NEW S, NEW s \in Seq(S), NEW t \in Seq(S)
    PROVE  Folded(lg, p, s \o t) = Folded(lg, Folded(lg, p, s), t)
<1> DEFINE m == Len(s)
           n == Len(t)
           st == s \o t
<1>1. /\ m \in Nat /\ n \in Nat /\ st \in Seq(S) /\ Len(st) = m + n
      /\ \A k \in 1 .. m + n : st[k] = IF k <= m THEN s[k] ELSE t[k - m]
  BY ConcatProperties, LenProperties
<1> HIDE DEF m, n, st
<1>2. PICK tr : Trace(lg, p, st, m + n, tr) /\ Folded(lg, p, st) = tr[m + n]
  <2>1. PICK tr : Trace(lg, p, st, Len(st), tr) /\ Folded(lg, p, st) = tr[Len(st)]
    BY <1>1, TraceExists
  <2>2. QED
    BY <1>1, <2>1
<1>3. Trace(lg, p, s, m, tr)
  <2>1. ASSUME NEW k \in 1 .. m PROVE tr[k] = StepOf(lg, tr[k - 1], s[k])
    <3>1. k \in 1 .. m + n /\ st[k] = s[k]
      BY <1>1
    <3>2. QED
      BY <1>2, <3>1 DEF Trace
  <2>2. QED
    BY <1>2, <2>1 DEF Trace
<1>4. Folded(lg, p, s) = tr[m]
  BY <1>3, TraceIs DEF m
<1> DEFINE t2 == [k \in 0 .. n |-> tr[m + k]]
<1>5. Trace(lg, tr[m], t, n, t2)
  <2>1. t2[0] = tr[m]
    BY <1>1
  <2>2. ASSUME NEW k \in 1 .. n PROVE t2[k] = StepOf(lg, t2[k - 1], t[k])
    <3>1. /\ m + k \in 1 .. m + n /\ ~(m + k <= m) /\ m + k - m = k
          /\ k \in 0 .. n /\ k - 1 \in 0 .. n /\ m + (k - 1) = m + k - 1
      BY <1>1
    <3>2. st[m + k] = t[k]
      BY <1>1, <3>1
    <3>3. tr[m + k] = StepOf(lg, tr[m + k - 1], t[k])
      <4>1. \A j \in 1 .. m + n : tr[j] = StepOf(lg, tr[j - 1], st[j])
        BY <1>2 DEF Trace
      <4>2. PICK j \in 1 .. m + n : j = m + k
        BY <3>1
      <4>3. tr[j] = StepOf(lg, tr[j - 1], st[j])
        BY <4>1
      <4>4. st[j] = t[k] /\ j - 1 = m + k - 1
        <5>1. m \in Nat /\ n \in Nat
          BY <1>1
        <5>2. QED
          BY <3>2, <4>2, <5>1
      <4>5. tr[j] = StepOf(lg, tr[j - 1], t[k])
        BY <4>3, <4>4
      <4>6. QED
        BY <1>1, <4>2, <4>5
    <3>4. t2[k] = tr[m + k] /\ t2[k - 1] = tr[m + k - 1]
      BY <3>1
    <3>5. QED
      BY <3>3, <3>4
  <2> HIDE DEF t2
  <2>3. QED
    BY <2>1, <2>2 DEF Trace
<1>6. t2[n] = tr[m + n]
  BY <1>1
<1> HIDE DEF t2
<1>7. Folded(lg, tr[m], t) = t2[n]
  BY <1>5, TraceIs DEF n
<1>8. QED
  BY <1>2, <1>4, <1>6, <1>7 DEF st

\* each event leaves a plan of a run, and its update is one of the events
LEMMA StepTyped ==
    ASSUME NEW n \in Nat, NEW lg, NEW i \in 1 .. n, lg[i] \in Row,
           NEW p \in [run : Runs \cup {NoRun}, update : 0 .. n]
    PROVE  StepOf(lg, p, i) \in [run : Runs \cup {NoRun}, update : 0 .. n]
BY DEF StepOf, OnRunStarted, OnPlanUpdate, Row

LEMMA FoldTyped ==
    ASSUME NEW n \in Nat, NEW lg, \A i \in 1 .. n : lg[i] \in Row,
           NEW ids \in Seq(1 .. n),
           NEW p \in [run : Runs \cup {NoRun}, update : 0 .. n]
    PROVE  Folded(lg, p, ids) \in [run : Runs \cup {NoRun}, update : 0 .. n]
<1> DEFINE P == [run : Runs \cup {NoRun}, update : 0 .. n]
           c == Len(ids)
<1>1. c \in Nat /\ \A k \in 1 .. c : ids[k] \in 1 .. n
  BY LenProperties, ElementOfSeq
<1>2. PICK tr : Trace(lg, p, ids, c, tr) /\ Folded(lg, p, ids) = tr[c]
  BY TraceExists
<1> HIDE DEF c
<1> DEFINE T == {k \in 0 .. c : tr[k] \in P}
<1>3. 0 \in T
  BY <1>1, <1>2 DEF Trace
<1>4. ASSUME NEW k \in T, k < c PROVE k + 1 \in T
  <2>1. k + 1 \in 1 .. c /\ k + 1 \in 0 .. c /\ k + 1 - 1 = k
    BY <1>1, <1>4
  <2>2. tr[k + 1] = StepOf(lg, tr[k], ids[k + 1])
    BY <1>2, <2>1 DEF Trace
  <2>3. ids[k + 1] \in 1 .. n /\ lg[ids[k + 1]] \in Row
    BY <1>1, <2>1
  <2>4. tr[k + 1] \in P
    BY <2>2, <2>3, StepTyped
  <2>5. QED
    BY <2>1, <2>4
<1>5. T = 0 .. c
  <2>1. T \in SUBSET (0 .. c)
    OBVIOUS
  <2> HIDE DEF T
  <2>2. QED
    BY <1>1, <1>3, <1>4, <2>1, UptoInduction
<1>6. c \in T
  BY <1>1, <1>5
<1>7. QED
  BY <1>2, <1>6

-----------------------------------------------------------------------------
(* The invariant: every event below a cursor was read, is on its way, or    *)
(* was overtaken since the page was entered                                 *)

Explained(i) == i \notin known /\ Overtaken(i)

\* the events after m up to n
Covered(S, m, n) == \A i \in m + 1 .. n : i \in S \/ Explained(i)

\* the events of a run by their numbers, and all of them after the first k
Ordered(lg, k, ids) ==
    \A m, n \in DOMAIN ids : m < n =>
        /\ ids[m] # ids[n]
        /\ n > k \/ lg[ids[m]].run = lg[ids[n]].run => ids[m] < ids[n]

\* what was handled begins with the history, or is a part of it
HandledInv ==
    /\ Ordered(log, Len(boot.rows), handled)
    /\ boot.pc # "replaying" => \A i \in ToSet(handled) : i <= applied
    /\ boot.pc # "reading" =>
        /\ Sorted(log, boot.rows)
        /\ \A n \in DOMAIN handled : n <= Len(boot.rows) => handled[n] = boot.rows[n]
        /\ boot.pc = "replaying" => Len(handled) <= Len(boot.rows)
        /\ boot.pc = "ready" => Len(boot.rows) <= Len(handled)

WireInv == Asc(wire) /\ \A i \in ToSet(wire) : i <= conn.last

SubscribedInv ==
    /\ conn.pc \in {"subscribe", "tail"} => \A i \in known : i <= conn.last
    /\ conn.pc = "tail" => \A n \in 1 .. conn.pos : stream[n] <= conn.last
    /\ conn.pc # "tail" => conn.pos = 0

ReadingInv ==
    boot.pc # "ready" =>
        /\ applied = 0 /\ conn.pc = "off" /\ wire = <<>>
        /\ \A p \in polls : p.visit < generation
        /\ boot.pc = "reading" => handled = <<>> /\ Asc(boot.rows)
        /\ Covered(ToSet(boot.rows), 0, Top(boot.rows))

ReadyInv ==
    boot.pc = "ready" =>
        /\ url <= applied
        /\ Covered(ToSet(handled), 0, applied)
        /\ Covered(ToSet(handled) \cup ToSet(wire), 0, conn.last)

PollsInv ==
    \A p \in polls :
        /\ p.visit <= generation
        /\ Asc(p.rows)
        /\ p.visit = generation => Covered(ToSet(p.rows), applied, Final(p.rows))

OrderInv == HandledInv /\ WireInv /\ SubscribedInv /\ ReadingInv /\ ReadyInv /\ PollsInv

Inv == Types /\ OrderInv

LEMMA CoveredJoin ==
    ASSUME NEW l \in Nat, NEW m \in Nat, NEW n \in Nat, NEW S, NEW T,
           Covered(S, l, m), Covered(T, m, n)
    PROVE  Covered(S \cup T, l, n)
<1>1. SUFFICES ASSUME NEW i \in l + 1 .. n PROVE i \in S \cup T \/ Explained(i)
  BY DEF Covered
<1>2. i \in l + 1 .. m \/ i \in m + 1 .. n
  OBVIOUS
<1>3. QED
  BY <1>2 DEF Covered

LEMMA CoveredMore ==
    ASSUME NEW l \in Nat, NEW m \in Nat, NEW n \in Nat, NEW k \in Nat, NEW S, NEW T,
           Covered(S, l, m), S \subseteq T, l <= k, n <= m
    PROVE  Covered(T, k, n)
<1>1. SUFFICES ASSUME NEW i \in k + 1 .. n PROVE i \in T \/ Explained(i)
  BY DEF Covered
<1>2. i \in l + 1 .. m
  OBVIOUS
<1>3. QED
  BY <1>2 DEF Covered

\* a read of the table passes only over events that are not visible yet
LEMMA RowsCovered ==
    ASSUME LogTyped, known \subseteq Visible,
           NEW since \in Nat, NEW limit \in Nat \ {0}
    PROVE  Covered(ToSet(FetchHistory(since, limit)), since, Final(FetchHistory(since, limit)))
<1> DEFINE rows == FetchHistory(since, limit)
<1>1. /\ rows \in Seq(Visible) /\ Asc(rows) /\ ToSet(rows) \subseteq Visible
      /\ \A i \in Visible : i > since /\ (rows = <<>> \/ i <= Last(rows)) => i \in ToSet(rows)
  BY FetchTyped
<1>2. rows \in Seq(Nat) /\ Visible \subseteq Nat
  BY <1>1, TypesGive
<1> HIDE DEF rows
<1>3. /\ Final(rows) \in Nat
      /\ rows # <<>> => Final(rows) = Last(rows) /\ Last(rows) \in ToSet(rows)
      /\ rows = <<>> => Final(rows) = 0
  BY <1>1, <1>2, FinalFacts DEF Final
<1>4. ASSUME NEW i \in since + 1 .. Final(rows), i \notin ToSet(rows) PROVE Explained(i)
  <2>1. i \in Nat /\ i > since /\ i <= Final(rows) /\ Final(rows) # 0
    BY <1>3
  <2>2. rows # <<>> /\ Final(rows) = Last(rows) /\ Last(rows) \in ToSet(rows)
    BY <1>3, <2>1
  <2>3. i \notin Visible
    BY <1>1, <1>4, <2>1, <2>2
  <2>4. Last(rows) \in Visible /\ Last(rows) > i
    <3>1. Last(rows) # i /\ Last(rows) \in Visible
      BY <1>1, <1>4, <2>2
    <3>2. QED
      BY <1>3, <2>1, <2>2, <3>1
  <2>5. Overtaken(i)
    BY <2>3, <2>4 DEF Overtaken
  <2>6. QED
    BY <2>3, <2>5 DEF Explained
<1>5. QED
  BY <1>4 DEF Covered, rows

\* the order of the log's rows does not change
LEMMA HandledStays ==
    ASSUME Inv, UNCHANGED <<boot, handled, applied>>,
           \A i \in 1 .. Len(log) : log'[i] = log[i]
    PROVE  HandledInv'
<1>1. /\ HandledInv /\ Visible \subseteq 1 .. Len(log)
      /\ handled \in Seq(Visible) /\ boot.rows \in Seq(Visible)
  BY TypesGive DEF Inv, Types, PageTyped, OrderInv
<1>2. \A k \in DOMAIN handled : log'[handled[k]] = log[handled[k]]
  <2>1. TAKE k \in DOMAIN handled
  <2>2. handled[k] \in Visible
    BY <1>1, InToSet, ToSetFinite
  <2>3. QED
    BY <1>1, <2>2
<1>3. \A k \in DOMAIN boot.rows : log'[boot.rows[k]] = log[boot.rows[k]]
  <2>1. TAKE k \in DOMAIN boot.rows
  <2>2. boot.rows[k] \in Visible
    BY <1>1, InToSet, ToSetFinite
  <2>3. QED
    BY <1>1, <2>2
<1>4. Ordered(log', Len(boot.rows), handled)
  BY <1>1, <1>2 DEF HandledInv, Ordered
<1>5. Sorted(log, boot.rows) => Sorted(log', boot.rows)
  BY <1>3 DEF Sorted
<1>6. QED
  BY <1>1, <1>4, <1>5 DEF HandledInv

-----------------------------------------------------------------------------
(* The steps of the log *)

LEMMA EmitInv ==
    ASSUME Inv, EmitNext
    PROVE  Inv'
<1>1. PICK r \in Runs : EmitStep(r)
  BY DEF EmitNext
<1>2. LogTyped' /\ LogGrows /\ UNCHANGED <<started, connVars, clientVars>>
  BY <1>1, EmitGrows DEF EmitNext, Inv, Types
<1>3. /\ UNCHANGED <<started, conn, wire, generation, boot, url, polls, applied, handled,
                     plan, sending, answered, known>>
  BY <1>2 DEF connVars, clientVars, viewVars
<1>4. /\ Visible \subseteq Visible' /\ Len(log) \in Nat /\ Len(log') \in Nat
      /\ Len(log) <= Len(log') /\ Len(stream) \in Nat /\ Len(stream') \in Nat
      /\ Len(stream) <= Len(stream')
      /\ \A n \in 1 .. Len(stream) : stream'[n] = stream[n]
  BY <1>2 DEF LogGrows
<1>5. Seq(Visible) \subseteq Seq(Visible')
  BY <1>4, SeqMonotonic
<1>6. ConnTyped'
  <2>1. 0 .. Len(stream) \subseteq 0 .. Len(stream')
    BY <1>4
  <2>2. QED
    BY <1>3, <1>5, <2>1 DEF Inv, Types, ConnTyped
<1>7. PageTyped'
  <2>1. 0 .. Len(log) \subseteq 0 .. Len(log')
    BY <1>4
  <2>2. [visit : Nat, rows : Seq(Visible)] \subseteq [visit : Nat, rows : Seq(Visible')]
    BY <1>5
  <2>3. QED
    BY <1>3, <1>4, <1>5, <2>1, <2>2 DEF Inv, Types, PageTyped
<1>8. StoreTyped'
  <2>1. 0 .. Len(log) \subseteq 0 .. Len(log')
    BY <1>4
  <2>2. plan' \in [run : Runs \cup {NoRun}, update : 0 .. Len(log')]
    BY <1>3, <2>1 DEF Inv, Types, StoreTyped
  <2>3. QED
    BY <1>3, <2>2 DEF Inv, Types, StoreTyped
<1>9. \A i : Explained(i) => Explained(i)'
  BY <1>2, <1>3 DEF LogGrows, Explained
<1>10. HandledInv' /\ WireInv'
  <2>1. HandledInv'
    BY <1>2, <1>3, HandledStays DEF LogGrows
  <2>2. QED
    BY <1>3, <2>1 DEF Inv, OrderInv, WireInv
<1>11. SubscribedInv'
  <2>1. 1 .. conn.pos \subseteq 1 .. Len(stream)
    BY <1>4 DEF Inv, Types, ConnTyped
  <2>2. QED
    BY <1>3, <1>4, <2>1 DEF Inv, OrderInv, SubscribedInv
<1>12. ReadingInv' /\ ReadyInv' /\ PollsInv'
  BY <1>3, <1>9 DEF Inv, OrderInv, ReadingInv, ReadyInv, PollsInv, Covered
<1>13. QED
  BY <1>2, <1>6, <1>7, <1>8, <1>10, <1>11, <1>12 DEF Inv, Types, OrderInv

-----------------------------------------------------------------------------
(* stream.py: the steps of the connection *)

LEMMA Steady ==
    ASSUME UNCHANGED <<log, commits, stream, known>>
    PROVE  Visible' = Visible /\ \A i : Explained(i)' <=> Explained(i)
BY DEF Visible, Explained, Overtaken

LEMMA SteadyLog ==
    ASSUME LogTyped, UNCHANGED logVars, started' \subseteq Runs, faults' \in Nat
    PROVE  LogTyped' /\ Visible' = Visible /\ UNCHANGED <<log, commits, stream>>
<1>1. UNCHANGED <<emitting, begun, clock, log, commits, stream>> /\ Visible' = Visible
  BY DEF logVars, Visible
<1>2. QED
  BY <1>1, TimesStay DEF LogTyped

LEMMA ServerKeeps ==
    ASSUME Inv, UNCHANGED <<started, logVars, clientVars>>,
           faults' \in {faults, faults + 1}, ConnTyped', WireInv',
           SubscribedInv', boot.pc = "ready",
           Covered(ToSet(handled) \cup ToSet(wire'), 0, conn'.last)
    PROVE  Inv'
<1>1. LogTyped' /\ Visible' = Visible /\ UNCHANGED <<log, commits, stream>>
  BY SteadyLog DEF Inv, Types, LogTyped
<1>2. /\ UNCHANGED <<started, generation, boot, url, polls, applied, handled,
                     plan, sending, answered, known>>
  BY DEF clientVars, viewVars
<1>3. \A i : Explained(i)' <=> Explained(i)
  BY <1>1, <1>2, Steady
<1>4. Types'
  BY <1>1, <1>2 DEF Inv, Types, PageTyped, StoreTyped
<1>5. HandledInv'
  BY <1>1, <1>2, HandledStays
<1>6. ReadingInv'
  BY <1>2 DEF ReadingInv
<1>7. ReadyInv'
  BY <1>2, <1>3 DEF Inv, OrderInv, ReadyInv, Covered
<1>8. PollsInv'
  BY <1>2, <1>3 DEF Inv, OrderInv, PollsInv, Covered
<1>9. QED
  BY <1>4, <1>5, <1>6, <1>7, <1>8 DEF Inv, OrderInv

LEMMA ConnReady ==
    ASSUME Inv, conn.pc # "off"
    PROVE  boot.pc = "ready" /\ Covered(ToSet(handled) \cup ToSet(wire), 0, conn.last)
BY DEF Inv, OrderInv, ReadingInv, ReadyInv

LEMMA CatchUpInv ==
    ASSUME Inv, CatchUp, UNCHANGED clientVars
    PROVE  Inv'
<1> DEFINE rows == FetchHistory(conn.last, HistoryLimit)
<1>1. /\ conn' = IF rows = <<>> THEN Connection("subscribe", conn.last)
                               ELSE Connection("catchup", Last(rows))
      /\ wire' = wire \o rows
      /\ UNCHANGED <<started, logVars, faults>> /\ conn.pc = "catchup"
  BY DEF CatchUp
<1>2. LogTyped /\ conn.last \in Nat /\ known \subseteq Visible /\ wire \in Seq(Visible)
  BY DEF Inv, Types, ConnTyped, PageTyped
<1>3. HistoryLimit \in Nat \ {0}
  BY StreamAssumption
<1>4. /\ rows \in Seq(Visible) /\ Asc(rows) /\ ToSet(rows) \subseteq Visible
      /\ \A i \in ToSet(rows) : i > conn.last
      /\ \A i \in Visible : i > conn.last /\ rows = <<>> => i \in ToSet(rows)
      /\ Covered(ToSet(rows), conn.last, Final(rows))
  BY <1>2, <1>3, FetchTyped, RowsCovered
<1> HIDE DEF rows
<1>5. /\ wire \in Seq(Nat) /\ rows \in Seq(Nat) /\ Visible \subseteq Nat
      /\ Len(stream) \in Nat
  BY <1>2, <1>4, TypesGive, LenProperties DEF LogTyped
<1>6. /\ Final(rows) \in Nat /\ \A i \in ToSet(rows) : i <= Final(rows)
      /\ rows # <<>> => Final(rows) = Last(rows) /\ Last(rows) \in ToSet(rows)
      /\ rows = <<>> => ToSet(rows) = {}
  BY <1>4, <1>5, FinalFacts
<1>7. ToSet(wire') = ToSet(wire) \cup ToSet(rows) /\ wire' \in Seq(Visible)
  BY <1>1, <1>2, <1>4, ToSetConcat, ConcatProperties
<1>8. /\ conn'.last \in Nat /\ conn.last <= conn'.last
      /\ rows # <<>> => conn'.last = Final(rows) /\ conn'.pc = "catchup"
      /\ rows = <<>> => conn'.last = conn.last /\ conn'.pc = "subscribe"
      /\ conn' = [pc |-> conn'.pc, last |-> conn'.last, pos |-> 0]
  <2>1. CASE rows = <<>>
    BY <1>1, <1>2, <2>1 DEF Connection
  <2>2. CASE rows # <<>>
    <3>1. Last(rows) \in Nat /\ Last(rows) > conn.last /\ Final(rows) = Last(rows)
      BY <1>4, <1>6, <2>2
    <3>2. QED
      BY <1>1, <1>2, <2>2, <3>1 DEF Connection
  <2>3. QED
    BY <2>1, <2>2
<1>9. stream' = stream /\ Visible' = Visible /\ UNCHANGED <<handled, known>>
  BY <1>1 DEF logVars, Visible, clientVars, viewVars
<1>10. ConnTyped'
  BY <1>5, <1>7, <1>8, <1>9 DEF ConnTyped
<1>11. WireInv'
  <2>1. Asc(wire) /\ \A i \in ToSet(wire) : i <= conn.last
    BY DEF Inv, OrderInv, WireInv
  <2>2. ToSet(wire) \subseteq Nat /\ ToSet(rows) \subseteq Nat
    BY <1>5, ToSetFinite
  <2>3. \A x \in ToSet(wire), y \in ToSet(rows) : x < y
    BY <1>2, <1>4, <2>1, <2>2
  <2>4. Asc(wire')
    BY <1>1, <1>4, <1>5, <2>1, <2>3, AscConcat
  <2>5. ASSUME NEW i \in ToSet(wire') PROVE i <= conn'.last
    <3>1. CASE i \in ToSet(wire)
      BY <1>2, <1>8, <2>1, <2>2, <3>1
    <3>2. CASE i \in ToSet(rows)
      BY <1>6, <1>8, <3>2
    <3>3. QED
      BY <1>7, <3>1, <3>2
  <2>6. QED
    BY <2>4, <2>5 DEF WireInv
<1>12. SubscribedInv'
  <2>1. ASSUME rows = <<>>, NEW i \in known PROVE i <= conn.last
    <3>1. i \in Visible /\ i \notin ToSet(rows)
      BY <1>2, <1>6, <2>1
    <3>2. ~(i > conn.last)
      BY <1>4, <2>1, <3>1
    <3>3. QED
      BY <1>2, <1>5, <3>1, <3>2
  <2>2. QED
    BY <1>8, <1>9, <2>1 DEF SubscribedInv
<1>13. boot.pc = "ready" /\ Covered(ToSet(handled) \cup ToSet(wire), 0, conn.last)
  BY <1>1, ConnReady
<1>14. Covered(ToSet(handled) \cup ToSet(wire'), 0, conn'.last)
  <2>1. CASE rows = <<>>
    <3>1. ToSet(wire') = ToSet(wire) /\ conn'.last = conn.last
      BY <1>6, <1>7, <1>8, <2>1
    <3>2. QED
      BY <1>13, <3>1
  <2>2. CASE rows # <<>>
    <3>1. Covered((ToSet(handled) \cup ToSet(wire)) \cup ToSet(rows), 0, Final(rows))
      BY <1>2, <1>4, <1>6, <1>13, CoveredJoin
    <3>2. (ToSet(handled) \cup ToSet(wire)) \cup ToSet(rows) = ToSet(handled) \cup ToSet(wire')
      BY <1>7
    <3>3. conn'.last = Final(rows)
      BY <1>8, <2>2
    <3>4. QED
      BY <3>1, <3>2, <3>3
  <2>3. QED
    BY <2>1, <2>2
<1>15. QED
  BY <1>1, <1>10, <1>11, <1>12, <1>13, <1>14, ServerKeeps

LEMMA SubscribeInv ==
    ASSUME Inv, Subscribe, UNCHANGED clientVars
    PROVE  Inv'
<1>1. /\ conn' = [conn EXCEPT !.pc = "tail"] /\ conn.pc = "subscribe"
      /\ UNCHANGED <<started, logVars, wire, faults>>
  BY DEF Subscribe
<1>2. boot.pc = "ready" /\ Covered(ToSet(handled) \cup ToSet(wire), 0, conn.last)
  BY <1>1, ConnReady
<1>3. conn' = [pc |-> "tail", last |-> conn.last, pos |-> conn.pos]
  BY <1>1 DEF Inv, Types, ConnTyped
<1>4. stream' = stream /\ Visible' = Visible /\ UNCHANGED <<handled, known, wire>>
  BY <1>1 DEF logVars, Visible, clientVars, viewVars
<1>5. conn.pos = 0 /\ \A i \in known : i <= conn.last
  BY <1>1 DEF Inv, OrderInv, SubscribedInv
<1>6. ConnTyped'
  BY <1>3, <1>4 DEF Inv, Types, ConnTyped
<1>7. WireInv' /\ conn'.last = conn.last
  BY <1>3, <1>4 DEF Inv, OrderInv, WireInv
<1>8. SubscribedInv'
  <2>1. 1 .. conn'.pos = {}
    BY <1>3, <1>5
  <2>2. conn'.pc = "tail" /\ \A i \in known' : i <= conn'.last
    BY <1>3, <1>4, <1>5
  <2>3. QED
    BY <2>1, <2>2 DEF SubscribedInv
<1>9. Covered(ToSet(handled) \cup ToSet(wire'), 0, conn'.last)
  BY <1>2, <1>4, <1>7
<1>10. QED
  BY <1>1, <1>2, <1>6, <1>7, <1>8, <1>9, ServerKeeps

LEMMA FollowInv ==
    ASSUME Inv, Follow, UNCHANGED clientVars
    PROVE  Inv'
<1> DEFINE n == conn.pos + 1
           seq == stream[n]
<1>1. /\ conn.pc = "tail" /\ conn.pos < Len(stream)
      /\ UNCHANGED <<started, logVars, faults>>
  BY DEF Follow
<1>2. \/ seq <= conn.last /\ conn' = [conn EXCEPT !.pos = @ + 1] /\ wire' = wire
      \/ /\ ~(seq <= conn.last) /\ wire' = Append(wire, seq)
         /\ conn' = [conn EXCEPT !.pos = @ + 1, !.last = seq]
  BY DEF Follow
<1>3. /\ LogTyped /\ conn.last \in Nat /\ known \subseteq Visible /\ wire \in Seq(Visible)
      /\ conn.pos \in 0 .. Len(stream)
      /\ conn = [pc |-> conn.pc, last |-> conn.last, pos |-> conn.pos]
  BY DEF Inv, Types, ConnTyped, PageTyped
<1>4. /\ Len(stream) \in Nat /\ DOMAIN stream = 1 .. Len(stream)
      /\ \A m \in 1 .. Len(stream) : stream[m] \in Visible
  BY <1>3, LenProperties, ElementOfSeq DEF LogTyped
<1>5. Len(stream) \in Nat
  BY <1>4
<1>6. n \in 1 .. Len(stream) /\ n \in Nat
  BY <1>1, <1>3, <1>5
<1>7. Visible \subseteq Nat /\ seq \in Visible /\ wire \in Seq(Nat)
  BY <1>3, <1>4, <1>6, TypesGive
<1>8. boot.pc = "ready" /\ Covered(ToSet(handled) \cup ToSet(wire), 0, conn.last)
  BY <1>1, ConnReady
<1>9. stream' = stream /\ Visible' = Visible /\ UNCHANGED <<handled, known>>
  BY <1>1 DEF logVars, Visible, clientVars, viewVars
<1>10. /\ \A i \in known : i <= conn.last
       /\ \A m \in 1 .. conn.pos : stream[m] <= conn.last
  BY <1>1 DEF Inv, OrderInv, SubscribedInv
<1>11. Asc(wire) /\ \A i \in ToSet(wire) : i <= conn.last
  BY DEF Inv, OrderInv, WireInv
<1>12. conn.pos \in Nat
  BY <1>3, <1>5
<1>13. CASE seq <= conn.last
  <2>1. conn' = [pc |-> "tail", last |-> conn.last, pos |-> n] /\ wire' = wire
    BY <1>1, <1>2, <1>3, <1>13
  <2> HIDE DEF seq
  <2>2. ConnTyped'
    <3>1. n \in 0 .. Len(stream)
      BY <1>5, <1>6
    <3> HIDE DEF n
    <3>2. QED
      BY <1>3, <1>9, <2>1, <3>1 DEF ConnTyped
  <2>3. WireInv'
    BY <1>11, <2>1 DEF WireInv
  <2>4. \A m \in 1 .. n : stream[m] <= conn.last
    <3>1. TAKE m \in 1 .. n
    <3>2. m \in 1 .. conn.pos \/ m = n
      BY <1>12
    <3>3. stream[n] <= conn.last
      BY <1>13 DEF seq
    <3>4. QED
      BY <1>10, <3>2, <3>3
  <2>5. SubscribedInv'
    BY <1>9, <1>10, <2>1, <2>4 DEF SubscribedInv
  <2>6. Covered(ToSet(handled) \cup ToSet(wire'), 0, conn'.last)
    BY <1>8, <2>1
  <2>7. QED
    BY <1>1, <1>8, <2>2, <2>3, <2>5, <2>6, ServerKeeps
<1>14. CASE ~(seq <= conn.last)
  <2>1. conn' = [pc |-> "tail", last |-> seq, pos |-> n] /\ wire' = Append(wire, seq)
    BY <1>1, <1>2, <1>3, <1>14
  <2>2. seq \in Nat /\ seq > conn.last
    BY <1>3, <1>7, <1>14
  <2>3. wire' \in Seq(Visible) /\ ToSet(wire') = ToSet(wire) \cup {seq}
    BY <1>3, <1>7, <2>1, AppendProperties, ToSetAppend
  <2>4. ConnTyped'
    <3>1. n \in 0 .. Len(stream)
      BY <1>5, <1>6
    <3> HIDE DEF n, seq
    <3>2. QED
      BY <1>9, <2>1, <2>2, <2>3, <3>1 DEF ConnTyped
  <2>5. ToSet(wire) \subseteq Nat
    BY <1>7, ToSetFinite
  <2>6. WireInv'
    <3>1. wire' = wire \o <<seq>>
      BY <1>3, <1>7, <2>1, AppendIsConcat
    <3>2. Asc(<<seq>>) /\ <<seq>> \in Seq(Nat) /\ ToSet(<<seq>>) = {seq}
      BY <2>2 DEF Asc, ToSet
    <3> HIDE DEF seq
    <3>3. \A x \in ToSet(wire), y \in ToSet(<<seq>>) : x < y
      BY <1>3, <1>11, <2>2, <2>5, <3>2
    <3>4. Asc(wire')
      BY <1>7, <1>11, <3>1, <3>2, <3>3, AscConcat
    <3>5. \A i \in ToSet(wire') : i <= conn'.last
      BY <1>3, <1>11, <2>1, <2>2, <2>3, <2>5
    <3>6. QED
      BY <3>4, <3>5 DEF WireInv
  <2>7. SubscribedInv'
    <3>1. ASSUME NEW i \in known PROVE i <= seq
      BY <1>3, <1>7, <1>10, <2>2
    <3>2. ASSUME NEW m \in 1 .. n PROVE stream[m] <= seq
      <4>1. m \in 1 .. conn.pos \/ m = n
        BY <1>12
      <4>2. CASE m = n
        BY <2>2, <4>2
      <4>3. CASE m \in 1 .. conn.pos
        <5>1. stream[m] <= conn.last
          BY <1>10, <4>3
        <5>2. m \in 1 .. Len(stream)
          BY <1>3, <1>5, <4>3
        <5>3. stream[m] \in Nat
          BY <1>4, <1>7, <5>2
        <5>4. QED
          BY <1>3, <2>2, <5>1, <5>3
      <4>4. QED
        BY <4>1, <4>2, <4>3
    <3> HIDE DEF n, seq
    <3>3. QED
      BY <1>9, <2>1, <3>1, <3>2 DEF SubscribedInv
  <2>8. Covered({seq}, conn.last, seq)
    <3>1. SUFFICES ASSUME NEW i \in conn.last + 1 .. seq, i # seq PROVE Explained(i)
      BY DEF Covered
    <3>2. i \in Int /\ i > conn.last /\ i < seq
      BY <1>3, <2>2, <3>1
    <3>3. i \notin known
      BY <1>10, <3>2, <1>3
    <3>4. n \in DOMAIN stream /\ seq \in ToSet(stream)
      BY <1>4, <1>6, InToSet
    <3>5. CASE i \in ToSet(stream)
      <4>1. PICK m \in 1 .. Len(stream) : stream[m] = i
        BY <1>4, <3>5, InToSet
      <4>2. ~(m \in 1 .. conn.pos)
        BY <1>10, <1>3, <3>2, <4>1
      <4>3. m # n
        BY <3>2, <4>1
      <4>4. n < m
        BY <1>5, <1>12, <4>1, <4>2, <4>3
      <4>5. m \in DOMAIN stream
        BY <1>4, <4>1
      <4>6. Before(stream, seq, i)
        BY <3>4, <4>1, <4>4, <4>5 DEF Before
      <4>7. QED
        BY <3>2, <3>3, <3>4, <4>6 DEF Explained, Overtaken
    <3>6. CASE i \notin ToSet(stream)
      BY <3>2, <3>3, <3>4, <3>6 DEF Explained, Overtaken
    <3>7. QED
      BY <3>5, <3>6
  <2>9. Covered(ToSet(handled) \cup ToSet(wire'), 0, conn'.last)
    <3>1. Covered((ToSet(handled) \cup ToSet(wire)) \cup {seq}, 0, seq)
      <4> HIDE DEF seq
      <4>1. QED
        BY <1>3, <1>8, <2>2, <2>8, CoveredJoin
    <3>2. (ToSet(handled) \cup ToSet(wire)) \cup {seq} = ToSet(handled) \cup ToSet(wire')
      BY <2>3
    <3>3. QED
      BY <2>1, <3>1, <3>2
  <2>10. QED
    BY <1>1, <1>8, <2>4, <2>6, <2>7, <2>9, ServerKeeps
<1>15. QED
  BY <1>13, <1>14

LEMMA ServerInv ==
    ASSUME Inv, ServerNext
    PROVE  Inv'
BY CatchUpInv, SubscribeInv, FollowInv DEF ServerNext, ServerStep

\* the EventSource opens its URL again
LEMMA ReconnectInv ==
    ASSUME Inv, Reconnect
    PROVE  Inv'
<1>1. /\ conn' = [pc |-> "catchup", last |-> url, pos |-> 0] /\ wire' = <<>>
      /\ conn.pc # "off" /\ faults' = faults + 1
      /\ UNCHANGED <<started, logVars, clientVars>>
  BY DEF Reconnect, Fault, Connection
<1>2. boot.pc = "ready"
  BY <1>1, ConnReady
<1>3. url <= applied /\ Covered(ToSet(handled), 0, applied)
  BY <1>2 DEF Inv, OrderInv, ReadyInv
<1>4. url \in Nat /\ applied \in Nat /\ Len(stream) \in Nat
  <2>1. Len(log) \in Nat /\ stream \in Seq(Visible)
    BY TypesGive DEF Inv, Types, LogTyped
  <2>2. QED
    BY <2>1, LenProperties DEF Inv, Types, PageTyped
<1>5. ConnTyped'
  <2>1. stream' = stream
    BY <1>1 DEF logVars
  <2>2. QED
    BY <1>1, <1>4, <2>1 DEF ConnTyped
<1>6. ToSet(<<>>) = {} /\ Asc(<<>>)
  BY DEF ToSet, Asc
<1>7. WireInv' /\ SubscribedInv'
  BY <1>1, <1>6 DEF WireInv, SubscribedInv
<1>8. Covered(ToSet(handled) \cup ToSet(wire'), 0, conn'.last)
  <2>1. Covered(ToSet(handled), 0, url)
    BY <1>3, <1>4, CoveredMore
  <2>2. QED
    BY <1>1, <1>6, <2>1
<1>9. QED
  BY <1>1, <1>2, <1>5, <1>7, <1>8, ServerKeeps

-----------------------------------------------------------------------------
(* useEventStream.ts: the steps of the page *)

LEMMA AppliedTyped ==
    ASSUME LogTyped, NEW p \in [run : Runs \cup {NoRun}, update : 0 .. Len(log)],
           NEW ids \in Seq(Visible)
    PROVE  ApplyAll(p, ids) \in [run : Runs \cup {NoRun}, update : 0 .. Len(log)]
<1>1. Len(log) \in Nat /\ \A i \in 1 .. Len(log) : log[i] \in Row
  BY LenProperties, ElementOfSeq DEF LogTyped
<1>2. ids \in Seq(1 .. Len(log))
  BY TypesGive, SeqMonotonic
<1>3. Folded(log, p, ids) \in [run : Runs \cup {NoRun}, update : 0 .. Len(log)]
  BY <1>1, <1>2, FoldTyped
<1>4. QED
  BY <1>3, FoldShape

LEMMA EmptyFacts ==
    /\ ToSet(<<>>) = {} /\ Asc(<<>>) /\ Final(<<>>) = 0
    /\ \A S : <<>> \in Seq(S) /\ Covered(S, 0, 0)
    /\ \A lg : Sorted(lg, <<>>) /\ \A k : Ordered(lg, k, <<>>)
    /\ Top(<<>>) = 0 /\ Len(<<>>) = 0 /\ DOMAIN <<>> = {}
<1>1. DOMAIN <<>> = {} /\ ToSet(<<>>) = {} /\ Len(<<>>) = 0
  BY DEF ToSet
<1>2. Top(<<>>) = 0
  BY <1>1 DEF Top, Max
<1>3. QED
  BY <1>1, <1>2 DEF Asc, Final, Covered, Sorted, Ordered

LEMMA MountInv ==
    ASSUME Inv, Mount
    PROVE  Inv'
<1>1. /\ generation' = generation + 1
      /\ boot' = [pc |-> "reading", rows |-> <<>>]
      /\ applied' = 0 /\ handled' = <<>> /\ plan' = NoPlan
      /\ conn' = [pc |-> "off", last |-> 0, pos |-> 0] /\ wire' = <<>>
      /\ url' = 0 /\ known' = Visible
      /\ UNCHANGED <<started, logVars, faults, polls, sending, answered>>
  BY DEF Mount, Connection
<1>2. LogTyped' /\ Visible' = Visible /\ UNCHANGED <<log, commits, stream>>
  BY <1>1, SteadyLog DEF Inv, Types, LogTyped
<1>3. Len(log) \in Nat /\ Len(stream) \in Nat /\ generation \in Nat
  <2>1. Len(log) \in Nat /\ stream \in Seq(Visible)
    BY TypesGive DEF Inv, Types, LogTyped
  <2>2. QED
    BY <2>1, LenProperties DEF Inv, Types, PageTyped
<1>4. ConnTyped'
  BY <1>1, <1>2, <1>3, EmptyFacts DEF ConnTyped
<1>5. PageTyped'
  BY <1>1, <1>2, <1>3, EmptyFacts DEF Inv, Types, PageTyped
<1>6. StoreTyped'
  BY <1>1, <1>2, <1>3 DEF Inv, Types, StoreTyped, NoPlan
<1>7. HandledInv' /\ WireInv' /\ SubscribedInv'
  BY <1>1, EmptyFacts DEF HandledInv, WireInv, SubscribedInv
<1>8. \A p \in polls : p.visit \in Nat /\ p.visit <= generation /\ Asc(p.rows)
  BY DEF Inv, Types, PageTyped, OrderInv, PollsInv
<1>9. \A p \in polls' : p.visit < generation' /\ p.visit <= generation' /\ p.visit # generation'
  BY <1>1, <1>3, <1>8
<1>10. Covered({}, 0, 0)'
  BY DEF Covered
<1>11. ReadingInv' /\ ReadyInv'
  BY <1>1, <1>9, <1>10, EmptyFacts DEF ReadingInv, ReadyInv
<1>12. PollsInv'
  BY <1>1, <1>8, <1>9 DEF PollsInv
<1>13. QED
  BY <1>2, <1>4, <1>5, <1>6, <1>7, <1>11, <1>12 DEF Inv, Types, OrderInv

LEMMA FinalConcat ==
    ASSUME NEW S, NEW s \in Seq(S), NEW t \in Seq(S)
    PROVE  /\ t # <<>> => Final(s \o t) = Final(t)
           /\ t = <<>> => s \o t = s
<1>1. /\ s \o t \in Seq(S) /\ Len(s) \in Nat /\ Len(t) \in Nat
      /\ Len(s \o t) = Len(s) + Len(t)
      /\ \A k \in 1 .. Len(s) + Len(t) : (s \o t)[k] = IF k <= Len(s) THEN s[k] ELSE t[k - Len(s)]
  BY ConcatProperties, LenProperties
<1>2. ASSUME t # <<>> PROVE Final(s \o t) = Final(t)
  <2>1. Len(t) \in Nat \ {0}
    BY <1>2, EmptySeq
  <2>2. s \o t # <<>>
    BY <1>1, <2>1, EmptySeq
  <2>3. (s \o t)[Len(s) + Len(t)] = t[Len(t)]
    <3>1. /\ Len(s) + Len(t) \in 1 .. Len(s) + Len(t) /\ ~(Len(s) + Len(t) <= Len(s))
          /\ Len(s) + Len(t) - Len(s) = Len(t)
      BY <1>1, <2>1
    <3>2. QED
      BY <1>1, <3>1
  <2>4. QED
    BY <1>1, <1>2, <2>2, <2>3 DEF Final, Last
<1>3. QED
  BY <1>2, ConcatEmptySeq

\* the pages of the history read so far
LEMMA PageFacts ==
    ASSUME Inv, boot.pc = "reading"
    PROVE  LET rows == boot.rows \o HistoryPage
           IN  /\ rows \in Seq(Visible)
               /\ Asc(rows)
               /\ Covered(ToSet(rows), 0, Final(rows))
               /\ Top(rows) = Final(rows)
<1> DEFINE old == boot.rows
           page == HistoryPage
           rows == old \o page
<1>1. /\ LogTyped /\ known \subseteq Visible /\ old \in Seq(Visible)
      /\ Asc(old) /\ Covered(ToSet(old), 0, Final(old))
  <2>1. /\ LogTyped /\ known \subseteq Visible /\ old \in Seq(Visible)
        /\ Asc(old) /\ Covered(ToSet(old), 0, Top(old))
    BY DEF Inv, Types, PageTyped, OrderInv, ReadingInv
  <2>2. QED
    BY <2>1, TopFacts
<1>2. old \in Seq(Nat) /\ Visible \subseteq Nat /\ Len(log) \in Nat /\ Visible \subseteq 1 .. Len(log)
  BY <1>1, TypesGive
<1> HIDE DEF old
<1>3. Final(old) \in Nat /\ \A x \in ToSet(old) : x <= Final(old)
  BY <1>1, <1>2, FinalFacts
<1>4. page = FetchHistory(Final(old), PageLimit)
  BY DEF HistoryPage, ListEvents, Final, old
<1> HIDE DEF page
<1>5. /\ page \in Seq(Visible) /\ Asc(page)
      /\ \A i \in ToSet(page) : i > Final(old)
      /\ Covered(ToSet(page), Final(old), Final(page))
  BY <1>1, <1>3, <1>4, FetchTyped, RowsCovered, ClientAssumption
<1>6. page \in Seq(Nat)
  BY <1>1, <1>5, TypesGive
<1>7. ToSet(old) \subseteq Nat /\ ToSet(page) \subseteq Nat /\ Final(page) \in Nat
  BY <1>2, <1>5, <1>6, ToSetFinite, FinalFacts
<1>8. rows \in Seq(Visible) /\ ToSet(rows) = ToSet(old) \cup ToSet(page)
  BY <1>1, <1>5, ToSetConcat, ConcatProperties
<1>9. Asc(rows)
  <2>1. \A x \in ToSet(old), y \in ToSet(page) : x < y
    BY <1>3, <1>5, <1>7
  <2>2. QED
    BY <1>1, <1>2, <1>5, <1>6, <2>1, AscConcat
<1>10. Covered(ToSet(rows), 0, Final(rows))
  <2>1. CASE page = <<>>
    <3>1. rows = old
      BY <1>1, <1>5, <2>1, FinalConcat
    <3>2. QED
      BY <1>1, <3>1
  <2>2. CASE page # <<>>
    <3>1. Final(rows) = Final(page)
      BY <1>1, <1>5, <2>2, FinalConcat
    <3>2. Covered(ToSet(old) \cup ToSet(page), 0, Final(page))
      BY <1>1, <1>3, <1>5, <1>7, CoveredJoin
    <3>3. QED
      BY <1>8, <3>1, <3>2
  <2>3. QED
    BY <2>1, <2>2
<1>11. Top(rows) = Final(rows)
  BY <1>1, <1>8, <1>9, TopFacts
<1>12. QED
  BY <1>8, <1>9, <1>10, <1>11 DEF rows, old, page

\* a history that grows or was sorted, and is not replayed yet
LEMMA BootKeeps ==
    ASSUME Inv, boot.pc = "reading", NEW pc \in {"reading", "replaying"},
           NEW rows \in Seq(Visible), boot' = [pc |-> pc, rows |-> rows],
           Covered(ToSet(rows), 0, Top(rows)),
           pc = "reading" => Asc(rows), pc = "replaying" => Sorted(log, rows),
           UNCHANGED <<streamVars, generation, url, polls, viewVars, sending, answered, known>>
    PROVE  Inv'
<1>1. UNCHANGED <<started, logVars, faults, conn, wire, generation, url, polls, applied, handled,
                  plan, sending, answered, known>>
  BY DEF streamVars, viewVars, connVars
<1>2. LogTyped' /\ Visible' = Visible /\ UNCHANGED <<log, commits, stream>>
  BY <1>1, SteadyLog DEF Inv, Types, LogTyped
<1>3. \A i : Explained(i)' <=> Explained(i)
  BY <1>1, <1>2, Steady
<1>4. ConnTyped' /\ StoreTyped'
  BY <1>1, <1>2 DEF Inv, Types, ConnTyped, StoreTyped
<1>5. PageTyped'
  BY <1>1, <1>2 DEF Inv, Types, PageTyped
<1>6. /\ handled = <<>> /\ applied = 0 /\ conn.pc = "off" /\ wire = <<>>
      /\ \A p \in polls : p.visit < generation
  BY DEF Inv, OrderInv, ReadingInv
<1>7. WireInv' /\ SubscribedInv'
  BY <1>1, <1>2 DEF Inv, OrderInv, WireInv, SubscribedInv
<1>8. HandledInv'
  <2>1. Len(rows) \in Nat
    BY LenProperties
  <2>2. handled' = <<>> /\ applied' = 0 /\ log' = log /\ boot'.pc = pc /\ boot'.rows = rows
    BY <1>1, <1>2, <1>6
  <2>3. Ordered(log', Len(boot'.rows), handled') /\ ToSet(handled') = {} /\ Len(handled') = 0
        /\ DOMAIN handled' = {}
    BY <2>2, EmptyFacts, Zenon
  <2>4. pc = "replaying" => Sorted(log', boot'.rows)
    BY <2>2
  <2>5. QED
    BY <2>1, <2>2, <2>3, <2>4 DEF HandledInv
<1>9. \A i \in 0 + 1 .. Top(rows) : i \in ToSet(rows) \/ Explained(i)'
  BY <1>3 DEF Covered
<1>10. ReadingInv'
  BY <1>1, <1>6, <1>9 DEF ReadingInv, Covered
<1>11. ReadyInv'
  BY DEF ReadyInv
<1>12. PollsInv'
  BY <1>1, <1>3 DEF Inv, OrderInv, PollsInv, Covered
<1>13. QED
  BY <1>2, <1>4, <1>5, <1>7, <1>8, <1>10, <1>11, <1>12 DEF Inv, Types, OrderInv

LEMMA BootPageInv ==
    ASSUME Inv, BootPage
    PROVE  Inv'
<1> DEFINE rows == boot.rows \o HistoryPage
<1>1. /\ boot.pc = "reading"
      /\ UNCHANGED <<streamVars, generation, url, polls, viewVars, sending, answered, known>>
  BY DEF BootPage
<1>2. /\ rows \in Seq(Visible) /\ Asc(rows)
      /\ Covered(ToSet(rows), 0, Final(rows)) /\ Top(rows) = Final(rows)
  BY <1>1, PageFacts
<1>3. CASE Len(HistoryPage) = PageLimit
  <2>1. boot' = [boot EXCEPT !.rows = rows]
    BY <1>3 DEF BootPage
  <2> HIDE DEF rows
  <2>2. boot' = [pc |-> "reading", rows |-> rows]
    BY <1>1, <2>1 DEF Inv, Types, PageTyped
  <2>3. QED
    BY <1>1, <1>2, <2>2, BootKeeps
<1>4. CASE Len(HistoryPage) # PageLimit
  <2> DEFINE ids == ByCreation(ToSet(rows))
  <2>1. boot' = [pc |-> "replaying", rows |-> ids]
    BY <1>4 DEF BootPage
  <2> HIDE DEF rows
  <2>2. LogTyped /\ ToSet(rows) \subseteq Visible /\ Visible \subseteq DOMAIN log
    BY <1>2, ToSetFinite, TypesGive, RowFacts DEF Inv, Types
  <2>3. ids \in Seq(ToSet(rows)) /\ ToSet(ids) = ToSet(rows) /\ Sorted(log, ids)
    BY <2>2, CreationFacts
  <2> HIDE DEF ids
  <2>4. ids \in Seq(Visible)
    BY <2>2, <2>3, SeqMonotonic
  <2>5. Top(ids) = Top(rows)
    BY <2>3 DEF Top
  <2>6. Covered(ToSet(ids), 0, Top(ids))
    BY <1>2, <2>3, <2>5
  <2>7. QED
    BY <1>1, <2>1, <2>3, <2>4, <2>6, BootKeeps
<1>5. QED
  BY <1>3, <1>4

\* the replay of a history or of its beginning
LEMMA ReplayOrdered ==
    ASSUME LogTyped, NEW rows \in Seq(Visible), Sorted(log, rows),
           NEW ids \in Seq(Visible), Len(ids) <= Len(rows),
           \A n \in DOMAIN ids : ids[n] = rows[n]
    PROVE  Ordered(log, Len(rows), ids)
<1>1. /\ Len(rows) \in Nat /\ DOMAIN rows = 1 .. Len(rows)
      /\ Len(ids) \in Nat /\ DOMAIN ids = 1 .. Len(ids)
  BY LenProperties
<1>2. Visible \subseteq DOMAIN log /\ Visible \subseteq Nat
  BY TypesGive, RowFacts
<1>3. SUFFICES ASSUME NEW m \in DOMAIN ids, NEW n \in DOMAIN ids, m < n
               PROVE  /\ ids[m] # ids[n] /\ ~(n > Len(rows))
                      /\ log[ids[m]].run = log[ids[n]].run => ids[m] < ids[n]
  BY DEF Ordered
<1>4. m \in DOMAIN rows /\ n \in DOMAIN rows /\ ~(n > Len(rows))
  BY <1>1
<1>5. log[ids[m]].at < log[ids[n]].at
  BY <1>3, <1>4 DEF Sorted
<1>6. ids[m] \in DOMAIN log /\ ids[n] \in DOMAIN log /\ ids[m] \in Nat /\ ids[n] \in Nat
  BY <1>2, InToSet, ToSetFinite
<1>7. log[ids[m]].at \in Nat /\ log[ids[n]].at \in Nat
  BY <1>6, RowFacts DEF Row
<1>8. ids[m] # ids[n]
  BY <1>5, <1>7
<1>9. ASSUME log[ids[m]].run = log[ids[n]].run PROVE ids[m] < ids[n]
  <2>1. ids[n] < ids[m] => log[ids[n]].at < log[ids[m]].at
    BY <1>6, <1>9 DEF LogTyped, Timed
  <2>2. QED
    BY <1>5, <1>6, <1>7, <1>8, <2>1
<1>10. QED
  BY <1>4, <1>8, <1>9

LEMMA UnplayedFacts ==
    ASSUME Inv, boot.pc = "replaying"
    PROVE  \E l, k \in Nat :
              /\ Len(handled) = l /\ Len(boot.rows) = l + k
              /\ Unplayed \in Seq(Visible) /\ Len(Unplayed) = k
              /\ \A i \in 1 .. k : Unplayed[i] = boot.rows[l + i]
<1>1. /\ handled \in Seq(Visible) /\ boot.rows \in Seq(Visible)
      /\ Len(handled) <= Len(boot.rows)
  BY DEF Inv, Types, PageTyped, OrderInv, HandledInv
<1>2. PICK l \in Nat : l = Len(handled)
  BY <1>1, LenProperties
<1>3. PICK n \in Nat : n = Len(boot.rows)
  BY <1>1, LenProperties
<1>4. l + 1 \in Int /\ n \in Int /\ \A i \in l + 1 .. n : boot.rows[i] \in Visible
  <2>1. \A i \in l + 1 .. n : i \in 1 .. n
    BY <1>2, <1>3
  <2>2. QED
    BY <1>1, <1>2, <1>3, <2>1, ElementOfSeq
<1>5. Unplayed = SubSeq(boot.rows, l + 1, n)
  BY <1>2, <1>3 DEF Unplayed
<1>6. /\ Unplayed \in Seq(Visible)
      /\ Len(Unplayed) = IF l + 1 <= n THEN n - (l + 1) + 1 ELSE 0
      /\ \A i \in 1 .. n - (l + 1) + 1 : Unplayed[i] = boot.rows[l + 1 + i - 1]
  BY <1>4, <1>5, SubSeqProperties
<1>7. n - l \in Nat /\ l + (n - l) = n /\ Len(Unplayed) = n - l /\ n - (l + 1) + 1 = n - l
  BY <1>1, <1>2, <1>3, <1>6
<1>8. \A i \in 1 .. n - l : Unplayed[i] = boot.rows[l + i]
  <2>1. TAKE i \in 1 .. n - l
  <2>2. l + 1 + i - 1 = l + i
    BY <1>2, <1>3
  <2>3. Unplayed[i] = boot.rows[l + 1 + i - 1]
    BY <1>6, <1>7
  <2>4. QED
    BY <2>2, <2>3
<1>9. QED
  BY <1>2, <1>3, <1>6, <1>7, <1>8

\* what is handled after some more of the history
LEMMA ChunkFacts ==
    ASSUME Inv, boot.pc = "replaying", NEW t \in Seq(Visible), Len(t) <= Len(Unplayed),
           \A i \in 1 .. Len(t) : t[i] = Unplayed[i]
    PROVE  /\ handled \o t \in Seq(Visible)
           /\ Len(handled \o t) <= Len(boot.rows)
           /\ \A n \in DOMAIN (handled \o t) : (handled \o t)[n] = boot.rows[n]
           /\ Len(t) = Len(Unplayed) => handled \o t = boot.rows
<1>1. PICK l, k \in Nat :
              /\ Len(handled) = l /\ Len(boot.rows) = l + k
              /\ Unplayed \in Seq(Visible) /\ Len(Unplayed) = k
              /\ \A i \in 1 .. k : Unplayed[i] = boot.rows[l + i]
  BY UnplayedFacts
<1>2. /\ handled \in Seq(Visible) /\ boot.rows \in Seq(Visible)
      /\ \A n \in DOMAIN handled : n <= Len(boot.rows) => handled[n] = boot.rows[n]
  BY DEF Inv, Types, PageTyped, OrderInv, HandledInv
<1>3. PICK c \in Nat : c = Len(t)
  BY LenProperties
<1>4. /\ handled \o t \in Seq(Visible) /\ Len(handled \o t) = l + c
      /\ \A i \in 1 .. l + c : (handled \o t)[i] = IF i <= l THEN handled[i] ELSE t[i - l]
  <2>1. /\ handled \o t \in Seq(Visible) /\ Len(handled \o t) = Len(handled) + Len(t)
        /\ \A i \in 1 .. Len(handled) + Len(t) : (handled \o t)[i] =
             IF i <= Len(handled) THEN handled[i] ELSE t[i - Len(handled)]
    BY <1>2, ConcatProperties
  <2>2. QED
    BY <1>1, <1>3, <2>1, Zenon
<1>5. DOMAIN handled = 1 .. l /\ DOMAIN (handled \o t) = 1 .. l + c
  BY <1>1, <1>2, <1>4, LenProperties
<1>6. ASSUME NEW n \in 1 .. l + c PROVE (handled \o t)[n] = boot.rows[n]
  <2>1. CASE n <= l
    <3>1. n \in DOMAIN handled /\ n <= Len(boot.rows)
      BY <1>1, <1>5, <2>1
    <3>2. QED
      BY <1>2, <1>4, <2>1, <3>1
  <2>2. CASE ~(n <= l)
    <3>1. n - l \in 1 .. c /\ n - l \in 1 .. k /\ l + (n - l) = n
      BY <1>1, <1>3, <2>2
    <3>2. t[n - l] = boot.rows[n]
      BY <1>1, <1>3, <3>1
    <3>3. QED
      BY <1>4, <2>2, <3>2
  <2>3. QED
    BY <2>1, <2>2
<1>7. ASSUME c = k PROVE handled \o t = boot.rows
  <2>1. Len(handled \o t) = Len(boot.rows)
    BY <1>1, <1>4, <1>7
  <2>2. \A i \in 1 .. Len(handled \o t) : (handled \o t)[i] = boot.rows[i]
    BY <1>4, <1>6
  <2>3. QED
    BY <1>2, <1>4, <2>1, <2>2, SeqEqual
<1>8. Len(handled \o t) <= Len(boot.rows)
  BY <1>1, <1>3, <1>4
<1>9. Len(t) = Len(Unplayed) => handled \o t = boot.rows
  BY <1>1, <1>3, <1>7
<1>10. \A n \in DOMAIN (handled \o t) : (handled \o t)[n] = boot.rows[n]
  BY <1>5, <1>6
<1>11. QED
  BY <1>4, <1>8, <1>9, <1>10

\* the beginning of what is left
LEMMA ChunkIs ==
    ASSUME Inv, boot.pc = "replaying", NEW k \in Nat, k <= Len(Unplayed)
    PROVE  /\ SubSeq(Unplayed, 1, k) \in Seq(Visible) /\ Len(SubSeq(Unplayed, 1, k)) = k
           /\ \A i \in 1 .. k : SubSeq(Unplayed, 1, k)[i] = Unplayed[i]
<1>1. PICK c \in Nat : c = Len(Unplayed) /\ Unplayed \in Seq(Visible)
  BY UnplayedFacts
<1>2. 1 \in Int /\ k \in Int /\ \A i \in 1 .. k : Unplayed[i] \in Visible
  <2>1. \A i \in 1 .. k : i \in 1 .. c
    BY <1>1
  <2>2. QED
    BY <1>1, <2>1, ElementOfSeq
<1>3. /\ SubSeq(Unplayed, 1, k) \in Seq(Visible)
      /\ Len(SubSeq(Unplayed, 1, k)) = IF 1 <= k THEN k - 1 + 1 ELSE 0
      /\ \A i \in 1 .. k - 1 + 1 : SubSeq(Unplayed, 1, k)[i] = Unplayed[1 + i - 1]
  BY <1>2, SubSeqProperties
<1>4. k - 1 + 1 = k /\ \A i \in 1 .. k : 1 + i - 1 = i
  OBVIOUS
<1>5. Len(SubSeq(Unplayed, 1, k)) = k
  BY <1>3, <1>4
<1>6. ASSUME NEW i \in 1 .. k PROVE SubSeq(Unplayed, 1, k)[i] = Unplayed[i]
  BY <1>3, <1>4
<1>7. QED
  BY <1>3, <1>5, <1>6

LEMMA ReplayChunkInv ==
    ASSUME Inv, ReplayChunk
    PROVE  Inv'
<1>1. PICK k \in 1 .. ChunkSize :
         /\ k <= Len(Unplayed)
         /\ plan' = ApplyAll(plan, SubSeq(Unplayed, 1, k))
         /\ handled' = handled \o SubSeq(Unplayed, 1, k)
  BY DEF ReplayChunk
<1>2. /\ boot.pc = "replaying" 
      /\ UNCHANGED <<streamVars, generation, boot, url, polls, applied, sending, answered, known>>
  BY DEF ReplayChunk
<1> DEFINE t == SubSeq(Unplayed, 1, k)
<1>3. t \in Seq(Visible) /\ Len(t) <= Len(Unplayed) /\ \A i \in 1 .. Len(t) : t[i] = Unplayed[i]
  <2>1. k \in Nat
    BY ClientAssumption
  <2>2. QED
    BY <1>1, <1>2, <2>1, ChunkIs
<1>4. /\ handled' \in Seq(Visible) /\ Len(handled') <= Len(boot.rows)
      /\ \A n \in DOMAIN handled' : handled'[n] = boot.rows[n]
  BY <1>1, <1>2, <1>3, ChunkFacts
<1>5. plan' = ApplyAll(plan, t)
  BY <1>1
<1> HIDE DEF t
<1>6. UNCHANGED <<started, logVars, faults, conn, wire, generation, boot, url, polls, applied,
                  sending, answered, known>>
  BY <1>2 DEF streamVars, connVars
<1>7. LogTyped' /\ Visible' = Visible /\ UNCHANGED <<log, commits, stream>>
  BY <1>6, SteadyLog DEF Inv, Types, LogTyped
<1>8. \A i : Explained(i)' <=> Explained(i)
  BY <1>6, <1>7, Steady
<1>9. plan' \in [run : Runs \cup {NoRun}, update : 0 .. Len(log)]
  BY <1>3, <1>5, AppliedTyped DEF Inv, Types, StoreTyped
<1>10. Types'
  BY <1>4, <1>6, <1>7, <1>9 DEF Inv, Types, ConnTyped, PageTyped, StoreTyped
<1>11. HandledInv'
  <2>1. LogTyped /\ boot.rows \in Seq(Visible) /\ Sorted(log, boot.rows)
    BY <1>2 DEF Inv, Types, PageTyped, OrderInv, HandledInv
  <2>2. Ordered(log, Len(boot.rows), handled')
    BY <1>4, <2>1, ReplayOrdered
  <2>3. QED
    BY <1>2, <1>4, <1>6, <1>7, <2>1, <2>2 DEF HandledInv
<1>12. WireInv' /\ SubscribedInv'
  BY <1>6, <1>7 DEF Inv, OrderInv, WireInv, SubscribedInv
<1>13. ReadingInv' /\ ReadyInv' /\ PollsInv'
  BY <1>2, <1>6, <1>8 DEF Inv, OrderInv, ReadingInv, ReadyInv, PollsInv, Covered
<1>14. QED
  BY <1>10, <1>11, <1>12, <1>13 DEF Inv, OrderInv

\* the page goes live with what it was given
LEMMA LiveInv ==
    ASSUME Inv, boot.pc # "ready", NEW rows \in Seq(Visible), Sorted(log, rows),
           Covered(ToSet(rows), 0, Top(rows)),
           boot' = [pc |-> "ready", rows |-> rows],
           plan' \in [run : Runs \cup {NoRun}, update : 0 .. Len(log)],
           handled' = rows, applied' = Top(rows),
           url' = Top(rows), conn' = Connection("catchup", Top(rows)), wire' = <<>>,
           UNCHANGED <<started, logVars, generation, polls, sending, answered, known>>,
           faults' \in {faults, faults + 1}
    PROVE  Inv'
<1>1. LogTyped' /\ Visible' = Visible /\ UNCHANGED <<log, commits, stream>>
  BY SteadyLog DEF Inv, Types, LogTyped
<1>2. \A i : Explained(i)' <=> Explained(i)
  BY <1>1, Steady
<1>3. /\ Len(log) \in Nat /\ Len(stream) \in Nat /\ Top(rows) \in 0 .. Len(log)
      /\ Top(rows) \in Nat /\ \A i \in ToSet(rows) : i <= Top(rows)
  <2>1. LogTyped /\ Len(log) \in Nat /\ stream \in Seq(Visible)
    BY TypesGive DEF Inv, Types, LogTyped
  <2>2. Top(rows) \in 0 .. Len(log) /\ \A i \in ToSet(rows) : i \in 1 .. Top(rows)
    BY <2>1, TopFacts
  <2>3. Len(stream) \in Nat
    BY <2>1, LenProperties
  <2>4. QED
    BY <2>1, <2>2, <2>3
<1>4. conn' = [pc |-> "catchup", last |-> Top(rows), pos |-> 0]
  BY DEF Connection
<1>5. ConnTyped'
  BY <1>1, <1>3, <1>4, EmptyFacts DEF ConnTyped
<1>6. PageTyped'
  BY <1>1, <1>3 DEF Inv, Types, PageTyped
<1>7. StoreTyped'
  BY <1>1 DEF Inv, Types, StoreTyped
<1>8. WireInv' /\ SubscribedInv' /\ ReadingInv'
  BY <1>4, EmptyFacts DEF WireInv, SubscribedInv, ReadingInv
<1>9. HandledInv'
  <2>1. Len(rows) \in Nat /\ LogTyped
    BY LenProperties DEF Inv, Types
  <2>2. Ordered(log, Len(rows), rows)
    BY <2>1, ReplayOrdered
  <2>3. QED
    BY <1>1, <1>3, <2>1, <2>2 DEF HandledInv
<1>10. \A i \in 0 + 1 .. Top(rows) : i \in ToSet(rows) \/ Explained(i)'
  BY <1>2 DEF Covered
<1>11. ToSet(rows) \cup ToSet(<<>>) = ToSet(rows)
  BY EmptyFacts
<1>12. ReadyInv'
  <2>1. url' <= applied' /\ conn'.last = Top(rows)
    BY <1>3, <1>4
  <2>2. QED
    BY <1>10, <1>11, <2>1 DEF ReadyInv, Covered
<1>13. \A p \in polls : p.visit \in Nat /\ p.visit < generation /\ Asc(p.rows) /\ generation \in Nat
  BY DEF Inv, Types, PageTyped, OrderInv, PollsInv, ReadingInv
<1>14. \A p \in polls : p.visit <= generation /\ p.visit # generation
  BY <1>13
<1>15. PollsInv'
  BY <1>13, <1>14 DEF PollsInv
<1>16. QED
  BY <1>1, <1>5, <1>6, <1>7, <1>8, <1>9, <1>12, <1>15 DEF Inv, Types, OrderInv

\* all of the history is handled when the page goes live
LEMMA GoLiveGives ==
    ASSUME Inv, GoLive
    PROVE  /\ Unplayed \in Seq(Visible) /\ handled' = handled \o Unplayed
           /\ handled' = boot.rows /\ plan' = ApplyAll(plan, Unplayed)
           /\ applied' = Top(boot.rows) /\ boot' = [pc |-> "ready", rows |-> boot.rows]
           /\ url' = applied' /\ conn' = Connection("catchup", applied') /\ wire' = <<>>
<1>1. /\ boot.pc = "replaying" /\ plan' = ApplyAll(plan, Unplayed)
      /\ handled' = handled \o Unplayed /\ applied' = Top(boot.rows)
      /\ boot' = [boot EXCEPT !.pc = "ready"]
      /\ url' = applied' /\ conn' = Connection("catchup", applied') /\ wire' = <<>>
  BY DEF GoLive, StartLive, Top
<1>2. Unplayed \in Seq(Visible) /\ Len(Unplayed) \in Nat
  BY <1>1, UnplayedFacts
<1>3. handled \o Unplayed = boot.rows
  BY <1>1, <1>2, ChunkFacts
<1>4. boot' = [pc |-> "ready", rows |-> boot.rows]
  BY <1>1 DEF Inv, Types, PageTyped
<1>5. QED
  BY <1>1, <1>2, <1>3, <1>4

LEMMA GoLiveInv ==
    ASSUME Inv, GoLive
    PROVE  Inv'
<1>1. /\ Unplayed \in Seq(Visible) /\ handled' = boot.rows /\ plan' = ApplyAll(plan, Unplayed)
      /\ applied' = Top(boot.rows) /\ boot' = [pc |-> "ready", rows |-> boot.rows]
      /\ url' = applied' /\ conn' = Connection("catchup", applied') /\ wire' = <<>>
  BY GoLiveGives
<1>2. /\ boot.pc = "replaying" /\ faults' \in {faults, faults + 1}
      /\ UNCHANGED <<started, logVars, generation, polls, sending, answered, known>>
  BY DEF GoLive
<1>3. /\ boot.rows \in Seq(Visible) /\ Sorted(log, boot.rows)
      /\ Covered(ToSet(boot.rows), 0, Top(boot.rows))
  BY <1>2 DEF Inv, Types, PageTyped, OrderInv, HandledInv, ReadingInv
<1>4. plan' \in [run : Runs \cup {NoRun}, update : 0 .. Len(log)]
  BY <1>1, AppliedTyped DEF Inv, Types, StoreTyped
<1>5. QED
  BY <1>1, <1>2, <1>3, <1>4, LiveInv

LEMMA BootFailsInv ==
    ASSUME Inv, BootFails
    PROVE  Inv'
<1>1. /\ boot.pc = "reading" /\ boot' = [pc |-> "ready", rows |-> <<>>]
      /\ url' = 0 /\ conn' = Connection("catchup", 0) /\ wire' = <<>>
      /\ faults' \in {faults, faults + 1}
      /\ UNCHANGED <<started, logVars, generation, polls, viewVars, sending, answered, known>>
  BY DEF BootFails, StartLive, Fault
<1>2. handled = <<>> /\ applied = 0 /\ UNCHANGED <<handled, applied, plan>>
  BY <1>1 DEF Inv, OrderInv, ReadingInv, viewVars
<1>3. /\ <<>> \in Seq(Visible) /\ Sorted(log, <<>>) /\ Top(<<>>) = 0
      /\ Covered(ToSet(<<>>), 0, Top(<<>>))
  BY EmptyFacts
<1>4. plan' \in [run : Runs \cup {NoRun}, update : 0 .. Len(log)]
  BY <1>2 DEF Inv, Types, StoreTyped
<1>5. QED
  BY <1>1, <1>2, <1>3, <1>4, LiveInv

LEMMA ConcatIs ==
    ASSUME NEW S, NEW s \in Seq(S), NEW t \in Seq(S), NEW a, a = Len(s), NEW b, b = Len(t)
    PROVE  /\ a \in Nat /\ b \in Nat /\ Len(s \o t) = a + b
           /\ DOMAIN s = 1 .. a /\ DOMAIN t = 1 .. b
           /\ DOMAIN (s \o t) = 1 .. a + b
           /\ \A i \in 1 .. a + b : (s \o t)[i] = IF i <= a THEN s[i] ELSE t[i - a]
<1>1. Len(s) \in Nat /\ Len(t) \in Nat
  BY LenProperties
<1>2. /\ s \o t \in Seq(S) /\ Len(s \o t) = Len(s) + Len(t)
      /\ \A i \in 1 .. Len(s) + Len(t) :
           (s \o t)[i] = IF i <= Len(s) THEN s[i] ELSE t[i - Len(s)]
  BY ConcatProperties
<1>3. DOMAIN s = 1 .. Len(s) /\ DOMAIN t = 1 .. Len(t) /\ DOMAIN (s \o t) = 1 .. Len(s \o t)
  BY <1>2, LenProperties
<1>4. QED
  BY <1>1, <1>2, <1>3, Zenon

\* greater events after those that were handled
LEMMA OrderedConcat ==
    ASSUME NEW lg, NEW k, NEW s \in Seq(Nat), NEW t \in Seq(Nat), Ordered(lg, k, s), Asc(t),
           \A x \in ToSet(s), y \in ToSet(t) : x < y
    PROVE  Ordered(lg, k, s \o t)
<1> DEFINE a == Len(s)
           b == Len(t)
<1>1. /\ a \in Nat /\ b \in Nat
      /\ DOMAIN s = 1 .. a /\ DOMAIN t = 1 .. b
      /\ DOMAIN (s \o t) = 1 .. a + b
      /\ \A i \in 1 .. a + b : (s \o t)[i] = IF i <= a THEN s[i] ELSE t[i - a]
  BY ConcatIs
<1> HIDE DEF a, b
<1>2. ToSet(s) \subseteq Nat /\ ToSet(t) \subseteq Nat
  BY ToSetFinite
<1>3. SUFFICES ASSUME NEW m \in 1 .. a + b, NEW n \in 1 .. a + b, m < n
               PROVE  /\ (s \o t)[m] # (s \o t)[n]
                      /\ n > k \/ lg[(s \o t)[m]].run = lg[(s \o t)[n]].run
                           => (s \o t)[m] < (s \o t)[n]
  BY <1>1 DEF Ordered
<1>4. CASE n <= a
  <2>1. m \in DOMAIN s /\ n \in DOMAIN s /\ (s \o t)[m] = s[m] /\ (s \o t)[n] = s[n]
    BY <1>1, <1>3, <1>4
  <2>2. QED
    BY <1>3, <2>1 DEF Ordered
<1>5. CASE m > a
  <2>1. /\ m - a \in DOMAIN t /\ n - a \in DOMAIN t /\ m - a < n - a
        /\ (s \o t)[m] = t[m - a] /\ (s \o t)[n] = t[n - a]
    BY <1>1, <1>3, <1>5
  <2>2. t[m - a] < t[n - a]
    BY <2>1 DEF Asc
  <2>3. t[m - a] \in Nat /\ t[n - a] \in Nat
    BY <1>2, <2>1, InToSet
  <2>4. QED
    BY <2>1, <2>2, <2>3
<1>6. CASE m <= a /\ ~(n <= a)
  <2>1. /\ m \in DOMAIN s /\ n - a \in DOMAIN t
        /\ (s \o t)[m] = s[m] /\ (s \o t)[n] = t[n - a]
    BY <1>1, <1>3, <1>6
  <2>2. s[m] \in ToSet(s) /\ t[n - a] \in ToSet(t)
    BY <2>1, InToSet
  <2>3. s[m] < t[n - a] /\ s[m] \in Nat /\ t[n - a] \in Nat
    BY <1>2, <2>2
  <2>4. QED
    BY <2>1, <2>3
<1>7. n <= a \/ m > a \/ (m <= a /\ ~(n <= a))
  BY <1>1
<1>8. QED
  BY <1>4, <1>5, <1>6, <1>7, Zenon

\* the rest of the page after events were given to the handlers
LEMMA HandleFacts ==
    ASSUME Inv, boot.pc = "ready", NEW ids \in Seq(Visible), Asc(ids), Handle(ids),
           Covered(ToSet(handled) \cup ToSet(ids), applied, Final(ids)),
           UNCHANGED <<log, commits, stream, known, boot>>
    PROVE  /\ applied' \in 0 .. Len(log) /\ applied <= applied' /\ Final(ids) <= applied'
           /\ handled' \in Seq(Visible)
           /\ ToSet(handled') = ToSet(handled) \cup {i \in ToSet(ids) : i > applied}
           /\ HandledInv'
           /\ plan' \in [run : Runs \cup {NoRun}, update : 0 .. Len(log)]
           /\ Covered(ToSet(handled'), 0, applied')
<1> DEFINE new == New(ids)
<1>1. /\ plan' = ApplyAll(plan, new) /\ handled' = handled \o new
      /\ applied' = IF new = <<>> THEN applied ELSE Last(new)
  BY HandleNew
<1>2. /\ LogTyped /\ applied \in 0 .. Len(log) /\ handled \in Seq(Visible)
      /\ plan \in [run : Runs \cup {NoRun}, update : 0 .. Len(log)]
      /\ Covered(ToSet(handled), 0, applied)
      /\ HandledInv /\ \A i \in ToSet(handled) : i <= applied
  BY DEF Inv, Types, PageTyped, StoreTyped, OrderInv, ReadyInv, HandledInv
<1>3. Len(log) \in Nat /\ Visible \subseteq Nat /\ Visible \subseteq 1 .. Len(log)
  BY <1>2, TypesGive
<1>4. applied \in Nat
  BY <1>2, <1>3
<1>5. new \in Seq(Visible) /\ Asc(new) /\ ToSet(new) = {i \in ToSet(ids) : i > applied}
  BY <1>3, <1>4, NewFacts
<1> HIDE DEF new
<1>6. new \in Seq(Nat) /\ handled \in Seq(Nat) /\ ids \in Seq(Nat)
  BY <1>2, <1>5, TypesGive
<1>7. /\ \A x \in ToSet(new) : x <= Final(new)
      /\ new # <<>> => Final(new) = Last(new) /\ Last(new) \in ToSet(new)
      /\ new = <<>> => ToSet(new) = {}
  BY <1>5, <1>6, FinalFacts
<1>8. /\ Final(ids) \in Nat /\ \A x \in ToSet(ids) : x <= Final(ids)
      /\ ids # <<>> => Final(ids) \in ToSet(ids)
      /\ ids = <<>> => Final(ids) = 0 /\ ToSet(ids) = {}
  BY <1>6, FinalFacts, EmptyFacts
<1>9. ToSet(handled) \subseteq Nat /\ ToSet(new) \subseteq Visible /\ ToSet(new) \subseteq Nat
  BY <1>3, <1>5, <1>6, ToSetFinite
<1>10. handled' \in Seq(Visible) /\ ToSet(handled') = ToSet(handled) \cup ToSet(new)
  BY <1>1, <1>2, <1>5, ToSetConcat, ConcatProperties
<1>11. CASE new = <<>>
  <2>1. applied' = applied /\ handled' = handled
    BY <1>1, <1>2, <1>11, ConcatEmptySeq
  <2>2. Final(ids) <= applied
    <3>1. ids # <<>> => ~(Final(ids) > applied)
      BY <1>5, <1>7, <1>8, <1>11
    <3>2. QED
      BY <1>4, <1>8, <3>1
  <2>3. HandledInv'
    BY <1>2, <2>1, HandledStays
  <2>4. plan' \in [run : Runs \cup {NoRun}, update : 0 .. Len(log)]
    BY <1>1, <1>2, <1>5, AppliedTyped
  <2>5. Covered(ToSet(handled'), 0, applied')
    BY <1>2, <2>1
  <2>6. applied' \in 0 .. Len(log) /\ applied <= applied' /\ Final(ids) <= applied'
    BY <1>2, <1>4, <2>1, <2>2
  <2>7. QED
    BY <1>5, <1>10, <2>3, <2>4, <2>5, <2>6
<1>12. CASE new # <<>>
  <2>1. applied' = Final(new) /\ applied' \in ToSet(new)
    BY <1>1, <1>7, <1>12
  <2>2. applied' \in Visible /\ applied' > applied /\ applied' \in ToSet(ids)
    BY <1>5, <1>9, <2>1
  <2>3. applied' \in Nat /\ applied' \in 0 .. Len(log)
    <3>1. applied' \in 1 .. Len(log) /\ applied' \in Nat
      BY <1>3, <2>2
    <3>2. QED
      BY <1>3, <3>1
  <2>4. Final(ids) = applied'
    <3>1. Final(ids) \in ToSet(ids) /\ applied' <= Final(ids)
      BY <1>8, <2>2
    <3>2. Final(ids) \in ToSet(new)
      BY <1>4, <1>5, <1>8, <2>2, <2>3, <3>1
    <3>3. Final(ids) <= applied'
      BY <1>7, <2>1, <3>2
    <3>4. QED
      BY <1>8, <2>3, <3>1, <3>3
  <2>5. HandledInv'
    <3>1. \A x \in ToSet(handled), y \in ToSet(new) : x < y
      BY <1>2, <1>4, <1>5, <1>9
    <3>2. Ordered(log, Len(boot.rows), handled')
      BY <1>1, <1>2, <1>5, <1>6, <3>1, OrderedConcat DEF HandledInv
    <3>3. ASSUME NEW i \in ToSet(handled') PROVE i <= applied'
      <4>1. CASE i \in ToSet(handled)
        BY <1>2, <1>4, <1>9, <2>2, <2>3, <4>1
      <4>2. CASE i \in ToSet(new)
        BY <1>7, <2>1, <4>2
      <4>3. QED
        BY <1>10, <4>1, <4>2
    <3>4. /\ Len(boot.rows) <= Len(handled')
          /\ \A n \in DOMAIN handled' : n <= Len(boot.rows) => handled'[n] = boot.rows[n]
      <4> DEFINE a == Len(handled)
                 b == Len(new)
      <4>1. /\ a \in Nat /\ b \in Nat /\ Len(handled') = a + b
            /\ DOMAIN handled = 1 .. a /\ DOMAIN handled' = 1 .. a + b
            /\ \A n \in 1 .. a + b : handled'[n] = IF n <= a THEN handled[n] ELSE new[n - a]
        BY <1>1, <1>2, <1>5, ConcatIs
      <4> HIDE DEF b
      <4>2. /\ Len(boot.rows) <= a
            /\ \A n \in 1 .. a : n <= Len(boot.rows) => handled[n] = boot.rows[n]
        BY <1>2, <4>1 DEF HandledInv
      <4>3. Len(boot.rows) \in Nat
        BY LenProperties DEF Inv, Types, PageTyped
      <4>4. QED
        BY <4>1, <4>2, <4>3
    <3>5. QED
      BY <1>2, <3>2, <3>3, <3>4 DEF HandledInv
  <2>6. plan' \in [run : Runs \cup {NoRun}, update : 0 .. Len(log)]
    BY <1>1, <1>2, <1>5, AppliedTyped
  <2>7. Covered(ToSet(handled'), 0, applied')
    <3>1. SUFFICES ASSUME NEW i \in 0 + 1 .. applied', ~Explained(i) PROVE i \in ToSet(handled')
      BY DEF Covered
    <3>2. CASE i <= applied
      <4>1. i \in 0 + 1 .. applied
        BY <1>4, <2>3, <3>2
      <4>2. i \in ToSet(handled)
        BY <1>2, <3>1, <4>1 DEF Covered
      <4>3. QED
        BY <1>10, <4>2
    <3>3. CASE i > applied
      <4>1. i \in applied + 1 .. Final(ids)
        BY <1>4, <2>3, <2>4, <3>3
      <4>2. i \in ToSet(handled) \cup ToSet(ids)
        BY <3>1, <4>1 DEF Covered
      <4>3. QED
        BY <1>5, <1>10, <3>3, <4>2
    <3>4. QED
      BY <1>4, <2>3, <3>2, <3>3
  <2>8. applied <= applied' /\ Final(ids) <= applied'
    BY <1>4, <2>2, <2>3, <2>4
  <2>9. QED
    BY <1>5, <1>10, <2>3, <2>5, <2>6, <2>7, <2>8
<1>13. QED
  BY <1>11, <1>12

\* ... and what follows for a step that gave them
LEMMA HandledInvariant ==
    ASSUME Inv, boot.pc = "ready", NEW ids \in Seq(Visible), Asc(ids), Handle(ids),
           Covered(ToSet(handled) \cup ToSet(ids), applied, Final(ids)),
           UNCHANGED <<started, logVars, conn, faults, generation, boot, url,
                       sending, answered, known>>,
           wire' \in Seq(Visible), ToSet(wire') \subseteq ToSet(wire), Asc(wire'),
           \A i \in ToSet(wire) : i \in ToSet(wire') \/ i <= applied',
           polls' \subseteq polls
    PROVE  Inv'
<1>1. LogTyped' /\ Visible' = Visible /\ UNCHANGED <<log, commits, stream>>
  BY SteadyLog DEF Inv, Types, LogTyped
<1>2. \A i : Explained(i)' <=> Explained(i)
  BY <1>1, Steady
<1>3. /\ applied' \in 0 .. Len(log) /\ applied <= applied' /\ Final(ids) <= applied'
      /\ handled' \in Seq(Visible)
      /\ ToSet(handled) \subseteq ToSet(handled')
      /\ HandledInv'
      /\ plan' \in [run : Runs \cup {NoRun}, update : 0 .. Len(log)]
      /\ Covered(ToSet(handled'), 0, applied')
  BY <1>1, HandleFacts
<1>4. Len(log) \in Nat /\ applied \in Nat /\ applied' \in Nat /\ url \in Nat /\ conn.last \in Nat
  <2>1. Len(log) \in Nat
    BY TypesGive DEF Inv, Types
  <2>2. QED
    BY <1>3, <2>1 DEF Inv, Types, PageTyped, ConnTyped
<1>5. ConnTyped'
  BY <1>1 DEF Inv, Types, ConnTyped
<1>6. PageTyped'
  BY <1>1, <1>3 DEF Inv, Types, PageTyped
<1>7. StoreTyped'
  BY <1>1, <1>3 DEF Inv, Types, StoreTyped
<1>8. WireInv' /\ SubscribedInv' /\ ReadingInv'
  BY <1>1 DEF Inv, OrderInv, WireInv, SubscribedInv, ReadingInv
<1>9. ReadyInv'
  <2>1. url <= applied /\ Covered(ToSet(handled) \cup ToSet(wire), 0, conn.last)
    BY DEF Inv, OrderInv, ReadyInv
  <2>2. url' <= applied'
    BY <1>3, <1>4, <2>1
  <2>3. \A i \in 0 + 1 .. applied' : i \in ToSet(handled') \/ Explained(i)'
    BY <1>2, <1>3 DEF Covered
  <2>4. ASSUME NEW i \in 0 + 1 .. conn.last
        PROVE  i \in ToSet(handled') \cup ToSet(wire') \/ Explained(i)'
    <3>1. i \in ToSet(handled) \/ i \in ToSet(wire) \/ Explained(i)
      BY <2>1 DEF Covered
    <3>2. CASE i <= applied'
      <4>1. i \in 0 + 1 .. applied'
        BY <1>4, <3>2
      <4>2. QED
        BY <2>3, <4>1
    <3>3. CASE ~(i <= applied')
      BY <1>2, <1>3, <3>1, <3>3
    <3>4. QED
      BY <3>2, <3>3
  <2>5. QED
    BY <2>2, <2>3, <2>4 DEF ReadyInv, Covered
<1>10. PollsInv'
  <2>1. ASSUME NEW p \in polls, p.visit = generation
        PROVE  Covered(ToSet(p.rows), applied', Final(p.rows))
    <3>1. Asc(p.rows) /\ Covered(ToSet(p.rows), applied, Final(p.rows)) /\ p.rows \in Seq(Nat)
      BY <2>1, TypesGive DEF Inv, OrderInv, PollsInv, Types, PageTyped
    <3>2. Final(p.rows) \in Nat
      BY <3>1, FinalFacts
    <3>3. QED
      BY <1>3, <1>4, <3>1, <3>2, CoveredMore
  <2>2. \A p \in polls : p.visit = generation =>
          \A i \in applied' + 1 .. Final(p.rows) : i \in ToSet(p.rows) \/ Explained(i)'
    BY <1>2, <2>1 DEF Covered
  <2>3. QED
    BY <2>2 DEF Inv, OrderInv, PollsInv, Covered
<1>11. QED
  BY <1>1, <1>3, <1>5, <1>6, <1>7, <1>8, <1>9, <1>10 DEF Inv, Types, OrderInv

LEMMA ReceiveInv ==
    ASSUME Inv, Receive
    PROVE  Inv'
<1> DEFINE w == Head(wire)
           ids == <<w>>
<1>1. /\ boot.pc = "ready" /\ wire # <<>> /\ Handle(ids) /\ wire' = Tail(wire)
      /\ UNCHANGED <<started, logVars, conn, faults, generation, boot, url, polls,
                     sending, answered, known>>
  BY DEF Receive
<1>2. /\ wire \in Seq(Visible) /\ Asc(wire) /\ \A i \in ToSet(wire) : i <= conn.last
      /\ conn.last \in Nat /\ LogTyped
  BY DEF Inv, Types, ConnTyped, OrderInv, WireInv
<1>3. Visible \subseteq Nat
  BY <1>2, TypesGive
<1>4. /\ w \in Visible /\ wire' \in Seq(Visible) /\ Len(wire) \in Nat /\ Len(wire') = Len(wire) - 1
      /\ \A k \in 1 .. Len(wire') : wire'[k] = wire[k + 1]
      /\ DOMAIN wire = 1 .. Len(wire)
  BY <1>1, <1>2, HeadTailProperties, LenProperties
<1>5. wire[1] = w /\ Len(wire) \in Nat \ {0}
  <2>1. Len(wire) # 0
    BY <1>1, <1>2, EmptySeq
  <2>2. w = wire[1]
    BY <1>1, <1>2, HeadTailProperties
  <2>3. QED
    BY <1>4, <2>1, <2>2
<1>6. DOMAIN wire' = 1 .. Len(wire) - 1
  BY <1>4, LenProperties
<1> HIDE DEF w
<1>7. w \in Nat /\ ids \in Seq(Visible) /\ Asc(ids) /\ ToSet(ids) = {w} /\ Final(ids) = w
  <2>1. w \in Nat /\ ids \in Seq(Visible)
    <3>1. w \in Visible /\ w \in Nat
      BY <1>3, <1>4
    <3>2. ASSUME NEW S, NEW x \in S PROVE <<x>> \in Seq(S)
      OBVIOUS
    <3>3. ids \in Seq(Visible)
      BY <3>1, <3>2
    <3>4. QED
      BY <3>1, <3>3
  <2>2. DOMAIN ids = {1} /\ ids[1] = w /\ Len(ids) = 1
    OBVIOUS
  <2>3. Asc(ids)
    BY <2>2 DEF Asc
  <2>4. ToSet(ids) = {w}
    BY <2>2 DEF ToSet
  <2>5. ids # <<>>
    BY <2>2
  <2>6. Final(ids) = w
    BY <2>2, <2>5 DEF Final, Last
  <2>7. QED
    BY <2>1, <2>3, <2>4, <2>6
<1>8. \A k \in DOMAIN wire' : k \in Int /\ k + 1 \in DOMAIN wire /\ wire'[k] = wire[k + 1]
  <2>1. TAKE k \in DOMAIN wire'
  <2>2. PICK l \in Nat \ {0} : l = Len(wire)
    BY <1>5
  <2>3. k \in 1 .. l - 1
    BY <1>6, <2>2
  <2>4. k \in Int /\ k + 1 \in 1 .. l
    BY <2>3
  <2>5. wire'[k] = wire[k + 1]
    BY <1>4, <1>6
  <2>6. QED
    BY <1>4, <2>2, <2>4, <2>5
<1>9. Asc(wire')
  <2>1. SUFFICES ASSUME NEW m \in DOMAIN wire', NEW n \in DOMAIN wire', m < n
                 PROVE  wire'[m] < wire'[n]
    BY DEF Asc
  <2>2. /\ m + 1 \in DOMAIN wire /\ n + 1 \in DOMAIN wire
        /\ wire'[m] = wire[m + 1] /\ wire'[n] = wire[n + 1]
    BY <1>8
  <2>3. m + 1 < n + 1
    BY <1>8, <2>1
  <2>4. wire[m + 1] < wire[n + 1]
    BY <1>2, <2>2, <2>3 DEF Asc
  <2>5. QED
    BY <2>2, <2>4
<1>10. ToSet(wire') \subseteq ToSet(wire)
  <2>1. ASSUME NEW i \in ToSet(wire') PROVE i \in ToSet(wire)
    <3>1. PICK k \in DOMAIN wire' : wire'[k] = i
      BY InToSet
    <3>2. k + 1 \in DOMAIN wire /\ wire[k + 1] = i
      BY <1>8, <3>1
    <3>3. QED
      BY <3>2, InToSet
  <2>2. QED
    BY <2>1
<1>11. ASSUME NEW i \in ToSet(wire) PROVE w <= i /\ (i \in ToSet(wire') \/ i = w)
  <2>1. PICK k \in DOMAIN wire : wire[k] = i
    BY InToSet
  <2>2. PICK l \in Nat \ {0} : l = Len(wire)
    BY <1>5
  <2>3. k \in 1 .. l
    BY <1>4, <2>1, <2>2
  <2>4. CASE k = 1
    BY <1>5, <1>7, <2>1, <2>4
  <2>5. CASE k # 1
    <3>1. k - 1 \in 1 .. l - 1 /\ k - 1 + 1 = k /\ 1 < k /\ 1 \in 1 .. l
      BY <2>3, <2>5
    <3>2. k - 1 \in DOMAIN wire' /\ 1 \in DOMAIN wire
      BY <1>4, <1>6, <2>2, <3>1
    <3>3. wire'[k - 1] = i
      BY <1>8, <2>1, <3>1, <3>2
    <3>4. wire[1] < wire[k]
      BY <1>2, <2>1, <3>1, <3>2 DEF Asc
    <3>5. i \in Nat
      BY <1>2, <1>3, ToSetFinite
    <3>6. QED
      BY <1>5, <1>7, <2>1, <3>2, <3>3, <3>4, <3>5, InToSet
  <2>6. QED
    BY <2>4, <2>5
<1>12. Covered(ToSet(handled) \cup ToSet(ids), applied, Final(ids))
  <2>1. Covered(ToSet(handled) \cup ToSet(wire), 0, conn.last)
    BY <1>1 DEF Inv, OrderInv, ReadyInv
  <2>2. 1 \in DOMAIN wire
    <3>1. PICK l \in Nat \ {0} : l = Len(wire)
      BY <1>5
    <3>2. QED
      BY <1>4, <3>1
  <2>3. w <= conn.last
    BY <1>2, <1>5, <2>2, InToSet
  <2>4. applied \in Nat
    <3>1. Len(log) \in Nat
      BY <1>2, TypesGive
    <3>2. QED
      BY <3>1 DEF Inv, Types, PageTyped
  <2>5. ASSUME NEW i \in applied + 1 .. w PROVE i \in ToSet(handled) \cup {w} \/ Explained(i)
    <3>1. i \in 0 + 1 .. conn.last /\ i <= w /\ i \in Int
      BY <1>2, <1>7, <2>3, <2>4
    <3>2. i \in ToSet(handled) \/ i \in ToSet(wire) \/ Explained(i)
      BY <2>1, <3>1 DEF Covered
    <3>3. i \in ToSet(wire) => i = w
      BY <1>7, <1>11, <3>1
    <3>4. QED
      BY <3>2, <3>3
  <2>6. QED
    BY <1>7, <2>5 DEF Covered
<1>13. w <= applied'
  <2>1. UNCHANGED <<log, commits, stream, known, boot>>
    BY <1>1 DEF logVars
  <2>2. Final(ids) <= applied'
    BY <1>1, <1>7, <1>12, <2>1, HandleFacts
  <2>3. QED
    BY <1>7, <2>2
<1>14. \A i \in ToSet(wire) : i \in ToSet(wire') \/ i <= applied'
  BY <1>11, <1>13
<1> HIDE DEF ids
<1>15. QED
  BY <1>1, <1>4, <1>7, <1>9, <1>10, <1>12, <1>14, HandledInvariant

LEMMA PollInv ==
    ASSUME Inv, Poll
    PROVE  Inv'
<1> DEFINE rows == FetchHistory(applied, PollLimit)
           p == [visit |-> generation, rows |-> rows]
<1>1. /\ boot.pc = "ready" /\ polls' = polls \cup {p}
      /\ UNCHANGED <<streamVars, generation, boot, url, viewVars, sending, answered, known>>
  BY DEF Poll, ListSessionEvents, ListEvents
<1>2. LogTyped /\ applied \in Nat /\ known \subseteq Visible /\ generation \in Nat
  <2>1. Len(log) \in Nat
    BY TypesGive DEF Inv, Types
  <2>2. QED
    BY <2>1 DEF Inv, Types, PageTyped
<1>3. /\ rows \in Seq(Visible) /\ Asc(rows)
      /\ Covered(ToSet(rows), applied, Final(rows))
  BY <1>2, FetchTyped, RowsCovered, ClientAssumption
<1>4. p \in [visit : Nat, rows : Seq(Visible)] /\ p.rows = rows /\ p.visit = generation
  BY <1>2, <1>3
<1> HIDE DEF rows, p
<1>5. UNCHANGED <<started, logVars, conn, wire, faults, generation, boot, url, applied,
                  handled, plan, sending, answered, known>>
  BY <1>1 DEF streamVars, connVars, viewVars
<1>6. LogTyped' /\ Visible' = Visible /\ UNCHANGED <<log, commits, stream>>
  BY <1>2, <1>5, SteadyLog DEF LogTyped
<1>7. \A i : Explained(i)' <=> Explained(i)
  BY <1>5, <1>6, Steady
<1>8. Types'
  BY <1>1, <1>4, <1>5, <1>6 DEF Inv, Types, ConnTyped, PageTyped, StoreTyped
<1>9. HandledInv' /\ WireInv' /\ SubscribedInv'
  BY <1>5, <1>6 DEF Inv, OrderInv, HandledInv, WireInv, SubscribedInv
<1>10. ReadingInv' /\ ReadyInv'
  BY <1>1, <1>5, <1>7 DEF Inv, OrderInv, ReadingInv, ReadyInv, Covered
<1>11. PollsInv'
  <2>1. SUFFICES ASSUME NEW q \in polls'
                 PROVE  /\ q.visit <= generation
                        /\ Asc(q.rows)
                        /\ q.visit = generation => Covered(ToSet(q.rows), applied, Final(q.rows))
    BY <1>5, <1>7 DEF PollsInv, Covered
  <2>2. CASE q \in polls
    BY <2>2 DEF Inv, OrderInv, PollsInv
  <2>3. CASE q = p
    BY <1>2, <1>3, <1>4, <2>3
  <2>4. QED
    BY <1>1, <2>2, <2>3
<1>12. QED
  BY <1>8, <1>9, <1>10, <1>11 DEF Inv, OrderInv

LEMMA PollOver ==
    ASSUME Inv, NEW p \in polls, polls' = polls \ {p},
           UNCHANGED <<started, logVars, connVars, generation, boot, url, viewVars,
                       sending, answered, known>>,
           faults' \in {faults, faults + 1}
    PROVE  Inv'
<1>1. UNCHANGED <<started, logVars, conn, wire, generation, boot, url, applied,
                  handled, plan, sending, answered, known>>
  BY DEF connVars, viewVars
<1>2. LogTyped' /\ Visible' = Visible /\ UNCHANGED <<log, commits, stream>>
  BY SteadyLog DEF Inv, Types, LogTyped
<1>3. \A i : Explained(i)' <=> Explained(i)
  BY <1>1, <1>2, Steady
<1>4. Types'
  BY <1>1, <1>2 DEF Inv, Types, ConnTyped, PageTyped, StoreTyped
<1>5. HandledInv' /\ WireInv' /\ SubscribedInv'
  BY <1>1, <1>2 DEF Inv, OrderInv, HandledInv, WireInv, SubscribedInv
<1>6. ReadingInv' /\ ReadyInv' /\ PollsInv'
  BY <1>1, <1>3 DEF Inv, OrderInv, ReadingInv, ReadyInv, PollsInv, Covered
<1>7. QED
  BY <1>4, <1>5, <1>6 DEF Inv, OrderInv

LEMMA PollAnswerInv ==
    ASSUME Inv, NEW p \in polls, PollAnswer(p)
    PROVE  Inv'
<1>1. /\ polls' = polls \ {p}
      /\ UNCHANGED <<streamVars, generation, boot, url, sending, answered, known>>
  BY DEF PollAnswer
<1>2. UNCHANGED <<started, logVars, connVars, conn, wire, faults, generation, boot, url,
                  sending, answered, known>>
  BY <1>1 DEF streamVars, connVars
<1>3. CASE p.visit # generation
  BY <1>1, <1>2, <1>3, PollOver DEF PollAnswer
<1>4. CASE p.visit = generation
  <2>1. Handle(p.rows)
    BY <1>4 DEF PollAnswer
  <2>2. boot.pc = "ready"
    <3>1. p.visit \in Nat /\ generation \in Nat
      BY DEF Inv, Types, PageTyped
    <3>2. boot.pc # "ready" => p.visit < generation
      BY DEF Inv, OrderInv, ReadingInv
    <3>3. QED
      BY <1>4, <3>1, <3>2
  <2>3. /\ p.rows \in Seq(Visible) /\ Asc(p.rows)
        /\ Covered(ToSet(p.rows), applied, Final(p.rows))
    BY <1>4 DEF Inv, Types, PageTyped, OrderInv, PollsInv
  <2>4. Covered(ToSet(handled) \cup ToSet(p.rows), applied, Final(p.rows))
    BY <2>3 DEF Covered
  <2>5. /\ wire' = wire /\ wire \in Seq(Visible) /\ Asc(wire)
        /\ polls' \subseteq polls /\ Visible' = Visible
    BY <1>1, <1>2 DEF Inv, Types, ConnTyped, OrderInv, WireInv, logVars, Visible
  <2>6. QED
    BY <1>2, <2>1, <2>2, <2>3, <2>4, <2>5, HandledInvariant
<1>5. QED
  BY <1>3, <1>4

LEMMA PollFailsInv ==
    ASSUME Inv, NEW p \in polls, PollFails(p)
    PROVE  Inv'
<1>1. /\ polls' = polls \ {p} /\ faults' \in {faults, faults + 1}
      /\ UNCHANGED <<started, logVars, connVars, generation, boot, url, viewVars,
                     sending, answered, known>>
  BY DEF PollFails, Fault
<1>2. QED
  BY <1>1, PollOver

-----------------------------------------------------------------------------
(* Composer.tsx: the steps of a message *)

LEMMA StoreKeeps ==
    ASSUME Inv, UNCHANGED <<logVars, connVars, generation, boot, url, polls, applied,
                            handled, known>>,
           started' \subseteq Runs, faults' \in {faults, faults + 1}, StoreTyped'
    PROVE  Inv'
<1>1. UNCHANGED <<conn, wire>>
  BY DEF connVars
<1>2. LogTyped' /\ Visible' = Visible /\ UNCHANGED <<log, commits, stream>>
  BY SteadyLog DEF Inv, Types, LogTyped
<1>3. \A i : Explained(i)' <=> Explained(i)
  BY <1>2, Steady
<1>4. Types'
  BY <1>1, <1>2 DEF Inv, Types, ConnTyped, PageTyped
<1>5. HandledInv' /\ WireInv' /\ SubscribedInv'
  BY <1>1, <1>2 DEF Inv, OrderInv, HandledInv, WireInv, SubscribedInv
<1>6. ReadingInv' /\ ReadyInv' /\ PollsInv'
  BY <1>1, <1>3 DEF Inv, OrderInv, ReadingInv, ReadyInv, PollsInv, Covered
<1>7. QED
  BY <1>4, <1>5, <1>6 DEF Inv, OrderInv

LEMMA SendInv ==
    ASSUME Inv, NEW r \in Runs, Send(r)
    PROVE  Inv'
<1>1. /\ started' = started \cup {r} /\ sending' = r
      /\ UNCHANGED <<logVars, connVars, faults, generation, boot, url, polls, viewVars,
                     answered, known>>
  BY DEF Send
<1>2. UNCHANGED <<log, applied, handled, plan>>
  BY <1>1 DEF viewVars, logVars
<1>3. StoreTyped' /\ started' \subseteq Runs
  BY <1>1, <1>2 DEF Inv, Types, LogTyped, StoreTyped
<1>4. QED
  BY <1>1, <1>2, <1>3, StoreKeeps

LEMMA AnswerInv ==
    ASSUME Inv, Answer
    PROVE  Inv'
<1>1. /\ sending # NoRun /\ plan' = OnRunStarted(plan, sending)
      /\ answered' = answered \cup {sending} /\ sending' = NoRun
      /\ UNCHANGED <<streamVars, generation, boot, url, polls, applied, handled, known>>
  BY DEF Answer
<1>2. UNCHANGED <<started, logVars, connVars, faults, log>>
  BY <1>1 DEF streamVars, logVars
<1>3. sending \in started /\ sending \in Runs /\ Len(log) \in Nat /\ started \subseteq Runs
  BY <1>1, TypesGive DEF Inv, Types, LogTyped, StoreTyped
<1>4. plan' \in [run : Runs \cup {NoRun}, update : 0 .. Len(log)]
  BY <1>1, <1>3 DEF Inv, Types, StoreTyped, OnRunStarted
<1>5. StoreTyped'
  BY <1>1, <1>2, <1>3, <1>4 DEF Inv, Types, StoreTyped
<1>6. QED
  BY <1>1, <1>2, <1>3, <1>5, StoreKeeps

LEMMA AnswerLostInv ==
    ASSUME Inv, AnswerLost
    PROVE  Inv'
<1>1. /\ sending' = NoRun /\ faults' \in {faults, faults + 1}
      /\ UNCHANGED <<started, logVars, connVars, generation, boot, url, polls, viewVars,
                     answered, known>>
  BY DEF AnswerLost, Fault
<1>2. UNCHANGED <<log, applied, handled, plan>>
  BY <1>1 DEF viewVars, logVars
<1>3. StoreTyped' /\ started' \subseteq Runs
  BY <1>1, <1>2 DEF Inv, Types, LogTyped, StoreTyped
<1>4. QED
  BY <1>1, <1>2, <1>3, StoreKeeps

-----------------------------------------------------------------------------
LEMMA InitInv == Init => Inv
<1> SUFFICES ASSUME Init PROVE Inv
  OBVIOUS
<1> USE DEF Init, Connection, NoPlan
<1>1. Visible = {} /\ Len(log) = 0 /\ Len(stream) = 0
  BY EmptyFacts DEF Visible
<1>2. LogTyped
  <2>1. Timed
    BY <1>1, EmptyFacts DEF Timed
  <2>2. QED
    BY <1>1, <2>1, EmptyFacts DEF LogTyped
<1>3. ConnTyped /\ PageTyped /\ StoreTyped
  BY <1>1, EmptyFacts DEF ConnTyped, PageTyped, StoreTyped
<1>4. HandledInv /\ WireInv /\ SubscribedInv
  <2>1. HandledInv
    BY EmptyFacts DEF HandledInv
  <2>2. WireInv /\ SubscribedInv
    BY EmptyFacts DEF WireInv, SubscribedInv
  <2>3. QED
    BY <2>1, <2>2
<1>5. ReadingInv /\ ReadyInv /\ PollsInv
  BY EmptyFacts DEF ReadingInv, ReadyInv, PollsInv
<1>6. QED
  BY <1>2, <1>3, <1>4, <1>5 DEF Inv, Types, OrderInv

LEMMA StutterInv ==
    ASSUME Inv, UNCHANGED vars
    PROVE  Inv'
<1>1. /\ UNCHANGED <<logVars, connVars, generation, boot, url, polls, applied, handled, known>>
      /\ UNCHANGED <<started, faults, plan, sending, answered, log>>
  BY DEF vars, streamVars, clientVars, viewVars, logVars
<1>2. StoreTyped' /\ started' \subseteq Runs
  BY <1>1 DEF Inv, Types, LogTyped, StoreTyped
<1>3. QED
  BY <1>1, <1>2, StoreKeeps

LEMMA NextInv == Inv /\ [Next]_vars => Inv'
<1> SUFFICES ASSUME Inv, [Next]_vars PROVE Inv'
  OBVIOUS
<1>1. CASE EmitNext \/ ServerNext
  BY <1>1, EmitInv, ServerInv
<1>2. CASE Mount \/ BootPage \/ BootFails \/ ReplayChunk \/ GoLive
  BY <1>2, MountInv, BootPageInv, BootFailsInv, ReplayChunkInv, GoLiveInv
<1>3. CASE Receive \/ Reconnect \/ Poll
  BY <1>3, ReceiveInv, ReconnectInv, PollInv
<1>4. CASE \E p \in polls : PollAnswer(p) \/ PollFails(p)
  BY <1>4, PollAnswerInv, PollFailsInv
<1>5. CASE \E r \in Runs : Send(r)
  BY <1>5, SendInv
<1>6. CASE Answer \/ AnswerLost
  BY <1>6, AnswerInv, AnswerLostInv
<1>7. CASE UNCHANGED vars
  BY <1>7, StutterInv
<1>8. QED
  BY <1>1, <1>2, <1>3, <1>4, <1>5, <1>6, <1>7 DEF Next

LEMMA AlwaysInv == Spec => []Inv
BY InitInv, NextInv, PTL DEF Spec

-----------------------------------------------------------------------------
(* Every variable keeps its type: the page and its connection know of rows in *)
(* the table only, and no event is applied before it was inserted             *)
(* (useEventStream.ts, stream.py _replay_then_live, emitter.py emit).         *)
THEOREM PageTypes == Spec => []TypeOK
<1>1. Inv => TypeOK
  <2> SUFFICES ASSUME Inv PROVE TypeOK
    OBVIOUS
  <2>1. LogTyped /\ ConnTyped /\ PageTyped /\ StoreTyped
    BY DEF Inv, Types
  <2>2. Len(log) \in Nat /\ Visible \subseteq 1 .. Len(log) /\ ToSet(stream) \subseteq Visible
    BY <2>1, TypesGive
  <2>3. DOMAIN log = 1 .. Len(log)
    BY <2>1, LenProperties DEF LogTyped
  <2>4. /\ ToSet(wire) \subseteq Visible /\ ToSet(handled) \subseteq Visible
        /\ ToSet(boot.rows) \subseteq Visible
    BY <2>1, ToSetFinite DEF ConnTyped, PageTyped
  <2>5. plan.run \in Runs \cup {NoRun} /\ plan.update \in 0 .. Len(log)
    BY <2>1 DEF StoreTyped
  <2>6. QED
    BY <2>1, <2>2, <2>3, <2>4, <2>5
    DEF TypeOK, LogTyped, Timed, ConnTyped, PageTyped, StoreTyped
<1>2. QED
  BY <1>1, AlwaysInv, PTL

(* Whatever the replay, the stream and the answers to overlapping polls bring, *)
(* and in whichever order they come, the handlers of the chat page get each    *)
(* event at most once and those of a run in the order in which it emitted      *)
(* them, though the replay goes by created_at; what comes after the replay     *)
(* comes in the order of the numbers and after it (useEventStream.ts handle,   *)
(* appliedSeqRef; timeline.ts mergeUserMessagesAndEvents).                     *)
THEOREM EventsInOrder == Spec => []OnceInOrder
<1>1. Inv => OnceInOrder
  BY DEF Inv, OrderInv, HandledInv, Ordered, OnceInOrder
<1>2. QED
  BY <1>1, AlwaysInv, PTL

(* The page passes over an event only if it was not in the table when the page *)
(* was entered and a later event overtook it: the seams between the pages of   *)
(* the history, the replay, the subscription, the polls and a reconnection     *)
(* lose nothing (useEventStream.ts boot, startLive, poll; stream.py            *)
(* _replay_then_live).                                                         *)
THEOREM GapsExplained == Spec => []GapsAreExplained
<1>1. Inv => GapsAreExplained
  <2> SUFFICES ASSUME Inv, boot.pc = "ready", NEW i \in 1 .. applied, i \notin ToSet(handled)
               PROVE  i \notin known /\ Overtaken(i)
    BY DEF GapsAreExplained
  <2>1. Covered(ToSet(handled), 0, applied)
    BY DEF Inv, OrderInv, ReadyInv
  <2>2. i \in 0 + 1 .. applied
    OBVIOUS
  <2>3. QED
    BY <2>1, <2>2 DEF Covered, Explained
<1>2. QED
  BY <1>1, AlwaysInv, PTL

-----------------------------------------------------------------------------
(* The plan of a page without gaps *)

\* the runs of the handled events, and the plans that fit them: the answer to a
\* message may have come before the events of its run
Heard(lg, ids) == {lg[i].run : i \in ToSet(ids)}

Fits(lg, p, ids, ans) ==
    /\ ans \subseteq Heard(lg, ids) => p = Folded(lg, NoPlan, ids)
    /\ p.run \notin Heard(lg, ids) => p.update = 0

\* by the number and by the time of creation
Earlier(lg, f, i) == f < i /\ lg[f].at < lg[i].at

\* an event that is earlier in both orders comes earlier
Respects(lg, s) ==
    \A n \in DOMAIN s : \A f \in DOMAIN lg :
        Earlier(lg, f, s[n]) => \E m \in 1 .. n - 1 : s[m] = f

Distinct(s) == \A m, n \in DOMAIN s : m < n => s[m] # s[n]

\* each event has an announcement of its run before it
Announced(lg) ==
    \A i \in DOMAIN lg :
        \E f \in DOMAIN lg :
            (f = i \/ Earlier(lg, f, i)) /\ lg[f].run = lg[i].run /\ lg[f].kind = "planning"

\* run a comes after all that run b announces
Over(lg, a, b) ==
    \A i, j \in DOMAIN lg :
        lg[i].run = a /\ lg[j].run = b /\ lg[j].kind = "planning" => Earlier(lg, j, i)

Plans == [run : Runs \cup {NoRun}, update : Nat]

LEMMA StepHeard ==
    ASSUME NEW lg, NEW i \in Nat, lg[i] \in Row, NEW p \in Plans
    PROVE  StepOf(lg, p, i) \in Plans /\ (StepOf(lg, p, i) = p \/ StepOf(lg, p, i).run = lg[i].run)
<1>1. lg[i].run \in Runs
  BY DEF Row
<1>2. CASE lg[i].kind = "planning"
  BY <1>1, <1>2 DEF StepOf, OnRunStarted, Plans
<1>3. CASE lg[i].kind = "plan.update"
  BY <1>1, <1>3 DEF StepOf, OnPlanUpdate, Plans
<1>4. CASE lg[i].kind \notin {"planning", "plan.update"}
  BY <1>4 DEF StepOf
<1>5. QED
  BY <1>2, <1>3, <1>4

LEMMA TraceHeard ==
    ASSUME NEW n \in Nat, NEW lg, NEW p \in Plans, NEW ids, NEW tr, Trace(lg, p, ids, n, tr),
           NEW H, \A k \in 1 .. n : ids[k] \in Nat /\ lg[ids[k]] \in Row /\ lg[ids[k]].run \in H,
           p.run \notin H => p.update = 0
    PROVE  tr[n] \in Plans /\ (tr[n].run \notin H => tr[n].update = 0)
<1> DEFINE T == {k \in 0 .. n : tr[k] \in Plans /\ (tr[k].run \notin H => tr[k].update = 0)}
<1>1. 0 \in T
  BY DEF Trace
<1>2. ASSUME NEW k \in T, k < n PROVE k + 1 \in T
  <2>1. k + 1 \in 1 .. n /\ k + 1 \in 0 .. n /\ k + 1 - 1 = k
    BY <1>2
  <2>2. tr[k + 1] = StepOf(lg, tr[k], ids[k + 1])
    BY <2>1 DEF Trace
  <2>3. tr[k] \in Plans /\ (tr[k].run \notin H => tr[k].update = 0)
    BY <1>2
  <2>4. /\ tr[k + 1] \in Plans
        /\ tr[k + 1] = tr[k] \/ tr[k + 1].run \in H
    BY <2>1, <2>2, <2>3, StepHeard
  <2>5. QED
    BY <2>1, <2>3, <2>4
<1>3. T = 0 .. n
  BY <1>1, <1>2, UptoInduction
<1>4. n \in T
  BY <1>3
<1>5. QED
  BY <1>4

\* once a run that is not heard yet announces itself, two plans are the same
LEMMA TwoStarts ==
    ASSUME NEW lg, NEW S \in SUBSET Nat, NEW t \in Seq(S), \A i \in S : lg[i] \in Row,
           NEW a \in Runs, NEW kf \in 1 .. Len(t),
           lg[t[kf]].run = a, lg[t[kf]].kind = "planning",
           \A k \in 1 .. kf - 1 : lg[t[k]].run # a,
           NEW p \in Plans, p.run \in {a, NoRun} => p.update = 0,
           NEW q \in Plans, q.run \in {a, NoRun} => q.update = 0
    PROVE  Folded(lg, p, t) = Folded(lg, q, t)
<1>1. PICK n \in Nat : n = Len(t)
  BY LenProperties
<1>2. \A k \in 1 .. n : t[k] \in Nat /\ lg[t[k]] \in Row
  BY <1>1, ElementOfSeq
<1>3. kf \in 1 .. n /\ kf - 1 \in Nat /\ \A k \in 1 .. kf - 1 : k \in 1 .. n
  BY <1>1
<1>4. PICK tr : Trace(lg, p, t, n, tr) /\ Folded(lg, p, t) = tr[n]
  BY <1>1, TraceExists
<1>5. PICK tq : Trace(lg, q, t, n, tq) /\ Folded(lg, q, t) = tq[n]
  BY <1>1, TraceExists
<1>6. ASSUME NEW o \in Plans, o.run \in {a, NoRun} => o.update = 0,
             NEW to, Trace(lg, o, t, n, to)
      PROVE  to[kf] = [run |-> a, update |-> 0]
  <2> DEFINE H == Runs \ {a}
  <2>1. PICK m \in Nat : m = kf - 1
    BY <1>3
  <2>2. Trace(lg, o, t, m, to)
    BY <1>3, <1>6, <2>1 DEF Trace
  <2>3. \A k \in 1 .. m : t[k] \in Nat /\ lg[t[k]] \in Row /\ lg[t[k]].run \in H
    BY <1>2, <1>3, <2>1 DEF Row
  <2>4. o.run \notin H => o.update = 0
    BY <1>6 DEF Plans
  <2>5. a \notin H
    OBVIOUS
  <2> HIDE DEF H
  <2>6. to[m] \in Plans /\ (to[m].run \notin H => to[m].update = 0)
    BY <1>6, <2>2, <2>3, <2>4, TraceHeard
  <2>7. to[kf] = OnRunStarted(to[m], a)
    BY <1>3, <1>6, <2>1 DEF Trace, StepOf
  <2>8. QED
    BY <2>5, <2>6, <2>7 DEF OnRunStarted, Plans
<1>7. tr[kf] = tq[kf]
  BY <1>4, <1>5, <1>6
<1> DEFINE T == {k \in 0 .. n : k < kf \/ tr[k] = tq[k]}
<1>8. 0 \in T
  BY <1>1, <1>3
<1>9. ASSUME NEW k \in T, k < n PROVE k + 1 \in T
  <2>1. k + 1 \in 1 .. n /\ k + 1 \in 0 .. n /\ k + 1 - 1 = k
    BY <1>9
  <2>2. CASE k + 1 < kf
    BY <2>1, <2>2
  <2>3. CASE k + 1 = kf
    BY <1>7, <2>1, <2>3
  <2>4. CASE kf <= k
    <3>1. tr[k] = tq[k]
      BY <2>4, <1>3, <2>1
    <3>2. tr[k + 1] = StepOf(lg, tr[k], t[k + 1]) /\ tq[k + 1] = StepOf(lg, tq[k], t[k + 1])
      BY <1>4, <1>5, <2>1 DEF Trace
    <3>3. QED
      BY <2>1, <3>1, <3>2
  <2>5. QED
    BY <1>3, <2>1, <2>2, <2>3, <2>4
<1>10. T = 0 .. n
  BY <1>1, <1>8, <1>9, UptoInduction
<1>11. tr[n] = tq[n]
  <2>1. n \in T
    BY <1>10
  <2>2. QED
    BY <1>3, <2>1
<1>12. QED
  BY <1>4, <1>5, <1>11

\* no other run announces itself after the k-th of these events
NoneAfter(lg, t, kf, a) ==
    \A k \in 1 .. Len(t) : kf < k /\ lg[t[k]].kind = "planning" => lg[t[k]].run = a

\* a run that announced itself keeps the plan until another one does
LEMMA FoldRun ==
    ASSUME NEW lg, NEW S \in SUBSET Nat, NEW t \in Seq(S), NEW p,
           NEW a, a # NoRun, NEW kf \in 1 .. Len(t),
           lg[t[kf]].run = a, lg[t[kf]].kind = "planning",
           NoneAfter(lg, t, kf, a)
    PROVE  Folded(lg, p, t).run = a
<1>1. PICK n \in Nat : n = Len(t)
  BY LenProperties
<1>2. PICK tr : Trace(lg, p, t, n, tr) /\ Folded(lg, p, t) = tr[n]
  BY <1>1, TraceExists
<1> DEFINE T == {k \in 0 .. n : k < kf \/ tr[k].run = a}
<1>3. kf \in 1 .. n
  BY <1>1
<1>4. 0 \in T
  BY <1>1, <1>3
<1>5. ASSUME NEW k \in T, k < n PROVE k + 1 \in T
  <2>1. k + 1 \in 1 .. n /\ k + 1 \in 0 .. n /\ k + 1 - 1 = k
    BY <1>5
  <2>2. tr[k + 1] = StepOf(lg, tr[k], t[k + 1])
    BY <1>2, <2>1 DEF Trace
  <2>3. CASE k + 1 < kf
    BY <2>1, <2>3
  <2>4. CASE k + 1 = kf
    BY <2>1, <2>2, <2>4 DEF StepOf, OnRunStarted
  <2>5. CASE kf <= k
    <3>1. tr[k].run = a
      BY <1>3, <2>1, <2>5
    <3>2. lg[t[k + 1]].kind = "planning" => lg[t[k + 1]].run = a
      <4>1. kf < k + 1 /\ k + 1 \in 1 .. Len(t)
        BY <1>1, <1>3, <2>1, <2>5
      <4>2. QED
        BY <4>1 DEF NoneAfter
    <3>3. tr[k + 1].run = a
      BY <2>2, <3>1, <3>2 DEF StepOf, OnRunStarted, OnPlanUpdate
    <3>4. QED
      BY <2>1, <3>3
  <2>6. QED
    BY <1>3, <2>1, <2>3, <2>4, <2>5
<1>6. n \in T
  <2>1. T = 0 .. n
    BY <1>1, <1>4, <1>5, UptoInduction
  <2>2. QED
    BY <1>1, <2>1
<1>7. tr[n].run = a
  BY <1>3, <1>6
<1>8. QED
  BY <1>2, <1>7

\* a plan that fits the events handled so far fits after more of them, when no
\* event is missing: a run whose answer came first is announced among the new ones
LEMMA FitsMore ==
    ASSUME NEW lg, NEW S \in SUBSET Nat, S \subseteq DOMAIN lg, \A i \in S : lg[i] \in Row,
           Announced(lg),
           NEW s \in Seq(S), NEW t \in Seq(S), Respects(lg, s \o t),
           NEW p \in Plans, NEW ans \in SUBSET Runs, Fits(lg, p, s, ans)
    PROVE  Fits(lg, Folded(lg, p, t), s \o t, ans)
<1>1. PICK n \in Nat : n = Len(t)
  BY LenProperties
<1>2. DOMAIN t = 1 .. n /\ \A k \in 1 .. n : t[k] \in S
  BY <1>1, LenProperties, ElementOfSeq
<1>3. ToSet(s \o t) = ToSet(s) \cup ToSet(t) /\ ToSet(s) \subseteq S
  BY ToSetConcat, ToSetFinite
<1>4. Heard(lg, s) \subseteq Heard(lg, s \o t)
  BY <1>3 DEF Heard
<1>5. \A k \in 1 .. n : t[k] \in Nat /\ lg[t[k]] \in Row /\ lg[t[k]].run \in Heard(lg, s \o t)
  <2>1. TAKE k \in 1 .. n
  <2>2. t[k] \in ToSet(s \o t)
    BY <1>2, <1>3, InToSet
  <2>3. t[k] \in S
    BY <1>2
  <2>4. QED
    BY <2>2, <2>3 DEF Heard
<1>6. /\ Folded(lg, p, t) \in Plans
      /\ Folded(lg, p, t).run \notin Heard(lg, s \o t) => Folded(lg, p, t).update = 0
  <2>1. PICK tr : Trace(lg, p, t, n, tr) /\ Folded(lg, p, t) = tr[n]
    BY <1>1, TraceExists
  <2>2. p.run \notin Heard(lg, s \o t) => p.update = 0
    BY <1>4 DEF Fits
  <2>3. QED
    BY <1>5, <2>1, <2>2, TraceHeard
<1> DEFINE q == Folded(lg, NoPlan, s)
<1>7. NoPlan \in Plans /\ NoPlan.update = 0
  BY DEF NoPlan, Plans
<1>8. q \in Plans /\ (q.run \notin Heard(lg, s) => q.update = 0)
  <2>1. PICK m \in Nat : m = Len(s)
    BY LenProperties
  <2>2. DOMAIN s = 1 .. m /\ \A k \in 1 .. m : s[k] \in S
    BY <2>1, LenProperties, ElementOfSeq
  <2>3. \A k \in 1 .. m : s[k] \in Nat /\ lg[s[k]] \in Row /\ lg[s[k]].run \in Heard(lg, s)
    <3>1. TAKE k \in 1 .. m
    <3>2. s[k] \in ToSet(s)
      BY <2>2, InToSet
    <3>3. s[k] \in S
      BY <2>2
    <3>4. QED
      BY <3>2, <3>3 DEF Heard
  <2>4. PICK tr : Trace(lg, NoPlan, s, m, tr) /\ q = tr[m]
    BY <2>1, TraceExists
  <2>5. NoPlan.run \notin Heard(lg, s) => NoPlan.update = 0
    BY <1>7
  <2>6. tr[m] \in Plans /\ (tr[m].run \notin Heard(lg, s) => tr[m].update = 0)
    BY <1>7, <2>3, <2>4, <2>5, TraceHeard
  <2>7. QED
    BY <2>4, <2>6
<1>9. Folded(lg, NoPlan, s \o t) = Folded(lg, q, t)
  BY FoldConcat
<1> HIDE DEF q
<1>10. ASSUME ans \subseteq Heard(lg, s \o t)
       PROVE  Folded(lg, p, t) = Folded(lg, q, t)
  <2>1. CASE ans \subseteq Heard(lg, s)
    BY <2>1 DEF Fits, q
  <2>2. CASE ~(ans \subseteq Heard(lg, s))
    <3>1. PICK a \in ans : a \notin Heard(lg, s)
      BY <2>2
    <3>2. a \in Runs /\ a # NoRun /\ a \in Heard(lg, s \o t)
      BY <1>10, <3>1, StreamAssumption
    <3> DEFINE K == {k \in 1 .. n : lg[t[k]].run = a}
    <3>3. K # {}
      <4>1. PICK i \in ToSet(s \o t) : lg[i].run = a
        BY <3>2 DEF Heard
      <4>2. i \in ToSet(t)
        BY <1>3, <3>1, <4>1 DEF Heard
      <4>3. PICK k \in DOMAIN t : t[k] = i
        BY <4>2, InToSet
      <4>4. QED
        BY <1>2, <4>1, <4>3
    <3>4. K \in SUBSET Nat
      BY <1>1
    <3>5. PICK kf \in K : \A k \in K : kf <= k
      BY <3>3, <3>4, LeastNat
    <3>6. kf \in 1 .. n /\ lg[t[kf]].run = a /\ t[kf] \in S /\ t[kf] \in ToSet(t)
      BY <1>2, <3>5, InToSet
    <3>7. lg[t[kf]].kind = "planning"
      <4>1. PICK f \in DOMAIN lg :
              /\ f = t[kf] \/ Earlier(lg, f, t[kf])
              /\ lg[f].run = a /\ lg[f].kind = "planning"
        BY <3>6 DEF Announced
      <4>2. CASE f = t[kf]
        BY <4>1, <4>2
      <4>3. CASE Earlier(lg, f, t[kf])
        <5>1. PICK l \in Nat : l = Len(s)
          BY LenProperties
        <5>2. PICK st, x : st = s \o t /\ x = l + kf
          OBVIOUS
        <5>3. /\ st \in Seq(S) /\ Len(st) = l + n
              /\ \A k \in 1 .. l + n : st[k] = IF k <= l THEN s[k] ELSE t[k - l]
          BY <1>1, <5>1, <5>2, ConcatProperties
        <5>4. x \in 1 .. l + n /\ ~(x <= l) /\ x - l = kf /\ x \in Nat
          BY <1>1, <3>6, <5>1, <5>2
        <5>5. st[x] = t[kf] /\ x \in DOMAIN st
          BY <5>3, <5>4, LenProperties
        <5>6. PICK m \in 1 .. x - 1 : st[m] = f
          <6>1. Respects(lg, st) /\ Earlier(lg, f, st[x])
            BY <4>3, <5>2, <5>5
          <6>2. QED
            BY <5>5, <6>1 DEF Respects
        <5>7. m \in 1 .. l + n /\ (m <= l => m \in 1 .. l)
          BY <1>1, <5>1, <5>4
        <5>8. CASE m <= l
          <6>1. s[m] = f /\ m \in DOMAIN s
            BY <5>1, <5>3, <5>6, <5>7, <5>8, LenProperties
          <6>2. f \in ToSet(s)
            BY <6>1, InToSet
          <6>3. QED
            BY <3>1, <4>1, <6>2 DEF Heard
        <5>9. CASE ~(m <= l)
          <6>1. m - l \in 1 .. n /\ m - l < kf
            BY <1>1, <3>6, <5>1, <5>4, <5>9
          <6>2. t[m - l] = f
            BY <5>3, <5>6, <5>7, <5>9
          <6>3. m - l \in K
            BY <4>1, <6>1, <6>2
          <6>4. kf <= m - l
            BY <3>5, <6>3
          <6>5. QED
            BY <3>6, <6>1, <6>4
        <5>10. QED
          BY <5>8, <5>9
      <4>4. QED
        BY <4>1, <4>2, <4>3
    <3>8. \A k \in 1 .. kf - 1 : lg[t[k]].run # a
      <4>1. TAKE k \in 1 .. kf - 1
      <4>2. k \in 1 .. n /\ ~(kf <= k)
        BY <1>1, <3>6
      <4>3. QED
        BY <3>5, <4>2
    <3>9. NoRun \notin Heard(lg, s)
      BY <1>3, StreamAssumption DEF Heard, Row
    <3>10. /\ p.run \in {a, NoRun} => p.update = 0
           /\ q.run \in {a, NoRun} => q.update = 0
      BY <1>8, <3>1, <3>9 DEF Fits
    <3>11. kf \in 1 .. Len(t)
      BY <1>1, <3>6
    <3>12. QED
      BY <1>8, <3>2, <3>6, <3>7, <3>8, <3>10, <3>11, TwoStarts
  <2>3. QED
    BY <2>1, <2>2
<1>11. QED
  BY <1>6, <1>9, <1>10 DEF Fits

\* the answer to a message whose run was heard finds the plan of that run
LEMMA FitsAnswer ==
    ASSUME NEW lg, NEW S \in SUBSET Nat, S \subseteq DOMAIN lg, Announced(lg),
           NEW s \in Seq(S), Respects(lg, s), Distinct(s),
           NEW p \in Plans, NEW ans, NEW a, a # NoRun, Fits(lg, p, s, ans),
           \A b : b # a => Over(lg, a, b)
    PROVE  Fits(lg, OnRunStarted(p, a), s, ans \cup {a})
<1>1. OnRunStarted(p, a).run \notin Heard(lg, s) => OnRunStarted(p, a).update = 0
  BY DEF Fits, OnRunStarted
<1>2. ASSUME ans \cup {a} \subseteq Heard(lg, s)
      PROVE  OnRunStarted(p, a) = Folded(lg, NoPlan, s)
  <2>1. p = Folded(lg, NoPlan, s)
    BY <1>2 DEF Fits
  <2>2. PICK i \in ToSet(s) : lg[i].run = a
    BY <1>2 DEF Heard
  <2>3. ToSet(s) \subseteq S
    BY ToSetFinite
  <2>4. PICK f \in DOMAIN lg :
          (f = i \/ Earlier(lg, f, i)) /\ lg[f].run = a /\ lg[f].kind = "planning"
    BY <2>2, <2>3 DEF Announced
  <2>5. PICK n \in Nat : n = Len(s)
    BY LenProperties
  <2>6. DOMAIN s = 1 .. n /\ \A k \in 1 .. n : s[k] \in S
    BY <2>5, LenProperties, ElementOfSeq
  <2>7. PICK kf \in 1 .. n : s[kf] = f
    <3>1. PICK k \in 1 .. n : s[k] = i
      BY <2>2, <2>6, InToSet
    <3>2. CASE f = i
      BY <3>1, <3>2
    <3>3. CASE Earlier(lg, f, i)
      <4>1. PICK m \in 1 .. k - 1 : s[m] = f
        BY <2>6, <3>1, <3>3 DEF Respects
      <4>2. m \in 1 .. n
        BY <2>5
      <4>3. QED
        BY <4>1, <4>2
    <3>4. QED
      BY <2>4, <3>2, <3>3
  <2>8. ASSUME NEW k \in 1 .. n, kf < k, lg[s[k]].kind = "planning" PROVE lg[s[k]].run = a
    <3>1. SUFFICES ASSUME lg[s[k]].run # a PROVE FALSE
      OBVIOUS
    <3>2. s[k] \in DOMAIN lg
      BY <2>6
    <3>3. Earlier(lg, s[k], f)
      BY <2>4, <2>8, <3>1, <3>2 DEF Over
    <3>4. PICK m \in 1 .. kf - 1 : s[m] = s[k]
      BY <2>7, <2>6, <3>2, <3>3 DEF Respects
    <3>5. m \in 1 .. n /\ m < k
      BY <2>5, <2>8
    <3>6. QED
      BY <2>6, <3>4, <3>5 DEF Distinct
  <2>9. kf \in 1 .. Len(s) /\ lg[s[kf]].run = a /\ lg[s[kf]].kind = "planning"
    BY <2>4, <2>7, <2>5, <2>6
  <2>10. NoneAfter(lg, s, kf, a)
    BY <2>5, <2>8 DEF NoneAfter
  <2>11. p.run = a
    <3>1. ASSUME NEW o PROVE Folded(lg, o, s).run = a
      BY <2>9, <2>10, FoldRun
    <3>2. QED
      BY <2>1, <3>1
  <2>12. QED
    BY <2>1, <2>11 DEF OnRunStarted
<1>3. QED
  BY <1>1, <1>2 DEF Fits

-----------------------------------------------------------------------------
(* Two orders of the same events make the same plan *)

\* a run tells its events one after another
RunOrder(lg) ==
    \A i, j \in DOMAIN lg : i < j /\ lg[i].run = lg[j].run => lg[i].at < lg[j].at

\* all of the first events, in an order that respects both orders
Faithful(lg, N, s) ==
    s \in Seq(1 .. N) /\ ToSet(s) = 1 .. N /\ Distinct(s) /\ Respects(lg, s)

History(lg, N) ==
    /\ N \in Nat \ {0} /\ DOMAIN lg \in SUBSET (Nat \ {0}) /\ 1 .. N \subseteq DOMAIN lg
    /\ \A i \in DOMAIN lg : lg[i] \in Row
    /\ RunOrder(lg) /\ Announced(lg)

\* the run that comes after all that the others announce
LastOf(lg, N, a) ==
    /\ \E i \in 1 .. N : lg[i].run = a
    /\ \A i, j \in 1 .. N :
         lg[i].run = a /\ lg[j].run # a /\ lg[j].kind = "planning" => Earlier(lg, j, i)

Updates(lg, N, a) == {i \in 1 .. N : lg[i].run = a /\ lg[i].kind = "plan.update"}

Latest(U, u) == u \in U \cup {0} /\ \A i \in U : i <= u

LEMMA FaithfulGives ==
    ASSUME NEW lg, NEW N, History(lg, N), NEW s, Faithful(lg, N, s)
    PROVE  /\ N \in Nat /\ Len(s) \in Nat /\ DOMAIN s = 1 .. Len(s)
           /\ \A k \in 1 .. Len(s) :
                /\ s[k] \in 1 .. N /\ s[k] \in Nat /\ s[k] \in DOMAIN lg
                /\ lg[s[k]] \in Row /\ lg[s[k]].run \in Runs
           /\ \A i \in 1 .. N : \E k \in 1 .. Len(s) : s[k] = i
<1>1. N \in Nat /\ 1 .. N \subseteq DOMAIN lg /\ \A i \in DOMAIN lg : lg[i] \in Row
  BY DEF History
<1>2. s \in Seq(1 .. N) /\ ToSet(s) = 1 .. N
  BY DEF Faithful
<1>3. Len(s) \in Nat /\ DOMAIN s = 1 .. Len(s)
  BY <1>2, LenProperties
<1>4. \A k \in 1 .. Len(s) : s[k] \in 1 .. N
  BY <1>2, ElementOfSeq
<1>5. \A k \in 1 .. Len(s) : s[k] \in Nat /\ s[k] \in DOMAIN lg /\ lg[s[k]] \in Row
  BY <1>1, <1>4
<1>6. \A k \in 1 .. Len(s) : lg[s[k]].run \in Runs
  BY <1>5 DEF Row
<1>7. \A i \in 1 .. N : \E k \in 1 .. Len(s) : s[k] = i
  BY <1>2, <1>3, InToSet
<1>8. QED
  BY <1>1, <1>3, <1>4, <1>5, <1>6, <1>7

\* the first event of a run is an announcement
LEMMA FirstAnnounces ==
    ASSUME NEW lg, NEW N, History(lg, N), NEW s, Faithful(lg, N, s),
           NEW k \in 1 .. Len(s),
           \A m \in 1 .. k - 1 : lg[s[m]].run # lg[s[k]].run
    PROVE  lg[s[k]].kind = "planning"
<1>1. k \in DOMAIN s /\ s[k] \in DOMAIN lg
  BY FaithfulGives
<1>2. PICK f \in DOMAIN lg :
        /\ f = s[k] \/ Earlier(lg, f, s[k])
        /\ lg[f].run = lg[s[k]].run /\ lg[f].kind = "planning"
  BY <1>1 DEF History, Announced
<1>3. ASSUME Earlier(lg, f, s[k]) PROVE FALSE
  <2>1. PICK m \in 1 .. k - 1 : s[m] = f
    BY <1>1, <1>3 DEF Faithful, Respects
  <2>2. QED
    BY <1>2, <2>1
<1>4. QED
  BY <1>2, <1>3

\* the events of a run come by their numbers
LEMMA RunAscends ==
    ASSUME NEW lg, NEW N, History(lg, N), NEW s, Faithful(lg, N, s),
           NEW m \in 1 .. Len(s), NEW k \in 1 .. Len(s), m < k,
           lg[s[m]].run = lg[s[k]].run
    PROVE  s[m] < s[k]
<1>1. PICK n \in Nat : n = Len(s)
  BY FaithfulGives
<1>2. m \in DOMAIN s /\ k \in DOMAIN s /\ s[m] \in Nat /\ s[k] \in Nat
      /\ s[m] \in DOMAIN lg /\ s[k] \in DOMAIN lg
  BY FaithfulGives
<1>3. s[m] # s[k]
  BY <1>2 DEF Faithful, Distinct
<1>4. ASSUME s[k] < s[m] PROVE FALSE
  <2>1. Earlier(lg, s[k], s[m])
    BY <1>2, <1>4 DEF History, RunOrder, Earlier
  <2>2. PICK j \in 1 .. m - 1 : s[j] = s[k]
    BY <1>2, <2>1 DEF Faithful, Respects
  <2>3. j \in 1 .. n /\ j < k
    BY <1>1
  <2>4. j \in DOMAIN s
    BY <1>1, <2>3, FaithfulGives
  <2>5. QED
    BY <1>2, <2>2, <2>3, <2>4 DEF Faithful, Distinct
<1>5. QED
  BY <1>2, <1>3, <1>4

\* the plan that the last run leaves
LEMMA LastPlan ==
    ASSUME NEW lg, NEW N, History(lg, N), NEW s, Faithful(lg, N, s),
           NEW a \in Runs, LastOf(lg, N, a)
    PROVE  /\ Folded(lg, NoPlan, s) \in Plans
           /\ Folded(lg, NoPlan, s).run = a
           /\ Latest(Updates(lg, N, a), Folded(lg, NoPlan, s).update)
<1>1. PICK n \in Nat : n = Len(s)
  BY FaithfulGives
<1>2. /\ N \in Nat
      /\ \A k \in 1 .. n :
           /\ s[k] \in 1 .. N /\ s[k] \in Nat /\ s[k] \in DOMAIN lg /\ k \in DOMAIN s
           /\ lg[s[k]] \in Row /\ lg[s[k]].run \in Runs
      /\ \A i \in 1 .. N : \E k \in 1 .. n : s[k] = i
  BY <1>1, FaithfulGives
<1> DEFINE K == {k \in 1 .. n : lg[s[k]].run = a}
           U == Updates(lg, N, a)
<1>3. PICK kf \in K : \A k \in K : kf <= k
  <2>1. PICK i \in 1 .. N : lg[i].run = a
    BY DEF LastOf
  <2>2. PICK k \in 1 .. n : s[k] = i
    BY <1>2
  <2>3. K # {} /\ K \in SUBSET Nat
    BY <1>1, <2>1, <2>2
  <2>4. QED
    BY <2>3, LeastNat
<1>4. kf \in 1 .. n /\ lg[s[kf]].run = a
  BY <1>3
<1>5. \A k \in 1 .. n : k < kf => lg[s[k]].run # a
  BY <1>1, <1>3, <1>4
<1>6. lg[s[kf]].kind = "planning"
  <2>1. \A k \in 1 .. kf - 1 : lg[s[k]].run # lg[s[kf]].run
    BY <1>1, <1>4, <1>5
  <2>2. QED
    BY <1>1, <1>4, <2>1, FirstAnnounces
<1>7. ASSUME NEW k \in 1 .. n, kf < k, lg[s[k]].kind = "planning" PROVE lg[s[k]].run = a
  <2>1. SUFFICES ASSUME lg[s[k]].run # a PROVE FALSE
    OBVIOUS
  <2>2. Earlier(lg, s[k], s[kf])
    BY <1>2, <1>4, <1>7, <2>1 DEF LastOf
  <2>3. PICK m \in 1 .. kf - 1 : s[m] = s[k]
    BY <1>2, <1>4, <2>2 DEF Faithful, Respects
  <2>4. m \in 1 .. n /\ m < k
    BY <1>1, <1>4, <1>7
  <2>5. QED
    BY <1>2, <2>3, <2>4 DEF Faithful, Distinct
<1>8. NoPlan \in Plans /\ NoPlan.update = 0
  BY DEF NoPlan, Plans
<1>9. PICK tr : Trace(lg, NoPlan, s, n, tr) /\ Folded(lg, NoPlan, s) = tr[n]
  <2>1. s \in Seq(1 .. N)
    BY DEF Faithful
  <2>2. QED
    BY <1>1, <2>1, TraceExists
<1>10. tr[kf] = [run |-> a, update |-> 0]
  <2> DEFINE H == Runs \ {a}
  <2>1. PICK m \in Nat : m = kf - 1
    BY <1>1, <1>4
  <2>2. Trace(lg, NoPlan, s, m, tr)
    BY <1>1, <1>4, <1>9, <2>1 DEF Trace
  <2>3. \A k \in 1 .. m : k \in 1 .. n /\ k < kf
    BY <1>1, <1>4, <2>1
  <2>4. \A k \in 1 .. m : s[k] \in Nat /\ lg[s[k]] \in Row /\ lg[s[k]].run \in H
    BY <1>2, <1>5, <2>3
  <2>5. a \notin H
    OBVIOUS
  <2> HIDE DEF H
  <2>6. tr[m] \in Plans /\ (tr[m].run \notin H => tr[m].update = 0)
    BY <1>8, <2>2, <2>4, TraceHeard
  <2>7. tr[kf] = OnRunStarted(tr[m], a)
    BY <1>4, <1>6, <1>9, <2>1 DEF Trace, StepOf
  <2>8. QED
    BY <2>5, <2>6, <2>7 DEF OnRunStarted, Plans
<1> DEFINE T == {k \in 0 .. n : k < kf \/ ( /\ tr[k].run = a
                                            /\ tr[k] \in Plans
                                            /\ tr[k].update \in U \cup {0}
                                            /\ \A m \in 1 .. k : s[m] \in U => s[m] <= tr[k].update )}
<1>11. \A i \in U : i \in 1 .. N /\ lg[i].run = a /\ lg[i].kind = "plan.update"
  BY DEF Updates
<1>12. \A k \in 1 .. n : lg[s[k]].run = a /\ lg[s[k]].kind = "plan.update" => s[k] \in U
  BY <1>2 DEF Updates
<1> HIDE DEF U
<1>13. 0 \in T
  BY <1>1, <1>4
<1>14. ASSUME NEW k \in T, k < n PROVE k + 1 \in T
  <2>1. k + 1 \in 1 .. n /\ k + 1 \in 0 .. n /\ k + 1 - 1 = k /\ k \in Nat
    BY <1>1, <1>14
  <2>2. tr[k + 1] = StepOf(lg, tr[k], s[k + 1])
    BY <1>9, <2>1 DEF Trace
  <2>3. CASE k + 1 < kf
    BY <2>1, <2>3
  <2>4. CASE k + 1 = kf
    <3>1. tr[k + 1].run = a /\ tr[k + 1].update = 0 /\ tr[k + 1] \in Plans
      BY <1>10, <2>4 DEF Plans
    <3>2. ASSUME NEW m \in 1 .. k + 1 PROVE s[m] \notin U
      <4>1. m \in 1 .. n
        BY <1>1, <2>1
      <4>2. CASE m = kf
        BY <1>6, <1>11, <4>2
      <4>3. CASE m # kf
        BY <1>5, <1>11, <2>1, <2>4, <4>1, <4>3
      <4>4. QED
        BY <4>2, <4>3
    <3>3. QED
      BY <2>1, <3>1, <3>2
  <2>5. CASE kf <= k
    <3>1. /\ tr[k].run = a /\ tr[k].update \in U \cup {0} /\ tr[k] \in Plans
          /\ \A m \in 1 .. k : s[m] \in U => s[m] <= tr[k].update
      <4>1. ~(k < kf)
        BY <1>4, <2>1, <2>5
      <4>2. QED
        BY <4>1
    <3>2. kf < k + 1 /\ a # NoRun
      BY <1>4, <2>1, <2>5, StreamAssumption
    <3>3. \A m \in 1 .. k + 1 : m = k + 1 \/ m \in 1 .. k
      BY <2>1
    <3>4. lg[s[k + 1]].kind = "planning" => lg[s[k + 1]].run = a
      BY <1>7, <2>1, <3>2
    <3>5. CASE lg[s[k + 1]].kind = "plan.update" /\ lg[s[k + 1]].run = a
      <4>1. tr[k + 1] = [run |-> a, update |-> s[k + 1]]
        BY <2>2, <3>1, <3>5 DEF StepOf, OnPlanUpdate
      <4>2. s[k + 1] \in U /\ s[k + 1] \in Nat
        BY <1>2, <1>12, <2>1, <3>5
      <4>3. ASSUME NEW m \in 1 .. k, s[m] \in U PROVE s[m] <= s[k + 1]
        <5>1. m \in 1 .. n /\ m < k + 1 /\ lg[s[m]].run = a
          BY <1>1, <1>11, <2>1, <4>3
        <5>2. /\ m \in 1 .. Len(s) /\ k + 1 \in 1 .. Len(s)
              /\ lg[s[m]].run = lg[s[k + 1]].run
          BY <1>1, <2>1, <3>5, <5>1
        <5>3. s[m] < s[k + 1]
          BY <5>1, <5>2, RunAscends
        <5>4. s[m] \in Nat
          BY <1>2, <5>1
        <5>5. QED
          BY <4>2, <5>3, <5>4
      <4>4. tr[k + 1] \in Plans
        BY <4>1, <4>2 DEF Plans
      <4>5. \A m \in 1 .. k + 1 : s[m] \in U => s[m] <= s[k + 1]
        BY <3>3, <4>2, <4>3
      <4>6. QED
        BY <2>1, <4>1, <4>2, <4>4, <4>5
    <3>6. CASE ~(lg[s[k + 1]].kind = "plan.update" /\ lg[s[k + 1]].run = a)
      <4>1. tr[k + 1] = tr[k]
        BY <2>2, <3>1, <3>2, <3>4, <3>6 DEF StepOf, OnRunStarted, OnPlanUpdate
      <4>2. s[k + 1] \notin U
        BY <1>11, <3>6
      <4>3. QED
        BY <2>1, <3>1, <3>3, <4>1, <4>2
    <3>7. QED
      BY <3>5, <3>6
  <2>6. QED
    BY <1>4, <2>1, <2>3, <2>4, <2>5
<1>15. T = 0 .. n
  BY <1>1, <1>13, <1>14, UptoInduction
<1>16. /\ tr[n].run = a /\ tr[n].update \in U \cup {0} /\ tr[n] \in Plans
       /\ \A m \in 1 .. n : s[m] \in U => s[m] <= tr[n].update
  <2>1. n \in T /\ ~(n < kf)
    BY <1>1, <1>4, <1>15
  <2>2. QED
    BY <2>1
<1>17. \A i \in U : i <= tr[n].update
  BY <1>2, <1>11, <1>16
<1>18. QED
  BY <1>9, <1>16, <1>17 DEF Latest, U

\* the run of the last announcement is the last one
LEMMA SomeLast ==
    ASSUME NEW lg, NEW N, History(lg, N), NEW s, Faithful(lg, N, s),
           \A a, b \in Runs : a # b => Over(lg, a, b) \/ Over(lg, b, a)
    PROVE  \E a \in Runs : LastOf(lg, N, a)
<1>1. PICK n \in Nat : n = Len(s)
  BY FaithfulGives
<1>2. /\ N \in Nat
      /\ \A k \in 1 .. n : s[k] \in 1 .. N /\ s[k] \in DOMAIN lg /\ k \in DOMAIN s
                           /\ lg[s[k]].run \in Runs
      /\ \A i \in 1 .. N : \E k \in 1 .. n : s[k] = i
  BY <1>1, FaithfulGives
<1> DEFINE P == {k \in 1 .. n : lg[s[k]].kind = "planning"}
<1>3. PICK kl \in P : \A k \in P : k <= kl
  <2>1. 1 \in 1 .. N
    BY DEF History
  <2>2. PICK k \in 1 .. n : s[k] = 1
    BY <1>2, <2>1
  <2>3. 1 \in 1 .. n
    BY <1>1, <2>2
  <2>4. lg[s[1]].kind = "planning"
    <3>1. \A m \in 1 .. 1 - 1 : lg[s[m]].run # lg[s[1]].run
      OBVIOUS
    <3>2. QED
      BY <1>1, <2>3, <3>1, FirstAnnounces
  <2>5. 1 \in P /\ P \in SUBSET (0 .. n)
    BY <1>1, <2>3, <2>4
  <2>6. QED
    BY <1>1, <2>5, GreatestNat
<1>4. kl \in 1 .. n /\ lg[s[kl]].kind = "planning"
  BY <1>3
<1> DEFINE a == lg[s[kl]].run
<1>5. a \in Runs /\ s[kl] \in 1 .. N
  BY <1>2, <1>4
<1>6. ASSUME NEW i \in 1 .. N, NEW j \in 1 .. N, lg[i].run = a, lg[j].run # a,
             lg[j].kind = "planning"
      PROVE  Earlier(lg, j, i)
  <2> DEFINE b == lg[j].run
  <2>1. 1 .. N \subseteq DOMAIN lg
    BY DEF History
  <2>2. PICK k \in 1 .. n : s[k] = j
    BY <1>2
  <2>3. b \in Runs
    BY <1>2, <2>2
  <2>4. ~Over(lg, b, a)
    <3>1. SUFFICES ASSUME Over(lg, b, a) PROVE FALSE
      OBVIOUS
    <3>2. Earlier(lg, s[kl], s[k])
      BY <1>4, <1>5, <2>1, <2>2, <3>1 DEF Over
    <3>3. PICK m \in 1 .. k - 1 : s[m] = s[kl]
      BY <1>2, <1>4, <3>2 DEF Faithful, Respects
    <3>4. k <= kl
      BY <1>3, <1>6, <2>2
    <3>5. m \in 1 .. n /\ m < kl
      BY <1>1, <1>4, <3>4
    <3>6. QED
      BY <1>2, <1>4, <3>3, <3>5 DEF Faithful, Distinct
  <2>5. Over(lg, a, b)
    BY <1>5, <1>6, <2>3, <2>4
  <2>6. QED
    BY <1>6, <2>1, <2>5 DEF Over
<1>7. QED
  BY <1>5, <1>6 DEF LastOf

LEMMA TwoOrders ==
    ASSUME NEW lg, NEW N, History(lg, N), NEW s, Faithful(lg, N, s),
           NEW t, Faithful(lg, N, t),
           \A a, b \in Runs : a # b => Over(lg, a, b) \/ Over(lg, b, a)
    PROVE  Folded(lg, NoPlan, s) = Folded(lg, NoPlan, t)
<1>1. PICK a \in Runs : LastOf(lg, N, a)
  BY SomeLast
<1> DEFINE p == Folded(lg, NoPlan, s)
           q == Folded(lg, NoPlan, t)
           U == Updates(lg, N, a)
<1>2. p \in Plans /\ p.run = a /\ Latest(U, p.update)
  BY <1>1, LastPlan
<1>3. q \in Plans /\ q.run = a /\ Latest(U, q.update)
  BY <1>1, LastPlan
<1>4. U \in SUBSET (Nat \ {0})
  BY DEF Updates, History
<1> HIDE DEF p, q, U
<1>5. p.update = q.update
  <2>1. p.update \in Nat /\ q.update \in Nat
    BY <1>2, <1>3 DEF Plans
  <2>2. CASE U = {}
    BY <1>2, <1>3, <2>2 DEF Latest
  <2>3. CASE U # {}
    <3>1. p.update # 0 /\ q.update # 0
      <4>1. PICK i \in U : i \in Nat /\ i # 0
        BY <1>4, <2>3
      <4>2. i <= p.update /\ i <= q.update
        BY <1>2, <1>3, <4>1 DEF Latest
      <4>3. QED
        BY <2>1, <4>1, <4>2
    <3>2. p.update <= q.update /\ q.update <= p.update
      BY <1>2, <1>3, <3>1 DEF Latest
    <3>3. QED
      BY <2>1, <3>2
  <2>4. QED
    BY <2>2, <2>3
<1>6. p = q
  BY <1>2, <1>3, <1>5 DEF Plans
<1>7. QED
  BY <1>6 DEF p, q

-----------------------------------------------------------------------------
(* The log when no run announces itself after the next message was sent *)

ScriptsAnnounce == \A r \in Runs : Script[r] # <<>> => Script[r][1] = "planning"

AnnouncedInv ==
    /\ \A i \in DOMAIN log : log[i].run \in started
    /\ \A r \in Runs : begun[r] # 0 => r \in started
    /\ Announced(log)

\* run b has announced itself for the last time, before run a began
After(a, b) ==
    /\ ~WillAnnounce(b)
    /\ \A j \in DOMAIN log : log[j].run = b /\ log[j].kind = "planning" =>
         /\ \A i \in DOMAIN log : log[i].run = a => Earlier(log, j, i)
         /\ begun[a] # 0 => log[j].at < begun[a]

TurnInv ==
    /\ sending # NoRun => \A q \in started \ {sending} : After(sending, q)
    /\ \A a, b \in started : a # b => After(a, b) \/ After(b, a)

\* the page has no gap: it handles all events up to some number
Whole ==
    /\ boot.pc = "replaying" => ToSet(boot.rows) = 1 .. Top(boot.rows)
    /\ boot.pc = "ready" => ToSet(handled) = 1 .. applied

\* then it handles them in an order that respects that of the numbers and that of
\* the times where these agree
WholeOrder == Whole => Respects(log, handled) /\ Distinct(handled)

PlanInv == Whole => Fits(log, plan, handled, answered)

ReplayInv == AnnouncedInv /\ TurnInv /\ PlanInv

\* an announcement that is not to come will not come
LEMMA AnnouncesLess ==
    ASSUME LogTyped, NEW r \in Runs, Insert(r), NEW q, ~WillAnnounce(q)
    PROVE  ~WillAnnounce(q)' /\ (q = r => Script[q][SaidBy(q) + 1] # "planning")
<1>1. PICK k \in Nat : k = SaidBy(q)
  BY SaidMore
<1>2. SaidBy(q)' = IF q = r THEN k + 1 ELSE k
  BY <1>1, SaidMore
<1>3. \A m \in k + 1 .. Len(Script[q]) : Script[q][m] # "planning"
  BY <1>1 DEF WillAnnounce
<1>4. ~WillAnnounce(q)'
  <2>1. PICK l \in {k, k + 1} : l = SaidBy(q)'
    BY <1>2
  <2>2. SUFFICES ASSUME NEW m \in l + 1 .. Len(Script[q]) PROVE Script[q][m] # "planning"
    BY <2>1 DEF WillAnnounce
  <2>3. m \in k + 1 .. Len(Script[q])
    BY <1>1, <2>1, <2>2
  <2>4. QED
    BY <1>3, <2>3
<1>5. ASSUME q = r PROVE Script[q][SaidBy(q) + 1] # "planning"
  <2>1. k < Len(Script[q])
    BY <1>1, <1>5 DEF Insert, LogTyped, Timed
  <2>2. Len(Script[q]) \in Nat
    BY <1>5, StreamAssumption, LenProperties
  <2>3. k + 1 \in k + 1 .. Len(Script[q])
    BY <1>1, <2>1, <2>2
  <2>4. QED
    BY <1>1, <1>3, <2>3
<1>6. QED
  BY <1>4, <1>5

LEMMA InsertAnnounced ==
    ASSUME ScriptsAnnounce, LogTyped, AnnouncedInv, NEW r \in Runs, Insert(r)
    PROVE  AnnouncedInv'
<1>1. PICK n \in Nat \ {0} :
        /\ DOMAIN log = 1 .. n - 1 /\ DOMAIN log' = 1 .. n
        /\ \A i \in 1 .. n - 1 : log'[i] = log[i]
        /\ log'[n] = [run |-> r, kind |-> Script[r][SaidBy(r) + 1], at |-> begun[r]]
  BY InsertFacts
<1>2. /\ begun[r] # 0 /\ started' = started /\ begun \in [Runs -> 0 .. clock]
      /\ begun' = [begun EXCEPT ![r] = 0]
  BY DEF Insert, LogTyped, Timed
<1>3. /\ SaidBy(r) < Len(Script[r]) /\ r \in started
      /\ \A i \in DOMAIN log : log[i].run = r => log[i].at < begun[r]
  BY <1>2 DEF LogTyped, Timed, AnnouncedInv
<1>4. \A i \in DOMAIN log' : log'[i].run \in started'
  BY <1>1, <1>2, <1>3 DEF AnnouncedInv
<1>5. \A q \in Runs : begun'[q] # 0 => q \in started'
  BY <1>2 DEF AnnouncedInv
<1>6. ASSUME NEW i \in DOMAIN log'
      PROVE  \E f \in DOMAIN log' :
               /\ f = i \/ Earlier(log', f, i)
               /\ log'[f].run = log'[i].run /\ log'[f].kind = "planning"
  <2>1. CASE i # n
    <3>1. i \in DOMAIN log
      BY <1>1, <1>6, <2>1
    <3>2. PICK f \in DOMAIN log :
            (f = i \/ Earlier(log, f, i)) /\ log[f].run = log[i].run /\ log[f].kind = "planning"
      BY <3>1 DEF AnnouncedInv, Announced
    <3>3. f \in DOMAIN log' /\ log'[f] = log[f] /\ log'[i] = log[i]
      BY <1>1, <3>1, <3>2
    <3>4. QED
      BY <3>2, <3>3 DEF Earlier
  <2>2. CASE i = n /\ SaidBy(r) = 0
    <3>1. Script[r] # <<>>
      <4>1. Len(Script[r]) # 0
        BY <1>3, <2>2
      <4>2. QED
        BY <4>1
    <3>2. Script[r][0 + 1] = "planning"
      BY <3>1 DEF ScriptsAnnounce
    <3>3. QED
      BY <1>1, <1>6, <2>2, <3>2
  <2>3. CASE i = n /\ SaidBy(r) # 0
    <3>1. PICK j \in DOMAIN log : log[j].run = r
      <4>1. ASSUME \A j \in DOMAIN log : log[j].run # r PROVE SaidBy(r) = 0
        <5>1. {j \in DOMAIN log : log[j].run = r} = {}
          BY <4>1
        <5>2. QED
          BY <5>1, FS_EmptySet DEF SaidBy
      <4>2. QED
        BY <2>3, <4>1
    <3>2. PICK f \in DOMAIN log :
            (f = j \/ Earlier(log, f, j)) /\ log[f].run = r /\ log[f].kind = "planning"
      BY <3>1 DEF AnnouncedInv, Announced
    <3>3. f \in DOMAIN log' /\ log'[f] = log[f] /\ f < n
      BY <1>1, <3>2
    <3>4. log'[n].run = r /\ log'[n].at = begun[r] /\ log[f].at < begun[r]
      BY <1>1, <1>3, <3>2
    <3>5. Earlier(log', f, n)
      BY <3>3, <3>4 DEF Earlier
    <3>6. QED
      BY <2>3, <3>2, <3>3, <3>4, <3>5
  <2>4. QED
    BY <2>1, <2>2, <2>3
<1>7. QED
  BY <1>4, <1>5, <1>6 DEF AnnouncedInv, Announced

\* a run that began after another one announced itself stays after it
LEMMA InsertAfter ==
    ASSUME LogTyped, NEW r \in Runs, Insert(r), NEW a \in Runs, NEW b, a # b, After(a, b)
    PROVE  After(a, b)'
<1>1. PICK n \in Nat \ {0} :
        /\ DOMAIN log = 1 .. n - 1 /\ DOMAIN log' = 1 .. n
        /\ \A i \in 1 .. n - 1 : log'[i] = log[i]
        /\ log'[n] = [run |-> r, kind |-> Script[r][SaidBy(r) + 1], at |-> begun[r]]
  BY InsertFacts
<1>2. /\ begun[r] # 0 /\ begun \in [Runs -> 0 .. clock] /\ begun' = [begun EXCEPT ![r] = 0]
  BY DEF Insert, LogTyped, Timed
<1>3. ~WillAnnounce(b)' /\ (b = r => log'[n].kind # "planning")
  BY <1>1, AnnouncesLess DEF After
<1>4. ASSUME NEW j \in DOMAIN log', log'[j].run = b, log'[j].kind = "planning"
      PROVE  /\ \A i \in DOMAIN log' : log'[i].run = a => Earlier(log', j, i)
             /\ begun'[a] # 0 => log'[j].at < begun'[a]
  <2>1. j # n
    BY <1>1, <1>3, <1>4
  <2>2. j \in DOMAIN log /\ log'[j] = log[j] /\ j < n
    BY <1>1, <1>4, <2>1
  <2>3. /\ \A i \in DOMAIN log : log[i].run = a => Earlier(log, j, i)
        /\ begun[a] # 0 => log[j].at < begun[a]
    BY <1>4, <2>2 DEF After
  <2>4. ASSUME NEW i \in DOMAIN log', log'[i].run = a PROVE Earlier(log', j, i)
    <3>1. CASE i = n
      <4>1. a = r /\ log'[n].at = begun[r]
        BY <1>1, <2>4, <3>1
      <4>2. log[j].at < begun[r]
        BY <1>2, <2>3, <4>1
      <4>3. QED
        BY <2>2, <3>1, <4>1, <4>2 DEF Earlier
    <3>2. CASE i # n
      <4>1. i \in DOMAIN log /\ log'[i] = log[i]
        BY <1>1, <2>4, <3>2
      <4>2. QED
        BY <2>2, <2>3, <2>4, <4>1 DEF Earlier
    <3>3. QED
      BY <3>1, <3>2
  <2>5. ASSUME begun'[a] # 0 PROVE log'[j].at < begun'[a]
    <3>1. a # r /\ begun'[a] = begun[a]
      BY <1>2, <2>5
    <3>2. QED
      BY <2>2, <2>3, <2>5, <3>1
  <2>6. QED
    BY <2>4, <2>5
<1>5. QED
  BY <1>3, <1>4 DEF After

LEMMA BeginAfter ==
    ASSUME LogTyped, NEW r \in Runs, Begin(r), NEW a \in Runs, NEW b, After(a, b)
    PROVE  After(a, b)'
<1>1. log' = log /\ clock' = clock + 1 /\ begun' = [begun EXCEPT ![r] = clock + 1]
  BY DEF Begin
<1>2. /\ clock \in Nat /\ begun \in [Runs -> 0 .. clock]
      /\ \A j \in DOMAIN log : log[j].at <= clock /\ log[j].at \in Nat
  BY RowFacts DEF LogTyped, Timed, Row
<1>3. WillAnnounce(b)' <=> WillAnnounce(b)
  BY <1>1 DEF WillAnnounce, SaidBy
<1>4. ASSUME NEW j \in DOMAIN log, begun'[a] # 0, begun[a] # 0 => log[j].at < begun[a]
      PROVE  log[j].at < begun'[a]
  <2>1. CASE a = r
    <3>1. begun'[a] = clock + 1
      BY <1>1, <1>2, <2>1
    <3>2. QED
      BY <1>2, <3>1
  <2>2. CASE a # r
    BY <1>1, <1>2, <1>4, <2>2
  <2>3. QED
    BY <2>1, <2>2
<1>5. QED
  BY <1>1, <1>3, <1>4 DEF After, Earlier

LEMMA AfterStays ==
    ASSUME log' = log, begun' = begun, NEW a, NEW b, After(a, b)
    PROVE  After(a, b)'
BY DEF After, WillAnnounce, SaidBy

LEMMA EmitReplay ==
    ASSUME ScriptsAnnounce, Inv, AnnouncedInv, TurnInv, EmitNext
    PROVE  AnnouncedInv' /\ TurnInv'
<1>1. PICK r \in Runs : EmitStep(r) /\ UNCHANGED clientVars
  BY DEF EmitNext
<1>2. sending' = sending /\ LogTyped /\ sending \in started \cup {NoRun} /\ started \subseteq Runs
  BY <1>1 DEF clientVars, Inv, Types, StoreTyped, LogTyped
<1>3. started' = started
  BY <1>1, <1>2, EmitGrows
<1>4. AnnouncedInv'
  <2>1. CASE Insert(r)
    BY <1>2, <2>1, InsertAnnounced
  <2>2. CASE Begin(r)
    <3>1. log' = log /\ r \in started /\ begun' = [begun EXCEPT ![r] = clock']
      BY <2>2 DEF Begin
    <3>2. \A q \in Runs : begun'[q] # 0 => q \in started
      BY <1>2, <3>1 DEF AnnouncedInv, LogTyped, Timed
    <3>3. QED
      BY <1>3, <3>1, <3>2 DEF AnnouncedInv, Announced, Earlier
  <2>3. CASE Commit(r) \/ Publish(r) \/ LosePublication(r)
    <3>1. log' = log /\ begun' = begun
      BY <2>3 DEF Commit, Publish, LosePublication
    <3>2. QED
      BY <1>3, <3>1 DEF AnnouncedInv, Announced, Earlier
  <2>4. QED
    BY <1>1, <2>1, <2>2, <2>3 DEF EmitStep
<1>5. ASSUME NEW a \in Runs, NEW b \in Runs, a # b, After(a, b) PROVE After(a, b)'
  <2>1. CASE Insert(r)
    BY <1>2, <1>5, <2>1, InsertAfter
  <2>2. CASE Begin(r)
    BY <1>2, <1>5, <2>2, BeginAfter
  <2>3. CASE Commit(r) \/ Publish(r) \/ LosePublication(r)
    <3>1. log' = log /\ begun' = begun
      BY <2>3 DEF Commit, Publish, LosePublication
    <3>2. QED
      BY <1>5, <3>1, AfterStays
  <2>4. QED
    BY <1>1, <2>1, <2>2, <2>3 DEF EmitStep
<1>6. TurnInv'
  BY <1>2, <1>3, <1>5 DEF TurnInv
<1>7. QED
  BY <1>4, <1>6

\* the steps that leave the log alone
LEMMA LogStays ==
    ASSUME AnnouncedInv, TurnInv, log' = log, begun' = begun, started' = started,
           sending' \in {sending, NoRun}
    PROVE  AnnouncedInv' /\ TurnInv'
<1>1. AnnouncedInv'
  BY DEF AnnouncedInv, Announced, Earlier
<1>2. \A a, b : After(a, b) => After(a, b)'
  BY AfterStays
<1>3. TurnInv'
  BY <1>2 DEF TurnInv
<1>4. QED
  BY <1>1, <1>3

LEMMA SendReplay ==
    ASSUME ~LateStart, Inv, AnnouncedInv, TurnInv, NEW r \in Runs, Send(r)
    PROVE  AnnouncedInv' /\ TurnInv'
<1>1. /\ r \notin started /\ \A q \in started : ~WillAnnounce(q)
      /\ started' = started \cup {r} /\ sending' = r /\ log' = log /\ begun' = begun
  BY DEF Send, logVars
<1>2. AnnouncedInv'
  BY <1>1 DEF AnnouncedInv, Announced, Earlier
<1>3. \A a, b : After(a, b) => After(a, b)'
  BY <1>1, AfterStays
<1>4. (\A i \in DOMAIN log : log[i].run # r) /\ begun[r] = 0
  BY <1>1 DEF AnnouncedInv
<1>5. \A q \in started : After(r, q)
  BY <1>1, <1>4 DEF After
<1>6. TurnInv'
  BY <1>1, <1>3, <1>5 DEF TurnInv
<1>7. QED
  BY <1>2, <1>6

-----------------------------------------------------------------------------
(* The plan of the page, step by step *)

LEMMA PlanKnown ==
    ASSUME Inv
    PROVE  /\ Visible \in SUBSET Nat /\ Visible \subseteq DOMAIN log
           /\ \A i \in Visible : log[i] \in Row
           /\ plan \in Plans /\ answered \in SUBSET Runs
           /\ handled \in Seq(Visible) /\ ToSet(handled) \subseteq Visible
           /\ DOMAIN log \in SUBSET (Nat \ {0})
<1>1. LogTyped /\ PageTyped /\ StoreTyped
  BY DEF Inv, Types
<1>2. Len(log) \in Nat /\ Visible \subseteq 1 .. Len(log) /\ Visible \subseteq Nat
  BY <1>1, TypesGive
<1>3. Visible \subseteq DOMAIN log /\ \A i \in Visible : log[i] \in Row
  BY <1>1, <1>2, RowFacts
<1>4. plan \in Plans
  BY <1>1, <1>2 DEF StoreTyped, Plans
<1>5. answered \in SUBSET Runs
  BY <1>1 DEF StoreTyped, LogTyped
<1>6. handled \in Seq(Visible)
  BY <1>1 DEF PageTyped
<1>7. ToSet(handled) \subseteq Visible
  BY <1>6, ToSetFinite
<1>8. DOMAIN log \in SUBSET (Nat \ {0})
  <2>1. PICK l \in Nat : l = Len(log) /\ DOMAIN log = 1 .. l
    BY <1>1, RowFacts
  <2>2. QED
    BY <2>1
<1>9. QED
  BY <1>2, <1>3, <1>4, <1>5, <1>6, <1>7, <1>8

\* a history without a gap, taken in the order of creation
LEMMA SortedRespects ==
    ASSUME NEW lg, NEW N \in Nat, DOMAIN lg \in SUBSET (Nat \ {0}),
           \A i \in DOMAIN lg : lg[i] \in Row,
           NEW S \in SUBSET DOMAIN lg, NEW rows \in Seq(S), ToSet(rows) = 1 .. N,
           Sorted(lg, rows),
           NEW n \in DOMAIN rows, NEW f \in DOMAIN lg, Earlier(lg, f, rows[n]),
           \A m \in 1 .. n - 1 : rows[m] # f
    PROVE  FALSE
<1>1. PICK c \in Nat : c = Len(rows) /\ DOMAIN rows = 1 .. c
  BY LenProperties
<1>2. rows[n] \in 1 .. N /\ rows[n] \in DOMAIN lg
  BY <1>1, InToSet, ElementOfSeq
<1>3. f \in 1 .. N
  BY <1>2 DEF Earlier
<1>4. PICK m \in 1 .. c : rows[m] = f
  BY <1>1, <1>3, InToSet
<1>5. lg[f].at < lg[rows[n]].at /\ lg[f].at \in Nat /\ lg[rows[n]].at \in Nat
  BY <1>2 DEF Earlier, Row
<1>6. m # n
  BY <1>4, <1>5
<1>7. ~(n < m)
  <2>1. n < m => lg[rows[n]].at < lg[rows[m]].at
    BY <1>1, <1>4 DEF Sorted
  <2>2. QED
    BY <1>4, <1>5, <2>1
<1>8. m \in 1 .. n - 1
  BY <1>1, <1>6, <1>7
<1>9. QED
  BY <1>4, <1>8

\* a page without a gap respects both orders: its history is sorted, what follows
\* ascends
LEMMA WholeRespects ==
    ASSUME Inv
    PROVE  WholeOrder
<1> SUFFICES ASSUME Whole PROVE Respects(log, handled) /\ Distinct(handled)
  BY DEF WholeOrder
<1>1. /\ DOMAIN log \in SUBSET (Nat \ {0}) /\ Visible \in SUBSET DOMAIN log
      /\ handled \in Seq(Visible) /\ ToSet(handled) \subseteq Visible
  BY PlanKnown
<1>2. LogTyped /\ \A i \in DOMAIN log : log[i] \in Row
  BY RowFacts DEF Inv, Types
<1>3. PICK c \in Nat : c = Len(handled) /\ DOMAIN handled = 1 .. c
  BY <1>1, LenProperties
<1>4. boot.rows \in Seq(Visible) /\ applied \in Nat /\ boot.pc \in {"reading", "replaying", "ready"}
  <2>1. PageTyped /\ Len(log) \in Nat
    BY <1>2, RowFacts DEF Inv, Types
  <2>2. QED
    BY <2>1 DEF PageTyped
<1>5. PICK h \in Nat : h = Len(boot.rows) /\ DOMAIN boot.rows = 1 .. h
  BY <1>4, LenProperties
<1>6. HandledInv
  BY DEF Inv, OrderInv
<1>7. Distinct(handled)
  BY <1>6 DEF HandledInv, Ordered, Distinct
<1>8. ASSUME NEW n \in DOMAIN handled, NEW f \in DOMAIN log, Earlier(log, f, handled[n])
      PROVE  \E m \in 1 .. n - 1 : handled[m] = f
  <2>1. handled[n] \in DOMAIN log /\ handled[n] \in Nat /\ f \in Nat \ {0} /\ f < handled[n]
    BY <1>1, <1>3, <1>8, ElementOfSeq DEF Earlier
  <2>2. CASE boot.pc = "reading"
    <3>1. handled = <<>>
      BY <2>2 DEF Inv, OrderInv, ReadingInv
    <3>2. QED
      BY <3>1, EmptyFacts
  <2>3. CASE boot.pc = "replaying"
    <3>1. /\ ToSet(boot.rows) = 1 .. Top(boot.rows) /\ Sorted(log, boot.rows) /\ c <= h
          /\ \A k \in 1 .. c : k <= h => handled[k] = boot.rows[k]
      BY <1>3, <1>5, <1>6, <2>3 DEF Whole, HandledInv
    <3>2. Top(boot.rows) \in Nat
      <4>1. Top(boot.rows) \in 0 .. Len(log) /\ Len(log) \in Nat
        BY <1>2, <1>4, TopFacts, RowFacts
      <4>2. QED
        BY <4>1
    <3>3. \A k \in 1 .. c : k \in 1 .. h /\ handled[k] = boot.rows[k]
      BY <1>3, <1>5, <3>1
    <3>4. n \in DOMAIN boot.rows /\ Earlier(log, f, boot.rows[n])
      BY <1>3, <1>5, <1>8, <3>3
    <3>5. PICK m \in 1 .. n - 1 : boot.rows[m] = f
      <4>1. SUFFICES ASSUME \A m \in 1 .. n - 1 : boot.rows[m] # f PROVE FALSE
        OBVIOUS
      <4>2. boot.rows \in Seq(Visible) /\ ToSet(boot.rows) = 1 .. Top(boot.rows)
            /\ Sorted(log, boot.rows)
        BY <1>4, <3>1
      <4>3. QED
        BY <1>1, <1>2, <3>2, <3>4, <4>1, <4>2, SortedRespects
    <3>6. m \in 1 .. c
      BY <1>3
    <3>7. QED
      BY <3>3, <3>5, <3>6
  <2>4. CASE boot.pc = "ready"
    <3>1. /\ ToSet(handled) = 1 .. applied /\ Sorted(log, boot.rows) /\ h <= c
          /\ \A k \in 1 .. c : k <= h => handled[k] = boot.rows[k]
          /\ \A j, k \in 1 .. c : j < k /\ k > h => handled[j] < handled[k]
      BY <1>3, <1>5, <1>6, <2>4 DEF Whole, HandledInv, Ordered
    <3>2. handled[n] \in 1 .. applied
      <4>1. handled[n] \in ToSet(handled)
        BY <1>8, InToSet
      <4>2. QED
        BY <3>1, <4>1
    <3>3. f \in 1 .. applied
      BY <1>4, <2>1, <3>2
    <3>4. PICK m \in 1 .. c : handled[m] = f
      <4>1. f \in ToSet(handled)
        BY <3>1, <3>3
      <4>2. QED
        BY <1>3, <4>1, InToSet
    <3>5. n \in 1 .. c /\ m # n
      BY <1>3, <2>1, <3>4
    <3>6. CASE n > h
      <4>1. ~(n < m)
        <5>1. n < m => handled[n] < handled[m]
          BY <1>3, <1>5, <3>1, <3>5, <3>6
        <5>2. QED
          BY <2>1, <3>4, <5>1
      <4>2. m \in 1 .. n - 1
        BY <1>3, <3>5, <4>1
      <4>3. QED
        BY <3>4, <4>2
    <3>7. CASE ~(n > h)
      <4>1. ~(m > h)
        <5>1. n < m /\ m > h => handled[n] < handled[m]
          BY <3>1, <3>5
        <5>2. m > h => n < m
          BY <1>3, <1>5, <3>5, <3>7
        <5>3. QED
          BY <2>1, <3>4, <5>1, <5>2
      <4>2. /\ handled[n] = boot.rows[n] /\ handled[m] = boot.rows[m]
            /\ n \in 1 .. h /\ m \in 1 .. h
        BY <1>3, <1>5, <3>1, <3>5, <3>7, <4>1
      <4>3. /\ log[f].at < log[handled[n]].at /\ log[f].at \in Nat /\ log[handled[n]].at \in Nat
        BY <1>2, <1>8, <2>1 DEF Earlier, Row
      <4>4. n < m => log[handled[n]].at < log[f].at
        BY <1>5, <3>1, <3>4, <4>2 DEF Sorted
      <4>5. m \in 1 .. n - 1
        BY <1>3, <3>5, <4>3, <4>4
      <4>6. QED
        BY <3>4, <4>5
    <3>8. QED
      BY <3>6, <3>7
  <2>5. QED
    BY <1>4, <2>2, <2>3, <2>4
<1>9. QED
  BY <1>7, <1>8 DEF Respects

\* the handlers got the events t
LEMMA PlanGrows ==
    ASSUME Inv, WholeOrder', AnnouncedInv, NEW t \in Seq(Visible),
           handled' = handled \o t, plan' = ApplyAll(plan, t),
           answered' = answered, log' = log,
           Fits(log, plan, handled, answered), Whole'
    PROVE  Fits(log', plan', handled', answered')
<1>1. Respects(log, handled \o t)
  <2>1. Respects(log', handled')
    BY DEF WholeOrder
  <2>2. QED
    BY <2>1
<1>2. /\ Visible \in SUBSET Nat /\ Visible \subseteq DOMAIN log
      /\ \A i \in Visible : log[i] \in Row
      /\ plan \in Plans /\ answered \in SUBSET Runs /\ handled \in Seq(Visible)
  BY PlanKnown
<1>3. Fits(log, Folded(log, plan, t), handled \o t, answered)
  BY <1>1, <1>2, FitsMore DEF AnnouncedInv
<1>4. plan' = Folded(log, plan, t)
  BY FoldShape
<1>5. QED
  BY <1>3, <1>4

\* a page without gaps had none before it handled some events
LEMMA WholeBefore ==
    ASSUME Inv, boot.pc = "ready", boot' = boot,
           NEW ids \in Seq(Visible), Asc(ids), Handle(ids), Whole'
    PROVE  Whole
<1> DEFINE new == New(ids)
<1>1. /\ handled' = handled \o new
      /\ applied' = IF new = <<>> THEN applied ELSE Last(new)
  BY HandleNew
<1>2. Visible \in SUBSET Nat /\ handled \in Seq(Visible) /\ applied \in Nat
  <2>1. PageTyped /\ Len(log) \in Nat
    BY RowFacts DEF Inv, Types
  <2>2. QED
    BY <2>1, PlanKnown DEF PageTyped
<1>3. new \in Seq(Visible) /\ ToSet(new) = {i \in ToSet(ids) : i > applied}
  BY <1>2, NewFacts
<1>4. ToSet(handled) \cup ToSet(new) = 1 .. applied'
  <2>1. ToSet(handled') = 1 .. applied'
    BY DEF Whole
  <2>2. ToSet(handled \o new) = ToSet(handled) \cup ToSet(new)
    BY <1>2, <1>3, ToSetConcat
  <2>3. QED
    BY <1>1, <2>1, <2>2
<1>5. \A i \in ToSet(handled) : i <= applied
  BY DEF Inv, OrderInv, HandledInv
<1>6. applied <= applied' /\ applied' \in Nat
  <2>1. CASE new = <<>>
    BY <1>1, <1>2, <2>1
  <2>2. CASE new # <<>>
    <3>1. Last(new) \in ToSet(new)
      <4>1. Len(new) \in 1 .. Len(new) /\ DOMAIN new = 1 .. Len(new)
        BY <1>3, <2>2, LenProperties, EmptySeq
      <4>2. QED
        BY <4>1, InToSet DEF Last
    <3>2. Last(new) > applied /\ Last(new) \in Visible
      BY <1>3, <3>1, ToSetFinite
    <3>3. QED
      BY <1>1, <1>2, <2>2, <3>2
  <2>3. QED
    BY <2>1, <2>2
<1> HIDE DEF new
<1>7. ToSet(handled) = 1 .. applied
  <2>1. ASSUME NEW i \in ToSet(handled) PROVE i \in 1 .. applied
    BY <1>2, <1>4, <1>5, <1>6
  <2>2. ASSUME NEW i \in 1 .. applied PROVE i \in ToSet(handled)
    <3>1. i \in 1 .. applied' /\ ~(i > applied)
      BY <1>2, <1>6
    <3>2. QED
      BY <1>3, <1>4, <3>1
  <2>3. QED
    BY <2>1, <2>2
<1>8. QED
  BY <1>7 DEF Whole

\* the steps that leave the plan and the handled events alone
LEMMA PlanStays ==
    ASSUME Inv, PlanInv, UNCHANGED <<plan, handled, answered>>, Whole' => Whole,
           \A i \in Visible : log'[i] = log[i]
    PROVE  PlanInv'
<1>1. handled \in Seq(Visible) /\ \A i \in ToSet(handled) : i \in Visible
  BY PlanKnown
<1>2. Heard(log', handled) = Heard(log, handled)
  BY <1>1 DEF Heard
<1>3. Folded(log', NoPlan, handled) = Folded(log, NoPlan, handled)
  BY <1>1, FoldSame
<1>4. QED
  BY <1>2, <1>3 DEF PlanInv, Fits

\* a page that reads its history has handled nothing, and shows nothing that the
\* answer to a message did not put there
LEMMA PlanReads ==
    ASSUME Inv, PlanInv, UNCHANGED <<plan, handled, answered>>, boot.pc = "reading",
           log' = log
    PROVE  PlanInv'
<1>1. Whole
  BY DEF Whole
<1>2. QED
  BY <1>1, PlanStays

LEMMA EmitPlan ==
    ASSUME Inv, PlanInv, EmitNext
    PROVE  PlanInv'
<1>1. PICK r \in Runs : EmitStep(r) /\ UNCHANGED clientVars
  BY DEF EmitNext
<1>2. UNCHANGED <<plan, handled, applied, boot, answered>>
  BY <1>1 DEF clientVars, viewVars
<1>3. LogGrows /\ LogTyped
  BY <1>1, EmitGrows DEF Inv, Types
<1>4. \A i \in Visible : log'[i] = log[i]
  BY <1>3, TypesGive DEF LogGrows
<1>5. Whole' => Whole
  BY <1>2 DEF Whole, Top
<1>6. QED
  BY <1>2, <1>4, <1>5, PlanStays

LEMMA HandlePlan ==
    ASSUME Inv, WholeOrder', AnnouncedInv, PlanInv, NEW ids \in Seq(Visible), Asc(ids), Handle(ids),
           boot.pc = "ready", boot' = boot, answered' = answered, log' = log
    PROVE  PlanInv'
<1>1. SUFFICES ASSUME Whole' PROVE Fits(log', plan', handled', answered')
  BY DEF PlanInv
<1>2. Fits(log, plan, handled, answered)
  BY <1>1, WholeBefore DEF PlanInv
<1>3. New(ids) \in Seq(Visible)
  <2>1. Visible \in SUBSET Nat /\ applied \in Nat
    <3>1. PageTyped /\ Len(log) \in Nat
      BY RowFacts DEF Inv, Types
    <3>2. QED
      BY <3>1, PlanKnown DEF PageTyped
  <2>2. QED
    BY <2>1, NewFacts
<1>4. handled' = handled \o New(ids) /\ plan' = ApplyAll(plan, New(ids))
  BY HandleNew
<1>5. QED
  BY <1>1, <1>2, <1>3, <1>4, PlanGrows

LEMMA ReplayChunkPlan ==
    ASSUME Inv, WholeOrder', AnnouncedInv, PlanInv, ReplayChunk
    PROVE  PlanInv'
<1>1. /\ boot.pc = "replaying" /\ boot' = boot /\ log' = log /\ answered' = answered
  BY DEF ReplayChunk, streamVars, logVars
<1>2. PICK k \in 1 .. ChunkSize :
        /\ k <= Len(Unplayed)
        /\ plan' = ApplyAll(plan, SubSeq(Unplayed, 1, k))
        /\ handled' = handled \o SubSeq(Unplayed, 1, k)
  BY DEF ReplayChunk
<1>3. k \in Nat
  BY ClientAssumption
<1>4. SubSeq(Unplayed, 1, k) \in Seq(Visible)
  BY <1>1, <1>2, <1>3, ChunkIs
<1>5. SUFFICES ASSUME Whole' PROVE Fits(log', plan', handled', answered')
  BY DEF PlanInv
<1>6. Whole
  BY <1>1, <1>5 DEF Whole, Top
<1>7. Fits(log, plan, handled, answered)
  BY <1>6 DEF PlanInv
<1>8. QED
  BY <1>1, <1>2, <1>4, <1>5, <1>7, PlanGrows

LEMMA GoLivePlan ==
    ASSUME Inv, WholeOrder', AnnouncedInv, PlanInv, GoLive
    PROVE  PlanInv'
<1>1. /\ boot.pc = "replaying" /\ log' = log /\ answered' = answered
  BY DEF GoLive, logVars
<1>2. /\ Unplayed \in Seq(Visible) /\ handled' = handled \o Unplayed
      /\ handled' = boot.rows /\ plan' = ApplyAll(plan, Unplayed)
      /\ applied' = Top(boot.rows) /\ boot' = [pc |-> "ready", rows |-> boot.rows]
  BY GoLiveGives
<1>3. SUFFICES ASSUME Whole' PROVE Fits(log', plan', handled', answered')
  BY DEF PlanInv
<1>4. Whole
  <2>1. boot'.pc = "ready"
    BY <1>2
  <2>2. ToSet(handled') = 1 .. applied'
    BY <1>3, <2>1 DEF Whole
  <2>3. QED
    BY <1>1, <1>2, <2>2 DEF Whole
<1>5. Fits(log, plan, handled, answered)
  BY <1>4 DEF PlanInv
<1>6. QED
  BY <1>1, <1>2, <1>3, <1>5, PlanGrows

LEMMA MountPlan ==
    ASSUME Mount
    PROVE  PlanInv'
<1>1. handled' = <<>> /\ plan' = NoPlan
  BY DEF Mount
<1>2. Folded(log', NoPlan, <<>>) = NoPlan
  BY FoldEmpty
<1>3. QED
  BY <1>1, <1>2 DEF PlanInv, Fits, NoPlan

LEMMA AnswerPlan ==
    ASSUME Inv, AnnouncedInv, TurnInv, PlanInv, Answer
    PROVE  PlanInv'
<1>1. /\ sending # NoRun /\ plan' = OnRunStarted(plan, sending)
      /\ answered' = answered \cup {sending}
      /\ handled' = handled /\ applied' = applied /\ log' = log /\ boot' = boot
  BY DEF Answer, streamVars, logVars
<1>2. SUFFICES ASSUME Whole
               PROVE  Fits(log, OnRunStarted(plan, sending), handled, answered \cup {sending})
  BY <1>1 DEF PlanInv, Whole, Top
<1>3. /\ Visible \in SUBSET Nat /\ Visible \subseteq DOMAIN log /\ plan \in Plans
      /\ handled \in Seq(Visible)
  BY PlanKnown
<1>4. Respects(log, handled) /\ Distinct(handled)
  BY <1>2, WholeRespects DEF WholeOrder
<1>5. ASSUME NEW b, b # sending PROVE Over(log, sending, b)
  <2>1. CASE b \in started
    <3>1. After(sending, b)
      BY <1>1, <1>5, <2>1 DEF TurnInv
    <3>2. QED
      BY <3>1 DEF After, Over
  <2>2. CASE b \notin started
    BY <2>2 DEF AnnouncedInv, Over
  <2>3. QED
    BY <2>1, <2>2
<1>6. Fits(log, plan, handled, answered) /\ Announced(log)
  BY <1>2 DEF PlanInv, AnnouncedInv
<1>7. QED
  BY <1>1, <1>3, <1>4, <1>5, <1>6, FitsAnswer

-----------------------------------------------------------------------------
LEMMA InitReplay == Init => ReplayInv
<1> SUFFICES ASSUME Init PROVE ReplayInv
  OBVIOUS
<1>1. /\ DOMAIN log = {} /\ handled = <<>> /\ plan = NoPlan /\ sending = NoRun /\ started = {}
      /\ \A r \in Runs : begun[r] = 0
  BY DEF Init
<1>2. Folded(log, NoPlan, <<>>) = NoPlan
  BY FoldEmpty
<1>3. PlanInv
  BY <1>1, <1>2 DEF PlanInv, Fits, NoPlan
<1>4. AnnouncedInv /\ TurnInv
  BY <1>1 DEF AnnouncedInv, Announced, TurnInv
<1>5. QED
  BY <1>3, <1>4 DEF ReplayInv

LEMMA NextReplay ==
    ASSUME ~LateStart, ScriptsAnnounce, Inv, WholeOrder', ReplayInv, [Next]_vars
    PROVE  ReplayInv'
<1>1. AnnouncedInv /\ TurnInv /\ PlanInv
  BY DEF ReplayInv
<1>2. CASE EmitNext
  BY <1>1, <1>2, EmitReplay, EmitPlan DEF ReplayInv
<1>3. ASSUME log' = log, begun' = begun, started' = started, sending' \in {sending, NoRun},
             PlanInv'
      PROVE  ReplayInv'
  BY <1>1, <1>3, LogStays DEF ReplayInv
<1>4. ASSUME UNCHANGED <<log, handled, boot, applied>> PROVE Whole' => Whole
  BY <1>4 DEF Whole, Top
<1>5. CASE ServerNext \/ Reconnect \/ Poll \/ AnswerLost \/ UNCHANGED vars
  <2>1. /\ UNCHANGED <<plan, handled, boot, applied, answered, log, begun, started>>
        /\ sending' \in {sending, NoRun}
    BY <1>5 DEF ServerNext, ServerStep, CatchUp, Subscribe, Follow, Reconnect, Poll,
                AnswerLost, Fault, vars, streamVars, clientVars, viewVars, logVars
  <2>2. PlanInv'
    BY <1>1, <1>4, <2>1, PlanStays
  <2>3. QED
    BY <1>3, <2>1, <2>2
<1>6. CASE Mount
  <2>1. log' = log /\ begun' = begun /\ started' = started /\ sending' = sending
    BY <1>6 DEF Mount, logVars
  <2>2. QED
    BY <1>3, <1>6, <2>1, MountPlan
<1>7. CASE BootPage \/ BootFails
  <2>1. /\ UNCHANGED <<plan, handled, answered, log, begun, started, sending>>
        /\ boot.pc = "reading"
    BY <1>7 DEF BootPage, BootFails, streamVars, viewVars, logVars
  <2>2. PlanInv'
    BY <1>1, <2>1, PlanReads
  <2>3. QED
    BY <1>3, <2>1, <2>2
<1>8. CASE ReplayChunk
  <2>1. log' = log /\ begun' = begun /\ started' = started /\ sending' = sending
    BY <1>8 DEF ReplayChunk, streamVars, logVars
  <2>2. QED
    BY <1>1, <1>3, <1>8, <2>1, ReplayChunkPlan
<1>9. CASE GoLive
  <2>1. log' = log /\ begun' = begun /\ started' = started /\ sending' = sending
    BY <1>9 DEF GoLive, logVars
  <2>2. QED
    BY <1>1, <1>3, <1>9, <2>1, GoLivePlan
<1>10. CASE Receive
  <2>1. /\ UNCHANGED <<started, log, begun, boot, sending, answered>>
        /\ boot.pc = "ready" /\ wire # <<>> /\ Handle(<<Head(wire)>>)
    BY <1>10 DEF Receive, logVars
  <2>2. Head(wire) \in Visible
    <3>1. wire \in Seq(Visible)
      BY DEF Inv, Types, ConnTyped
    <3>2. QED
      BY <2>1, <3>1, HeadTailProperties
  <2>3. ASSUME NEW S, NEW x \in S PROVE <<x>> \in Seq(S) /\ Asc(<<x>>)
    BY DEF Asc
  <2>4. <<Head(wire)>> \in Seq(Visible) /\ Asc(<<Head(wire)>>)
    BY <2>2, <2>3
  <2>5. PlanInv'
    BY <1>1, <2>1, <2>4, HandlePlan
  <2>6. QED
    BY <1>3, <2>1, <2>5
<1>11. ASSUME NEW p \in polls, PollAnswer(p) PROVE ReplayInv'
  <2>1. UNCHANGED <<started, log, begun, boot, sending, answered>>
    BY <1>11 DEF PollAnswer, streamVars, logVars
  <2>2. CASE p.visit = generation
    <3>1. Handle(p.rows) /\ p.rows \in Seq(Visible) /\ Asc(p.rows)
      BY <1>11, <2>2 DEF PollAnswer, Inv, Types, PageTyped, OrderInv, PollsInv
    <3>2. boot.pc = "ready"
      <4>1. ~(p.visit < generation)
        BY <2>2 DEF Inv, Types, PageTyped
      <4>2. QED
        BY <1>11, <4>1 DEF Inv, OrderInv, ReadingInv
    <3>3. PlanInv'
      BY <1>1, <2>1, <3>1, <3>2, HandlePlan
    <3>4. QED
      BY <1>3, <2>1, <3>3
  <2>3. CASE p.visit # generation
    <3>1. UNCHANGED <<plan, handled, applied, boot, log>>
      BY <1>11, <2>1, <2>3 DEF PollAnswer, viewVars
    <3>2. PlanInv'
      BY <1>1, <1>4, <2>1, <3>1, PlanStays
    <3>3. QED
      BY <1>3, <2>1, <3>2
  <2>4. QED
    BY <2>2, <2>3
<1>12. ASSUME NEW p \in polls, PollFails(p) PROVE ReplayInv'
  <2>1. UNCHANGED <<plan, handled, boot, applied, answered, log, begun, started, sending>>
    BY <1>12 DEF PollFails, logVars, viewVars
  <2>2. PlanInv'
    BY <1>1, <1>4, <2>1, PlanStays
  <2>3. QED
    BY <1>3, <2>1, <2>2
<1>13. ASSUME NEW r \in Runs, Send(r) PROVE ReplayInv'
  <2>1. UNCHANGED <<plan, handled, boot, applied, answered, log>>
    BY <1>13 DEF Send, logVars, viewVars
  <2>2. PlanInv'
    BY <1>1, <1>4, <2>1, PlanStays
  <2>3. QED
    BY <1>1, <1>13, <2>2, SendReplay DEF ReplayInv
<1>14. CASE Answer
  <2>1. log' = log /\ begun' = begun /\ started' = started /\ sending' = NoRun
    BY <1>14 DEF Answer, streamVars, logVars
  <2>2. QED
    BY <1>1, <1>3, <1>14, <2>1, AnswerPlan
<1>15. QED
  BY <1>2, <1>5, <1>6, <1>7, <1>8, <1>9, <1>10, <1>11, <1>12, <1>13, <1>14 DEF Next

\* the order in which a reload replays the events is an order of the same events
LEMMA ReloadFaithful ==
    ASSUME Inv, AnnouncedInv, NEW N \in Nat \ {0}, 1 .. N \subseteq DOMAIN log
    PROVE  History(log, N) /\ Faithful(log, N, ByCreation(1 .. N))
<1> DEFINE ids == ByCreation(1 .. N)
<1>1. LogTyped /\ DOMAIN log \in SUBSET (Nat \ {0}) /\ \A i \in DOMAIN log : log[i] \in Row
  BY PlanKnown, RowFacts DEF Inv, Types
<1>2. History(log, N)
  BY <1>1 DEF History, RunOrder, AnnouncedInv, LogTyped, Timed
<1>3. ids \in Seq(1 .. N) /\ ToSet(ids) = 1 .. N /\ Sorted(log, ids)
  BY <1>1, CreationFacts
<1> HIDE DEF ids
<1>4. PICK c \in Nat : c = Len(ids) /\ DOMAIN ids = 1 .. c
  BY <1>3, LenProperties
<1>5. \A n \in 1 .. c : ids[n] \in DOMAIN log /\ log[ids[n]].at \in Nat
  <2>1. TAKE n \in 1 .. c
  <2>2. ids[n] \in 1 .. N
    BY <1>3, <1>4, ElementOfSeq
  <2>3. QED
    BY <1>1, <2>2 DEF Row
<1>6. Distinct(ids)
  <2>1. SUFFICES ASSUME NEW m \in 1 .. c, NEW n \in 1 .. c, m < n PROVE ids[m] # ids[n]
    BY <1>4 DEF Distinct
  <2>2. log[ids[m]].at < log[ids[n]].at
    BY <1>3, <1>4, <2>1 DEF Sorted
  <2>3. QED
    BY <1>5, <2>2
<1>7. ASSUME NEW n \in DOMAIN ids, NEW f \in DOMAIN log, Earlier(log, f, ids[n])
      PROVE  \E m \in 1 .. n - 1 : ids[m] = f
  <2>1. SUFFICES ASSUME \A m \in 1 .. n - 1 : ids[m] # f PROVE FALSE
    OBVIOUS
  <2>2. N \in Nat
    OBVIOUS
  <2>3. QED
    BY <1>1, <1>3, <1>7, <2>1, <2>2, SortedRespects
<1>8. Respects(log, ids)
  BY <1>7 DEF Respects
<1>9. QED
  BY <1>2, <1>3, <1>6, <1>8 DEF Faithful, ids

(* A page that missed no event and heard of every run whose answer it got      *)
(* shows the plan that a reload would show, although a reload replays by       *)
(* created_at what the page got in the order of the numbers, and the answer to *)
(* a message may come before or after the events of its run: it drops the plan *)
(* of an earlier run only (plan.ts onRunStarted, onPlanUpdate; Composer.tsx    *)
(* send; timeline.ts mergeUserMessagesAndEvents).  The runs announce           *)
(* themselves before anything else, and an interrupted run does not announce   *)
(* itself after the next message was sent.                                     *)
THEOREM PlanReplayed ==
    ASSUME ~LateStart, ScriptsAnnounce
    PROVE  Spec => []PlanIsReplayed
<1>1. Init => ReplayInv
  BY InitReplay
<1>2. Inv => WholeOrder
  BY WholeRespects
<1>3. Inv /\ WholeOrder' /\ ReplayInv /\ [Next]_vars => ReplayInv'
  BY NextReplay
<1>4. Inv /\ WholeOrder /\ ReplayInv => PlanIsReplayed
  <2> SUFFICES ASSUME Inv, WholeOrder, ReplayInv, boot.pc = "ready", ToSet(handled) = 1 .. applied,
                      \A r \in answered : \E i \in ToSet(handled) : log[i].run = r
               PROVE  plan = ApplyAll(NoPlan, ByCreation(1 .. applied))
    BY DEF PlanIsReplayed
  <2>1. Whole /\ AnnouncedInv /\ TurnInv
    BY DEF Whole, ReplayInv
  <2>2. Respects(log, handled) /\ Distinct(handled)
    BY <2>1 DEF WholeOrder
  <2>3. answered \subseteq Heard(log, handled)
    BY DEF Heard
  <2>4. plan = Folded(log, NoPlan, handled)
    BY <2>1, <2>3 DEF ReplayInv, PlanInv, Fits
  <2>5. /\ applied \in Nat /\ 1 .. applied \subseteq DOMAIN log /\ handled \in Seq(Visible)
        /\ LogTyped
    <3>1. applied \in 0 .. Len(log) /\ Len(log) \in Nat /\ DOMAIN log = 1 .. Len(log)
      BY RowFacts DEF Inv, Types, PageTyped
    <3>2. QED
      BY <3>1, PlanKnown DEF Inv, Types
  <2>6. PICK c \in Nat : c = Len(handled) /\ DOMAIN handled = 1 .. c
    BY <2>5, LenProperties
  <2>7. CASE applied = 0
    <3>1. \A S : \A s \in Seq(S) : ToSet(s) = {} => s = <<>>
      <4>1. TAKE S
      <4>2. TAKE s \in Seq(S)
      <4>3. SUFFICES ASSUME s # <<>> PROVE ToSet(s) # {}
        OBVIOUS
      <4>4. Len(s) \in 1 .. Len(s) /\ DOMAIN s = 1 .. Len(s)
        BY <4>3, LenProperties, EmptySeq
      <4>5. QED
        BY <4>4, InToSet
    <3>2. 1 .. applied = {}
      BY <2>7
    <3>3. handled = <<>>
      BY <2>5, <3>1, <3>2
    <3>4. ByCreation({}) = <<>>
      <4>1. ByCreation({}) \in Seq({}) /\ ToSet(ByCreation({})) = {}
        BY <2>5, CreationFacts
      <4>2. QED
        BY <3>1, <4>1
    <3>5. QED
      BY <2>4, <3>2, <3>3, <3>4, FoldShape
  <2>8. CASE applied # 0
    <3>1. applied \in Nat \ {0}
      BY <2>5, <2>8
    <3>2. History(log, applied) /\ Faithful(log, applied, ByCreation(1 .. applied))
      BY <2>1, <2>5, <3>1, ReloadFaithful
    <3>3. handled \in Seq(1 .. applied)
      <4>1. \A k \in 1 .. c : handled[k] \in 1 .. applied
        BY <2>6, InToSet
      <4>2. handled = [k \in 1 .. c |-> handled[k]]
        BY <2>5, <2>6
      <4>3. handled \in [1 .. c -> 1 .. applied]
        BY <4>1, <4>2
      <4>4. \A S : [1 .. c -> S] \subseteq Seq(S)
        BY <2>6, SeqDef
      <4>5. QED
        BY <4>3, <4>4
    <3>4. Faithful(log, applied, handled)
      BY <2>2, <3>3 DEF Faithful
    <3>5. \A a, b \in Runs : a # b => Over(log, a, b) \/ Over(log, b, a)
      <4>1. TAKE a, b \in Runs
      <4>2. HAVE a # b
      <4>3. CASE a \in started /\ b \in started
        <5>1. After(a, b) \/ After(b, a)
          BY <2>1, <4>2, <4>3 DEF TurnInv
        <5>2. QED
          BY <5>1 DEF After, Over
      <4>4. CASE a \notin started \/ b \notin started
        BY <2>1, <4>4 DEF AnnouncedInv, Over
      <4>5. QED
        BY <4>3, <4>4
    <3>6. plan = Folded(log, NoPlan, ByCreation(1 .. applied))
      BY <2>4, <3>2, <3>4, <3>5, TwoOrders
    <3>7. QED
      BY <3>6, FoldShape
  <2>9. QED
    BY <2>7, <2>8
<1>5. QED
  BY <1>1, <1>2, <1>3, <1>4, AlwaysInv, PTL DEF Spec

=============================================================================
