-------------------------- MODULE Billing_balances --------------------------
(***************************************************************************)
(* What the accounts of Billing add up to, for any finite set of runs: no  *)
(* point is made or lost, refunds do not lift the daily points over the    *)
(* quota, and what happens to codes, plans and failed runs.  The sums over *)
(* the runs of a user are handled with the lemmas of Induction; nothing    *)
(* but the finiteness of Runs is assumed about the constants for them.      *)
(***************************************************************************)
EXTENDS Billing_proofs, Induction

(***************************************************************************)
(* Sums over the runs of a user                                            *)
(***************************************************************************)

OfUser(u) == {r \in Runs : Owner[r] = u}

Outstanding == [r \in Runs |-> run[r].reserved - refunded[r]]

LEMMA OutstandingType ==
    ASSUME TypeOK
    PROVE  /\ \A r \in Runs : Outstanding[r] = run[r].reserved - refunded[r]
           /\ Outstanding \in [Runs -> Int]
BY DEF TypeOK, RunRow, Outstanding

\* A step that adds D to what the runs of u have outstanding keeps the
\* balance when the account of u is granted the difference.
LEMMA BalanceStep ==
    ASSUME TypeOK, TypeOK', IsFiniteSet(Runs), Conservation,
           NEW u \in Users, NEW D \in [Runs -> Int],
           \A s \in Runs : Outstanding'[s] = Outstanding[s] + D[s],
           \A s \in Runs : Owner[s] # u => D[s] = 0,
           \A v \in Users \ {u} : account'[v] = account[v] /\ granted'[v] = granted[v],
           granted'[u] - granted[u] = (Total(account'[u]) - Total(account[u]))
                                        + SumFunctionOnSet(D, OfUser(u))
    PROVE  Conservation'
<1> DEFINE Sum(v) == SumFunctionOnSet(Outstanding, OfUser(v))
           Sum1(v) == SumFunctionOnSet(Outstanding', OfUser(v))
<1>1. \A v \in Users : granted[v] = Total(account[v]) + Sum(v)
  BY DEF Conservation, Outstanding, OfUser
<1>2. SUFFICES \A v \in Users : granted'[v] = Total(account'[v]) + Sum1(v)
  BY DEF Conservation, Outstanding, OfUser
<1>3. \A v : OfUser(v) \in SUBSET Runs /\ IsFiniteSet(OfUser(v))
  BY FS_Subset DEF OfUser
<1>4. Outstanding \in [Runs -> Int] /\ Outstanding' \in [Runs -> Int]
  <2>1. Outstanding' \in [Runs -> Int]
    BY DEF TypeOK, RunRow, Outstanding
  <2>2. QED
    BY <2>1, OutstandingType
<1>5. ASSUME NEW v \in Users, v # u
      PROVE  granted'[v] = Total(account'[v]) + Sum1(v)
  <2>1. \A s \in OfUser(v) : Outstanding[s] = Outstanding'[s]
    BY <1>4, <1>5 DEF OfUser
  <2>2. Sum(v) = Sum1(v)
    BY <1>3, <2>1, SumSame
  <2>3. QED
    BY <1>1, <1>5, <2>2
<1>6. granted'[u] = Total(account'[u]) + Sum1(u)
  <2>1. \A s \in OfUser(u) : /\ Outstanding[s] \in Int /\ D[s] \in Int
                             /\ Outstanding'[s] = Outstanding[s] + D[s]
    BY <1>4 DEF OfUser
  <2>2. Sum1(u) = Sum(u) + SumFunctionOnSet(D, OfUser(u))
    BY <1>3, <2>1, SumAdd
  <2>3. Sum(u) \in Int /\ SumFunctionOnSet(D, OfUser(u)) \in Int
    BY <1>3, <2>1, SumInt
  <2>4. Total(account[u]) \in Nat /\ Total(account'[u]) \in Nat
    BY TotalType DEF TypeOK
  <2>5. granted[u] \in Int /\ granted'[u] \in Int
    BY DEF TypeOK
  <2>6. granted[u] = Total(account[u]) + Sum(u)
    BY <1>1
  <2> HIDE DEF Sum, Sum1
  <2>7. QED
    BY <2>2, <2>3, <2>4, <2>5, <2>6
<1>7. QED
  BY <1>5, <1>6

LEMMA SameOutstanding ==
    ASSUME TypeOK, Conservation, UNCHANGED <<account, granted, refunded>>,
           \A s \in Runs : run'[s].reserved = run[s].reserved
    PROVE  Conservation'
<1>1. Outstanding' = Outstanding
  BY DEF Outstanding
<1>2. QED
  BY <1>1 DEF Conservation, Outstanding

\* Only the account of u moves.
LEMMA GrantBalance ==
    ASSUME TypeOK, TypeOK', IsFiniteSet(Runs), Conservation, NEW u \in Users,
           UNCHANGED <<run, refunded>>,
           \A v \in Users \ {u} : account'[v] = account[v] /\ granted'[v] = granted[v],
           granted'[u] - granted[u] = Total(account'[u]) - Total(account[u])
    PROVE  Conservation'
<1> DEFINE D == [s \in Runs |-> 0]
<1>1. D \in [Runs -> Int]
  OBVIOUS
<1>2. \A s \in Runs : Outstanding'[s] = Outstanding[s] + D[s]
  <2>1. Outstanding' = Outstanding
    BY DEF Outstanding
  <2>2. QED
    BY <2>1, OutstandingType
<1>3. SumFunctionOnSet(D, OfUser(u)) = 0
  BY FS_Subset, SumZero DEF OfUser
<1>4. \A s \in Runs : D[s] = 0
  OBVIOUS
<1>5. Total(account[u]) \in Nat /\ Total(account'[u]) \in Nat
  BY TotalType DEF TypeOK
<1> HIDE DEF D
<1>6. granted'[u] - granted[u] = (Total(account'[u]) - Total(account[u]))
                                    + SumFunctionOnSet(D, OfUser(u))
  BY <1>3, <1>5
<1>7. QED
  BY <1>1, <1>2, <1>4, <1>6, BalanceStep

\* One run of u moves d points between its hold and the account.
LEMMA RunBalance ==
    ASSUME TypeOK, TypeOK', IsFiniteSet(Runs), Conservation, NEW e \in Runs, NEW d \in Int,
           \A s \in Runs \ {e} : run'[s] = run[s] /\ refunded'[s] = refunded[s],
           run'[e].reserved - refunded'[e] = run[e].reserved - refunded[e] + d,
           \A v \in Users \ {Owner[e]} : account'[v] = account[v] /\ granted'[v] = granted[v],
           granted'[Owner[e]] = granted[Owner[e]] + ResetGain(Owner[e]),
           Total(account'[Owner[e]]) = Total(Ensured(account[Owner[e]])) - d
    PROVE  Conservation'
<1> DEFINE u == Owner[e]
           D == [s \in Runs |-> IF s = e THEN d ELSE 0]
<1>1. u \in Users /\ D \in [Runs -> Int]
  BY BillingAssumption
<1>2. \A s \in Runs : Outstanding'[s] = Outstanding[s] + D[s]
  <2>1. \A s \in Runs : Outstanding'[s] = run'[s].reserved - refunded'[s]
    BY DEF Outstanding
  <2>2. \A s \in Runs : Outstanding[s] = run[s].reserved - refunded[s]
                          /\ Outstanding[s] \in Int
    BY OutstandingType
  <2>3. QED
    BY <2>1, <2>2
<1>3. \A s \in Runs : Owner[s] # u => D[s] = 0
  OBVIOUS
<1>4. SumFunctionOnSet(D, OfUser(u)) = d
  <2>1. IsFiniteSet(OfUser(u)) /\ e \in OfUser(u) /\ OfUser(u) \subseteq Runs
    BY FS_Subset DEF OfUser
  <2>2. D[e] = d /\ \A s \in OfUser(u) \ {e} : D[s] = 0
    BY <2>1
  <2> HIDE DEF D
  <2>3. QED
    BY <2>1, <2>2, SumSingle
<1>5. /\ Total(account[u]) \in Nat /\ Total(account'[u]) \in Nat
      /\ Total(Ensured(account[u])) \in Nat /\ granted[u] \in Int /\ granted'[u] \in Int
  BY <1>1, TotalType, ResetGainType DEF TypeOK
<1>6. ResetGain(u) = Total(Ensured(account[u])) - Total(account[u])
  BY DEF ResetGain
<1> HIDE DEF D, u
<1>7. granted'[u] - granted[u] = (Total(account'[u]) - Total(account[u]))
                                    + SumFunctionOnSet(D, OfUser(u))
  <2>1. granted'[u] = granted[u] + ResetGain(u)
        /\ Total(account'[u]) = Total(Ensured(account[u])) - d
    BY DEF u
  <2>2. QED
    BY <1>4, <1>5, <1>6, <2>1
<1>8. \A v \in Users \ {u} : account'[v] = account[v] /\ granted'[v] = granted[v]
  BY DEF u
<1>9. QED
  BY <1>1, <1>2, <1>3, <1>7, <1>8, BalanceStep

\* What a release pays back, over all its runs, is what they held.
LEMMA ReleasedTotal ==
    ASSUME TypeOK, HoldsAddUp, IsFiniteSet(Runs), NEW a \in AccountRow,
           NEW S \in SUBSET Runs
    PROVE  Total(Released(a, S)) =
             Total(a) + SumFunctionOnSet([r \in Runs |-> run[r].reserved], S)
<1> DEFINE back(r) == Refund(run[r], run[r].created)
           d == [r \in Runs |-> back(r).daily]
           m == [r \in Runs |-> back(r).monthly]
           p == [r \in Runs |-> back(r).permanent]
           dm == [r \in Runs |-> back(r).daily + back(r).monthly]
           h == [r \in Runs |-> run[r].reserved]
<1>1. IsFiniteSet(S)
  BY FS_Subset
<1>2. ASSUME NEW r \in Runs
      PROVE  /\ back(r).daily \in Int /\ back(r).monthly \in Int /\ back(r).permanent \in Int
             /\ back(r).daily + back(r).monthly \in Int
             /\ run[r].reserved = (back(r).daily + back(r).monthly) + back(r).permanent
  <2>1. /\ run[r].daily \in Nat /\ run[r].monthly \in Nat /\ run[r].permanent \in Nat
        /\ run[r].reserved = run[r].daily + run[r].monthly + run[r].permanent
    BY DEF TypeOK, RunRow, HoldsAddUp
  <2>2. QED
    BY <2>1 DEF Refund
<1> HIDE DEF back
<1>3. SumFunctionOnSet(dm, S) = SumFunctionOnSet(d, S) + SumFunctionOnSet(m, S)
  <2>1. \A r \in S : d[r] \in Int /\ m[r] \in Int /\ dm[r] = d[r] + m[r]
    BY <1>2
  <2> HIDE DEF d, m, dm
  <2>2. QED
    BY <1>1, <2>1, SumAdd
<1>4. SumFunctionOnSet(h, S) = SumFunctionOnSet(dm, S) + SumFunctionOnSet(p, S)
  <2>1. \A r \in S : dm[r] \in Int /\ p[r] \in Int /\ h[r] = dm[r] + p[r]
    BY <1>2
  <2> HIDE DEF h, p, dm
  <2>2. QED
    BY <1>1, <2>1, SumAdd
<1>5. /\ SumFunctionOnSet(d, S) \in Int
      /\ SumFunctionOnSet(m, S) \in Int
      /\ SumFunctionOnSet(p, S) \in Int
  <2>1. \A r \in S : d[r] \in Int /\ m[r] \in Int /\ p[r] \in Int
    BY <1>2
  <2> HIDE DEF d, m, p
  <2>2. QED
    BY <1>1, <2>1, SumInt
<1>6. a.daily \in Int /\ a.monthly \in Int /\ a.permanent \in Int
  BY DEF AccountRow
<1>7. Released(a, S) = Credited(a, [daily |-> SumFunctionOnSet(d, S),
                                    monthly |-> SumFunctionOnSet(m, S),
                                    permanent |-> SumFunctionOnSet(p, S)])
  BY DEF Released, back
<1> HIDE DEF d, m, p, dm
<1>8. /\ Released(a, S).daily = a.daily + SumFunctionOnSet(d, S)
      /\ Released(a, S).monthly = a.monthly + SumFunctionOnSet(m, S)
      /\ Released(a, S).permanent = a.permanent + SumFunctionOnSet(p, S)
  BY <1>7 DEF Credited, AccountRow
<1>9. SumFunctionOnSet(h, S) = SumFunctionOnSet(d, S) + SumFunctionOnSet(m, S)
                                 + SumFunctionOnSet(p, S)
  BY <1>3, <1>4
<1>10. Total(Released(a, S)) = Total(a) + SumFunctionOnSet(h, S)
  <2> HIDE DEF h
  <2>1. QED
    BY <1>5, <1>6, <1>8, <1>9 DEF Total
<1>11. QED
  BY <1>10

\* The runs in S give back their holds.
LEMMA ReleaseSum ==
    ASSUME TypeOK, HoldsAddUp, IsFiniteSet(Runs), NEW u,
           NEW S \in SUBSET OfUser(u), NEW D \in [Runs -> Int],
           \A s \in S : D[s] = -run[s].reserved,
           \A s \in OfUser(u) \ S : D[s] = 0
    PROVE  SumFunctionOnSet(D, OfUser(u)) =
             -SumFunctionOnSet([r \in Runs |-> run[r].reserved], S)
<1> DEFINE h == [r \in Runs |-> run[r].reserved]
<1>1. IsFiniteSet(OfUser(u))
  BY FS_Subset DEF OfUser
<1>2. \A s \in S : h[s] \in Int /\ D[s] = -h[s]
  <2>1. \A s \in Runs : run[s].reserved \in Nat
    BY RunTypes
  <2>2. QED
    BY <2>1 DEF OfUser
<1> HIDE DEF h
<1>3. SumFunctionOnSet(D, OfUser(u)) = -SumFunctionOnSet(h, S)
  BY <1>1, <1>2, SumNegated
<1>4. QED
  BY <1>3 DEF h

LEMMA ExpiredOfUser ==
    ASSUME NEW u
    PROVE  Expired(u) \in SUBSET OfUser(u) /\ Expired(u) \in SUBSET Runs
BY DEF Expired, OfUser

LEMMA ReleasedRow ==
    ASSUME TypeOK, NEW S \in SUBSET Runs, NEW s \in Runs
    PROVE  /\ ReleasedRuns(S)[s].reserved = run[s].reserved
           /\ ReleasedRuns(S)[s].daily = run[s].daily
           /\ ReleasedRuns(S)[s].created = run[s].created
           /\ ReleasedRuns(S)[s].actual = run[s].actual
           /\ s \in S => ReleasedRuns(S)[s].status = "released"
           /\ s \notin S => ReleasedRuns(S)[s] = run[s]
           /\ RefundedAll(S)[s] = IF s \in S THEN refunded[s] + Parts(run[s])
                                              ELSE refunded[s]
<1>1. run[s] \in RunRow
  BY DEF TypeOK
<1>2. QED
  BY <1>1 DEF ReleasedRuns, RefundedAll, RunRow

LEMMA ViewAccountBalance ==
    ASSUME TypeOK, TypeOK', HoldsAddUp, IsFiniteSet(Runs), Conservation,
           NEW u \in Users, ViewAccount(u)
    PROVE  Conservation'
<1> DEFINE S == Expired(u)
           h == [r \in Runs |-> run[r].reserved]
           D == [s \in Runs |-> IF s \in S THEN -run[s].reserved ELSE 0]
           E == Ensured(account[u])
<1>1. S \in SUBSET OfUser(u) /\ S \in SUBSET Runs
  BY ExpiredOfUser
<1>2. \A s \in Runs : run[s].reserved \in Nat /\ Parts(run[s]) = run[s].reserved
                        /\ refunded[s] \in Nat
  BY RunTypes
<1>3. D \in [Runs -> Int]
  BY <1>2
<1>4. ASSUME NEW s \in Runs PROVE Outstanding'[s] = Outstanding[s] + D[s]
  <2>1. Outstanding'[s] = run'[s].reserved - refunded'[s]
        /\ Outstanding[s] = run[s].reserved - refunded[s]
    BY DEF Outstanding
  <2>2. run' = ReleasedRuns(S) /\ refunded' = RefundedAll(S)
    BY DEF ViewAccount
  <2>3. run'[s].reserved = run[s].reserved
        /\ refunded'[s] = IF s \in S THEN refunded[s] + run[s].reserved ELSE refunded[s]
    BY <1>1, <1>2, <2>2, ReleasedRow
  <2>4. D[s] = IF s \in S THEN -run[s].reserved ELSE 0
    OBVIOUS
  <2> HIDE DEF D, S
  <2>5. QED
    BY <1>2, <2>1, <2>3, <2>4
<1>5. \A s \in Runs : Owner[s] # u => D[s] = 0
  BY <1>1 DEF OfUser
<1>6. SumFunctionOnSet(D, OfUser(u)) = -SumFunctionOnSet(h, S)
  <2>1. (\A s \in S : D[s] = -run[s].reserved) /\ (\A s \in OfUser(u) \ S : D[s] = 0)
    BY DEF OfUser, Expired
  <2> HIDE DEF D, S
  <2>2. QED
    BY <1>1, <1>3, <2>1, ReleaseSum
<1>7. SumFunctionOnSet(h, S) \in Int
  <2>1. \A s \in S : h[s] \in Int
    BY <1>1, <1>2
  <2> HIDE DEF h, S
  <2>2. QED
    BY <1>1, <2>1, FS_Subset, SumInt
<1>8. E \in AccountRow
  BY ResetGainType
<1>9. Total(account'[u]) = Total(E) + SumFunctionOnSet(h, S)
  <2>1. account'[u] = Released(E, S)
    BY DEF ViewAccount, TypeOK
  <2> HIDE DEF E, S
  <2>2. QED
    BY <1>1, <1>8, <2>1, ReleasedTotal
<1>10. granted'[u] = granted[u] + (Total(E) - Total(account[u]))
  BY DEF ViewAccount, ResetGain, TypeOK
<1>11. \A v \in Users \ {u} : account'[v] = account[v] /\ granted'[v] = granted[v]
  BY DEF ViewAccount, TypeOK
<1>12. Total(account[u]) \in Nat /\ Total(E) \in Nat /\ granted[u] \in Int
  BY <1>8, TotalType DEF TypeOK
<1> HIDE DEF D, h, S, E
<1>13. granted'[u] - granted[u] = (Total(account'[u]) - Total(account[u]))
                                     + SumFunctionOnSet(D, OfUser(u))
  BY <1>6, <1>7, <1>9, <1>10, <1>12
<1>14. QED
  BY <1>3, <1>4, <1>5, <1>11, <1>13, BalanceStep

\* What b takes from the buckets of a leaves the rest.
LEMMA DebitedTotal ==
    ASSUME NEW a \in AccountRow, NEW n \in Nat, n <= Total(a)
    PROVE  Total(Debited(a, Breakdown(a, n))) = Total(a) - n
<1> DEFINE b == Breakdown(a, n)
<1>1. a.daily \in Nat /\ a.monthly \in Nat /\ a.permanent \in Nat
  BY DEF AccountRow
<1>2. /\ b.daily \in 0 .. a.daily /\ b.monthly \in 0 .. a.monthly
      /\ b.permanent \in 0 .. a.permanent
      /\ b.daily + b.monthly + b.permanent = n
  BY <1>1, BreakdownExact
<1> HIDE DEF b
<1>3. /\ Debited(a, b).daily = a.daily - b.daily
      /\ Debited(a, b).monthly = a.monthly - b.monthly
      /\ Debited(a, b).permanent = a.permanent - b.permanent
  BY DEF Debited, AccountRow
<1>4. b.daily \in Int /\ b.monthly \in Int /\ b.permanent \in Int
  BY <1>1, <1>2
<1>5. Total(Debited(a, b)) = Total(a) - n
  BY <1>1, <1>2, <1>3, <1>4 DEF Total
<1>6. QED
  BY <1>5 DEF b

LEMMA CreditedTotal ==
    ASSUME NEW a \in AccountRow, NEW b, b.daily \in Nat, b.monthly \in Nat, b.permanent \in Nat
    PROVE  Total(Credited(a, b)) = Total(a) + Parts(b)
<1>1. a.daily \in Nat /\ a.monthly \in Nat /\ a.permanent \in Nat
  BY DEF AccountRow
<1>2. /\ Credited(a, b).daily = a.daily + b.daily
      /\ Credited(a, b).monthly = a.monthly + b.monthly
      /\ Credited(a, b).permanent = a.permanent + b.permanent
  BY DEF Credited, AccountRow
<1>3. QED
  BY <1>1, <1>2 DEF Total, Parts

LEMMA RefundParts ==
    ASSUME NEW b, b.daily \in Nat, b.monthly \in Nat, b.permanent \in Nat, NEW t
    PROVE  Parts(Refund(b, t)) = Parts(b)
BY DEF Refund, Parts

LEMMA AuthorizeBalance ==
    ASSUME TypeOK, TypeOK', HoldsAddUp, IsFiniteSet(Runs), Conservation,
           NEW e \in Runs, Authorize(e)
    PROVE  Conservation'
<1> DEFINE u == Owner[e]
           S == Expired(u)
           h == [r \in Runs |-> run[r].reserved]
           E == Ensured(account[u])
           a == Released(E, S)
<1>1. u \in Users /\ S \in SUBSET OfUser(u) /\ S \in SUBSET Runs /\ e \in OfUser(u)
  BY BillingAssumption, ExpiredOfUser DEF OfUser
<1>2. \A s \in Runs : run[s].reserved \in Nat /\ Parts(run[s]) = run[s].reserved
                        /\ refunded[s] \in Nat
  BY RunTypes
<1>3. PICK q \in Quotes :
         /\ q.reserve <= Total(a)
         /\ account' = [account EXCEPT ![u] = Debited(a, Breakdown(a, q.reserve))]
         /\ run' = [ReleasedRuns(S) EXCEPT ![e] =
               [@ EXCEPT !.status = "authorized", !.reserved = q.reserve,
                         !.daily = Breakdown(a, q.reserve).daily,
                         !.monthly = Breakdown(a, q.reserve).monthly,
                         !.permanent = Breakdown(a, q.reserve).permanent,
                         !.base = q.base, !.expires = now + TTL]]
  BY DEF Authorize
<1>4. /\ a \in AccountRow /\ run[e].status = "pending" /\ refunded' = RefundedAll(S)
      /\ granted' = [granted EXCEPT ![u] = @ + ResetGain(u)]
  BY DEF Authorize
<1>5. q.reserve \in Nat
  BY BillingAssumption
<1>6. e \notin S /\ run[e].reserved = 0
  BY <1>4, RunTypes DEF Expired
<1>7. ReleasedRuns(S) \in [Runs -> RunRow]
  BY <1>1, ReleasedRunsType
<1>8. E \in AccountRow
  BY <1>1, ResetGainType
<1> DEFINE b == Breakdown(a, q.reserve)
<1> HIDE DEF b, S, a, E, u
<1>9. run'[e].reserved = q.reserve
      /\ \A s \in Runs \ {e} : run'[s] = ReleasedRuns(S)[s]
  BY <1>3, <1>7 DEF RunRow, b
<1> DEFINE D0 == [s \in Runs |-> IF s \in S THEN -run[s].reserved ELSE 0]
           D == [s \in Runs |-> IF s = e THEN q.reserve ELSE D0[s]]
<1>10. D0 \in [Runs -> Int] /\ D \in [Runs -> Int]
  BY <1>2, <1>5
<1>11. ASSUME NEW s \in Runs PROVE Outstanding'[s] = Outstanding[s] + D[s]
  <2>1. Outstanding'[s] = run'[s].reserved - refunded'[s]
        /\ Outstanding[s] = run[s].reserved - refunded[s]
    BY DEF Outstanding
  <2>2. refunded'[s] = IF s \in S THEN refunded[s] + run[s].reserved ELSE refunded[s]
    BY <1>1, <1>2, <1>4, ReleasedRow
  <2>3. CASE s = e
    <3>1. D[s] = q.reserve
      BY <2>3
    <3> HIDE DEF D
    <3>2. QED
      BY <1>2, <1>5, <1>6, <1>9, <2>1, <2>2, <2>3, <3>1
  <2>4. CASE s # e
    <3>1. D[s] = IF s \in S THEN -run[s].reserved ELSE 0
      BY <2>4
    <3>2. run'[s].reserved = run[s].reserved
      BY <1>1, <1>9, <2>4, ReleasedRow
    <3> HIDE DEF D, D0
    <3>3. QED
      BY <1>2, <2>1, <2>2, <3>1, <3>2
  <2>5. QED
    BY <2>3, <2>4
<1>12. \A s \in Runs : Owner[s] # u => D[s] = 0
  BY <1>1 DEF OfUser
<1>13. SumFunctionOnSet(D0, OfUser(u)) = -SumFunctionOnSet(h, S)
  <2>1. (\A s \in S : D0[s] = -run[s].reserved) /\ (\A s \in OfUser(u) \ S : D0[s] = 0)
    BY <1>1 DEF OfUser
  <2> HIDE DEF D0
  <2>2. QED
    BY <1>1, <1>10, <2>1, ReleaseSum
<1>14. SumFunctionOnSet(h, S) \in Int
  <2>1. \A s \in S : h[s] \in Int
    BY <1>1, <1>2
  <2> HIDE DEF h
  <2>2. QED
    BY <1>1, <2>1, FS_Subset, SumInt
<1>15. SumFunctionOnSet(D, OfUser(u)) = q.reserve - SumFunctionOnSet(h, S)
  <2>1. IsFiniteSet(OfUser(u))
    BY FS_Subset DEF OfUser
  <2>2. /\ \A s \in OfUser(u) : D0[s] \in Int /\ D[s] \in Int
        /\ \A s \in OfUser(u) \ {e} : D0[s] = D[s]
        /\ D0[e] = 0 /\ D[e] = q.reserve
    BY <1>1, <1>6, <1>10 DEF OfUser
  <2> HIDE DEF D0, D
  <2>3. SumFunctionOnSet(D, OfUser(u)) = SumFunctionOnSet(D0, OfUser(u)) + (D[e] - D0[e])
    BY <1>1, <2>1, <2>2, SumChange
  <2> HIDE DEF h
  <2>4. QED
    BY <1>5, <1>13, <1>14, <2>2, <2>3
<1>16. Total(a) = Total(E) + SumFunctionOnSet(h, S)
  BY <1>1, <1>8, ReleasedTotal DEF a
<1>17. Total(account'[u]) = Total(a) - q.reserve
  <2>1. account'[u] = Debited(a, Breakdown(a, q.reserve))
    BY <1>1, <1>3 DEF TypeOK
  <2>2. QED
    BY <1>3, <1>4, <1>5, <2>1, DebitedTotal
<1>18. granted'[u] = granted[u] + (Total(E) - Total(account[u]))
  BY <1>1, <1>4 DEF ResetGain, TypeOK, E
<1>19. \A v \in Users \ {u} : account'[v] = account[v] /\ granted'[v] = granted[v]
  BY <1>3, <1>4 DEF TypeOK
<1>20. Total(account[u]) \in Nat /\ Total(E) \in Nat /\ granted[u] \in Int
  BY <1>1, <1>8, TotalType DEF TypeOK
<1> HIDE DEF D, D0, h
<1>21. granted'[u] - granted[u] = (Total(account'[u]) - Total(account[u]))
                                     + SumFunctionOnSet(D, OfUser(u))
  BY <1>5, <1>14, <1>15, <1>16, <1>17, <1>18, <1>20
<1>22. QED
  BY <1>1, <1>10, <1>11, <1>12, <1>19, <1>21, BalanceStep

LEMMA ReserveToolBalance ==
    ASSUME TypeOK, TypeOK', IsFiniteSet(Runs), Conservation,
           NEW e \in Runs, NEW c \in Calls, ReserveTool(e, c)
    PROVE  Conservation'
<1> DEFINE u == Owner[e]
           a == Ensured(account[u])
<1>1. u \in Users
  BY BillingAssumption
<1>2. a \in AccountRow
  BY <1>1, ResetGainType
<1>3. PICK n \in ToolQuotes :
         /\ n <= Total(a)
         /\ account' = [account EXCEPT ![u] = Debited(a, Breakdown(a, n))]
         /\ run' = [run EXCEPT ![e] =
               [run[e] EXCEPT !.reserved = @ + n, !.daily = @ + Breakdown(a, n).daily,
                         !.monthly = @ + Breakdown(a, n).monthly,
                         !.permanent = @ + Breakdown(a, n).permanent,
                         !.expires = now + TTL]]
  BY DEF ReserveTool
<1>4. n \in Nat
  BY BillingAssumption
<1>5. Total(account'[u]) = Total(a) - n
  <2>1. account'[u] = Debited(a, Breakdown(a, n))
    BY <1>1, <1>3 DEF TypeOK
  <2> HIDE DEF a
  <2>2. QED
    BY <1>2, <1>3, <1>4, <2>1, DebitedTotal
<1>6. refunded' = refunded /\ granted' = [granted EXCEPT ![u] = @ + ResetGain(u)]
  BY DEF ReserveTool
<1>7. /\ run'[e].reserved = run[e].reserved + n
      /\ \A s \in Runs \ {e} : run'[s] = run[s]
      /\ run[e].reserved \in Nat /\ refunded[e] \in Nat
  <2> HIDE DEF a
  <2>1. QED
    BY <1>3 DEF TypeOK, RunRow
<1>8. run'[e].reserved - refunded'[e] = run[e].reserved - refunded[e] + n
  BY <1>4, <1>6, <1>7
<1>9. /\ \A v \in Users \ {u} : account'[v] = account[v] /\ granted'[v] = granted[v]
      /\ granted'[u] = granted[u] + ResetGain(u)
  BY <1>1, <1>3, <1>6 DEF TypeOK
<1>10. QED
  BY <1>4, <1>5, <1>6, <1>7, <1>8, <1>9, RunBalance

LEMMA SettleBalance ==
    ASSUME TypeOK, TypeOK', HoldsAddUp, IsFiniteSet(Runs), Conservation,
           NEW e \in Runs, NEW o \in Outcomes, Settle(e, o)
    PROVE  Conservation'
<1> DEFINE u == Owner[e]
           a == Ensured(account[u])
           n == Billed(e, o)
           back == Unused(e, n)
           base == IF o = "success" THEN run[e].base ELSE 0
<1>1. u \in Users
  BY BillingAssumption
<1>2. a \in AccountRow
  BY <1>1, ResetGainType
<1>3. n \in Nat /\ n <= run[e].reserved
  BY ChargeType
<1>4. back.daily \in Nat /\ back.monthly \in Nat /\ back.permanent \in Nat
  BY <1>3, UnusedType
<1>5. /\ account' = [account EXCEPT ![u] = Credited(a, Refund(back, run[e].created))]
      /\ run' = [run EXCEPT ![e] = [run[e] EXCEPT !.status = FinalStatus(n, o),
                                                  !.actual = n, !.base = base]]
      /\ refunded' = [refunded EXCEPT ![e] = refunded[e] + Parts(back)]
      /\ granted' = [granted EXCEPT ![u] = granted[u] + ResetGain(u)]
  BY DEF Settle
<1> HIDE DEF a, n, back, base
<1>6. Parts(back) \in Nat
  BY <1>4 DEF Parts
<1>7. Total(account'[u]) = Total(a) + Parts(back)
  <2> DEFINE r == Refund(back, run[e].created)
  <2>1. r.daily \in Nat /\ r.monthly \in Nat /\ r.permanent \in Nat
    BY <1>4, RefundType
  <2>2. Parts(r) = Parts(back)
    BY <1>4, RefundParts
  <2>3. account'[u] = Credited(a, r)
    BY <1>1, <1>5 DEF TypeOK
  <2> HIDE DEF r
  <2>4. QED
    BY <1>2, <2>1, <2>2, <2>3, CreditedTotal
<1>8. /\ run'[e].reserved = run[e].reserved
      /\ \A s \in Runs \ {e} : run'[s] = run[s] /\ refunded'[s] = refunded[s]
      /\ refunded'[e] = refunded[e] + Parts(back)
      /\ run[e].reserved \in Nat /\ refunded[e] \in Nat
  BY <1>5 DEF TypeOK, RunRow
<1> DEFINE d == -Parts(back)
<1>9. d \in Int /\ Parts(back) = -d /\ Total(a) \in Nat
  BY <1>2, <1>6, TotalType
<1>10. /\ run'[e].reserved - refunded'[e] = run[e].reserved - refunded[e] + d
       /\ Total(account'[u]) = Total(a) - d
  BY <1>6, <1>7, <1>8, <1>9
<1>11. /\ \A v \in Users \ {u} : account'[v] = account[v] /\ granted'[v] = granted[v]
       /\ granted'[u] = granted[u] + ResetGain(u)
  BY <1>1, <1>5 DEF TypeOK
<1> HIDE DEF d
<1>12. QED
  BY <1>8, <1>9, <1>10, <1>11, RunBalance DEF a

LEMMA StatusBalance ==
    ASSUME TypeOK, HoldsAddUp, Conservation, NEW r \in Runs,
           CreateRun(r) \/ AuthorizeClarification(r) \/ SettlePending(r)
    PROVE  Conservation'
<1>1. UNCHANGED <<account, granted, refunded>>
  BY DEF CreateRun, AuthorizeClarification, SettlePending
<1>2. ASSUME NEW s \in Runs PROVE run'[s].reserved = run[s].reserved
  <2>1. run \in [Runs -> RunRow] /\ run[r] \in RunRow
    BY DEF TypeOK
  <2>2. CASE CreateRun(r)
    <3>1. run[r].reserved = 0
      BY <2>2 DEF CreateRun, HoldsAddUp
    <3>2. QED
      BY <2>1, <2>2, <3>1 DEF CreateRun, NoRun
  <2>3. CASE run' = [run EXCEPT ![r].status = "released"]
    BY <2>1, <2>3 DEF RunRow
  <2>4. QED
    BY <2>2, <2>3 DEF AuthorizeClarification, SettlePending
<1>3. QED
  BY <1>1, <1>2, SameOutstanding

LEMMA AccountBalance ==
    ASSUME TypeOK, TypeOK', HoldsAddUp, IsFiniteSet(Runs), Conservation, NEW u \in Users,
           \/ TouchAccount(u)
           \/ \E i \in Invites : UpgradePlan(u, i) \/ TopUp(u, i)
           \/ \E n \in Adjustments : Adjust(u, n)
    PROVE  Conservation'
<1> DEFINE a == Ensured(account[u])
<1>1. UNCHANGED <<run, refunded>>
  BY DEF TouchAccount, UpgradePlan, TopUp, Adjust
<1>2. \A v \in Users \ {u} : account'[v] = account[v] /\ granted'[v] = granted[v]
  <2>1. /\ account \in [Users -> AccountRow]
        /\ DOMAIN granted = Users
    BY DEF TypeOK
  <2>2. CASE TouchAccount(u)
    BY <2>1, <2>2 DEF TouchAccount
  <2>3. ASSUME NEW i \in Invites, UpgradePlan(u, i) \/ TopUp(u, i)
        PROVE  \A v \in Users \ {u} : account'[v] = account[v] /\ granted'[v] = granted[v]
    BY <2>1, <2>3 DEF UpgradePlan, TopUp
  <2>4. ASSUME NEW n \in Adjustments, Adjust(u, n)
        PROVE  \A v \in Users \ {u} : account'[v] = account[v] /\ granted'[v] = granted[v]
    BY <2>1, <2>4 DEF Adjust
  <2>5. QED
    BY <2>2, <2>3, <2>4
<1>3. a \in AccountRow /\ account[u] \in AccountRow /\ granted[u] \in Int
      /\ account \in [Users -> AccountRow] /\ granted \in [Users -> Int]
  BY ResetGainType DEF TypeOK
<1>4. Total(a) \in Nat /\ Total(account[u]) \in Nat
      /\ ResetGain(u) = Total(a) - Total(account[u])
  BY <1>3, TotalType DEF ResetGain
<1>5. Total(account'[u]) \in Nat
  BY TotalType DEF TypeOK
<1>6. granted'[u] - granted[u] = Total(account'[u]) - Total(account[u])
  <2>1. CASE TouchAccount(u)
    <3>1. account'[u] = a /\ granted'[u] = granted[u] + ResetGain(u)
      BY <1>3, <2>1 DEF TouchAccount
    <3> HIDE DEF a
    <3>2. QED
      BY <1>3, <1>4, <3>1
  <2>2. ASSUME NEW i \in Invites, UpgradePlan(u, i)
        PROVE  granted'[u] - granted[u] = Total(account'[u]) - Total(account[u])
    <3>1. granted'[u] = granted[u] + (Total(account'[u]) - Total(account[u]))
      BY <1>3, <2>2 DEF UpgradePlan
    <3>2. QED
      BY <1>3, <1>4, <1>5, <3>1
  <2>3. ASSUME NEW i \in Invites, TopUp(u, i)
        PROVE  granted'[u] - granted[u] = Total(account'[u]) - Total(account[u])
    <3>1. /\ account'[u] = [a EXCEPT !.permanent = a.permanent + InviteTopup[i]]
          /\ granted'[u] = granted[u] + ResetGain(u) + InviteTopup[i]
      BY <1>3, <2>3 DEF TopUp
    <3>2. InviteTopup[i] \in Nat
      BY BillingAssumption
    <3> HIDE DEF a
    <3>3. Total(account'[u]) = Total(a) + InviteTopup[i]
      BY <1>3, <3>1, <3>2 DEF Total, AccountRow
    <3>4. QED
      BY <1>3, <1>4, <3>1, <3>2, <3>3
  <2>4. ASSUME NEW n \in Adjustments, Adjust(u, n)
        PROVE  granted'[u] - granted[u] = Total(account'[u]) - Total(account[u])
    <3>1. /\ account'[u] = [a EXCEPT !.permanent = a.permanent + n]
          /\ granted'[u] = granted[u] + ResetGain(u) + n
      BY <1>3, <2>4 DEF Adjust
    <3>2. n \in Int
      BY BillingAssumption
    <3> HIDE DEF a
    <3>3. Total(account'[u]) = Total(a) + n
      BY <1>3, <3>1, <3>2 DEF Total, AccountRow
    <3>4. QED
      BY <1>3, <1>4, <3>1, <3>2, <3>3
  <2>5. QED
    BY <2>1, <2>2, <2>3, <2>4
<1> HIDE DEF a
<1>7. QED
  BY <1>1, <1>2, <1>6, GrantBalance

LEMMA BalanceKept ==
    ASSUME TypeOK, TypeOK', HoldsAddUp, IsFiniteSet(Runs), Conservation, [Next]_vars
    PROVE  Conservation'
<1>1. CASE UNCHANGED <<account, granted, refunded, run>>
  BY <1>1, SameOutstanding
<1>2. CASE RunNext
  <2>1. PICK r \in Runs :
          \/ CreateRun(r) \/ AuthorizeClarification(r) \/ SettlePending(r)
          \/ Authorize(r)
          \/ \E c \in Calls : ReserveTool(r, c)
          \/ \E o \in Outcomes : Settle(r, o)
          \/ SettleReadsPending(r)
          \/ \E c \in Calls : RecordTool(r, c)
          \/ \E t \in Turns : RecordModel(r, t)
    BY <1>2 DEF RunNext
  <2>2. CASE CreateRun(r) \/ AuthorizeClarification(r) \/ SettlePending(r)
    BY <2>2, StatusBalance
  <2>3. CASE Authorize(r)
    BY <2>3, AuthorizeBalance
  <2>4. CASE \E c \in Calls : ReserveTool(r, c)
    BY <2>4, ReserveToolBalance
  <2>5. CASE \E o \in Outcomes : Settle(r, o)
    BY <2>5, SettleBalance
  <2>6. CASE UNCHANGED <<account, granted, refunded, run>>
    BY <2>6, <1>1
  <2>7. QED
    BY <2>1, <2>2, <2>3, <2>4, <2>5, <2>6
       DEF SettleReadsPending, RecordTool, RecordModel
<1>3. CASE AccountNext
  <2>1. PICK u \in Users :
          \/ ViewAccount(u)
          \/ TouchAccount(u)
          \/ \E i \in Invites : UpgradePlan(u, i) \/ TopUp(u, i)
          \/ \E n \in Adjustments : Adjust(u, n)
    BY <1>3 DEF AccountNext
  <2>2. CASE ViewAccount(u)
    BY <2>2, ViewAccountBalance
  <2>3. CASE ~ViewAccount(u)
    BY <2>1, <2>3, AccountBalance
  <2>4. QED
    BY <2>2, <2>3
<1>4. QED
  BY <1>1, <1>2, <1>3 DEF Next, Tick, vars

\* A user's points are those ever granted less those held or spent, whatever
\* authorisations, reservations, settlements, expiries and resets do to them.
THEOREM PointsAreConserved ==
    ASSUME IsFiniteSet(Runs)
    PROVE  Spec => []Conservation
<1>1. Init => TypeOK /\ HoldsAddUp /\ Conservation
  <2> SUFFICES ASSUME Init PROVE Conservation
    BY InitType DEF Init, NoRun, HoldsAddUp
  <2>1. ASSUME NEW u \in Users
        PROVE  granted[u] = Total(account[u]) + SumFunctionOnSet(Outstanding, OfUser(u))
    <3>1. \A r \in Runs : Outstanding[r] = 0
      BY DEF Outstanding, Init, NoRun
    <3>2. SumFunctionOnSet(Outstanding, OfUser(u)) = 0
      BY <3>1, FS_Subset, SumZero DEF OfUser
    <3>3. DailyQuota[0] \in Nat /\ MonthlyQuota[0] \in Nat
      BY BillingAssumption DEF Plans
    <3>4. QED
      BY <3>2, <3>3 DEF Init, NewAccount, Total
  <2>2. QED
    BY <2>1 DEF Conservation, Outstanding, OfUser
<1>2. TypeOK /\ HoldsAddUp /\ Conservation /\ [Next]_vars
        => (TypeOK /\ HoldsAddUp /\ Conservation)'
  BY HoldStep, BalanceKept
<1>3. QED
  BY <1>1, <1>2, PTL DEF Spec

(***************************************************************************)
(* The daily points of a user on the free plan.  Reading an account the    *)
(* first time on a day sets its daily bucket to the quota; that no hold of *)
(* the day is forgotten then is the third conjunct of DailyOK: a run that  *)
(* was created and authorised today has had the account reset already.     *)
(***************************************************************************)

Today(r) == run[r].status = "authorized" /\ Day(run[r].created) = Day(now)

HeldToday == [r \in Runs |-> IF Today(r) THEN run[r].daily ELSE 0]

FreeUser(u) == \A i \in Invites : invite[i] = u => InvitePlan[i] = 0

DailyOK(u) ==
    /\ account[u].plan = 0
    /\ account[u].dailyReset <= Day(now)
    /\ \A r \in OfUser(u) : Today(r) => account[u].dailyReset = Day(now)
    /\ account[u].dailyReset = Day(now) =>
         account[u].daily + SumFunctionOnSet(HeldToday, OfUser(u)) <= DailyQuota[0]

CreatedOK == \A r \in Runs : run[r].created <= now

DailyInv == CreatedOK /\ \A u \in Users : FreeUser(u) => DailyOK(u)

LEMMA DayMonotone ==
    ASSUME NEW s \in Nat, NEW t \in Nat, s <= t
    PROVE  Day(s) <= Day(t)
<1>1. DayLength \in Nat /\ DayLength > 0
  BY BillingAssumption
<1>2. \A l \in Nat : l > 0 => s \div l <= t \div l
  OBVIOUS
<1>3. QED
  BY <1>1, <1>2 DEF Day

LEMMA HeldTodayType ==
    ASSUME TypeOK
    PROVE  /\ HeldToday \in [Runs -> Nat]
           /\ \A r \in Runs : HeldToday[r] = IF Today(r) THEN run[r].daily ELSE 0
<1>1. \A r \in Runs : run[r].daily \in Nat
  BY DEF TypeOK, RunRow
<1>2. QED
  BY <1>1 DEF HeldToday

\* The account as the next transaction of u finds it.
LEMMA EnsuredDaily ==
    ASSUME TypeOK, IsFiniteSet(Runs), NEW u \in Users, DailyOK(u)
    PROVE  /\ Ensured(account[u]).plan = 0
           /\ Ensured(account[u]).dailyReset = Day(now)
           /\ Ensured(account[u]).daily + SumFunctionOnSet(HeldToday, OfUser(u))
                <= DailyQuota[0]
<1>1. /\ account[u].plan = 0 /\ account[u].daily \in Nat
      /\ DailyQuota[0] \in Nat
  BY BillingAssumption DEF DailyOK, TypeOK, AccountRow, Plans
<1>2. /\ Ensured(account[u]).plan = 0
      /\ Ensured(account[u]).dailyReset = Day(now)
      /\ Ensured(account[u]).daily = IF account[u].dailyReset # Day(now)
                                     THEN DailyQuota[0] ELSE account[u].daily
  BY <1>1 DEF Ensured
<1>3. CASE account[u].dailyReset = Day(now)
  BY <1>2, <1>3 DEF DailyOK
<1>4. CASE account[u].dailyReset # Day(now)
  <2>1. \A r \in OfUser(u) : HeldToday[r] = 0
    BY <1>4, HeldTodayType DEF DailyOK, OfUser
  <2>2. SumFunctionOnSet(HeldToday, OfUser(u)) = 0
    BY <2>1, FS_Subset, SumZero DEF OfUser
  <2>3. QED
    BY <1>1, <1>2, <1>4, <2>2
<1>5. QED
  BY <1>3, <1>4

\* The account of u stays and no run of u begins to hold daily points.
LEMMA DailyQuiet ==
    ASSUME TypeOK, TypeOK', IsFiniteSet(Runs), NEW u \in Users, DailyOK(u),
           now' = now, account'[u] = account[u],
           \A r \in OfUser(u) : Today(r)' => Today(r) /\ run'[r].daily = run[r].daily
    PROVE  DailyOK(u)'
<1>1. Day(now)' = Day(now)
  BY DEF Day
<1>2. \A r \in OfUser(u) : Today(r)' => account'[u].dailyReset = Day(now)'
  BY <1>1 DEF DailyOK
<1>3. \A r \in OfUser(u) : /\ HeldToday[r] \in Int /\ HeldToday'[r] \in Int
                           /\ HeldToday'[r] <= HeldToday[r]
  <2>1. HeldToday \in [Runs -> Nat]
    BY HeldTodayType
  <2>2. \A r \in Runs : HeldToday'[r] = IF Today(r)' THEN run'[r].daily ELSE 0
    BY DEF HeldToday
  <2>3. \A r \in Runs : HeldToday[r] = IF Today(r) THEN run[r].daily ELSE 0
    BY DEF HeldToday
  <2>4. \A r \in Runs : run'[r].daily \in Nat /\ run[r].daily \in Nat
    BY DEF TypeOK, RunRow
  <2>5. QED
    BY <2>1, <2>2, <2>3, <2>4 DEF OfUser
<1>4. IsFiniteSet(OfUser(u))
  BY FS_Subset DEF OfUser
<1>5. SumFunctionOnSet(HeldToday', OfUser(u)) <= SumFunctionOnSet(HeldToday, OfUser(u))
  BY <1>3, <1>4, SumLe
<1>6. SumFunctionOnSet(HeldToday', OfUser(u)) \in Int
      /\ SumFunctionOnSet(HeldToday, OfUser(u)) \in Int
  BY <1>3, <1>4, SumInt
<1>7. account[u].daily \in Nat /\ DailyQuota[0] \in Nat
  BY BillingAssumption DEF TypeOK, AccountRow, Plans
<1>8. account'[u].dailyReset = Day(now)' =>
        account'[u].daily + SumFunctionOnSet(HeldToday', OfUser(u)) <= DailyQuota[0]
  BY <1>1, <1>5, <1>6, <1>7 DEF DailyOK
<1>9. QED
  BY <1>1, <1>2, <1>8 DEF DailyOK, OfUser

\* A transaction of u: its runs hold D more daily points than before, which
\* come out of the account.
LEMMA DailyMove ==
    ASSUME TypeOK, TypeOK', IsFiniteSet(Runs), NEW u \in Users, DailyOK(u),
           now' = now, NEW D, \A r \in OfUser(u) : D[r] \in Int,
           \A r \in OfUser(u) : HeldToday'[r] <= HeldToday[r] + D[r],
           account'[u].plan = 0, account'[u].dailyReset = Day(now),
           account'[u].daily + SumFunctionOnSet(D, OfUser(u)) <= Ensured(account[u]).daily
    PROVE  DailyOK(u)'
<1>1. Day(now)' = Day(now)
  BY DEF Day
<1> DEFINE f == [r \in Runs |-> HeldToday[r] + D[r]]
<1>2. \A r \in OfUser(u) : /\ HeldToday[r] \in Int /\ HeldToday'[r] \in Int
                           /\ f[r] = HeldToday[r] + D[r] /\ f[r] \in Int
  <2>1. HeldToday \in [Runs -> Nat]
    BY HeldTodayType
  <2>2. HeldToday' \in [Runs -> Nat]
    BY DEF HeldToday, TypeOK, RunRow
  <2>3. QED
    BY <2>1, <2>2 DEF OfUser
<1> HIDE DEF f
<1>3. IsFiniteSet(OfUser(u))
  BY FS_Subset DEF OfUser
<1>4. SumFunctionOnSet(HeldToday', OfUser(u)) <= SumFunctionOnSet(f, OfUser(u))
  BY <1>2, <1>3, SumLe
<1>5. SumFunctionOnSet(f, OfUser(u)) =
        SumFunctionOnSet(HeldToday, OfUser(u)) + SumFunctionOnSet(D, OfUser(u))
  BY <1>2, <1>3, SumAdd
<1>6. /\ SumFunctionOnSet(HeldToday', OfUser(u)) \in Int
      /\ SumFunctionOnSet(HeldToday, OfUser(u)) \in Int
      /\ SumFunctionOnSet(D, OfUser(u)) \in Int
  BY <1>2, <1>3, SumInt
<1>7. account'[u].daily \in Nat /\ Ensured(account[u]).daily \in Nat /\ DailyQuota[0] \in Nat
  BY ResetGainType, BillingAssumption DEF TypeOK, AccountRow, Plans
<1>8. Ensured(account[u]).daily + SumFunctionOnSet(HeldToday, OfUser(u)) <= DailyQuota[0]
  BY EnsuredDaily
<1>9. account'[u].daily + SumFunctionOnSet(HeldToday', OfUser(u)) <= DailyQuota[0]
  BY <1>4, <1>5, <1>6, <1>7, <1>8
<1>10. Day(now) \in Nat
  BY PeriodType DEF TypeOK
<1>11. QED
  BY <1>1, <1>9, <1>10 DEF DailyOK, OfUser

LEMMA ReleasedDaily ==
    ASSUME TypeOK, IsFiniteSet(Runs), NEW u, NEW a \in AccountRow
    PROVE  /\ Released(a, Expired(u)).daily = a.daily + SumFunctionOnSet(HeldToday, Expired(u))
           /\ Released(a, Expired(u)).plan = a.plan
           /\ Released(a, Expired(u)).dailyReset = a.dailyReset
<1> DEFINE S == Expired(u)
           d == [r \in Runs |-> Refund(run[r], run[r].created).daily]
           m == [r \in Runs |-> Refund(run[r], run[r].created).monthly]
           p == [r \in Runs |-> Refund(run[r], run[r].created).permanent]
<1>1. Released(a, S) = Credited(a, [daily |-> SumFunctionOnSet(d, S),
                                    monthly |-> SumFunctionOnSet(m, S),
                                    permanent |-> SumFunctionOnSet(p, S)])
  BY DEF Released
<1>2. IsFiniteSet(S) /\ S \subseteq Runs
  BY FS_Subset DEF Expired
<1>3. \A r \in S : d[r] = HeldToday[r]
  BY DEF Expired, HeldToday, Today, Refund
<1> HIDE DEF d, m, p, S
<1>4. SumFunctionOnSet(d, S) = SumFunctionOnSet(HeldToday, S)
  BY <1>2, <1>3, SumSame
<1>5. QED
  BY <1>1, <1>4 DEF Credited, AccountRow, S

\* What the runs in S no longer hold.
LEMMA ReleaseHeld ==
    ASSUME TypeOK, IsFiniteSet(Runs), NEW u, NEW S \in SUBSET OfUser(u)
    PROVE  LET D == [r \in Runs |-> IF r \in S THEN -HeldToday[r] ELSE 0]
           IN  /\ \A r \in Runs : D[r] \in Int
               /\ SumFunctionOnSet(D, OfUser(u)) = -SumFunctionOnSet(HeldToday, S)
               /\ SumFunctionOnSet(HeldToday, S) \in Int
<1> DEFINE D == [r \in Runs |-> IF r \in S THEN -HeldToday[r] ELSE 0]
<1>1. \A r \in Runs : HeldToday[r] \in Nat /\ D[r] \in Int
  BY HeldTodayType
<1>2. IsFiniteSet(OfUser(u)) /\ OfUser(u) \subseteq Runs /\ IsFiniteSet(S)
  BY FS_Subset DEF OfUser
<1>3. /\ \A r \in S : HeldToday[r] \in Int /\ D[r] = -HeldToday[r]
      /\ \A r \in OfUser(u) \ S : D[r] = 0
  BY <1>1, <1>2
<1> HIDE DEF D
<1>4. SumFunctionOnSet(D, OfUser(u)) = -SumFunctionOnSet(HeldToday, S)
  BY <1>2, <1>3, SumNegated
<1>5. SumFunctionOnSet(HeldToday, S) \in Int
  BY <1>2, <1>3, SumInt
<1>6. QED
  BY <1>1, <1>4, <1>5 DEF D

LEMMA StatusDaily ==
    ASSUME TypeOK, TypeOK', IsFiniteSet(Runs), NEW u \in Users, DailyOK(u), NEW r \in Runs,
           CreateRun(r) \/ AuthorizeClarification(r) \/ SettlePending(r)
    PROVE  DailyOK(u)'
<1>1. now' = now /\ account' = account
  BY DEF CreateRun, AuthorizeClarification, SettlePending
<1>2. run'[r].status \in {"pending", "released"} /\ \A s \in Runs \ {r} : run'[s] = run[s]
  <2>1. run \in [Runs -> RunRow] /\ run[r] \in RunRow
    BY DEF TypeOK
  <2>2. CASE CreateRun(r)
    BY <2>1, <2>2 DEF CreateRun, NoRun
  <2>3. CASE run' = [run EXCEPT ![r].status = "released"]
    BY <2>1, <2>3 DEF RunRow
  <2>4. QED
    BY <2>2, <2>3 DEF AuthorizeClarification, SettlePending
<1>3. \A s \in OfUser(u) : Today(s)' => Today(s) /\ run'[s].daily = run[s].daily
  BY <1>1, <1>2 DEF Today, OfUser, Day
<1>4. QED
  BY <1>1, <1>3, DailyQuiet

LEMMA SameRunsDaily ==
    ASSUME TypeOK, TypeOK', IsFiniteSet(Runs), NEW u \in Users, DailyOK(u),
           UNCHANGED <<now, run>>, account'[u] = account[u]
    PROVE  DailyOK(u)'
<1>1. \A s \in OfUser(u) : Today(s)' => Today(s) /\ run'[s].daily = run[s].daily
  BY DEF Today, OfUser, Day
<1>2. QED
  BY <1>1, DailyQuiet

\* Other users see nothing of it.
LEMMA OthersDaily ==
    ASSUME TypeOK, TypeOK', IsFiniteSet(Runs), NEW u \in Users, DailyOK(u),
           now' = now, account'[u] = account[u],
           \A s \in OfUser(u) : run'[s] = run[s]
    PROVE  DailyOK(u)'
<1>1. \A s \in OfUser(u) : Today(s)' => Today(s) /\ run'[s].daily = run[s].daily
  BY DEF Today, Day
<1>2. QED
  BY <1>1, DailyQuiet

LEMMA ViewAccountDaily ==
    ASSUME TypeOK, TypeOK', IsFiniteSet(Runs), NEW u \in Users, DailyOK(u),
           NEW v \in Users, ViewAccount(v)
    PROVE  DailyOK(u)'
<1> DEFINE S == Expired(v)
           E == Ensured(account[v])
<1>1. S \in SUBSET OfUser(v) /\ S \in SUBSET Runs
  BY ExpiredOfUser
<1>2. /\ now' = now /\ run' = ReleasedRuns(S)
      /\ account' = [account EXCEPT ![v] = Released(E, S)]
  BY DEF ViewAccount
<1>3. CASE u # v
  <2>1. account'[u] = account[u]
    BY <1>2, <1>3 DEF TypeOK
  <2>2. \A s \in OfUser(u) : run'[s] = run[s]
    BY <1>1, <1>2, <1>3 DEF OfUser, ReleasedRuns
  <2>3. QED
    BY <1>2, <2>1, <2>2, OthersDaily
<1>4. CASE u = v
  <2> DEFINE D == [r \in Runs |-> IF r \in S THEN -HeldToday[r] ELSE 0]
  <2>1. E \in AccountRow
    BY ResetGainType
  <2>2. account'[u] = Released(E, S)
    BY <1>2, <1>4 DEF TypeOK
  <2>3. /\ account'[u].daily = E.daily + SumFunctionOnSet(HeldToday, S)
        /\ account'[u].plan = E.plan /\ account'[u].dailyReset = E.dailyReset
    <3> HIDE DEF E
    <3>1. QED
      BY <2>1, <2>2, ReleasedDaily
  <2>4. /\ \A r \in Runs : D[r] \in Int
        /\ SumFunctionOnSet(D, OfUser(v)) = -SumFunctionOnSet(HeldToday, S)
        /\ SumFunctionOnSet(HeldToday, S) \in Int
    BY <1>1, ReleaseHeld
  <2>5. E.plan = 0 /\ E.dailyReset = Day(now) /\ E.daily \in Nat
    BY <1>4, <2>1, EnsuredDaily DEF AccountRow
  <2>6. ASSUME NEW r \in OfUser(u) PROVE HeldToday'[r] <= HeldToday[r] + D[r]
    <3>1. r \in Runs
      BY DEF OfUser
    <3>2. HeldToday[r] \in Nat /\ HeldToday[r] = IF Today(r) THEN run[r].daily ELSE 0
      BY <3>1, HeldTodayType
    <3>3. HeldToday'[r] = IF Today(r)' THEN run'[r].daily ELSE 0
      BY <3>1 DEF HeldToday
    <3>4. CASE r \in S
      <4>1. run'[r].status = "released"
        BY <1>1, <1>2, <3>1, <3>4, ReleasedRow
      <4>2. HeldToday'[r] = 0
        BY <3>3, <4>1 DEF Today
      <4>3. D[r] = -HeldToday[r]
        BY <3>1, <3>4
      <4> HIDE DEF D
      <4>4. QED
        BY <3>2, <4>2, <4>3
    <3>5. CASE r \notin S
      <4>1. run'[r] = run[r]
        BY <1>1, <1>2, <3>1, <3>5, ReleasedRow
      <4>2. HeldToday'[r] = HeldToday[r]
        BY <1>2, <3>2, <3>3, <4>1 DEF Today, Day
      <4>3. D[r] = 0
        BY <3>1, <3>5
      <4> HIDE DEF D
      <4>4. QED
        BY <3>2, <4>2, <4>3
    <3>6. QED
      BY <3>4, <3>5
  <2>7. \A r \in OfUser(u) : D[r] \in Int
    BY <2>4 DEF OfUser
  <2> HIDE DEF D, E, S
  <2>8. account'[u].daily + SumFunctionOnSet(D, OfUser(u)) <= E.daily
    BY <1>4, <2>3, <2>4, <2>5
  <2>9. QED
    BY <1>2, <1>4, <2>3, <2>5, <2>6, <2>7, <2>8, DailyMove DEF E
<1>5. QED
  BY <1>3, <1>4

LEMMA AuthorizeDaily ==
    ASSUME TypeOK, TypeOK', HoldsAddUp, IsFiniteSet(Runs), NEW u \in Users, DailyOK(u),
           NEW e \in Runs, Authorize(e)
    PROVE  DailyOK(u)'
<1> DEFINE v == Owner[e]
           S == Expired(v)
           E == Ensured(account[v])
           a == Released(E, S)
<1>1. v \in Users /\ S \in SUBSET OfUser(v) /\ S \in SUBSET Runs /\ e \in OfUser(v)
  BY BillingAssumption, ExpiredOfUser DEF OfUser
<1>2. PICK q \in Quotes :
         /\ q.reserve <= Total(a)
         /\ account' = [account EXCEPT ![v] = Debited(a, Breakdown(a, q.reserve))]
         /\ run' = [ReleasedRuns(S) EXCEPT ![e] =
               [@ EXCEPT !.status = "authorized", !.reserved = q.reserve,
                         !.daily = Breakdown(a, q.reserve).daily,
                         !.monthly = Breakdown(a, q.reserve).monthly,
                         !.permanent = Breakdown(a, q.reserve).permanent,
                         !.base = q.base, !.expires = now + TTL]]
  BY DEF Authorize
<1>3. now' = now /\ a \in AccountRow /\ run[e].status = "pending"
  BY DEF Authorize
<1>4. e \notin S
  BY <1>3 DEF Expired
<1>5. ReleasedRuns(S) \in [Runs -> RunRow]
  BY <1>1, ReleasedRunsType
<1>6. E \in AccountRow
  BY <1>1, ResetGainType
<1> DEFINE b == Breakdown(a, q.reserve)
<1>7. b.daily \in Nat
  <2>1. q.reserve \in Nat
    BY BillingAssumption
  <2>2. a.daily \in Nat /\ a.monthly \in Nat /\ a.permanent \in Nat
    BY <1>3 DEF AccountRow
  <2> HIDE DEF a
  <2>3. QED
    BY <1>2, <2>1, <2>2, BreakdownExact
<1> HIDE DEF b, S, a, E, v
<1>8. run'[e].daily = b.daily /\ \A s \in Runs \ {e} : run'[s] = ReleasedRuns(S)[s]
  BY <1>2, <1>5 DEF RunRow, b
<1>9. CASE u # v
  <2>1. account'[u] = account[u]
    BY <1>2, <1>9 DEF TypeOK
  <2>2. \A s \in OfUser(u) : run'[s] = run[s]
    BY <1>1, <1>8, <1>9 DEF OfUser, ReleasedRuns
  <2>3. QED
    BY <1>3, <2>1, <2>2, OthersDaily
<1>10. CASE u = v
  <2> DEFINE D0 == [r \in Runs |-> IF r \in S THEN -HeldToday[r] ELSE 0]
             D == [r \in Runs |-> IF r = e THEN b.daily ELSE D0[r]]
  <2>1. account'[u] = Debited(a, b)
    BY <1>1, <1>2, <1>10 DEF TypeOK, b
  <2>2. /\ a.daily = E.daily + SumFunctionOnSet(HeldToday, S)
        /\ a.plan = E.plan /\ a.dailyReset = E.dailyReset
    BY <1>6, ReleasedDaily DEF a, S
  <2>3. /\ account'[u].daily = a.daily - b.daily
        /\ account'[u].plan = a.plan /\ account'[u].dailyReset = a.dailyReset
    BY <1>3, <2>1 DEF Debited, AccountRow
  <2>4. /\ \A r \in Runs : D0[r] \in Int
        /\ SumFunctionOnSet(D0, OfUser(v)) = -SumFunctionOnSet(HeldToday, S)
        /\ SumFunctionOnSet(HeldToday, S) \in Int
    BY <1>1, ReleaseHeld
  <2>5. E.plan = 0 /\ E.dailyReset = Day(now) /\ E.daily \in Nat
    BY <1>1, <1>6, <1>10, EnsuredDaily DEF AccountRow, E
  <2>6. SumFunctionOnSet(D, OfUser(v)) = b.daily - SumFunctionOnSet(HeldToday, S)
    <3>1. IsFiniteSet(OfUser(v))
      BY FS_Subset DEF OfUser
    <3>2. /\ \A s \in OfUser(v) : D0[s] \in Int /\ D[s] \in Int
          /\ \A s \in OfUser(v) \ {e} : D0[s] = D[s]
          /\ D0[e] = 0 /\ D[e] = b.daily
      BY <1>1, <1>4, <1>7, <2>4 DEF OfUser
    <3> HIDE DEF D0, D
    <3>3. SumFunctionOnSet(D, OfUser(v)) = SumFunctionOnSet(D0, OfUser(v)) + (D[e] - D0[e])
      BY <1>1, <3>1, <3>2, SumChange
    <3>4. QED
      BY <1>7, <2>4, <3>2, <3>3
  <2>7. ASSUME NEW r \in OfUser(u) PROVE HeldToday'[r] <= HeldToday[r] + D[r]
    <3>1. r \in Runs
      BY DEF OfUser
    <3>2. HeldToday[r] \in Nat /\ HeldToday[r] = IF Today(r) THEN run[r].daily ELSE 0
      BY <3>1, HeldTodayType
    <3>3. HeldToday'[r] = IF Today(r)' THEN run'[r].daily ELSE 0
      BY <3>1 DEF HeldToday
    <3>4. CASE r = e
      <4>1. D[r] = b.daily
        BY <3>1, <3>4
      <4> HIDE DEF D
      <4>2. QED
        BY <1>7, <1>8, <3>2, <3>3, <3>4, <4>1
    <3>5. CASE r # e /\ r \in S
      <4>1. run'[r].status = "released"
        BY <1>1, <1>8, <3>1, <3>5, ReleasedRow
      <4>2. HeldToday'[r] = 0
        BY <3>3, <4>1 DEF Today
      <4>3. D[r] = -HeldToday[r]
        BY <3>1, <3>5
      <4> HIDE DEF D
      <4>4. QED
        BY <3>2, <4>2, <4>3
    <3>6. CASE r # e /\ r \notin S
      <4>1. run'[r] = run[r]
        BY <1>1, <1>8, <3>1, <3>6, ReleasedRow
      <4>2. HeldToday'[r] = HeldToday[r]
        BY <1>3, <3>2, <3>3, <4>1 DEF Today, Day
      <4>3. D[r] = 0
        BY <3>1, <3>6
      <4> HIDE DEF D
      <4>4. QED
        BY <3>2, <4>2, <4>3
    <3>7. QED
      BY <3>4, <3>5, <3>6
  <2>8. \A r \in OfUser(u) : D[r] \in Int
    BY <1>7, <2>4 DEF OfUser
  <2> HIDE DEF D, D0
  <2>9. account'[u].daily + SumFunctionOnSet(D, OfUser(u)) <= E.daily
    BY <1>7, <1>10, <2>2, <2>3, <2>4, <2>5, <2>6
  <2>10. account'[u].plan = 0 /\ account'[u].dailyReset = Day(now)
         /\ Ensured(account[u]).daily = E.daily
    BY <1>10, <2>2, <2>3, <2>5 DEF E
  <2>11. QED
    BY <1>3, <2>7, <2>8, <2>9, <2>10, DailyMove
<1>11. QED
  BY <1>9, <1>10

\* One run of the user moves d daily points.
LEMMA OneRunDaily ==
    ASSUME TypeOK, TypeOK', IsFiniteSet(Runs), NEW u \in Users, DailyOK(u),
           NEW e \in Runs, NEW d \in Int, now' = now,
           \A s \in Runs \ {e} : run'[s] = run[s],
           \A v \in Users \ {Owner[e]} : account'[v] = account[v],
           u = Owner[e] => /\ account'[u].plan = Ensured(account[u]).plan
                           /\ account'[u].dailyReset = Ensured(account[u]).dailyReset
                           /\ account'[u].daily + d <= Ensured(account[u]).daily
                           /\ HeldToday'[e] <= HeldToday[e] + d
    PROVE  DailyOK(u)'
<1>1. CASE u # Owner[e]
  <2>1. \A s \in OfUser(u) : run'[s] = run[s]
    BY <1>1 DEF OfUser
  <2>2. QED
    BY <1>1, <2>1, OthersDaily
<1>2. CASE u = Owner[e]
  <2> DEFINE D == [r \in Runs |-> IF r = e THEN d ELSE 0]
  <2>1. IsFiniteSet(OfUser(u)) /\ e \in OfUser(u)
    BY <1>2, FS_Subset DEF OfUser
  <2>2. /\ \A r \in OfUser(u) : D[r] \in Int
        /\ D[e] = d /\ \A r \in OfUser(u) \ {e} : D[r] = 0
    BY DEF OfUser
  <2>3. SumFunctionOnSet(D, OfUser(u)) = d
    <3> HIDE DEF D
    <3>1. QED
      BY <2>1, <2>2, SumSingle
  <2>4. ASSUME NEW r \in OfUser(u) PROVE HeldToday'[r] <= HeldToday[r] + D[r]
    <3>1. CASE r = e
      BY <1>2, <2>2, <3>1
    <3>2. CASE r # e
      <4>1. r \in Runs /\ run'[r] = run[r]
        BY <3>2 DEF OfUser
      <4>2. HeldToday'[r] = HeldToday[r] /\ HeldToday[r] \in Nat
        <5>1. HeldToday[r] \in Nat
          BY <4>1, HeldTodayType
        <5>2. QED
          BY <4>1, <5>1 DEF HeldToday, Today, Day
      <4>3. D[r] = 0
        BY <2>2, <3>2
      <4> HIDE DEF D
      <4>4. QED
        BY <4>2, <4>3
    <3>3. QED
      BY <3>1, <3>2
  <2>5. Ensured(account[u]).plan = 0 /\ Ensured(account[u]).dailyReset = Day(now)
    BY EnsuredDaily
  <2> HIDE DEF D
  <2>6. QED
    BY <1>2, <2>2, <2>3, <2>4, <2>5, DailyMove
<1>3. QED
  BY <1>1, <1>2

LEMMA ReserveToolDaily ==
    ASSUME TypeOK, TypeOK', IsFiniteSet(Runs), NEW u \in Users, DailyOK(u),
           NEW e \in Runs, NEW c \in Calls, ReserveTool(e, c)
    PROVE  DailyOK(u)'
<1> DEFINE v == Owner[e]
           a == Ensured(account[v])
<1>1. v \in Users
  BY BillingAssumption
<1>2. a \in AccountRow
  BY <1>1, ResetGainType
<1>3. PICK n \in ToolQuotes :
         /\ n <= Total(a)
         /\ account' = [account EXCEPT ![v] = Debited(a, Breakdown(a, n))]
         /\ run' = [run EXCEPT ![e] =
               [run[e] EXCEPT !.reserved = @ + n, !.daily = @ + Breakdown(a, n).daily,
                         !.monthly = @ + Breakdown(a, n).monthly,
                         !.permanent = @ + Breakdown(a, n).permanent,
                         !.expires = now + TTL]]
  BY DEF ReserveTool
<1> DEFINE b == Breakdown(a, n)
<1>4. b.daily \in Nat
  <2>1. n \in Nat
    BY BillingAssumption
  <2>2. a.daily \in Nat /\ a.monthly \in Nat /\ a.permanent \in Nat
    BY <1>2 DEF AccountRow
  <2> HIDE DEF a
  <2>3. QED
    BY <1>3, <2>1, <2>2, BreakdownExact
<1>5. now' = now
  BY DEF ReserveTool
<1> HIDE DEF a, b
<1>6. account'[v] = Debited(a, b) /\ \A w \in Users \ {v} : account'[w] = account[w]
  BY <1>1, <1>3 DEF TypeOK, b
<1>7. /\ account'[v].plan = a.plan /\ account'[v].dailyReset = a.dailyReset
      /\ account'[v].daily = a.daily - b.daily
  BY <1>2, <1>6 DEF Debited, AccountRow
<1>8. /\ run'[e].status = run[e].status /\ run'[e].created = run[e].created
      /\ run'[e].daily = run[e].daily + b.daily
      /\ run[e].daily \in Nat
      /\ \A s \in Runs \ {e} : run'[s] = run[s]
  BY <1>3 DEF TypeOK, RunRow, b
<1>9. HeldToday'[e] <= HeldToday[e] + b.daily
  <2>1. HeldToday'[e] = IF Today(e)' THEN run'[e].daily ELSE 0
    BY DEF HeldToday
  <2>2. HeldToday[e] = IF Today(e) THEN run[e].daily ELSE 0
    BY DEF HeldToday
  <2>3. Today(e)' <=> Today(e)
    BY <1>5, <1>8 DEF Today, Day
  <2>4. QED
    BY <1>4, <1>8, <2>1, <2>2, <2>3
<1>10. a.daily \in Nat
  BY <1>2 DEF AccountRow
<1>11. account'[v].daily + b.daily <= a.daily
  BY <1>4, <1>7, <1>10
<1>12. QED
  BY <1>4, <1>5, <1>6, <1>7, <1>8, <1>9, <1>11, OneRunDaily DEF a

LEMMA SettleDaily ==
    ASSUME TypeOK, TypeOK', HoldsAddUp, IsFiniteSet(Runs), NEW u \in Users, DailyOK(u),
           NEW e \in Runs, NEW o \in Outcomes, Settle(e, o)
    PROVE  DailyOK(u)'
<1> DEFINE v == Owner[e]
           a == Ensured(account[v])
           n == Billed(e, o)
           back == Unused(e, n)
           base == IF o = "success" THEN run[e].base ELSE 0
           r == Refund(back, run[e].created)
<1>1. v \in Users
  BY BillingAssumption
<1>2. a \in AccountRow
  BY <1>1, ResetGainType
<1>3. n \in Nat /\ n <= run[e].reserved
  BY ChargeType
<1>4. back.daily \in Nat /\ back.daily <= run[e].daily
  <2>1. back.daily \in Nat
    BY <1>3, UnusedType
  <2>2. /\ run[e].daily \in Nat /\ run[e].monthly \in Nat /\ run[e].permanent \in Nat
        /\ run[e].reserved = run[e].daily + run[e].monthly + run[e].permanent
    BY DEF TypeOK, RunRow, HoldsAddUp
  <2>3. n <= Total(run[e])
    BY <1>3, <2>2 DEF Total
  <2>4. Breakdown(run[e], n).daily \in 0 .. run[e].daily
    <3> HIDE DEF n
    <3>1. QED
      BY <1>3, <2>2, <2>3, BreakdownExact
  <2>5. back.daily = run[e].daily - Breakdown(run[e], n).daily
    BY DEF Unused
  <2> HIDE DEF back, n
  <2>6. QED
    BY <2>1, <2>2, <2>4, <2>5
<1>5. /\ account' = [account EXCEPT ![v] = Credited(a, r)]
      /\ run' = [run EXCEPT ![e] = [run[e] EXCEPT !.status = FinalStatus(n, o),
                                                  !.actual = n, !.base = base]]
      /\ now' = now
  BY DEF Settle
<1>6. r.daily = IF Day(run[e].created) = Day(now) THEN back.daily ELSE 0
  BY DEF Refund
<1> HIDE DEF a, n, back, base, r
<1>7. account'[v] = Credited(a, r) /\ \A w \in Users \ {v} : account'[w] = account[w]
  BY <1>1, <1>5 DEF TypeOK
<1>8. /\ account'[v].plan = a.plan /\ account'[v].dailyReset = a.dailyReset
      /\ account'[v].daily = a.daily + r.daily /\ a.daily \in Nat
  BY <1>2, <1>7 DEF Credited, AccountRow
<1>9. /\ run'[e].status = FinalStatus(n, o)
      /\ \A s \in Runs \ {e} : run'[s] = run[s]
  BY <1>5 DEF TypeOK, RunRow
<1>10. HeldToday'[e] = 0
  BY <1>9 DEF HeldToday, Today, FinalStatus
<1>11. r.daily <= HeldToday[e] /\ r.daily \in Nat /\ HeldToday[e] \in Nat
  <2>1. run[e].status = "authorized"
    BY DEF Settle, MaySettle
  <2>2. HeldToday[e] = (IF Today(e) THEN run[e].daily ELSE 0) /\ HeldToday[e] \in Nat
    BY HeldTodayType
  <2>3. QED
    BY <1>4, <1>6, <2>1, <2>2 DEF Today
<1> DEFINE d == -r.daily
<1>12. /\ d \in Int /\ HeldToday'[e] <= HeldToday[e] + d
       /\ account'[v].daily + d <= a.daily
  BY <1>8, <1>10, <1>11
<1> HIDE DEF d
<1>13. QED
  BY <1>5, <1>7, <1>8, <1>9, <1>12, OneRunDaily DEF a

LEMMA AccountDaily ==
    ASSUME TypeOK, TypeOK', IsFiniteSet(Runs), NEW u \in Users, DailyOK(u), FreeUser(u)',
           NEW v \in Users,
           \/ TouchAccount(v)
           \/ \E i \in Invites : UpgradePlan(v, i) \/ TopUp(v, i)
           \/ \E n \in Adjustments : Adjust(v, n)
    PROVE  DailyOK(u)'
<1> DEFINE a == Ensured(account[u])
<1>1. UNCHANGED <<now, run>> /\ account \in [Users -> AccountRow]
  BY DEF TouchAccount, UpgradePlan, TopUp, Adjust, TypeOK
<1>2. CASE u # v
  <2>1. account'[u] = account[u]
    BY <1>1, <1>2 DEF TouchAccount, UpgradePlan, TopUp, Adjust
  <2>2. QED
    BY <1>1, <2>1, SameRunsDaily
<1>3. CASE u = v
  <2>1. a \in AccountRow /\ a.plan = 0 /\ a.dailyReset = Day(now)
    BY ResetGainType, EnsuredDaily
  <2>2. ~ \E i \in Invites : UpgradePlan(u, i)
    <3>1. SUFFICES ASSUME NEW i \in Invites, UpgradePlan(u, i) PROVE FALSE
      OBVIOUS
    <3>2. invite'[i] = u /\ InvitePlan[i] > a.plan
      BY <3>1 DEF UpgradePlan, TypeOK
    <3> HIDE DEF a
    <3>3. InvitePlan[i] # 0
      BY <2>1, <3>2
    <3>4. QED
      BY <3>2, <3>3 DEF FreeUser
  <2>3. /\ account'[u].daily = a.daily /\ account'[u].plan = a.plan
        /\ account'[u].dailyReset = a.dailyReset
    <3>1. CASE TouchAccount(u)
      BY <1>1, <3>1 DEF TouchAccount
    <3>2. ASSUME NEW n, account' = [account EXCEPT ![u] = [a EXCEPT !.permanent = @ + n]]
          PROVE  /\ account'[u].daily = a.daily /\ account'[u].plan = a.plan
                 /\ account'[u].dailyReset = a.dailyReset
      <4> HIDE DEF a
      <4>1. QED
        BY <1>1, <2>1, <3>2 DEF AccountRow
    <3>3. QED
      BY <1>3, <2>2, <3>1, <3>2 DEF TopUp, Adjust
  <2> DEFINE D == [r \in Runs |-> 0]
  <2>4. SumFunctionOnSet(D, OfUser(u)) = 0
    BY FS_Subset, SumZero DEF OfUser
  <2>5. \A r \in OfUser(u) : D[r] \in Int /\ HeldToday'[r] <= HeldToday[r] + D[r]
    <3>1. \A r \in Runs : D[r] = 0
      OBVIOUS
    <3>2. HeldToday \in [Runs -> Nat]
      BY HeldTodayType
    <3>3. HeldToday' = HeldToday
      BY <1>1 DEF HeldToday, Today, Day
    <3> HIDE DEF D
    <3>4. QED
      BY <3>1, <3>2, <3>3 DEF OfUser
  <2>6. a.daily \in Nat
    BY <2>1 DEF AccountRow
  <2> HIDE DEF D, a
  <2>7. account'[u].daily + SumFunctionOnSet(D, OfUser(u)) <= a.daily
    BY <2>3, <2>4, <2>6
  <2>8. QED
    BY <1>1, <2>1, <2>3, <2>5, <2>7, DailyMove DEF a
<1>4. QED
  BY <1>2, <1>3

LEMMA TickDaily ==
    ASSUME TypeOK, TypeOK', IsFiniteSet(Runs), CreatedOK, NEW u \in Users, DailyOK(u), Tick
    PROVE  DailyOK(u)'
<1>1. /\ now \in Nat /\ now' \in Nat /\ now <= now'
      /\ account' = account /\ run' = run
  BY DEF TypeOK, Tick
<1>2. Day(now)' = Day(now')
  BY DEF Day
<1>3. Day(now) \in Nat /\ Day(now') \in Nat /\ Day(now) <= Day(now')
  BY <1>1, PeriodType, DayMonotone
<1>4. account[u].dailyReset \in Nat
  BY DEF TypeOK, AccountRow
<1>5. CASE Day(now') = Day(now)
  <2>1. HeldToday' = HeldToday /\ \A r \in Runs : Today(r)' <=> Today(r)
    BY <1>1, <1>2, <1>5 DEF HeldToday, Today, Day
  <2>2. QED
    BY <1>1, <1>2, <1>5, <2>1 DEF DailyOK, OfUser
<1>6. CASE Day(now') # Day(now)
  <2>1. ASSUME NEW r \in Runs, Today(r)' PROVE FALSE
    <3>1. run[r].created \in Nat /\ run[r].created <= now
      BY DEF TypeOK, RunRow, CreatedOK
    <3>2. Day(run[r].created) <= Day(now) /\ Day(run[r].created) \in Nat
      BY <1>1, <3>1, DayMonotone, PeriodType
    <3>3. Day(run[r].created) = Day(now')
      BY <1>1, <2>1 DEF Today, Day
    <3>4. QED
      BY <1>3, <1>6, <3>2, <3>3
  <2>2. account'[u].dailyReset <= Day(now)' /\ account'[u].dailyReset # Day(now)'
    BY <1>1, <1>2, <1>3, <1>4, <1>6 DEF DailyOK
  <2>3. account'[u].plan = 0
    BY <1>1 DEF DailyOK
  <2>4. QED
    BY <2>1, <2>2, <2>3 DEF DailyOK, OfUser
<1>7. QED
  BY <1>5, <1>6

\* The steps of a run neither redeem a code nor move the clock, and of the
\* steps of an account only the redemptions change a code.
LEMMA RunKeeps ==
    ASSUME RunNext
    PROVE  invite' = invite /\ now' = now
<1>1. PICK r \in Runs :
        \/ CreateRun(r)
        \/ AuthorizeClarification(r)
        \/ Authorize(r)
        \/ \E c \in Calls : ReserveTool(r, c) \/ RecordTool(r, c)
        \/ \E t \in Turns : RecordModel(r, t)
        \/ SettleReadsPending(r)
        \/ SettlePending(r)
        \/ \E o \in Outcomes : Settle(r, o)
  BY Zenon DEF RunNext
<1>2. CASE CreateRun(r)
  BY <1>2, Zenon DEF CreateRun
<1>3. CASE AuthorizeClarification(r)
  BY <1>3, Zenon DEF AuthorizeClarification
<1>4. CASE Authorize(r)
  BY <1>4, Zenon DEF Authorize
<1>5. CASE \E c \in Calls : ReserveTool(r, c) \/ RecordTool(r, c)
  BY <1>5, Zenon DEF ReserveTool, RecordTool
<1>6. CASE \E t \in Turns : RecordModel(r, t)
  BY <1>6, Zenon DEF RecordModel
<1>7. CASE SettleReadsPending(r)
  BY <1>7, Zenon DEF SettleReadsPending
<1>8. CASE SettlePending(r)
  BY <1>8, Zenon DEF SettlePending
<1>9. CASE \E o \in Outcomes : Settle(r, o)
  BY <1>9, Zenon DEF Settle
<1>10. QED
  BY <1>1, <1>2, <1>3, <1>4, <1>5, <1>6, <1>7, <1>8, <1>9

LEMMA AccountKeeps ==
    ASSUME AccountNext
    PROVE  /\ now' = now
           /\ \/ invite' = invite
              \/ \E u \in Users, i \in Invites : UpgradePlan(u, i) \/ TopUp(u, i)
<1>1. PICK u \in Users :
        \/ ViewAccount(u)
        \/ TouchAccount(u)
        \/ \E i \in Invites : UpgradePlan(u, i) \/ TopUp(u, i)
        \/ \E n \in Adjustments : Adjust(u, n)
  BY Zenon DEF AccountNext
<1>2. CASE ViewAccount(u)
  BY <1>2, Zenon DEF ViewAccount
<1>3. CASE TouchAccount(u)
  BY <1>3, Zenon DEF TouchAccount
<1>4. CASE \E i \in Invites : UpgradePlan(u, i) \/ TopUp(u, i)
  BY <1>4, Zenon DEF UpgradePlan, TopUp
<1>5. CASE \E n \in Adjustments : Adjust(u, n)
  BY <1>5, Zenon DEF Adjust
<1>6. QED
  BY <1>1, <1>2, <1>3, <1>4, <1>5

LEMMA InviteKept ==
    ASSUME TypeOK, [Next]_vars, NEW i \in Invites, invite[i] # NoUser
    PROVE  invite'[i] = invite[i]
<1>1. CASE UNCHANGED invite
  BY <1>1
<1>2. ASSUME NEW u \in Users, NEW j \in Invites, UpgradePlan(u, j) \/ TopUp(u, j)
      PROVE  invite'[i] = invite[i]
  <2>1. invite[j] = NoUser /\ invite' = [invite EXCEPT ![j] = u]
    BY <1>2 DEF UpgradePlan, TopUp, Redeemable
  <2>2. QED
    BY <2>1
<1>3. CASE RunNext
  BY <1>1, <1>3, RunKeeps
<1>4. CASE AccountNext
  BY <1>1, <1>2, <1>4, AccountKeeps
<1>5. CASE Tick \/ UNCHANGED vars
  BY <1>1, <1>5 DEF Tick, vars
<1>6. QED
  BY <1>3, <1>4, <1>5 DEF Next

LEMMA FreeBefore ==
    ASSUME TypeOK, [Next]_vars, NEW u \in Users, FreeUser(u)'
    PROVE  FreeUser(u)
<1>1. u # NoUser
  BY BillingAssumption
<1>2. QED
  BY <1>1, InviteKept DEF FreeUser

LEMMA CreatedKept ==
    ASSUME TypeOK, TypeOK', CreatedOK, [Next]_vars
    PROVE  CreatedOK'
<1>1. now \in Nat /\ now' \in Nat /\ now <= now'
  <2>1. CASE RunNext
    BY <2>1, RunKeeps DEF TypeOK
  <2>2. CASE AccountNext
    BY <2>2, AccountKeeps DEF TypeOK
  <2>3. CASE Tick \/ UNCHANGED vars
    BY <2>3 DEF Tick, vars, TypeOK
  <2>4. QED
    BY <2>1, <2>2, <2>3 DEF Next
<1>2. ASSUME NEW s \in Runs
      PROVE  run'[s].created = run[s].created \/ run'[s].created = now
  <2>1. run \in [Runs -> RunRow] /\ run[s] \in RunRow
    BY DEF TypeOK
  <2>2. CASE run' = run
    BY <2>2
  <2>3. CASE RunNext
    <3>1. PICK r \in Runs :
            \/ CreateRun(r)
            \/ AuthorizeClarification(r) \/ SettlePending(r)
            \/ Authorize(r)
            \/ \E c \in Calls : ReserveTool(r, c)
            \/ \E o \in Outcomes : Settle(r, o)
            \/ run' = run
      BY <2>3 DEF RunNext, SettleReadsPending, RecordTool, RecordModel
    <3>2. CASE CreateRun(r)
      BY <2>1, <3>2 DEF CreateRun, NoRun
    <3>3. CASE AuthorizeClarification(r) \/ SettlePending(r)
      BY <2>1, <3>3 DEF AuthorizeClarification, SettlePending, RunRow
    <3>4. CASE Authorize(r)
      <4> DEFINE S == Expired(Owner[r])
      <4>1. S \in SUBSET Runs
        BY ExpiredOfUser
      <4>2. ReleasedRuns(S) \in [Runs -> RunRow]
        BY <4>1, ReleasedRunsType
      <4>3. ReleasedRuns(S)[s].created = run[s].created
        BY <4>1, ReleasedRow
      <4> DEFINE b(q) == Breakdown(Released(Ensured(account[Owner[r]]), S), q.reserve)
      <4>4. PICK q \in Quotes :
              run' = [ReleasedRuns(S) EXCEPT ![r] =
                [@ EXCEPT !.status = "authorized", !.reserved = q.reserve,
                          !.daily = b(q).daily, !.monthly = b(q).monthly,
                          !.permanent = b(q).permanent, !.base = q.base,
                          !.expires = now + TTL]]
        BY <3>4 DEF Authorize
      <4> HIDE DEF S, b
      <4>5. QED
        BY <4>2, <4>3, <4>4 DEF RunRow
    <3>5. CASE \E c \in Calls : ReserveTool(r, c)
      <4> DEFINE b(n) == Breakdown(Ensured(account[Owner[r]]), n)
      <4>1. PICK n \in ToolQuotes :
              run' = [run EXCEPT ![r] =
                [run[r] EXCEPT !.reserved = @ + n, !.daily = @ + b(n).daily,
                               !.monthly = @ + b(n).monthly,
                               !.permanent = @ + b(n).permanent, !.expires = now + TTL]]
        BY <3>5 DEF ReserveTool
      <4> HIDE DEF b
      <4>2. QED
        BY <2>1, <4>1 DEF RunRow, TypeOK
    <3>6. CASE \E o \in Outcomes : Settle(r, o)
      <4> DEFINE base(o) == IF o = "success" THEN run[r].base ELSE 0
      <4>1. PICK o \in Outcomes : run' = [run EXCEPT ![r] =
                [run[r] EXCEPT !.status = FinalStatus(Billed(r, o), o),
                               !.actual = Billed(r, o), !.base = base(o)]]
        BY <3>6 DEF Settle
      <4> HIDE DEF base
      <4>2. QED
        BY <2>1, <4>1 DEF RunRow, TypeOK
    <3>7. QED
      BY <2>2, <3>1, <3>2, <3>3, <3>4, <3>5, <3>6
  <2>4. ASSUME NEW u \in Users, ViewAccount(u)
        PROVE  run'[s].created = run[s].created
    BY <2>4, ExpiredOfUser, ReleasedRow DEF ViewAccount
  <2>5. QED
    BY <2>2, <2>3, <2>4
       DEF Next, AccountNext, TouchAccount, UpgradePlan, TopUp, Adjust, Tick, vars
<1>3. \A s \in Runs : run[s].created \in Nat
  BY DEF TypeOK, RunRow
<1>4. QED
  BY <1>1, <1>2, <1>3 DEF CreatedOK

LEMMA DailyKept ==
    ASSUME TypeOK, TypeOK', HoldsAddUp, IsFiniteSet(Runs), DailyInv, [Next]_vars
    PROVE  DailyInv'
<1>1. CreatedOK'
  BY CreatedKept DEF DailyInv
<1>2. ASSUME NEW u \in Users, FreeUser(u)' PROVE DailyOK(u)'
  <2>1. DailyOK(u) /\ CreatedOK
    BY <1>2, FreeBefore DEF DailyInv
  <2>2. CASE UNCHANGED <<now, account, run>>
    BY <2>1, <2>2, SameRunsDaily
  <2>3. CASE RunNext
    <3>1. PICK r \in Runs :
            \/ CreateRun(r) \/ AuthorizeClarification(r) \/ SettlePending(r)
            \/ Authorize(r)
            \/ \E c \in Calls : ReserveTool(r, c)
            \/ \E o \in Outcomes : Settle(r, o)
            \/ UNCHANGED <<now, account, run>>
      BY <2>3 DEF RunNext, SettleReadsPending, RecordTool, RecordModel
    <3>2. CASE CreateRun(r) \/ AuthorizeClarification(r) \/ SettlePending(r)
      BY <2>1, <3>2, StatusDaily
    <3>3. CASE Authorize(r)
      BY <2>1, <3>3, AuthorizeDaily
    <3>4. CASE \E c \in Calls : ReserveTool(r, c)
      BY <2>1, <3>4, ReserveToolDaily
    <3>5. CASE \E o \in Outcomes : Settle(r, o)
      BY <2>1, <3>5, SettleDaily
    <3>6. QED
      BY <2>2, <3>1, <3>2, <3>3, <3>4, <3>5
  <2>4. CASE AccountNext
    <3>1. PICK v \in Users :
            \/ ViewAccount(v)
            \/ TouchAccount(v)
            \/ \E i \in Invites : UpgradePlan(v, i) \/ TopUp(v, i)
            \/ \E n \in Adjustments : Adjust(v, n)
      BY <2>4 DEF AccountNext
    <3>2. CASE ViewAccount(v)
      BY <2>1, <3>2, ViewAccountDaily
    <3>3. CASE ~ViewAccount(v)
      BY <1>2, <2>1, <3>1, <3>3, AccountDaily
    <3>4. QED
      BY <3>2, <3>3
  <2>5. CASE Tick
    BY <2>1, <2>5, TickDaily
  <2>6. QED
    BY <2>2, <2>3, <2>4, <2>5 DEF Next, vars
<1>3. QED
  BY <1>1, <1>2 DEF DailyInv

LEMMA DailyInit ==
    ASSUME IsFiniteSet(Runs), Init
    PROVE  DailyInv
<1>1. \A r \in Runs : run[r].created <= now
  BY DEF Init, NoRun
<1>2. 0 \div DayLength = 0
  BY BillingAssumption
<1>3. ASSUME NEW u \in Users PROVE DailyOK(u)
  <2>1. \A r \in OfUser(u) : HeldToday[r] = 0 /\ ~Today(r)
    BY DEF HeldToday, Today, OfUser, Init, NoRun
  <2>2. SumFunctionOnSet(HeldToday, OfUser(u)) = 0
    BY <2>1, FS_Subset, SumZero DEF OfUser
  <2>3. DailyQuota[0] \in Nat
    BY BillingAssumption DEF Plans
  <2>4. /\ account[u].plan = 0 /\ account[u].dailyReset = 0
        /\ account[u].daily = DailyQuota[0]
    BY DEF Init, NewAccount
  <2>5. Day(now) = 0
    BY <1>2 DEF Init, Day
  <2>6. QED
    BY <2>1, <2>2, <2>3, <2>4, <2>5 DEF DailyOK
<1>4. QED
  BY <1>1, <1>3 DEF DailyInv, CreatedOK

\* What a user on the free plan has left today and what today's runs hold of
\* the daily bucket stays within the quota: a refund, an expiry or a release
\* never makes daily points out of those of another day.
THEOREM DailyPointsAreBounded ==
    ASSUME IsFiniteSet(Runs)
    PROVE  Spec => []DailyWithinQuota
<1>1. Init => TypeOK /\ HoldsAddUp /\ DailyInv
  BY InitType, DailyInit DEF Init, NoRun, HoldsAddUp
<1>2. TypeOK /\ HoldsAddUp /\ DailyInv /\ [Next]_vars
        => (TypeOK /\ HoldsAddUp /\ DailyInv)'
  BY HoldStep, DailyKept
<1>3. TypeOK /\ HoldsAddUp /\ DailyInv => DailyWithinQuota
  <2> SUFFICES ASSUME TypeOK, DailyInv, NEW u \in Users, FreeUser(u)
               PROVE  Ensured(account[u]).daily +
                        SumFunctionOnSet([r \in Runs |-> run[r].daily],
                          {r \in Runs : /\ Owner[r] = u
                                        /\ run[r].status = "authorized"
                                        /\ Day(run[r].created) = Day(now)})
                          <= DailyQuota[0]
    BY DEF DailyWithinQuota, FreeUser
  <2> DEFINE T == {r \in Runs : /\ Owner[r] = u
                                /\ run[r].status = "authorized"
                                /\ Day(run[r].created) = Day(now)}
             f == [r \in Runs |-> run[r].daily]
  <2>1. IsFiniteSet(OfUser(u)) /\ IsFiniteSet(T) /\ T \in SUBSET OfUser(u)
    BY FS_Subset DEF OfUser
  <2>2. \A r \in T : HeldToday[r] = f[r]
    BY DEF HeldToday, Today
  <2>3. (\A r \in OfUser(u) : HeldToday[r] \in Int)
        /\ (\A r \in OfUser(u) \ T : HeldToday[r] = 0)
    BY HeldTodayType DEF OfUser, Today
  <2> HIDE DEF T, f
  <2>4. SumFunctionOnSet(HeldToday, OfUser(u)) = SumFunctionOnSet(f, T)
    <3>1. SumFunctionOnSet(HeldToday, OfUser(u)) = SumFunctionOnSet(HeldToday, T)
      BY <2>1, <2>3, SumPart
    <3>2. SumFunctionOnSet(HeldToday, T) = SumFunctionOnSet(f, T)
      BY <2>1, <2>2, SumSame
    <3>3. QED
      BY <3>1, <3>2
  <2>5. Ensured(account[u]).daily + SumFunctionOnSet(HeldToday, OfUser(u)) <= DailyQuota[0]
    BY EnsuredDaily DEF DailyInv
  <2>6. Ensured(account[u]).daily + SumFunctionOnSet(f, T) <= DailyQuota[0]
    BY <2>4, <2>5
  <2>7. QED
    BY <2>6 DEF T, f
<1>4. QED
  BY <1>1, <1>2, <1>3, PTL DEF Spec

(***************************************************************************)
(* Plans, failures and stale holds                                         *)
(***************************************************************************)

LEMMA EnsuredPlan ==
    ASSUME NEW a
    PROVE  Ensured(a).plan = 0 \/ ~(Ensured(a).planExpire <= now)
BY DEF Ensured

LEMMA PaidStep ==
    ASSUME TypeOK, PlanLength > 0, [Next]_vars,
           NEW u \in Users, account'[u] # account[u]
    PROVE  account'[u].plan = 0 \/ account'[u].planExpire > now
<1> DEFINE a == Ensured(account[u])
           Paid(b) == b.plan = 0 \/ b.planExpire > now
<1>1. a \in AccountRow /\ account \in [Users -> AccountRow] /\ now \in Nat
  BY ResetGainType DEF TypeOK
<1>2. Paid(a)
  <2>1. a.planExpire \in Nat
    BY <1>1 DEF AccountRow
  <2>2. a.plan = 0 \/ ~(a.planExpire <= now)
    BY EnsuredPlan
  <2> HIDE DEF a
  <2>3. QED
    BY <1>1, <2>1, <2>2
<1>3. ASSUME NEW b, b.plan = a.plan, b.planExpire = a.planExpire PROVE Paid(b)
  BY <1>2, <1>3
<1>4. ASSUME NEW d, NEW S
      PROVE  /\ Debited(a, d).plan = a.plan /\ Debited(a, d).planExpire = a.planExpire
             /\ Credited(a, d).plan = a.plan /\ Credited(a, d).planExpire = a.planExpire
             /\ Released(a, S).plan = a.plan /\ Released(a, S).planExpire = a.planExpire
             /\ Debited(Released(a, S), d).plan = a.plan
             /\ Debited(Released(a, S), d).planExpire = a.planExpire
  BY <1>1 DEF Debited, Credited, Released, AccountRow
<1>5. ASSUME NEW n
      PROVE  /\ [a EXCEPT !.permanent = n].plan = a.plan
             /\ [a EXCEPT !.permanent = n].planExpire = a.planExpire
  BY <1>1 DEF AccountRow
<1>6. ASSUME NEW i \in Invites, UpgradePlan(u, i) PROVE Paid(account'[u])
  <2> DEFINE e == (IF a.planExpire > now THEN a.planExpire ELSE now) + PlanLength
  <2>1. account'[u].planExpire = e
    <3>1. PICK p, d, m, dr, mr :
             account' = [account EXCEPT ![u] =
               [a EXCEPT !.plan = p, !.planExpire = e, !.daily = d, !.monthly = m,
                         !.dailyReset = dr, !.monthlyReset = mr]]
      BY <1>6 DEF UpgradePlan
    <3> HIDE DEF a, e
    <3>2. QED
      BY <1>1, <3>1 DEF AccountRow
  <2>2. a.planExpire \in Nat /\ PlanLength \in Nat
    BY <1>1, BillingAssumption DEF AccountRow
  <2> HIDE DEF a
  <2>3. e > now
    BY <1>1, <2>2
  <2>4. QED
    BY <2>1, <2>3
<1>7. CASE RunNext
  <2>1. PICK r \in Runs :
          \/ Authorize(r)
          \/ \E c \in Calls : ReserveTool(r, c)
          \/ \E o \in Outcomes : Settle(r, o)
    BY <1>7 DEF RunNext, CreateRun, AuthorizeClarification, RecordTool, RecordModel,
                SettleReadsPending, SettlePending
  <2>2. Owner[r] = u
    BY <1>1, <2>1 DEF Authorize, ReserveTool, Settle
  <2>3. \/ \E d, S : account'[u] = Debited(Released(a, S), d)
        \/ \E d : account'[u] = Debited(a, d)
        \/ \E d : account'[u] = Credited(a, d)
    <3>1. CASE Authorize(r)
      BY <1>1, <2>2, <3>1 DEF Authorize
    <3>2. CASE \E c \in Calls : ReserveTool(r, c)
      BY <1>1, <2>2, <3>2 DEF ReserveTool
    <3>3. CASE \E o \in Outcomes : Settle(r, o)
      BY <1>1, <2>2, <3>3 DEF Settle
    <3>4. QED
      BY <2>1, <3>1, <3>2, <3>3
  <2> HIDE DEF a
  <2>4. QED
    BY <1>3, <1>4, <2>3
<1>8. CASE AccountNext
  <2>1. PICK v \in Users :
          \/ ViewAccount(v)
          \/ TouchAccount(v)
          \/ \E i \in Invites : UpgradePlan(v, i) \/ TopUp(v, i)
          \/ \E n \in Adjustments : Adjust(v, n)
    BY <1>8 DEF AccountNext
  <2>2. v = u
    BY <1>1, <2>1 DEF ViewAccount, TouchAccount, UpgradePlan, TopUp, Adjust
  <2>3. CASE ViewAccount(u)
    <3>1. account'[u] = Released(a, Expired(u))
      BY <1>1, <2>3 DEF ViewAccount
    <3> HIDE DEF a
    <3>2. QED
      BY <1>3, <1>4, <3>1
  <2>4. CASE TouchAccount(u)
    <3>1. account'[u] = a
      BY <1>1, <2>4 DEF TouchAccount
    <3>2. QED
      BY <1>2, <3>1
  <2>5. CASE \E i \in Invites : UpgradePlan(u, i)
    BY <1>6, <2>5
  <2>6. CASE (\E i \in Invites : TopUp(u, i)) \/ \E n \in Adjustments : Adjust(u, n)
    <3>1. PICK n : account'[u] = [a EXCEPT !.permanent = n]
      BY <1>1, <2>6 DEF TopUp, Adjust
    <3> HIDE DEF a
    <3>2. QED
      BY <1>3, <1>5, <3>1
  <2>7. QED
    BY <2>1, <2>2, <2>3, <2>4, <2>5, <2>6
<1>9. QED
  BY <1>7, <1>8 DEF Next, Tick, vars

\* Whatever transaction changes an account leaves it on a plan that is paid
\* for, or on the free one, when a plan lasts at all.
THEOREM PlansAreCurrent ==
    ASSUME PlanLength > 0
    PROVE  Spec => PaidPlansAreCurrent
<1>1. TypeOK /\ HoldsAddUp /\ [Next]_vars =>
        [\A u \in Users : account'[u] # account[u] =>
           account'[u].plan = 0 \/ account'[u].planExpire > now]_vars
  BY PaidStep
<1>2. QED
  BY <1>1, TypesAndHolds, PTL DEF Spec, PaidPlansAreCurrent

(***************************************************************************)
(* Failed and released runs.  Metered usage only grows, so what a failed   *)
(* run was charged for stays covered by what its tools produced.           *)
(***************************************************************************)

MediaKept == \A r \in Runs : usage[r].media <= usage'[r].media

LEMMA UsageGrows ==
    ASSUME TypeOK, TypeOK', [Next]_vars
    PROVE  MediaKept
<1>1. usage \in [Runs -> UsageRow]
  BY DEF TypeOK
<1>2. CASE usage' = usage
  BY <1>1, <1>2 DEF MediaKept, UsageRow
<1>3. ASSUME NEW r \in Runs, NEW t \in Turns, RecordModel(r, t) PROVE MediaKept
  <2>1. PICK n \in TokenCounts :
          usage' = [usage EXCEPT ![r] = [usage[r] EXCEPT !.tokens = @ + n, !.keys = @ \cup {t}]]
    BY <1>3 DEF RecordModel
  <2>2. \A s \in Runs : usage'[s].media = usage[s].media /\ usage[s].media \in Nat
    BY <1>1, <2>1 DEF UsageRow
  <2>3. QED
    BY <2>2 DEF MediaKept
<1>4. ASSUME NEW r \in Runs, NEW c \in Calls, RecordTool(r, c) PROVE MediaKept
  <2> DEFINE m(n) == IF c \in MediaCalls THEN n ELSE 0
  <2>1. PICK n \in CallPoints :
          usage' = [usage EXCEPT ![r] = [usage[r] EXCEPT !.tool = @ + n, !.media = @ + m(n),
                                                         !.keys = @ \cup {c}]]
    BY <1>4 DEF RecordTool
  <2>2. m(n) \in Nat
    BY BillingAssumption
  <2> HIDE DEF m
  <2>3. ASSUME NEW s \in Runs
        PROVE  usage[s].media <= usage'[s].media
    <3>1. usage[s].media \in Nat
      BY <1>1 DEF UsageRow
    <3>2. usage'[s].media = usage[s].media \/ usage'[s].media = usage[s].media + m(n)
      BY <1>1, <2>1 DEF UsageRow
    <3>3. QED
      BY <2>2, <3>1, <3>2
  <2>4. QED
    BY <2>3 DEF MediaKept
<1>5. CASE RunNext
  BY <1>2, <1>3, <1>4, <1>5
     DEF RunNext, CreateRun, AuthorizeClarification, Authorize, ReserveTool,
         SettleReadsPending, SettlePending, Settle
<1>6. CASE AccountNext
  BY <1>2, <1>6 DEF AccountNext, ViewAccount, TouchAccount, Adjust, UpgradePlan, TopUp
<1>7. CASE Tick \/ UNCHANGED vars
  BY <1>2, <1>7 DEF Tick, vars
<1>8. QED
  BY <1>5, <1>6, <1>7 DEF Next

\* How a run comes to be failed or released.
LEMMA EndsAs ==
    ASSUME ~StalePreview, TypeOK, HoldsAddUp, RunInv, [Next]_vars, NEW s \in Runs
    PROVE  \/ run'[s].status = run[s].status /\ run'[s].actual = run[s].actual
           \/ run'[s].status \notin {"failed", "released"}
           \/ run'[s].status = "released" /\ run'[s].actual = 0
           \/ \E o \in Outcomes : /\ run'[s].status = FinalStatus(Billed(s, o), o)
                                  /\ run'[s].actual = Billed(s, o)
<1>1. run \in [Runs -> RunRow] /\ run[s] \in RunRow
  BY DEF TypeOK
<1>2. CASE run'[s] = run[s]
  BY <1>2
<1>3. ASSUME NEW u, run'[s] = ReleasedRuns(Expired(u))[s]
      PROVE  \/ run'[s] = run[s]
             \/ run'[s].status = "released" /\ run'[s].actual = 0
  <2>1. CASE s \in Expired(u)
    <3>1. run[s].actual = 0
      BY <2>1 DEF Expired, RunInv, RunOK, Open
    <3>2. Expired(u) \in SUBSET Runs
      BY ExpiredOfUser
    <3>3. run'[s].status = "released" /\ run'[s].actual = run[s].actual
      BY <1>3, <2>1, <3>2, ReleasedRow
    <3>4. QED
      BY <3>1, <3>3
  <2>2. CASE s \notin Expired(u)
    BY <1>3, <2>2 DEF ReleasedRuns
  <2>3. QED
    BY <2>1, <2>2
<1>4. CASE RunNext
  <2>1. PICK r \in Runs :
          \/ CreateRun(r)
          \/ AuthorizeClarification(r) \/ SettlePending(r)
          \/ Authorize(r)
          \/ \E c \in Calls : ReserveTool(r, c)
          \/ \E o \in Outcomes : Settle(r, o)
          \/ run' = run
    BY <1>4 DEF RunNext, SettleReadsPending, RecordTool, RecordModel
  <2>2. CASE r # s
    <3>1. CASE Authorize(r)
      <4>1. ReleasedRuns(Expired(Owner[r])) \in [Runs -> RunRow]
        BY ExpiredOfUser, ReleasedRunsType
      <4>2. run'[s] = ReleasedRuns(Expired(Owner[r]))[s]
        BY <2>2, <3>1, <4>1 DEF Authorize
      <4>3. QED
        BY <1>2, <1>3, <4>2
    <3>2. CASE ~Authorize(r)
      <4>1. run'[s] = run[s]
        BY <1>1, <2>1, <2>2, <3>2
           DEF CreateRun, AuthorizeClarification, SettlePending, ReserveTool, Settle
      <4>2. QED
        BY <1>2, <4>1
    <3>3. QED
      BY <3>1, <3>2
  <2>3. CASE r = s
    <3>1. CASE CreateRun(s)
      BY <1>1, <3>1 DEF CreateRun, NoRun
    <3>2. CASE AuthorizeClarification(s) \/ SettlePending(s)
      <4>1. run[s].status \in {"pending", "released"}
        BY <3>2 DEF AuthorizeClarification, SettlePending, RunInv, SettlingOK
      <4>2. run[s].actual = 0 \/ run[s].status = "released"
        BY <4>1 DEF RunInv, RunOK, Open
      <4>3. run'[s].status = "released" /\ run'[s].actual = run[s].actual
        BY <1>1, <3>2 DEF AuthorizeClarification, SettlePending, RunRow
      <4>4. QED
        BY <4>2, <4>3
    <3>3. CASE Authorize(s)
      <4>1. ReleasedRuns(Expired(Owner[s])) \in [Runs -> RunRow]
        BY ExpiredOfUser, ReleasedRunsType
      <4>2. run'[s].status = "authorized"
        <5> DEFINE S == Expired(Owner[s])
                   b(q) == Breakdown(Released(Ensured(account[Owner[s]]), S), q.reserve)
        <5>1. PICK q \in Quotes :
                run' = [ReleasedRuns(S) EXCEPT ![s] =
                  [@ EXCEPT !.status = "authorized", !.reserved = q.reserve,
                            !.daily = b(q).daily, !.monthly = b(q).monthly,
                            !.permanent = b(q).permanent, !.base = q.base,
                            !.expires = now + TTL]]
          BY <3>3 DEF Authorize
        <5> HIDE DEF S, b
        <5>2. QED
          BY <4>1, <5>1 DEF RunRow, S
      <4>3. QED
        BY <4>2
    <3>4. CASE \E c \in Calls : ReserveTool(s, c)
      <4> DEFINE b(n) == Breakdown(Ensured(account[Owner[s]]), n)
      <4>1. PICK n \in ToolQuotes :
              run' = [run EXCEPT ![s] =
                [run[s] EXCEPT !.reserved = @ + n, !.daily = @ + b(n).daily,
                               !.monthly = @ + b(n).monthly,
                               !.permanent = @ + b(n).permanent, !.expires = now + TTL]]
        BY <3>4 DEF ReserveTool
      <4> HIDE DEF b
      <4>2. run'[s].status = run[s].status /\ run'[s].actual = run[s].actual
        BY <1>1, <4>1 DEF RunRow
      <4>3. QED
        BY <4>2
    <3>5. CASE \E o \in Outcomes : Settle(s, o)
      <4> DEFINE base(o) == IF o = "success" THEN run[s].base ELSE 0
      <4>1. PICK o \in Outcomes : run' = [run EXCEPT ![s] =
                [run[s] EXCEPT !.status = FinalStatus(Billed(s, o), o),
                               !.actual = Billed(s, o), !.base = base(o)]]
        BY <3>5 DEF Settle
      <4> HIDE DEF base
      <4>2. /\ run'[s].status = FinalStatus(Billed(s, o), o)
            /\ run'[s].actual = Billed(s, o)
        BY <1>1, <4>1 DEF RunRow
      <4>3. QED
        BY <4>2
    <3>6. QED
      BY <1>2, <2>1, <2>3, <3>1, <3>2, <3>3, <3>4, <3>5
  <2>4. QED
    BY <2>2, <2>3
<1>5. ASSUME NEW u \in Users, ViewAccount(u)
      PROVE  run'[s] = ReleasedRuns(Expired(u))[s]
  BY <1>5 DEF ViewAccount
<1>6. QED
  BY <1>2, <1>3, <1>4, <1>5
     DEF Next, AccountNext, TouchAccount, UpgradePlan, TopUp, Adjust, Tick, vars

LEMMA MediaStep ==
    ASSUME ~StalePreview,
           TypeOK, TypeOK', HoldsAddUp, RunInv, FailureKeepsMediaOnly, [Next]_vars
    PROVE  FailureKeepsMediaOnly'
<1>1. SUFFICES ASSUME NEW s \in Runs
               PROVE  /\ run'[s].status = "failed" => run'[s].actual <= usage'[s].media
                      /\ run'[s].status = "released" => run'[s].actual = 0
  BY DEF FailureKeepsMediaOnly
<1>2. /\ usage[s].media <= usage'[s].media
      /\ usage[s].media \in Nat /\ usage'[s].media \in Nat
      /\ run[s].actual \in Nat /\ run'[s].actual \in Nat
  BY UsageGrows DEF MediaKept, TypeOK, UsageRow, RunRow
<1>3. CASE run'[s].status = run[s].status /\ run'[s].actual = run[s].actual
  BY <1>2, <1>3 DEF FailureKeepsMediaOnly
<1>4. ASSUME NEW o \in Outcomes, run'[s].status = FinalStatus(Billed(s, o), o),
             run'[s].actual = Billed(s, o)
      PROVE  /\ run'[s].status = "failed" => run'[s].actual <= usage'[s].media
             /\ run'[s].status = "released" => run'[s].actual = 0
  <2>1. Billed(s, o) \in Nat
    BY ChargeType
  <2>2. CASE o = "failure"
    <3>1. Charge(s, o) = usage[s].media
      BY <2>2 DEF Charge
    <3>2. Billed(s, o) <= usage[s].media
      BY <1>2, <3>1, LeastType DEF Billed, TypeOK, RunRow
    <3>3. run'[s].status = "failed"
      BY <1>4, <2>2 DEF FinalStatus
    <3>4. run'[s].actual <= usage'[s].media
      BY <1>2, <1>4, <2>1, <3>2
    <3>5. QED
      BY <3>3, <3>4
  <2>3. CASE o # "failure"
    <3>1. run'[s].status # "failed"
      BY <1>4, <2>3 DEF FinalStatus
    <3>2. run'[s].status = "released" => ~(Billed(s, o) > 0)
      BY <1>4, <2>3 DEF FinalStatus
    <3>3. QED
      BY <1>4, <2>1, <3>1, <3>2
  <2>4. QED
    BY <2>2, <2>3
<1>5. QED
  BY <1>3, <1>4, EndsAs

\* A failed run pays at most for the media its tools made, a released one
\* nothing.
THEOREM FailuresPayForMediaOnly ==
    ASSUME ~StalePreview
    PROVE  Spec => []FailureKeepsMediaOnly
<1>1. Init => FailureKeepsMediaOnly
  BY DEF Init, NoRun, FailureKeepsMediaOnly
<1>2. TypeOK /\ HoldsAddUp /\ TypeOK' /\ RunInv /\ FailureKeepsMediaOnly /\ [Next]_vars
        => FailureKeepsMediaOnly'
  BY MediaStep
<1>3. QED
  BY <1>1, <1>2, HoldInvariant, PTL DEF Spec

LEMMA StaleStep ==
    ASSUME ~StalePreview, TypeOK, HoldsAddUp, RunInv, NEW u \in Users, ViewAccount(u),
           NEW r \in Runs, Owner[r] = u, run[r].reserved > 0, run[r].expires <= now
    PROVE  run'[r].reserved = run'[r].actual + refunded'[r]
<1>1. RunOK(run'[r], refunded'[r], ledger'[r])
  BY ViewAccountOK DEF RunInv
<1>2. run[r].status # "none" /\ run[r].status # "pending" /\ run[r].status \in Statuses
  BY RunTypes
<1>3. run' = ReleasedRuns(Expired(u)) /\ Expired(u) \in SUBSET Runs
  BY ExpiredOfUser DEF ViewAccount
<1>4. run'[r].status \in Terminal
  <2>1. CASE run[r].status = "authorized"
    <3>1. r \in Expired(u)
      BY <2>1 DEF Expired
    <3>2. QED
      BY <1>3, <3>1, ReleasedRow DEF Terminal
  <2>2. CASE run[r].status # "authorized"
    <3>1. run'[r] = run[r]
      BY <1>3, <2>2, ReleasedStatus
    <3>2. QED
      BY <1>2, <2>2, <3>1 DEF Statuses
  <2>3. QED
    BY <2>1, <2>2
<1>5. QED
  BY <1>1, <1>4 DEF RunOK, Forgotten

\* Whoever opens the account page finds every point of a hold past its life
\* back in the balance or charged.
THEOREM StaleHoldsComeBack ==
    ASSUME ~StalePreview
    PROVE  Spec => StaleHoldsReturned
<1>1. TypeOK /\ HoldsAddUp /\ RunInv /\ [Next]_vars =>
        [\A u \in Users : ViewAccount(u) =>
          \A r \in Runs :
              /\ Owner[r] = u
              /\ run[r].reserved > 0
              /\ run[r].expires <= now
              => run'[r].reserved = run'[r].actual + refunded'[r]]_vars
  BY StaleStep
<1>2. QED
  BY <1>1, HoldInvariant, PTL DEF Spec, StaleHoldsReturned
=============================================================================
