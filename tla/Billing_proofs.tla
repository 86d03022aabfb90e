-------------------------- MODULE Billing_proofs --------------------------
(***************************************************************************)
(* Proofs about Billing: types, the escrow of every run's points, and that *)
(* Billing implements PointEscrow, for any users, runs, prices and periods.*)
(* Where a settlement overlaps the authorisation of its run (StalePreview), *)
(* it may release a hold and give nothing back: the results that then fail *)
(* say so in their assumptions.                                            *)
(***************************************************************************)
EXTENDS Billing, TLAPS

(***************************************************************************)
(* Helpers                                                                 *)
(***************************************************************************)

LEMMA PeriodType ==
    ASSUME NEW t \in Nat
    PROVE  Day(t) \in Nat /\ Month(t) \in Nat
BY BillingAssumption DEF Day, Month

LEMMA LeastType ==
    ASSUME NEW m \in Nat, NEW n \in Nat
    PROVE  Least(m, n) \in Nat /\ Least(m, n) <= m /\ Least(m, n) <= n
BY DEF Least

\* An amount the account covers is split over its buckets exactly.
LEMMA BreakdownExact ==
    ASSUME NEW a, a.daily \in Nat, a.monthly \in Nat, a.permanent \in Nat,
           NEW n \in Nat, n <= Total(a)
    PROVE  /\ Breakdown(a, n).daily \in 0 .. a.daily
           /\ Breakdown(a, n).monthly \in 0 .. a.monthly
           /\ Breakdown(a, n).permanent \in 0 .. a.permanent
           /\ Breakdown(a, n).daily + Breakdown(a, n).monthly
                + Breakdown(a, n).permanent = n
BY DEF Breakdown, Total, Least

LEMMA EnsuredType ==
    ASSUME NEW a \in AccountRow, now \in Nat
    PROVE  Ensured(a) \in AccountRow
<1>1. Day(now) \in Nat /\ Month(now) \in Nat
  BY PeriodType
<1>2. QED
  BY <1>1, BillingAssumption DEF Ensured, AccountRow, Plans

\* A refund gives back what was taken, in whatever buckets.
LEMMA RefundType ==
    ASSUME NEW b, b.daily \in Nat, b.monthly \in Nat, b.permanent \in Nat,
           NEW t
    PROVE  /\ Refund(b, t).daily \in Nat
           /\ Refund(b, t).monthly \in Nat
           /\ Refund(b, t).permanent \in Nat
BY DEF Refund

LEMMA DebitedType ==
    ASSUME NEW a \in AccountRow, NEW n \in Nat, n <= Total(a)
    PROVE  Debited(a, Breakdown(a, n)) \in AccountRow
<1>1. a.daily \in Nat /\ a.monthly \in Nat /\ a.permanent \in Nat
  BY DEF AccountRow
<1> DEFINE b == Breakdown(a, n)
<1>2. /\ a.daily - b.daily \in Nat
      /\ a.monthly - b.monthly \in Nat
      /\ a.permanent - b.permanent \in Nat
  BY <1>1, BreakdownExact
<1> HIDE DEF b
<1>3. Debited(a, b) \in AccountRow
  BY <1>2 DEF Debited, AccountRow
<1>4. QED
  BY <1>3 DEF b

LEMMA CreditedType ==
    ASSUME NEW a \in AccountRow,
           NEW b, b.daily \in Nat, b.monthly \in Nat, b.permanent \in Nat
    PROVE  Credited(a, b) \in AccountRow
<1>1. /\ a.daily + b.daily \in Nat
      /\ a.monthly + b.monthly \in Nat
      /\ a.permanent + b.permanent \in Nat
  BY DEF AccountRow
<1>2. QED
  BY <1>1 DEF Credited, AccountRow

LEMMA TotalType ==
    ASSUME NEW a \in AccountRow
    PROVE  Total(a) \in Nat
BY DEF Total, AccountRow

(***************************************************************************)
(* Types                                                                   *)
(***************************************************************************)

LEMMA ResetGainType ==
    ASSUME TypeOK, NEW u \in Users
    PROVE  /\ Ensured(account[u]) \in AccountRow
           /\ ResetGain(u) \in Int
<1>1. account[u] \in AccountRow /\ now \in Nat
  BY DEF TypeOK
<1>2. Ensured(account[u]) \in AccountRow
  BY <1>1, EnsuredType
<1>3. Total(account[u]) \in Nat /\ Total(Ensured(account[u])) \in Nat
  BY <1>1, <1>2, TotalType
<1>4. QED
  BY <1>2, <1>3 DEF ResetGain

LEMMA InitType == Init => TypeOK
<1> SUFFICES ASSUME Init PROVE TypeOK
  OBVIOUS
<1>1. NewAccount \in AccountRow
  BY BillingAssumption DEF NewAccount, AccountRow, Plans
<1>2. NoRun \in RunRow
  BY DEF NoRun, RunRow, Statuses
<1>3. [tokens |-> 0, tool |-> 0, media |-> 0, keys |-> {}] \in UsageRow
  BY DEF UsageRow
<1>4. DailyQuota[0] + MonthlyQuota[0] \in Int
  BY BillingAssumption DEF Plans
<1>5. QED
  BY <1>1, <1>2, <1>3, <1>4 DEF Init, TypeOK

LEMMA ReleasedType ==
    ASSUME NEW x \in RunRow
    PROVE  [x EXCEPT !.status = "released"] \in RunRow
<1>1. "released" \in Statuses
  BY DEF Statuses, Terminal
<1>2. QED
  BY <1>1 DEF RunRow

LEMMA CreateRunType ==
    ASSUME TypeOK, NEW r \in Runs, CreateRun(r)
    PROVE  TypeOK'
<1>1. [NoRun EXCEPT !.status = "pending", !.created = now] \in RunRow
  BY DEF TypeOK, NoRun, RunRow, Statuses
<1>2. QED
  BY <1>1 DEF CreateRun, TypeOK

LEMMA AuthorizeClarificationType ==
    ASSUME TypeOK, NEW r \in Runs, AuthorizeClarification(r)
    PROVE  TypeOK'
<1>1. [run[r] EXCEPT !.status = "released"] \in RunRow
  BY ReleasedType DEF TypeOK
<1>2. QED
  BY <1>1 DEF AuthorizeClarification, TypeOK

LEMMA ReleasedRunsType ==
    ASSUME TypeOK, NEW S \in SUBSET Runs
    PROVE  /\ ReleasedRuns(S) \in [Runs -> RunRow]
           /\ RefundedAll(S) \in [Runs -> Nat]
<1>1. \A r \in Runs : [run[r] EXCEPT !.status = "released"] \in RunRow
  BY ReleasedType DEF TypeOK
<1>2. run \in [Runs -> RunRow] /\ refunded \in [Runs -> Nat]
  BY DEF TypeOK
<1>3. ReleasedRuns(S) \in [Runs -> RunRow]
  <2> DEFINE row(r) == IF r \in S THEN [run[r] EXCEPT !.status = "released"] ELSE run[r]
  <2>1. \A r \in Runs : row(r) \in RunRow
    BY <1>1, <1>2
  <2>2. ReleasedRuns(S) = [r \in Runs |-> row(r)]
    BY DEF ReleasedRuns
  <2> HIDE DEF row
  <2>3. QED
    BY <2>1, <2>2
<1>4. \A r \in Runs : refunded[r] + Parts(run[r]) \in Nat
  BY <1>2 DEF RunRow, Parts
<1>5. QED
  BY <1>2, <1>3, <1>4 DEF RefundedAll

LEMMA AuthorizeType ==
    ASSUME TypeOK, NEW r \in Runs, Authorize(r)
    PROVE  TypeOK'
<1> DEFINE u == Owner[r]
           S == Expired(u)
           a == Released(Ensured(account[u]), S)
<1>1. u \in Users /\ S \in SUBSET Runs
  BY BillingAssumption DEF Expired
<1>2. a \in AccountRow
  BY DEF Authorize
<1>3. PICK q \in Quotes :
        LET b == Breakdown(a, q.reserve)
        IN  /\ q.reserve <= Total(a)
            /\ account' = [account EXCEPT ![u] = Debited(a, b)]
            /\ run' = [ReleasedRuns(S) EXCEPT ![r] =
                  [@ EXCEPT !.status = "authorized", !.reserved = q.reserve,
                            !.daily = b.daily, !.monthly = b.monthly,
                            !.permanent = b.permanent, !.base = q.base,
                            !.expires = now + TTL]]
  BY DEF Authorize
<1> DEFINE b == Breakdown(a, q.reserve)
<1>4. q.reserve \in Nat /\ q.base \in Nat /\ now + TTL \in Nat
  BY BillingAssumption DEF TypeOK
<1>5. Debited(a, b) \in AccountRow
  BY <1>2, <1>3, <1>4, DebitedType
<1>6. b.daily \in Nat /\ b.monthly \in Nat /\ b.permanent \in Nat
  <2>1. a.daily \in Nat /\ a.monthly \in Nat /\ a.permanent \in Nat
    BY <1>2 DEF AccountRow
  <2>2. QED
    BY <2>1, <1>3, <1>4, BreakdownExact
<1>7. ReleasedRuns(S) \in [Runs -> RunRow] /\ RefundedAll(S) \in [Runs -> Nat]
  BY <1>1, ReleasedRunsType
<1> HIDE DEF a, b, S
<1>8. account' \in [Users -> AccountRow]
  BY <1>1, <1>3, <1>5 DEF TypeOK, b
<1>9. run' \in [Runs -> RunRow]
  <2> DEFINE row == [ReleasedRuns(S)[r] EXCEPT
                        !.status = "authorized", !.reserved = q.reserve,
                        !.daily = b.daily, !.monthly = b.monthly,
                        !.permanent = b.permanent, !.base = q.base,
                        !.expires = now + TTL]
  <2>1. row \in RunRow
    BY <1>4, <1>6, <1>7 DEF RunRow, Statuses
  <2>2. run' = [ReleasedRuns(S) EXCEPT ![r] = row]
    BY <1>3 DEF b
  <2> HIDE DEF row
  <2>3. QED
    BY <1>7, <2>1, <2>2
<1>10. granted' \in [Users -> Int]
  BY <1>1, ResetGainType DEF TypeOK, Authorize
<1>11. refunded' \in [Runs -> Nat]
  BY <1>7 DEF Authorize, S
<1>12. QED
  BY <1>8, <1>9, <1>10, <1>11 DEF TypeOK, Authorize

LEMMA ReserveToolType ==
    ASSUME TypeOK, NEW r \in Runs, NEW c \in Calls, ReserveTool(r, c)
    PROVE  TypeOK'
<1> DEFINE u == Owner[r]
           a == Ensured(account[u])
<1>1. u \in Users
  BY BillingAssumption
<1>2. a \in AccountRow
  BY <1>1, ResetGainType
<1>3. PICK n \in ToolQuotes :
        LET b == Breakdown(a, n)
        IN  /\ n <= Total(a)
            /\ account' = [account EXCEPT ![u] = Debited(a, b)]
            /\ run' = [run EXCEPT ![r] =
                  [run[r] EXCEPT !.reserved = @ + n, !.daily = @ + b.daily,
                            !.monthly = @ + b.monthly,
                            !.permanent = @ + b.permanent,
                            !.expires = now + TTL]]
  BY DEF ReserveTool
<1> DEFINE b == Breakdown(a, n)
<1>4. n \in Nat /\ now + TTL \in Nat
  BY BillingAssumption DEF TypeOK
<1>5. Debited(a, b) \in AccountRow
  BY <1>2, <1>3, <1>4, DebitedType
<1>6. b.daily \in Nat /\ b.monthly \in Nat /\ b.permanent \in Nat
  <2>1. a.daily \in Nat /\ a.monthly \in Nat /\ a.permanent \in Nat
    BY <1>2 DEF AccountRow
  <2>2. QED
    BY <2>1, <1>3, <1>4, BreakdownExact
<1> HIDE DEF a, b
<1>7. account' \in [Users -> AccountRow]
  BY <1>1, <1>3, <1>5 DEF TypeOK, b
<1>8. run' \in [Runs -> RunRow]
  <2> DEFINE row == [run[r] EXCEPT !.reserved = run[r].reserved + n,
                                   !.daily = run[r].daily + b.daily,
                                   !.monthly = run[r].monthly + b.monthly,
                                   !.permanent = run[r].permanent + b.permanent,
                                   !.expires = now + TTL]
  <2>1. run[r] \in RunRow
    BY DEF TypeOK
  <2>2. /\ run[r].reserved + n \in Nat
        /\ run[r].daily + b.daily \in Nat
        /\ run[r].monthly + b.monthly \in Nat
        /\ run[r].permanent + b.permanent \in Nat
    BY <1>4, <1>6, <2>1 DEF RunRow
  <2>3. row \in RunRow
    BY <1>4, <2>1, <2>2 DEF RunRow
  <2>4. run' = [run EXCEPT ![r] = row]
    BY <1>3 DEF b
  <2> HIDE DEF row
  <2>5. QED
    BY <2>3, <2>4 DEF TypeOK
<1>9. granted' \in [Users -> Int]
  BY <1>1, ResetGainType DEF TypeOK, ReserveTool
<1>10. reservedCalls' \in [Runs -> SUBSET Calls]
  BY DEF TypeOK, ReserveTool
<1>11. QED
  BY <1>7, <1>8, <1>9, <1>10 DEF TypeOK, ReserveTool

LEMMA RecordModelType ==
    ASSUME TypeOK, NEW r \in Runs, NEW t \in Turns, RecordModel(r, t)
    PROVE  TypeOK'
<1>1. PICK n \in TokenCounts :
        usage' = [usage EXCEPT ![r] = [usage[r] EXCEPT !.tokens = @ + n, !.keys = @ \cup {t}]]
  BY DEF RecordModel
<1>2. n \in Nat
  BY BillingAssumption
<1>3. [usage[r] EXCEPT !.tokens = usage[r].tokens + n, !.keys = usage[r].keys \cup {t}]
        \in UsageRow
  <2>1. usage[r] \in UsageRow
    BY DEF TypeOK
  <2>2. usage[r].tokens + n \in Nat /\ usage[r].keys \cup {t} \subseteq Turns \cup Calls
    BY <1>2, <2>1 DEF UsageRow
  <2>3. QED
    BY <2>1, <2>2 DEF UsageRow
<1>4. usage' \in [Runs -> UsageRow]
  <2> DEFINE row == [usage[r] EXCEPT !.tokens = usage[r].tokens + n,
                                     !.keys = usage[r].keys \cup {t}]
  <2>1. usage' = [usage EXCEPT ![r] = row]
    BY <1>1
  <2>2. row \in UsageRow
    BY <1>3
  <2> HIDE DEF row
  <2>3. QED
    BY <2>1, <2>2 DEF TypeOK
<1>5. QED
  BY <1>4 DEF TypeOK, RecordModel

LEMMA RecordToolType ==
    ASSUME TypeOK, NEW r \in Runs, NEW c \in Calls, RecordTool(r, c)
    PROVE  TypeOK'
<1>1. PICK n \in CallPoints :
        usage' = [usage EXCEPT ![r] =
                      [usage[r] EXCEPT !.tool = @ + n,
                                !.media = @ + (IF c \in MediaCalls THEN n ELSE 0),
                                !.keys = @ \cup {c}]]
  BY DEF RecordTool
<1>2. n \in Nat /\ (IF c \in MediaCalls THEN n ELSE 0) \in Nat
  BY BillingAssumption
<1> DEFINE m == IF c \in MediaCalls THEN n ELSE 0
<1> HIDE DEF m
<1>3. [usage[r] EXCEPT !.tool = usage[r].tool + n, !.media = usage[r].media + m,
                       !.keys = usage[r].keys \cup {c}] \in UsageRow
  <2>1. usage[r] \in UsageRow
    BY DEF TypeOK
  <2>2. /\ usage[r].tool + n \in Nat
        /\ usage[r].media + m \in Nat
        /\ usage[r].keys \cup {c} \subseteq Turns \cup Calls
    BY <1>2, <2>1 DEF UsageRow, m
  <2>3. QED
    BY <2>1, <2>2 DEF UsageRow
<1>4. usage' = [usage EXCEPT ![r] =
                  [usage[r] EXCEPT !.tool = usage[r].tool + n,
                                   !.media = usage[r].media + m,
                                   !.keys = usage[r].keys \cup {c}]]
  BY <1>1 DEF m
<1>5. usage' \in [Runs -> UsageRow]
  BY <1>3, <1>4 DEF TypeOK
<1>6. QED
  BY <1>5 DEF TypeOK, RecordTool

LEMMA ChargeType ==
    ASSUME TypeOK, NEW r \in Runs, NEW o \in Outcomes
    PROVE  /\ Charge(r, o) \in Nat
           /\ Billed(r, o) \in Nat
           /\ Billed(r, o) <= run[r].reserved
<1>1. run[r].base \in Nat /\ run[r].reserved \in Nat
  BY DEF TypeOK, RunRow
<1>2. usage[r].tool \in Nat /\ usage[r].media \in Nat /\ usage[r].tokens \in Nat
  BY DEF TypeOK, UsageRow
<1>3. ModelPoints(usage[r].tokens) \in Nat
  BY <1>2, BillingAssumption DEF ModelPoints
<1>4. Charge(r, o) \in Nat
  BY <1>1, <1>2, <1>3 DEF Charge, Outcomes
<1>5. QED
  BY <1>1, <1>4, LeastType DEF Billed

\* What a settlement gives back and what it bills make up the hold.
LEMMA UnusedType ==
    ASSUME TypeOK, HoldsAddUp, NEW r \in Runs, NEW n \in Nat, n <= run[r].reserved
    PROVE  /\ Unused(r, n).daily \in Nat
           /\ Unused(r, n).monthly \in Nat
           /\ Unused(r, n).permanent \in Nat
           /\ Parts(Unused(r, n)) = run[r].reserved - n
<1> DEFINE a == run[r]
<1>1. /\ a.daily \in Nat /\ a.monthly \in Nat /\ a.permanent \in Nat
      /\ a.reserved = a.daily + a.monthly + a.permanent
      /\ a.reserved \in Nat
  BY DEF TypeOK, RunRow, HoldsAddUp
<1>2. n <= Total(a)
  BY <1>1 DEF Total
<1> DEFINE b == Breakdown(a, n)
<1>3. /\ b.daily \in 0 .. a.daily
      /\ b.monthly \in 0 .. a.monthly
      /\ b.permanent \in 0 .. a.permanent
      /\ b.daily + b.monthly + b.permanent = n
  BY <1>1, <1>2, BreakdownExact
<1>4. Unused(r, n) = [daily |-> a.daily - b.daily, monthly |-> a.monthly - b.monthly,
                      permanent |-> a.permanent - b.permanent]
  BY DEF Unused
<1> HIDE DEF a, b
<1>5. /\ Unused(r, n).daily = a.daily - b.daily
      /\ Unused(r, n).monthly = a.monthly - b.monthly
      /\ Unused(r, n).permanent = a.permanent - b.permanent
  BY <1>4
<1>6. QED
  <2>1. \A x, y, z \in Nat : \A i \in 0 .. x, j \in 0 .. y, k \in 0 .. z :
          /\ x - i \in Nat /\ y - j \in Nat /\ z - k \in Nat
          /\ (x - i) + (y - j) + (z - k) = (x + y + z) - (i + j + k)
    OBVIOUS
  <2>2. QED
    BY <1>1, <1>3, <1>5, <2>1 DEF Parts, a

LEMMA SettleReadsPendingType ==
    ASSUME TypeOK, NEW r \in Runs, SettleReadsPending(r)
    PROVE  TypeOK'
BY DEF SettleReadsPending, TypeOK

LEMMA SettlePendingType ==
    ASSUME TypeOK, NEW r \in Runs, SettlePending(r)
    PROVE  TypeOK'
<1>1. [run[r] EXCEPT !.status = "released"] \in RunRow
  BY ReleasedType DEF TypeOK
<1>2. QED
  BY <1>1 DEF SettlePending, TypeOK

LEMMA SettleType ==
    ASSUME TypeOK, HoldsAddUp, NEW r \in Runs, NEW o \in Outcomes, Settle(r, o)
    PROVE  TypeOK'
<1> DEFINE u == Owner[r]
           n == Billed(r, o)
           back == Refund(Unused(r, n), run[r].created)
<1>1. u \in Users
  BY BillingAssumption
<1>2. n \in Nat /\ n <= run[r].reserved
  BY ChargeType
<1>3. /\ Unused(r, n).daily \in Nat
      /\ Unused(r, n).monthly \in Nat
      /\ Unused(r, n).permanent \in Nat
      /\ Parts(Unused(r, n)) \in Nat
  BY <1>2, UnusedType DEF Parts
<1>4. back.daily \in Nat /\ back.monthly \in Nat /\ back.permanent \in Nat
  BY <1>3, RefundType
<1>5. Ensured(account[u]) \in AccountRow
  BY <1>1, ResetGainType
<1>6. Credited(Ensured(account[u]), back) \in AccountRow
  BY <1>4, <1>5, CreditedType
<1> HIDE DEF n, back
<1>7. account' \in [Users -> AccountRow]
  BY <1>1, <1>6 DEF TypeOK, Settle, n, back
<1>8. run' \in [Runs -> RunRow]
  <2> DEFINE base == IF o = "success" THEN run[r].base ELSE 0
             row == [run[r] EXCEPT !.status = FinalStatus(n, o), !.actual = n,
                                   !.base = base]
  <2>1. run[r] \in RunRow /\ base \in Nat
    BY DEF TypeOK, RunRow
  <2>2. FinalStatus(n, o) \in Statuses
    BY DEF FinalStatus, Statuses, Terminal
  <2>3. run' = [run EXCEPT ![r] = row]
    BY DEF Settle, n
  <2> HIDE DEF base
  <2>4. row \in RunRow
    BY <1>2, <2>1, <2>2 DEF RunRow
  <2> HIDE DEF row
  <2>5. QED
    BY <2>3, <2>4 DEF TypeOK
<1>9. ledger' \in [Runs -> Nat]
  BY <1>2 DEF TypeOK, Settle, n
<1>10. granted' \in [Users -> Int]
  BY <1>1, ResetGainType DEF TypeOK, Settle
<1>11. refunded' \in [Runs -> Nat]
  <2>1. refunded[r] + Parts(Unused(r, n)) \in Nat
    BY <1>3 DEF TypeOK, n
  <2>2. QED
    BY <2>1 DEF TypeOK, Settle, n
<1>12. QED
  BY <1>7, <1>8, <1>9, <1>10, <1>11 DEF TypeOK, Settle

LEMMA ViewAccountType ==
    ASSUME TypeOK, NEW u \in Users, ViewAccount(u)
    PROVE  TypeOK'
<1>1. Expired(u) \in SUBSET Runs
  BY DEF Expired
<1>2. ReleasedRuns(Expired(u)) \in [Runs -> RunRow]
      /\ RefundedAll(Expired(u)) \in [Runs -> Nat]
  BY <1>1, ReleasedRunsType
<1>3. ResetGain(u) \in Int
  BY ResetGainType
<1>4. QED
  BY <1>2, <1>3 DEF ViewAccount, TypeOK

LEMMA TouchAccountType ==
    ASSUME TypeOK, NEW u \in Users, TouchAccount(u)
    PROVE  TypeOK'
BY ResetGainType DEF TouchAccount, TypeOK

LEMMA UpgradePlanType ==
    ASSUME TypeOK, NEW u \in Users, NEW i \in Invites, UpgradePlan(u, i)
    PROVE  TypeOK'
<1> DEFINE a == Ensured(account[u])
           p == InvitePlan[i]
           e == (IF a.planExpire > now THEN a.planExpire ELSE now) + PlanLength
           b == [a EXCEPT !.plan = p, !.planExpire = e, !.daily = DailyQuota[p],
                          !.monthly = MonthlyQuota[p],
                          !.dailyReset = Day(now), !.monthlyReset = Month(now)]
<1>1. a \in AccountRow
  BY ResetGainType
<1> HIDE DEF a
<1>2. p \in Plans /\ DailyQuota[p] \in Nat /\ MonthlyQuota[p] \in Nat
  BY BillingAssumption
<1>3. now \in Nat /\ Day(now) \in Nat /\ Month(now) \in Nat
  BY PeriodType DEF TypeOK
<1>4. e \in Nat
  BY <1>1, <1>3, BillingAssumption DEF AccountRow
<1> HIDE DEF p, e
<1>5. b \in AccountRow
  BY <1>1, <1>2, <1>3, <1>4 DEF AccountRow
<1>6. /\ account' = [account EXCEPT ![u] = b]
      /\ granted' = [granted EXCEPT ![u] = granted[u] + (Total(b) - Total(account[u]))]
  BY DEF UpgradePlan, a, p, e
<1> HIDE DEF b
<1>7. account[u] \in AccountRow
  BY DEF TypeOK
<1>8. Total(b) - Total(account[u]) \in Int
  BY <1>5, <1>7, TotalType
<1>9. account' \in [Users -> AccountRow] /\ granted' \in [Users -> Int]
  BY <1>5, <1>6, <1>8 DEF TypeOK
<1>10. QED
  BY <1>9 DEF TypeOK, UpgradePlan

LEMMA TopUpType ==
    ASSUME TypeOK, NEW u \in Users, NEW i \in Invites, TopUp(u, i)
    PROVE  TypeOK'
<1> DEFINE a == Ensured(account[u])
           n == InviteTopup[i]
<1>1. a \in AccountRow /\ ResetGain(u) \in Int /\ n \in Nat
  BY ResetGainType, BillingAssumption
<1>2. [a EXCEPT !.permanent = a.permanent + n] \in AccountRow
  <2>1. a.permanent + n \in Nat
    BY <1>1 DEF AccountRow
  <2> HIDE DEF a
  <2>2. QED
    BY <1>1, <2>1 DEF AccountRow
<1>3. account' \in [Users -> AccountRow]
  BY <1>2 DEF TopUp, TypeOK
<1>4. granted' \in [Users -> Int]
  BY <1>1 DEF TopUp, TypeOK
<1>5. QED
  BY <1>3, <1>4 DEF TopUp, TypeOK

LEMMA AdjustType ==
    ASSUME TypeOK, NEW u \in Users, NEW n \in Adjustments, Adjust(u, n)
    PROVE  TypeOK'
<1> DEFINE a == Ensured(account[u])
<1>1. a \in AccountRow /\ ResetGain(u) \in Int /\ n \in Int
  BY ResetGainType, BillingAssumption
<1>2. a.permanent = account[u].permanent
  BY DEF Ensured
<1>3. a.permanent + n \in Nat
  BY <1>2, BillingAssumption DEF Adjust
<1>4. [a EXCEPT !.permanent = a.permanent + n] \in AccountRow
  <2> HIDE DEF a
  <2>1. QED
    BY <1>1, <1>3 DEF AccountRow
<1>5. account' \in [Users -> AccountRow]
  BY <1>4 DEF Adjust, TypeOK
<1>6. granted' \in [Users -> Int]
  BY <1>1 DEF Adjust, TypeOK
<1>7. QED
  BY <1>5, <1>6 DEF Adjust, TypeOK

LEMMA TickType ==
    ASSUME TypeOK, Tick
    PROVE  TypeOK'
BY DEF Tick, TypeOK

(***************************************************************************)
(* Holds add up                                                            *)
(***************************************************************************)

RowAddsUp(x) ==
    /\ x.reserved = x.daily + x.monthly + x.permanent
    /\ x.status \in {"none", "pending"} => x.reserved = 0

\* Releasing a row changes its status only.
LEMMA ReleasedRowAddsUp ==
    ASSUME TypeOK, HoldsAddUp, NEW r \in Runs
    PROVE  RowAddsUp([run[r] EXCEPT !.status = "released"])
BY DEF TypeOK, RunRow, HoldsAddUp, RowAddsUp

LEMMA AuthorizeAddsUp ==
    ASSUME TypeOK, HoldsAddUp, NEW r \in Runs, Authorize(r)
    PROVE  HoldsAddUp'
<1> DEFINE S == Expired(Owner[r])
           a == Released(Ensured(account[Owner[r]]), S)
<1>1. PICK q \in Quotes :
        LET b == Breakdown(a, q.reserve)
        IN  /\ q.reserve <= Total(a)
            /\ run' = [ReleasedRuns(S) EXCEPT ![r] =
                  [@ EXCEPT !.status = "authorized", !.reserved = q.reserve,
                            !.daily = b.daily, !.monthly = b.monthly,
                            !.permanent = b.permanent, !.base = q.base,
                            !.expires = now + TTL]]
  BY DEF Authorize
<1> DEFINE b == Breakdown(a, q.reserve)
<1>2. q.reserve \in Nat /\ q.reserve <= Total(a)
  BY <1>1, BillingAssumption
<1>3. a.daily \in Nat /\ a.monthly \in Nat /\ a.permanent \in Nat
  BY DEF Authorize, AccountRow
<1>4. q.reserve = b.daily + b.monthly + b.permanent
  <2>1. b.daily \in Nat /\ b.monthly \in Nat /\ b.permanent \in Nat
    BY <1>2, <1>3, BreakdownExact
  <2>2. QED
    BY <1>2, <1>3, <2>1, BreakdownExact
<1>5. ReleasedRuns(S) \in [Runs -> RunRow]
  BY ReleasedRunsType DEF Expired
<1> HIDE DEF S, a, b
<1>6. run'[r].status = "authorized" /\ run'[r].reserved = q.reserve
      /\ run'[r].daily = b.daily /\ run'[r].monthly = b.monthly
      /\ run'[r].permanent = b.permanent
  BY <1>1, <1>5 DEF RunRow, b
<1>7. RowAddsUp(run'[r])
  BY <1>4, <1>6 DEF RowAddsUp
<1>8. ASSUME NEW s \in Runs, s # r
      PROVE  RowAddsUp(run'[s])
  <2>1. run'[s] = ReleasedRuns(S)[s]
    BY <1>1, <1>5, <1>8
  <2>2. RowAddsUp(run[s])
    BY DEF HoldsAddUp, RowAddsUp
  <2>3. QED
    BY <2>1, <2>2, ReleasedRowAddsUp DEF ReleasedRuns
<1>9. QED
  BY <1>7, <1>8 DEF HoldsAddUp, RowAddsUp

LEMMA ReserveToolAddsUp ==
    ASSUME TypeOK, HoldsAddUp, NEW r \in Runs, NEW c \in Calls, ReserveTool(r, c)
    PROVE  HoldsAddUp'
<1> DEFINE a == Ensured(account[Owner[r]])
<1>1. PICK n \in ToolQuotes :
        LET b == Breakdown(a, n)
        IN  /\ n <= Total(a)
            /\ run' = [run EXCEPT ![r] =
                  [run[r] EXCEPT !.reserved = @ + n, !.daily = @ + b.daily,
                            !.monthly = @ + b.monthly,
                            !.permanent = @ + b.permanent,
                            !.expires = now + TTL]]
  BY DEF ReserveTool
<1> DEFINE b == Breakdown(a, n)
<1>2. n \in Nat /\ n <= Total(a)
  BY <1>1, BillingAssumption
<1>3. a.daily \in Nat /\ a.monthly \in Nat /\ a.permanent \in Nat
  BY BillingAssumption, ResetGainType DEF AccountRow
<1>4. /\ b.daily \in Nat /\ b.monthly \in Nat /\ b.permanent \in Nat
      /\ n = b.daily + b.monthly + b.permanent
  <2>1. b.daily \in Nat /\ b.monthly \in Nat /\ b.permanent \in Nat
    BY <1>2, <1>3, BreakdownExact
  <2>2. QED
    BY <1>2, <1>3, <2>1, BreakdownExact
<1> HIDE DEF a, b
<1>5. run[r] \in RunRow /\ run \in [Runs -> RunRow]
  BY DEF TypeOK
<1>6. /\ run'[r].status = run[r].status
      /\ run'[r].reserved = run[r].reserved + n
      /\ run'[r].daily = run[r].daily + b.daily
      /\ run'[r].monthly = run[r].monthly + b.monthly
      /\ run'[r].permanent = run[r].permanent + b.permanent
  BY <1>1, <1>5 DEF RunRow, b
<1>7. run[r].status = "authorized"
  BY DEF ReserveTool, MayReserve
<1>8. RowAddsUp(run[r])
  BY DEF HoldsAddUp, RowAddsUp
<1>9. RowAddsUp(run'[r])
  BY <1>4, <1>5, <1>6, <1>7, <1>8 DEF RowAddsUp, RunRow
<1>10. ASSUME NEW s \in Runs, s # r
       PROVE  RowAddsUp(run'[s])
  <2>1. run'[s] = run[s]
    BY <1>1, <1>5, <1>10
  <2>2. QED
    BY <2>1 DEF HoldsAddUp, RowAddsUp
<1>11. QED
  BY <1>9, <1>10 DEF HoldsAddUp, RowAddsUp

LEMMA SettleAddsUp ==
    ASSUME TypeOK, HoldsAddUp, NEW r \in Runs, NEW o \in Outcomes, Settle(r, o)
    PROVE  HoldsAddUp'
<1>1. run \in [Runs -> RunRow] /\ run[r] \in RunRow
  BY DEF TypeOK
<1> DEFINE n == Billed(r, o)
           base == IF o = "success" THEN run[r].base ELSE 0
<1>2. run' = [run EXCEPT ![r] = [run[r] EXCEPT !.status = FinalStatus(n, o),
                                               !.actual = n, !.base = base]]
  BY DEF Settle
<1> HIDE DEF n, base
<1>3. /\ run'[r].status = FinalStatus(n, o)
      /\ run'[r].reserved = run[r].reserved
      /\ run'[r].daily = run[r].daily
      /\ run'[r].monthly = run[r].monthly
      /\ run'[r].permanent = run[r].permanent
  BY <1>1, <1>2 DEF RunRow
<1>4. FinalStatus(n, o) \notin {"none", "pending"}
  BY DEF FinalStatus
<1>5. \A s \in Runs : s # r => run'[s] = run[s]
  BY <1>1, <1>2
<1>6. QED
  BY <1>3, <1>4, <1>5 DEF HoldsAddUp

LEMMA ViewAccountAddsUp ==
    ASSUME TypeOK, HoldsAddUp, NEW u \in Users, ViewAccount(u)
    PROVE  HoldsAddUp'
<1>1. run' = ReleasedRuns(Expired(u))
  BY DEF ViewAccount
<1>2. ASSUME NEW s \in Runs
      PROVE  RowAddsUp(run'[s])
  <2>1. RowAddsUp(run[s])
    BY DEF HoldsAddUp, RowAddsUp
  <2>2. QED
    BY <1>1, <2>1, ReleasedRowAddsUp DEF ReleasedRuns
<1>3. QED
  BY <1>2 DEF HoldsAddUp, RowAddsUp

LEMMA StatusStepAddsUp ==
    ASSUME TypeOK, HoldsAddUp, NEW r \in Runs,
           CreateRun(r) \/ AuthorizeClarification(r) \/ SettlePending(r)
    PROVE  HoldsAddUp'
<1>1. run \in [Runs -> RunRow] /\ run[r] \in RunRow
  BY DEF TypeOK
<1>2. CASE CreateRun(r)
  BY <1>1, <1>2 DEF CreateRun, NoRun, HoldsAddUp
<1>3. CASE run' = [run EXCEPT ![r].status = "released"]
  <2>1. /\ run'[r].status = "released"
        /\ run'[r].reserved = run[r].reserved
        /\ run'[r].daily = run[r].daily
        /\ run'[r].monthly = run[r].monthly
        /\ run'[r].permanent = run[r].permanent
    BY <1>1, <1>3 DEF RunRow
  <2>2. \A s \in Runs : s # r => run'[s] = run[s]
    BY <1>1, <1>3
  <2>3. QED
    BY <2>1, <2>2 DEF HoldsAddUp
<1>4. QED
  BY <1>2, <1>3 DEF AuthorizeClarification, SettlePending

(***************************************************************************)
(* Every step keeps the types and the sums.  The two go together: a refund *)
(* is a natural number because the parts of the hold add up to it.         *)
(***************************************************************************)
LEMMA HoldStep ==
    ASSUME TypeOK, HoldsAddUp, [Next]_vars
    PROVE  TypeOK' /\ HoldsAddUp'
<1>1. CASE UNCHANGED vars
  BY <1>1 DEF vars, TypeOK, HoldsAddUp
<1>2. CASE Tick
  BY <1>2, TickType DEF Tick, HoldsAddUp
<1>3. CASE RunNext
  <2>1. PICK r \in Runs :
          \/ CreateRun(r)
          \/ AuthorizeClarification(r)
          \/ Authorize(r)
          \/ \E c \in Calls : ReserveTool(r, c) \/ RecordTool(r, c)
          \/ \E t \in Turns : RecordModel(r, t)
          \/ SettleReadsPending(r)
          \/ SettlePending(r)
          \/ \E o \in Outcomes : Settle(r, o)
    BY <1>3 DEF RunNext
  <2>2. CASE CreateRun(r)
    BY <2>2, CreateRunType, StatusStepAddsUp
  <2>3. CASE AuthorizeClarification(r)
    BY <2>3, AuthorizeClarificationType, StatusStepAddsUp
  <2>4. CASE Authorize(r)
    BY <2>4, AuthorizeType, AuthorizeAddsUp
  <2>5. CASE \E c \in Calls : ReserveTool(r, c)
    BY <2>5, ReserveToolType, ReserveToolAddsUp
  <2>6. CASE \E c \in Calls : RecordTool(r, c)
    BY <2>6, RecordToolType DEF RecordTool, HoldsAddUp
  <2>7. CASE \E t \in Turns : RecordModel(r, t)
    BY <2>7, RecordModelType DEF RecordModel, HoldsAddUp
  <2>8. CASE SettleReadsPending(r)
    BY <2>8, SettleReadsPendingType DEF SettleReadsPending, HoldsAddUp
  <2>9. CASE SettlePending(r)
    BY <2>9, SettlePendingType, StatusStepAddsUp
  <2>10. CASE \E o \in Outcomes : Settle(r, o)
    BY <2>10, SettleType, SettleAddsUp
  <2>11. QED
    BY <2>1, <2>2, <2>3, <2>4, <2>5, <2>6, <2>7, <2>8, <2>9, <2>10
<1>4. CASE AccountNext
  <2>1. PICK u \in Users :
          \/ ViewAccount(u)
          \/ TouchAccount(u)
          \/ \E i \in Invites : UpgradePlan(u, i) \/ TopUp(u, i)
          \/ \E n \in Adjustments : Adjust(u, n)
    BY <1>4 DEF AccountNext
  <2>2. CASE ViewAccount(u)
    BY <2>2, ViewAccountType, ViewAccountAddsUp
  <2>3. CASE TouchAccount(u)
    BY <2>3, TouchAccountType DEF TouchAccount, HoldsAddUp
  <2>4. CASE \E i \in Invites : UpgradePlan(u, i)
    BY <2>4, UpgradePlanType DEF UpgradePlan, HoldsAddUp
  <2>5. CASE \E i \in Invites : TopUp(u, i)
    BY <2>5, TopUpType DEF TopUp, HoldsAddUp
  <2>6. CASE \E n \in Adjustments : Adjust(u, n)
    BY <2>6, AdjustType DEF Adjust, HoldsAddUp
  <2>7. QED
    BY <2>1, <2>2, <2>3, <2>4, <2>5, <2>6
<1>5. QED
  BY <1>1, <1>2, <1>3, <1>4 DEF Next

\* Accounts and runs keep their types, no bucket and no hold is ever negative,
\* and every hold is the sum of what was taken from the buckets.
THEOREM TypesAndHolds == Spec => [](TypeOK /\ HoldsAddUp)
<1>1. Init => TypeOK /\ HoldsAddUp
  BY InitType DEF Init, NoRun, HoldsAddUp
<1>2. TypeOK /\ HoldsAddUp /\ [Next]_vars => (TypeOK /\ HoldsAddUp)'
  BY HoldStep
<1>3. QED
  BY <1>1, <1>2, PTL DEF Spec

(***************************************************************************)
(* The life of a run's hold.  RunOK relates the row, what was given back   *)
(* for it and what the ledger shows; SettlingOK says why a settlement that *)
(* read its run as pending may release it without looking again, as long   *)
(* as no authorisation comes in between.                                   *)
(***************************************************************************)

Open == {"none", "pending", "authorized"}

\* A hold that a stale settlement released without giving anything back.
Forgotten(x, f) == StalePreview /\ x.status = "released" /\ x.actual = 0 /\ f = 0

RunOK(x, f, l) ==
    /\ x.status \in Open => x.actual = 0 /\ f = 0
    /\ x.status \in Terminal => x.reserved = x.actual + f \/ Forgotten(x, f)
    /\ l = x.actual
    /\ x.actual <= x.reserved

SettlingOK ==
    \A r \in settling :
        /\ run[r].status # "none"
        /\ StalePreview \/ run[r].status \in {"pending", "released"}

RunInv ==
    /\ \A r \in Runs : RunOK(run[r], refunded[r], ledger[r])
    /\ SettlingOK

LEMMA RunTypes ==
    ASSUME TypeOK, HoldsAddUp, NEW r \in Runs
    PROVE  /\ run \in [Runs -> RunRow]
           /\ refunded \in [Runs -> Nat]
           /\ ledger \in [Runs -> Nat]
           /\ run[r].reserved \in Nat /\ run[r].actual \in Nat
           /\ run[r].status \in Statuses
           /\ refunded[r] \in Nat /\ ledger[r] \in Nat
           /\ Parts(run[r]) = run[r].reserved
           /\ run[r].status \in {"none", "pending"} => run[r].reserved = 0
BY DEF TypeOK, RunRow, HoldsAddUp, Parts

\* Releasing expired holds gives all of each back, once.
LEMMA ReleasedRunsOK ==
    ASSUME TypeOK, HoldsAddUp, RunInv, NEW u, NEW r \in Runs
    PROVE  RunOK(ReleasedRuns(Expired(u))[r], RefundedAll(Expired(u))[r], ledger[r])
<1>1. RunOK(run[r], refunded[r], ledger[r])
  BY DEF RunInv
<1>2. CASE r \notin Expired(u)
  BY <1>1, <1>2 DEF ReleasedRuns, RefundedAll
<1>3. CASE r \in Expired(u)
  <2>1. run[r].status = "authorized"
    BY <1>3 DEF Expired
  <2>2. /\ ReleasedRuns(Expired(u))[r] = [run[r] EXCEPT !.status = "released"]
        /\ RefundedAll(Expired(u))[r] = refunded[r] + Parts(run[r])
    BY <1>3 DEF ReleasedRuns, RefundedAll
  <2>3. run[r] \in RunRow
    BY DEF TypeOK
  <2> DEFINE x == ReleasedRuns(Expired(u))[r]
  <2>4. x.status = "released" /\ x.actual = run[r].actual /\ x.reserved = run[r].reserved
    BY <2>2, <2>3 DEF RunRow
  <2> HIDE DEF x
  <2>5. refunded[r] = 0 /\ run[r].actual = 0
    BY <1>1, <2>1 DEF RunOK, Open
  <2>6. RunOK(x, refunded[r] + Parts(run[r]), ledger[r])
    BY <1>1, <2>4, <2>5, RunTypes DEF RunOK, Open, Terminal
  <2>7. QED
    BY <2>2, <2>6 DEF x
<1>4. QED
  BY <1>2, <1>3

LEMMA ReleasedStatus ==
    ASSUME TypeOK, NEW u, NEW r \in Runs
    PROVE  /\ run[r].status # "authorized" => ReleasedRuns(Expired(u))[r] = run[r]
           /\ run[r].status # "authorized" => RefundedAll(Expired(u))[r] = refunded[r]
BY DEF ReleasedRuns, RefundedAll, Expired

\* A settlement that is under way does not mind that holds expire.
LEMMA SettlingReleased ==
    ASSUME TypeOK, SettlingOK, NEW u, NEW s \in settling
    PROVE  /\ ReleasedRuns(Expired(u))[s].status # "none"
           /\ StalePreview \/ ReleasedRuns(Expired(u))[s].status \in {"pending", "released"}
<1>1. s \in Runs /\ run[s] \in RunRow
  BY DEF TypeOK
<1>2. CASE s \notin Expired(u)
  BY <1>1, <1>2 DEF ReleasedRuns, SettlingOK
<1>3. CASE s \in Expired(u)
  <2>1. ReleasedRuns(Expired(u))[s] = [run[s] EXCEPT !.status = "released"]
    BY <1>1, <1>3 DEF ReleasedRuns
  <2>2. QED
    BY <1>1, <2>1 DEF RunRow
<1>4. QED
  BY <1>2, <1>3

LEMMA CreateRunOK ==
    ASSUME TypeOK, HoldsAddUp, RunInv, NEW r \in Runs, CreateRun(r)
    PROVE  RunInv'
<1>1. run' = [run EXCEPT ![r] = [NoRun EXCEPT !.status = "pending", !.created = now]]
      /\ UNCHANGED <<ledger, refunded, settling>>
  BY DEF CreateRun
<1>2. /\ run'[r].status = "pending" /\ run'[r].actual = 0 /\ run'[r].reserved = 0
      /\ \A s \in Runs : s # r => run'[s] = run[s]
  BY <1>1, RunTypes DEF NoRun
<1>3. refunded[r] = 0 /\ ledger[r] = 0
  BY RunTypes DEF CreateRun, RunInv, RunOK, Open
<1>4. RunOK(run'[r], refunded'[r], ledger'[r])
  BY <1>1, <1>2, <1>3 DEF RunOK, Open, Terminal
<1>5. settling \subseteq Runs
  BY DEF TypeOK
<1>6. QED
  BY <1>1, <1>2, <1>4, <1>5 DEF RunInv, SettlingOK

\* A run is released: one that never held anything, unless the settlement is stale.
LEMMA DropOK ==
    ASSUME TypeOK, HoldsAddUp, RunInv, NEW r \in Runs,
           run[r].status # "none",
           StalePreview \/ run[r].status \in {"pending", "released"},
           run' = [run EXCEPT ![r].status = "released"],
           settling' \subseteq settling,
           UNCHANGED <<ledger, refunded>>
    PROVE  RunInv'
<1>1. run[r] \in RunRow /\ run \in [Runs -> RunRow] /\ settling \subseteq Runs
  BY DEF TypeOK
<1>2. /\ run'[r].status = "released"
      /\ run'[r].actual = run[r].actual /\ run'[r].reserved = run[r].reserved
      /\ \A s \in Runs : s # r => run'[s] = run[s]
  BY <1>1 DEF RunRow
<1>3. RunOK(run'[r], refunded'[r], ledger'[r])
  <2>1. RunOK(run[r], refunded[r], ledger[r])
    BY DEF RunInv
  <2>2. CASE run[r].status \in Terminal
    BY <1>2, <2>1, <2>2 DEF RunOK, Open, Terminal, Forgotten
  <2>3. CASE run[r].status = "pending"
    <3>1. run[r].actual = 0 /\ refunded[r] = 0 /\ run[r].reserved = 0
      BY <2>1, <2>3, RunTypes DEF RunOK, Open
    <3>2. QED
      BY <1>2, <2>1, <3>1 DEF RunOK, Open, Terminal
  <2>4. CASE run[r].status = "authorized"
    <3>1. run[r].actual = 0 /\ refunded[r] = 0 /\ StalePreview
      BY <2>1, <2>4 DEF RunOK, Open
    <3>2. QED
      BY <1>2, <2>1, <3>1 DEF RunOK, Open, Terminal, Forgotten
  <2>5. run[r].status \in Terminal \cup {"none", "pending", "authorized"}
    BY RunTypes DEF Statuses, Terminal
  <2>6. QED
    BY <2>2, <2>3, <2>4, <2>5
<1>4. QED
  BY <1>1, <1>2, <1>3 DEF RunInv, SettlingOK

LEMMA AuthorizeOK ==
    ASSUME TypeOK, HoldsAddUp, RunInv, NEW r \in Runs, Authorize(r)
    PROVE  RunInv'
<1> DEFINE S == Expired(Owner[r])
           a == Released(Ensured(account[Owner[r]]), S)
<1>1. PICK q \in Quotes :
        LET b == Breakdown(a, q.reserve)
        IN  run' = [ReleasedRuns(S) EXCEPT ![r] =
                  [@ EXCEPT !.status = "authorized", !.reserved = q.reserve,
                            !.daily = b.daily, !.monthly = b.monthly,
                            !.permanent = b.permanent, !.base = q.base,
                            !.expires = now + TTL]]
  BY DEF Authorize
<1>2. ReleasedRuns(S) \in [Runs -> RunRow]
  BY ReleasedRunsType DEF Expired
<1>3. run[r].status = "pending" /\ (StalePreview \/ r \notin settling)
  BY DEF Authorize
<1>4. /\ refunded' = RefundedAll(S) /\ UNCHANGED <<ledger, settling>>
  BY DEF Authorize
<1>5. ReleasedRuns(S)[r] = run[r] /\ refunded'[r] = refunded[r]
  BY <1>3, <1>4, ReleasedStatus
<1> HIDE DEF a, S
<1>6. /\ run'[r].status = "authorized" /\ run'[r].reserved = q.reserve
      /\ run'[r].actual = run[r].actual
      /\ \A s \in Runs : s # r => run'[s] = ReleasedRuns(S)[s]
  BY <1>1, <1>2, <1>5 DEF RunRow
<1>7. RunOK(run'[r], refunded'[r], ledger'[r])
  <2>1. RunOK(run[r], refunded[r], ledger[r]) /\ q.reserve \in Nat
    BY BillingAssumption DEF RunInv
  <2>2. run[r].actual = 0 /\ refunded[r] = 0
    BY <1>3, <2>1 DEF RunOK, Open
  <2>3. QED
    BY <1>4, <1>5, <1>6, <2>1, <2>2 DEF RunOK, Open, Terminal
<1>8. ASSUME NEW s \in Runs, s # r
      PROVE  RunOK(run'[s], refunded'[s], ledger'[s])
  BY <1>4, <1>6, <1>8, ReleasedRunsOK DEF S
<1>9. ASSUME NEW s \in settling
      PROVE  /\ run'[s].status # "none"
             /\ StalePreview \/ run'[s].status \in {"pending", "released"}
  <2>1. s \in Runs
    BY DEF TypeOK
  <2>2. CASE s = r
    BY <1>3, <1>6, <1>9, <2>2
  <2>3. CASE s # r
    <3>1. run'[s] = ReleasedRuns(S)[s]
      BY <1>6, <2>1, <2>3
    <3>2. QED
      BY <2>1, <3>1, SettlingReleased DEF S, RunInv
  <2>4. QED
    BY <2>2, <2>3
<1>10. QED
  BY <1>4, <1>7, <1>8, <1>9 DEF RunInv, SettlingOK

LEMMA ReserveToolOK ==
    ASSUME TypeOK, HoldsAddUp, RunInv, NEW r \in Runs, NEW c \in Calls, ReserveTool(r, c)
    PROVE  RunInv'
<1>1. PICK n \in ToolQuotes :
        LET b == Breakdown(Ensured(account[Owner[r]]), n)
        IN  run' = [run EXCEPT ![r] =
                  [run[r] EXCEPT !.reserved = @ + n, !.daily = @ + b.daily,
                            !.monthly = @ + b.monthly,
                            !.permanent = @ + b.permanent,
                            !.expires = now + TTL]]
  BY DEF ReserveTool
<1> DEFINE b == Breakdown(Ensured(account[Owner[r]]), n)
<1> HIDE DEF b
<1>2. run[r] \in RunRow /\ run \in [Runs -> RunRow] /\ settling \subseteq Runs
  BY DEF TypeOK
<1>3. /\ run'[r].status = run[r].status /\ run'[r].actual = run[r].actual
      /\ run'[r].reserved = run[r].reserved + n
      /\ \A s \in Runs : s # r => run'[s] = run[s]
  BY <1>1, <1>2 DEF RunRow
<1>4. UNCHANGED <<ledger, refunded, settling>>
  BY DEF ReserveTool
<1>5. run[r].status = "authorized" /\ n \in Nat
  BY BillingAssumption DEF ReserveTool, MayReserve
<1>6. RunOK(run'[r], refunded'[r], ledger'[r])
  <2>1. RunOK(run[r], refunded[r], ledger[r])
    BY DEF RunInv
  <2>2. QED
    BY <1>3, <1>4, <1>5, <2>1, RunTypes DEF RunOK, Open, Terminal
<1>7. QED
  BY <1>2, <1>3, <1>4, <1>6 DEF RunInv, SettlingOK

LEMMA SettleOK ==
    ASSUME TypeOK, HoldsAddUp, RunInv, NEW r \in Runs, NEW o \in Outcomes, Settle(r, o)
    PROVE  RunInv'
<1> DEFINE n == Billed(r, o)
           base == IF o = "success" THEN run[r].base ELSE 0
           back == Parts(Unused(r, n))
<1>1. /\ run' = [run EXCEPT ![r] = [run[r] EXCEPT !.status = FinalStatus(n, o),
                                                  !.actual = n, !.base = base]]
      /\ ledger' = [ledger EXCEPT ![r] = IF ledger[r] = 0 THEN n ELSE @]
      /\ refunded' = [refunded EXCEPT ![r] = refunded[r] + back]
      /\ settling' = settling
  BY DEF Settle
<1>2. n \in Nat /\ n <= run[r].reserved
  BY ChargeType
<1>3. back = run[r].reserved - n
  BY <1>2, UnusedType
<1> HIDE DEF n, base, back
<1>4. run[r] \in RunRow /\ run \in [Runs -> RunRow] /\ settling \subseteq Runs
  BY DEF TypeOK
<1>5. /\ run'[r].status = FinalStatus(n, o) /\ run'[r].actual = n
      /\ run'[r].reserved = run[r].reserved
      /\ \A s \in Runs : s # r => run'[s] = run[s]
  BY <1>1, <1>4 DEF RunRow
<1>6. run[r].status = "authorized"
  BY DEF Settle, MaySettle
<1>7. refunded[r] = 0 /\ ledger[r] = 0
  BY <1>6, RunTypes DEF RunInv, RunOK, Open
<1>8. FinalStatus(n, o) \in Terminal
  BY DEF FinalStatus, Terminal
<1>9. refunded'[r] = run[r].reserved - n /\ ledger'[r] = n
  BY <1>1, <1>2, <1>3, <1>7, RunTypes
<1>10. RunOK(run'[r], refunded'[r], ledger'[r])
  BY <1>2, <1>5, <1>8, <1>9, RunTypes DEF RunOK, Open, Terminal
<1>11. \A s \in Runs : s # r => ledger'[s] = ledger[s] /\ refunded'[s] = refunded[s]
  BY <1>1, RunTypes
<1>12. run'[r].status # "none" /\ (StalePreview \/ r \notin settling)
  BY <1>5, <1>6, <1>8 DEF RunInv, SettlingOK, Terminal
<1>13. QED
  BY <1>1, <1>4, <1>5, <1>10, <1>11, <1>12 DEF RunInv, SettlingOK

LEMMA ViewAccountOK ==
    ASSUME TypeOK, HoldsAddUp, RunInv, NEW u \in Users, ViewAccount(u)
    PROVE  RunInv'
<1>1. /\ run' = ReleasedRuns(Expired(u))
      /\ refunded' = RefundedAll(Expired(u))
      /\ UNCHANGED <<ledger, settling>>
  BY DEF ViewAccount
<1>2. \A r \in Runs : RunOK(run'[r], refunded'[r], ledger'[r])
  BY <1>1, ReleasedRunsOK
<1>3. ASSUME NEW s \in settling
      PROVE  /\ run'[s].status # "none"
             /\ StalePreview \/ run'[s].status \in {"pending", "released"}
  BY <1>1, SettlingReleased DEF RunInv
<1>4. QED
  BY <1>1, <1>2, <1>3 DEF RunInv, SettlingOK

LEMMA RunStep ==
    ASSUME TypeOK, HoldsAddUp, RunInv, [Next]_vars
    PROVE  RunInv'
<1>1. CASE UNCHANGED <<run, refunded, ledger, settling>>
  BY <1>1 DEF RunInv, SettlingOK
<1>2. CASE RunNext
  <2>1. PICK r \in Runs :
          \/ CreateRun(r)
          \/ AuthorizeClarification(r)
          \/ Authorize(r)
          \/ \E c \in Calls : ReserveTool(r, c) \/ RecordTool(r, c)
          \/ \E t \in Turns : RecordModel(r, t)
          \/ SettleReadsPending(r)
          \/ SettlePending(r)
          \/ \E o \in Outcomes : Settle(r, o)
    BY <1>2 DEF RunNext
  <2>2. CASE CreateRun(r)
    BY <2>2, CreateRunOK
  <2>3. CASE AuthorizeClarification(r)
    BY <2>3, DropOK DEF AuthorizeClarification
  <2>4. CASE Authorize(r)
    BY <2>4, AuthorizeOK
  <2>5. CASE \E c \in Calls : ReserveTool(r, c)
    BY <2>5, ReserveToolOK
  <2>6. CASE \E c \in Calls : RecordTool(r, c)
    BY <1>1, <2>6 DEF RecordTool
  <2>7. CASE \E t \in Turns : RecordModel(r, t)
    BY <1>1, <2>7 DEF RecordModel
  <2>8. CASE SettleReadsPending(r)
    <3>1. UNCHANGED <<run, refunded, ledger>> /\ settling' = settling \cup {r}
          /\ run[r].status = "pending"
      BY <2>8 DEF SettleReadsPending
    <3>2. QED
      BY <3>1 DEF RunInv, SettlingOK
  <2>9. CASE SettlePending(r)
    <3>1. /\ run[r].status # "none"
          /\ StalePreview \/ run[r].status \in {"pending", "released"}
      BY <2>9 DEF SettlePending, RunInv, SettlingOK
    <3>2. /\ run' = [run EXCEPT ![r].status = "released"]
          /\ settling' \subseteq settling /\ UNCHANGED <<ledger, refunded>>
      BY <2>9 DEF SettlePending
    <3>3. QED
      BY <3>1, <3>2, DropOK
  <2>10. CASE \E o \in Outcomes : Settle(r, o)
    BY <2>10, SettleOK
  <2>11. QED
    BY <2>1, <2>2, <2>3, <2>4, <2>5, <2>6, <2>7, <2>8, <2>9, <2>10
<1>3. CASE AccountNext
  <2>1. PICK u \in Users :
          \/ ViewAccount(u)
          \/ TouchAccount(u)
          \/ \E i \in Invites : UpgradePlan(u, i) \/ TopUp(u, i)
          \/ \E n \in Adjustments : Adjust(u, n)
    BY <1>3 DEF AccountNext
  <2>2. CASE ViewAccount(u)
    BY <2>2, ViewAccountOK
  <2>3. CASE ~ViewAccount(u)
    BY <1>1, <2>1, <2>3 DEF TouchAccount, UpgradePlan, TopUp, Adjust
  <2>4. QED
    BY <2>2, <2>3
<1>4. QED
  BY <1>1, <1>2, <1>3 DEF Next, Tick, vars

LEMMA HoldInvariant == Spec => [](TypeOK /\ HoldsAddUp /\ RunInv)
<1>1. Init => TypeOK /\ HoldsAddUp /\ RunInv
  BY InitType DEF Init, NoRun, HoldsAddUp, RunInv, RunOK, SettlingOK, Open, Terminal
<1>2. TypeOK /\ HoldsAddUp /\ RunInv /\ [Next]_vars => (TypeOK /\ HoldsAddUp /\ RunInv)'
  BY HoldStep, RunStep
<1>3. QED
  BY <1>1, <1>2, PTL DEF Spec

\* An open run's whole hold is outstanding; a closed run's was charged or
\* given back to the last point, whatever settlements and expiries raced, when
\* no run is authorised behind the read of a settlement (billing.py,
\* settle_billing_run): such a settlement loses the hold.
THEOREM NoHoldIsLost ==
    ASSUME ~StalePreview
    PROVE  Spec => []HoldsClosed
<1>1. TypeOK /\ HoldsAddUp /\ RunInv => HoldsClosed
  BY DEF RunInv, RunOK, HoldsClosed, Open, Forgotten
<1>2. QED
  BY <1>1, HoldInvariant, PTL

\* The ledger shows what the run was charged, never more than its hold, stale
\* settlements included.
THEOREM ChargesAreExact == Spec => []ChargedOnceWithinHold
<1>1. TypeOK /\ HoldsAddUp /\ RunInv => ChargedOnceWithinHold
  BY DEF RunInv, RunOK, ChargedOnceWithinHold
<1>2. QED
  BY <1>1, HoldInvariant, PTL

LEMMA ClosedStep ==
    ASSUME TypeOK, HoldsAddUp, RunInv, [Next]_vars,
           NEW r \in Runs, run[r].status \in Terminal
    PROVE  Final(r)
<1>1. run[r].status \notin {"none", "pending", "authorized"}
  BY DEF Terminal
<1>2. run \in [Runs -> RunRow] /\ ledger \in [Runs -> Nat] /\ refunded \in [Runs -> Nat]
  BY DEF TypeOK
<1>3. CASE run'[r] = run[r] /\ ledger'[r] = ledger[r] /\ refunded'[r] = refunded[r]
  BY <1>3 DEF Final
<1>4. CASE RunNext
  <2>1. PICK s \in Runs :
          \/ CreateRun(s)
          \/ AuthorizeClarification(s)
          \/ Authorize(s)
          \/ \E c \in Calls : ReserveTool(s, c) \/ RecordTool(s, c)
          \/ \E t \in Turns : RecordModel(s, t)
          \/ SettleReadsPending(s)
          \/ SettlePending(s)
          \/ \E o \in Outcomes : Settle(s, o)
    BY <1>4 DEF RunNext
  <2>2. CASE CreateRun(s)
    BY <1>1, <1>2, <1>3, <2>2 DEF CreateRun
  <2>3. CASE AuthorizeClarification(s)
    BY <1>1, <1>2, <1>3, <2>3 DEF AuthorizeClarification
  <2>4. CASE Authorize(s)
    <3>1. s # r
      BY <1>1, <2>4 DEF Authorize
    <3>2. ReleasedRuns(Expired(Owner[s])) \in [Runs -> RunRow]
      BY ReleasedRunsType DEF Expired
    <3>3. run'[r] = ReleasedRuns(Expired(Owner[s]))[r]
      BY <2>4, <3>1, <3>2 DEF Authorize
    <3>4. refunded' = RefundedAll(Expired(Owner[s])) /\ ledger' = ledger
      BY <2>4 DEF Authorize
    <3>5. QED
      BY <1>1, <1>3, <3>3, <3>4, ReleasedStatus
  <2>5. CASE \E c \in Calls : ReserveTool(s, c)
    BY <1>1, <1>2, <1>3, <2>5 DEF ReserveTool, MayReserve
  <2>6. CASE \E c \in Calls : RecordTool(s, c)
    BY <1>3, <2>6 DEF RecordTool
  <2>7. CASE \E t \in Turns : RecordModel(s, t)
    BY <1>3, <2>7 DEF RecordModel
  <2>8. CASE SettleReadsPending(s)
    BY <1>3, <2>8 DEF SettleReadsPending
  <2>9. CASE SettlePending(s)
    <3>1. run' = [run EXCEPT ![s].status = "released"] /\ UNCHANGED <<ledger, refunded>>
      BY <2>9 DEF SettlePending
    <3>2. run'[r] \in {run[r], [run[r] EXCEPT !.status = "released"]}
      BY <1>2, <3>1
    <3>3. QED
      BY <3>1, <3>2 DEF Final
  <2>10. CASE \E o \in Outcomes : Settle(s, o)
    BY <1>1, <1>2, <1>3, <2>10 DEF Settle, MaySettle
  <2>11. QED
    BY <2>1, <2>2, <2>3, <2>4, <2>5, <2>6, <2>7, <2>8, <2>9, <2>10
<1>5. CASE AccountNext
  <2>1. PICK u \in Users :
          \/ ViewAccount(u)
          \/ TouchAccount(u)
          \/ \E i \in Invites : UpgradePlan(u, i) \/ TopUp(u, i)
          \/ \E n \in Adjustments : Adjust(u, n)
    BY <1>5 DEF AccountNext
  <2>2. CASE ViewAccount(u)
    <3>1. run' = ReleasedRuns(Expired(u)) /\ refunded' = RefundedAll(Expired(u))
          /\ ledger' = ledger
      BY <2>2 DEF ViewAccount
    <3>2. QED
      BY <1>1, <1>3, <3>1, ReleasedStatus
  <2>3. CASE ~ViewAccount(u)
    BY <1>3, <2>1, <2>3 DEF TouchAccount, UpgradePlan, TopUp, Adjust
  <2>4. QED
    BY <2>2, <2>3
<1>6. QED
  BY <1>3, <1>4, <1>5 DEF Next, Tick, vars

\* No late settlement, expiry, tool call or repeated finalize charges a closed
\* run again or gives back more for it, stale settlements included
\* (services/billing.py).
THEOREM ClosedRunsAreFinal == Spec => ClosedIsFinal
<1>1. TypeOK /\ HoldsAddUp /\ RunInv /\ [Next]_vars =>
        [\A r \in Runs : run[r].status \in Terminal => Final(r)]_vars
  BY ClosedStep
<1>2. QED
  BY <1>1, HoldInvariant, PTL DEF Spec, ClosedIsFinal

(***************************************************************************)
(* Billing implements the escrow                                           *)
(***************************************************************************)

\* What a step leaves of every run but r is what the escrow sees of it.
LEMMA SameEscrow ==
    ASSUME UNCHANGED <<run, refunded>>
    PROVE  UNCHANGED Escrow!vars
BY DEF Escrow!vars, PhaseOf

LEMMA DropImplements ==
    ASSUME TypeOK, NEW r \in Runs, run[r].status = "pending",
           run' = [run EXCEPT ![r].status = "released"], UNCHANGED refunded
    PROVE  Escrow!Drop(r)
<1>1. run \in [Runs -> RunRow]
  BY DEF TypeOK
<1>2. /\ run'[r].status = "released"
      /\ run'[r].reserved = run[r].reserved /\ run'[r].actual = run[r].actual
      /\ \A s \in Runs : s # r => run'[s] = run[s]
  BY <1>1 DEF RunRow
<1>3. PhaseOf(r) = "idle" /\ PhaseOf(r)' = "closed"
  BY <1>2 DEF PhaseOf
<1>4. \A s \in Runs : s # r => PhaseOf(s)' = PhaseOf(s)
  BY <1>2 DEF PhaseOf
<1>5. [s \in Runs |-> PhaseOf(s)]' = [[s \in Runs |-> PhaseOf(s)] EXCEPT ![r] = "closed"]
  BY <1>3, <1>4
<1>6. [s \in Runs |-> run[s].reserved]' = [s \in Runs |-> run[s].reserved]
  BY <1>2
<1>7. [s \in Runs |-> run[s].actual]' = [s \in Runs |-> run[s].actual]
  BY <1>2
<1>8. QED
  BY <1>3, <1>5, <1>6, <1>7 DEF Escrow!Drop

LEMMA CreateRunImplements ==
    ASSUME TypeOK, HoldsAddUp, RunInv, NEW r \in Runs, CreateRun(r)
    PROVE  UNCHANGED Escrow!vars
<1>1. run' = [run EXCEPT ![r] = [NoRun EXCEPT !.status = "pending", !.created = now]]
      /\ refunded' = refunded /\ run[r].status = "none"
  BY DEF CreateRun
<1>2. /\ run'[r].status = "pending" /\ run'[r].actual = 0 /\ run'[r].reserved = 0
      /\ \A s \in Runs : s # r => run'[s] = run[s]
  BY <1>1, RunTypes DEF NoRun
<1>3. run[r].actual = 0 /\ run[r].reserved = 0
  BY <1>1, RunTypes DEF RunInv, RunOK, Open
<1>4. \A s \in Runs : PhaseOf(s)' = PhaseOf(s) /\ run'[s].reserved = run[s].reserved
                        /\ run'[s].actual = run[s].actual
  BY <1>1, <1>2, <1>3 DEF PhaseOf
<1>5. QED
  BY <1>1, <1>4 DEF Escrow!vars

\* The holds that expired lapse, as the escrow sees it.
LEMMA ExpiredLapse ==
    ASSUME TypeOK, HoldsAddUp, RunInv, NEW u, NEW s \in Runs
    PROVE  /\ s \in Expired(u) => PhaseOf(s) = "held"
           /\ ReleasedRuns(Expired(u))[s].reserved = run[s].reserved
           /\ ReleasedRuns(Expired(u))[s].actual = run[s].actual
           /\ ReleasedRuns(Expired(u))[s].status =
                IF s \in Expired(u) THEN "released" ELSE run[s].status
           /\ RefundedAll(Expired(u))[s] =
                IF s \in Expired(u) THEN run[s].reserved ELSE refunded[s]
<1>1. run[s] \in RunRow
  BY DEF TypeOK
<1>2. CASE s \notin Expired(u)
  BY <1>2 DEF ReleasedRuns, RefundedAll
<1>3. CASE s \in Expired(u)
  <2>1. run[s].status = "authorized"
    BY <1>3 DEF Expired
  <2>2. refunded[s] = 0
    BY <2>1 DEF RunInv, RunOK, Open
  <2>3. RefundedAll(Expired(u))[s] = run[s].reserved
    BY <1>3, <2>2, RunTypes DEF RefundedAll
  <2>4. ReleasedRuns(Expired(u))[s] = [run[s] EXCEPT !.status = "released"]
    BY <1>3 DEF ReleasedRuns
  <2>5. QED
    BY <1>1, <1>3, <2>1, <2>3, <2>4 DEF RunRow, PhaseOf
<1>4. QED
  BY <1>2, <1>3

LEMMA AuthorizeImplements ==
    ASSUME TypeOK, HoldsAddUp, RunInv, NEW r \in Runs, Authorize(r)
    PROVE  \E T \in SUBSET Runs : Escrow!Place(r, T)
<1> DEFINE S == Expired(Owner[r])
           a == Released(Ensured(account[Owner[r]]), S)
<1>1. PICK q \in Quotes :
        LET b == Breakdown(a, q.reserve)
        IN  run' = [ReleasedRuns(S) EXCEPT ![r] =
                  [@ EXCEPT !.status = "authorized", !.reserved = q.reserve,
                            !.daily = b.daily, !.monthly = b.monthly,
                            !.permanent = b.permanent, !.base = q.base,
                            !.expires = now + TTL]]
  BY DEF Authorize
<1>2. ReleasedRuns(S) \in [Runs -> RunRow] /\ RefundedAll(S) \in [Runs -> Nat]
  BY ReleasedRunsType DEF Expired
<1>3. run[r].status = "pending" /\ refunded' = RefundedAll(S) /\ q.reserve \in Nat
  BY BillingAssumption DEF Authorize
<1>4. r \notin S
  BY <1>3 DEF Expired
<1> HIDE DEF a
<1>5. /\ run'[r].status = "authorized" /\ run'[r].reserved = q.reserve
      /\ run'[r].actual = ReleasedRuns(S)[r].actual
      /\ \A s \in Runs : s # r => run'[s] = ReleasedRuns(S)[s]
  <2> HIDE DEF S
  <2>1. QED
    BY <1>1, <1>2 DEF RunRow
<1>6. PhaseOf(r) = "idle" /\ PhaseOf(r)' = "held"
  BY <1>3, <1>5 DEF PhaseOf
<1>7. S \subseteq {s \in Runs : [t \in Runs |-> PhaseOf(t)][s] = "held"} \ {r}
  BY <1>4, ExpiredLapse DEF Expired
<1>8. \A s \in Runs : s # r => PhaseOf(s)' = IF s \in S THEN "closed" ELSE PhaseOf(s)
  <2>1. ASSUME NEW s \in Runs, s # r
        PROVE  PhaseOf(s)' = IF s \in S THEN "closed" ELSE PhaseOf(s)
    <3>1. run'[s].status = IF s \in S THEN "released" ELSE run[s].status
      BY <1>5, <2>1, ExpiredLapse
    <3>2. QED
      BY <3>1 DEF PhaseOf
  <2>2. QED
    BY <2>1
<1>9. run[r].reserved = 0
  BY <1>3, RunTypes
<1>10. \A s \in Runs : s # r => run'[s].reserved = run[s].reserved
  BY <1>5, ExpiredLapse
<1>11. \A s \in Runs : run'[s].actual = run[s].actual
  BY <1>5, ExpiredLapse
<1>12. refunded' = [s \in Runs |-> IF s \in S THEN run[s].reserved ELSE refunded[s]]
  <2>1. DOMAIN RefundedAll(S) = Runs /\ \A s \in Runs :
          RefundedAll(S)[s] = IF s \in S THEN run[s].reserved ELSE refunded[s]
    BY <1>2, ExpiredLapse
  <2>2. QED
    BY <1>2, <1>3, <2>1
<1> HIDE DEF S
<1>13. [s \in Runs |-> PhaseOf(s)]' = [s \in Runs |-> IF s = r THEN "held"
          ELSE IF s \in S THEN "closed" ELSE [t \in Runs |-> PhaseOf(t)][s]]
  BY <1>6, <1>8
<1>14. /\ [s \in Runs |-> run[s].reserved]'[r] \in Nat
       /\ [s \in Runs |-> run[s].reserved][r] <= [s \in Runs |-> run[s].reserved]'[r]
  BY <1>3, <1>5, <1>9
<1>15. [s \in Runs |-> run[s].reserved]' =
         [[s \in Runs |-> run[s].reserved] EXCEPT ![r] = [s \in Runs |-> run[s].reserved]'[r]]
  BY <1>10
<1>16. [s \in Runs |-> run[s].actual]' = [s \in Runs |-> run[s].actual]
  BY <1>11
<1>17. refunded' = Escrow!Lapsed(S, refunded, [s \in Runs |-> run[s].reserved])
  BY <1>12 DEF Escrow!Lapsed
<1>18. [s \in Runs |-> PhaseOf(s)][r] # "closed"
  BY <1>6
<1>19. PICK T \in SUBSET Runs : T = S
  BY DEF S, Expired
<1>20. Escrow!Place(r, T)
  BY <1>7, <1>13, <1>14, <1>15, <1>16, <1>17, <1>18, <1>19 DEF Escrow!Place
<1>21. QED
  BY <1>20

LEMMA ReserveToolImplements ==
    ASSUME TypeOK, HoldsAddUp, RunInv, NEW r \in Runs, NEW c \in Calls, ReserveTool(r, c)
    PROVE  Escrow!Place(r, {})
<1>1. PICK n \in ToolQuotes :
        LET b == Breakdown(Ensured(account[Owner[r]]), n)
        IN  run' = [run EXCEPT ![r] =
                  [run[r] EXCEPT !.reserved = @ + n, !.daily = @ + b.daily,
                            !.monthly = @ + b.monthly,
                            !.permanent = @ + b.permanent,
                            !.expires = now + TTL]]
  BY DEF ReserveTool
<1> DEFINE b == Breakdown(Ensured(account[Owner[r]]), n)
<1> HIDE DEF b
<1>2. run[r] \in RunRow /\ run \in [Runs -> RunRow] /\ refunded \in [Runs -> Nat]
  BY DEF TypeOK
<1>3. /\ run'[r].status = run[r].status /\ run'[r].actual = run[r].actual
      /\ run'[r].reserved = run[r].reserved + n
      /\ \A s \in Runs : s # r => run'[s] = run[s]
  BY <1>1, <1>2 DEF RunRow
<1>4. refunded' = refunded /\ run[r].status = "authorized" /\ n \in Nat
  BY BillingAssumption DEF ReserveTool, MayReserve
<1>5. PhaseOf(r) = "held" /\ \A s \in Runs : PhaseOf(s)' = PhaseOf(s)
  BY <1>3, <1>4 DEF PhaseOf
<1>6. [s \in Runs |-> PhaseOf(s)]' = [s \in Runs |-> IF s = r THEN "held"
         ELSE IF s \in {} THEN "closed" ELSE [t \in Runs |-> PhaseOf(t)][s]]
  BY <1>5
<1>7. /\ [s \in Runs |-> run[s].reserved]'[r] \in Nat
      /\ [s \in Runs |-> run[s].reserved][r] <= [s \in Runs |-> run[s].reserved]'[r]
  BY <1>3, <1>4, RunTypes
<1>8. [s \in Runs |-> run[s].reserved]' =
        [[s \in Runs |-> run[s].reserved] EXCEPT ![r] = [s \in Runs |-> run[s].reserved]'[r]]
  BY <1>3
<1>9. [s \in Runs |-> run[s].actual]' = [s \in Runs |-> run[s].actual]
  BY <1>3
<1>10. refunded' = Escrow!Lapsed({}, refunded, [s \in Runs |-> run[s].reserved])
  BY <1>2, <1>4 DEF Escrow!Lapsed
<1>11. QED
  BY <1>5, <1>6, <1>7, <1>8, <1>9, <1>10 DEF Escrow!Place

LEMMA SettleImplements ==
    ASSUME TypeOK, HoldsAddUp, RunInv, NEW r \in Runs, NEW o \in Outcomes, Settle(r, o)
    PROVE  \E k \in 0 .. run[r].reserved : Escrow!Close(r, k)
<1> DEFINE n == Billed(r, o)
           base == IF o = "success" THEN run[r].base ELSE 0
           back == Parts(Unused(r, n))
<1>1. /\ run' = [run EXCEPT ![r] = [run[r] EXCEPT !.status = FinalStatus(n, o),
                                                  !.actual = n, !.base = base]]
      /\ refunded' = [refunded EXCEPT ![r] = refunded[r] + back]
  BY DEF Settle
<1>2. n \in Nat /\ n <= run[r].reserved
  BY ChargeType
<1>3. back = run[r].reserved - n
  BY <1>2, UnusedType
<1> HIDE DEF n, base, back
<1>4. run[r] \in RunRow /\ run \in [Runs -> RunRow]
  BY DEF TypeOK
<1>5. /\ run'[r].status = FinalStatus(n, o) /\ run'[r].actual = n
      /\ run'[r].reserved = run[r].reserved
      /\ \A s \in Runs : s # r => run'[s] = run[s]
  BY <1>1, <1>4 DEF RunRow
<1>6. run[r].status = "authorized" /\ refunded[r] = 0
  BY RunTypes DEF Settle, MaySettle, RunInv, RunOK, Open
<1>7. FinalStatus(n, o) \notin {"none", "pending", "authorized"}
  BY DEF FinalStatus
<1>8. PhaseOf(r) = "held" /\ PhaseOf(r)' = "closed"
  BY <1>5, <1>6, <1>7 DEF PhaseOf
<1>9. \A s \in Runs : s # r => PhaseOf(s)' = PhaseOf(s)
  BY <1>5 DEF PhaseOf
<1>10. [s \in Runs |-> PhaseOf(s)]' = [[s \in Runs |-> PhaseOf(s)] EXCEPT ![r] = "closed"]
  BY <1>8, <1>9
<1>11. [s \in Runs |-> run[s].actual]' = [[s \in Runs |-> run[s].actual] EXCEPT ![r] = n]
  BY <1>5
<1>12. [s \in Runs |-> run[s].reserved]' = [s \in Runs |-> run[s].reserved]
  BY <1>5
<1>13. refunded' = [refunded EXCEPT ![r] = [s \in Runs |-> run[s].reserved][r] - n]
  <2>1. refunded[r] + back = run[r].reserved - n
    BY <1>2, <1>3, <1>6, RunTypes
  <2>2. QED
    BY <1>1, <2>1
<1>14. n <= [s \in Runs |-> run[s].reserved][r]
  BY <1>2
<1>15. PICK k \in 0 .. run[r].reserved : k = n
  BY <1>2, RunTypes
<1>16. Escrow!Close(r, k)
  BY <1>8, <1>10, <1>11, <1>12, <1>13, <1>14, <1>15 DEF Escrow!Close
<1>17. QED
  BY <1>16

LEMMA ViewAccountImplements ==
    ASSUME TypeOK, HoldsAddUp, RunInv, NEW u \in Users, ViewAccount(u)
    PROVE  Escrow!Lapse(Expired(u))
<1> DEFINE S == Expired(u)
<1>1. run' = ReleasedRuns(S) /\ refunded' = RefundedAll(S)
  BY DEF ViewAccount
<1>2. S \subseteq {s \in Runs : [t \in Runs |-> PhaseOf(t)][s] = "held"}
  BY ExpiredLapse DEF Expired
<1>3. ASSUME NEW s \in Runs
      PROVE  PhaseOf(s)' = IF s \in S THEN "closed" ELSE PhaseOf(s)
  <2>1. run'[s].status = IF s \in S THEN "released" ELSE run[s].status
    BY <1>1, ExpiredLapse
  <2>2. QED
    BY <2>1 DEF PhaseOf
<1>4. \A s \in Runs : run'[s].reserved = run[s].reserved /\ run'[s].actual = run[s].actual
  BY <1>1, ExpiredLapse
<1>5. refunded' = Escrow!Lapsed(S, refunded, [s \in Runs |-> run[s].reserved])
  <2>1. RefundedAll(S) = [s \in Runs |-> RefundedAll(S)[s]]
    BY DEF RefundedAll
  <2>2. \A s \in Runs :
          RefundedAll(S)[s] = IF s \in S THEN run[s].reserved ELSE refunded[s]
    BY ExpiredLapse
  <2>3. QED
    BY <1>1, <2>1, <2>2 DEF Escrow!Lapsed
<1> HIDE DEF S
<1>6. [s \in Runs |-> PhaseOf(s)]' =
        [s \in Runs |-> IF s \in S THEN "closed" ELSE [t \in Runs |-> PhaseOf(t)][s]]
  BY <1>3
<1>7. [s \in Runs |-> run[s].reserved]' = [s \in Runs |-> run[s].reserved]
  BY <1>4
<1>8. [s \in Runs |-> run[s].actual]' = [s \in Runs |-> run[s].actual]
  BY <1>4
<1>9. Escrow!Lapse(S)
  BY <1>2, <1>5, <1>6, <1>7, <1>8 DEF Escrow!Lapse
<1>10. QED
  BY <1>9 DEF S

\* A settlement that read its run as pending releases a hold that was placed
\* since, and gives nothing back.
StaleRelease(r) == run[r].status = "authorized" /\ SettlePending(r)

\* A settlement that read its run as pending closes it as the escrow allows, but
\* for a hold that was placed since.
LEMMA SettlePendingImplements ==
    ASSUME TypeOK, HoldsAddUp, RunInv, NEW r \in Runs, SettlePending(r)
    PROVE  Escrow!Drop(r) \/ UNCHANGED Escrow!vars \/ StaleRelease(r)
<1>1. /\ run' = [run EXCEPT ![r].status = "released"] /\ refunded' = refunded
      /\ run[r].status # "none"
  BY DEF SettlePending, RunInv, SettlingOK
<1>2. CASE run[r].status = "pending"
  BY <1>1, <1>2, DropImplements
<1>3. CASE run[r].status = "authorized"
  BY <1>3 DEF StaleRelease
<1>4. CASE run[r].status \notin {"none", "pending", "authorized"}
  <2>1. run[r] \in RunRow /\ run \in [Runs -> RunRow]
    BY DEF TypeOK
  <2>2. /\ run'[r].status = "released"
        /\ run'[r].reserved = run[r].reserved /\ run'[r].actual = run[r].actual
        /\ \A s \in Runs : s # r => run'[s] = run[s]
    BY <1>1, <2>1 DEF RunRow
  <2>3. \A s \in Runs : PhaseOf(s)' = PhaseOf(s) /\ run'[s].reserved = run[s].reserved
                          /\ run'[s].actual = run[s].actual
    BY <1>4, <2>2 DEF PhaseOf
  <2>4. QED
    BY <1>1, <2>3 DEF Escrow!vars
<1>5. QED
  BY <1>1, <1>2, <1>3, <1>4

LEMMA EscrowStep ==
    ASSUME TypeOK, HoldsAddUp, RunInv, [Next]_vars
    PROVE  [Escrow!Next \/ \E r \in Runs : StaleRelease(r)]_(Escrow!vars)
<1>1. CASE UNCHANGED <<run, refunded>>
  BY <1>1, SameEscrow
<1>2. CASE RunNext
  <2>1. PICK r \in Runs :
          \/ CreateRun(r)
          \/ AuthorizeClarification(r)
          \/ Authorize(r)
          \/ \E c \in Calls : ReserveTool(r, c) \/ RecordTool(r, c)
          \/ \E t \in Turns : RecordModel(r, t)
          \/ SettleReadsPending(r)
          \/ SettlePending(r)
          \/ \E o \in Outcomes : Settle(r, o)
    BY <1>2 DEF RunNext
  <2>2. CASE CreateRun(r)
    BY <2>2, CreateRunImplements
  <2>3. CASE AuthorizeClarification(r)
    BY <2>3, DropImplements DEF AuthorizeClarification, Escrow!Next
  <2>4. CASE Authorize(r)
    BY <2>4, AuthorizeImplements DEF Escrow!Next
  <2>5. CASE \E c \in Calls : ReserveTool(r, c)
    BY <2>5, ReserveToolImplements DEF Escrow!Next
  <2>6. CASE \E c \in Calls : RecordTool(r, c)
    BY <1>1, <2>6 DEF RecordTool
  <2>7. CASE \E t \in Turns : RecordModel(r, t)
    BY <1>1, <2>7 DEF RecordModel
  <2>8. CASE SettleReadsPending(r)
    BY <1>1, <2>8 DEF SettleReadsPending
  <2>9. CASE SettlePending(r)
    BY <2>9, SettlePendingImplements DEF Escrow!Next
  <2>10. CASE \E o \in Outcomes : Settle(r, o)
    <3>1. \E k \in 0 .. run[r].reserved : Escrow!Close(r, k)
      BY <2>10, SettleImplements
    <3>2. [s \in Runs |-> run[s].reserved][r] = run[r].reserved
      OBVIOUS
    <3>3. QED
      BY <3>1, <3>2 DEF Escrow!Next
  <2>11. QED
    BY <2>1, <2>2, <2>3, <2>4, <2>5, <2>6, <2>7, <2>8, <2>9, <2>10
<1>3. CASE AccountNext
  <2>1. PICK u \in Users :
          \/ ViewAccount(u)
          \/ TouchAccount(u)
          \/ \E i \in Invites : UpgradePlan(u, i) \/ TopUp(u, i)
          \/ \E n \in Adjustments : Adjust(u, n)
    BY <1>3 DEF AccountNext
  <2>2. CASE ViewAccount(u)
    <3>1. Expired(u) \in SUBSET Runs
      BY DEF Expired
    <3>2. QED
      BY <2>2, <3>1, ViewAccountImplements DEF Escrow!Next
  <2>3. CASE ~ViewAccount(u)
    BY <1>1, <2>1, <2>3 DEF TouchAccount, UpgradePlan, TopUp, Adjust
  <2>4. QED
    BY <2>2, <2>3
<1>4. QED
  BY <1>1, <1>2, <1>3 DEF Next, Tick, vars

\* Whatever overlaps, every step is one of the escrow, or a stutter, except that a
\* settlement which read its run as pending (billing.py, settle_billing_run)
\* releases the hold of a run that was authorised behind it.
THEOREM EscrowButForStaleReads ==
    Spec => Escrow!Init /\ [][Escrow!Next \/ \E r \in Runs : StaleRelease(r)]_(Escrow!vars)
<1>1. Init => Escrow!Init
  BY DEF Init, NoRun, Escrow!Init, PhaseOf
<1>2. TypeOK /\ HoldsAddUp /\ RunInv /\ [Next]_vars =>
        [Escrow!Next \/ \E r \in Runs : StaleRelease(r)]_(Escrow!vars)
  BY EscrowStep
<1>3. QED
  BY <1>1, <1>2, HoldInvariant, PTL DEF Spec

\* When no run is authorised behind the read of a settlement, every run goes
\* through the escrow: quoted, held, and closed once.
THEOREM BillingImplementsEscrow ==
    ASSUME ~StalePreview
    PROVE  Spec => ImplementsEscrow
<1>1. TypeOK /\ HoldsAddUp /\ RunInv => \A r \in Runs : ~StaleRelease(r)
  BY DEF StaleRelease, SettlePending, RunInv, SettlingOK
<1>2. TypeOK /\ HoldsAddUp /\ RunInv /\
        [Escrow!Next \/ \E r \in Runs : StaleRelease(r)]_(Escrow!vars)
        => [Escrow!Next]_(Escrow!vars)
  BY <1>1
<1>3. QED
  BY <1>2, HoldInvariant, EscrowButForStaleReads, PTL DEF ImplementsEscrow, Escrow!Spec
=============================================================================
