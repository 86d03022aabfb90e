------------------------------ MODULE Billing ------------------------------
(***************************************************************************)
(* The point accounts of agent-core: plan quotas, top-ups, and the hold    *)
(* that every run of a session places on its owner's points before it is   *)
(* metered and settled (services/billing.py, services/points.py,           *)
(* api/points.py).                                                         *)
(*                                                                         *)
(* One action is one database transaction.  Transactions that touch an     *)
(* account lock its row first and the run's row second, so each is atomic; *)
(* the exception is settle_billing_run, which decides on an unlocked read  *)
(* of a pending run and is split where the code reads and then writes.     *)
(***************************************************************************)
EXTENDS Integers, FiniteSets, Functions

CONSTANTS
    Users,            \* owners of point accounts
    Runs,             \* run identifiers
    Owner,            \* the user a run belongs to
    Quotes,           \* what authorisation may quote: [base, reserve] records
    ToolQuotes,       \* point quotes of billable tool calls
    Calls,            \* idempotency keys of tool calls
    MediaCalls,       \* the calls of tools that are billed on failure too
    CallPoints,       \* points a successful call may turn out to cost
    Turns,            \* idempotency keys of model calls
    TokenCounts,      \* weighted tokens one model call may use
    TokensPerPoint,   \* weighted tokens one point pays for
    Invites,          \* one-time invite codes
    InvitePlan,       \* the plan a code upgrades to, 0 for a top-up code
    InviteTopup,      \* the permanent points a top-up code is worth
    Adjustments,      \* amounts an administrator may add or take away
    DailyQuota,       \* daily points of each plan
    MonthlyQuota,     \* monthly points of each plan
    DayLength,        \* ticks in a day
    MonthLength,      \* ticks in a month
    PlanLength,       \* ticks a paid plan lasts
    TTL,              \* ticks a hold lasts when nobody renews it
    MaxTime,          \* bound: the clock stops here
    MaxPermanent,     \* bound: adjustments do not lift an account past this
    StalePreview      \* may a settlement overlap the run's authorisation?

Plans == 0 .. 2       \* PLAN_ORDER: free, basic, pro
NoUser == "nobody"    \* an invite code nobody has used

ASSUME BillingAssumption ==
    /\ Owner \in [Runs -> Users]
    /\ \A q \in Quotes : q.base \in Nat /\ q.reserve \in Nat /\ q.base <= q.reserve
    /\ ToolQuotes \subseteq Nat \ {0}
    /\ MediaCalls \subseteq Calls
    /\ CallPoints \subseteq Nat
    /\ TokenCounts \subseteq Nat
    /\ TokensPerPoint \in Nat \ {0}
    /\ InvitePlan \in [Invites -> Plans]
    /\ InviteTopup \in [Invites -> Nat]
    /\ Adjustments \subseteq Int
    /\ DailyQuota \in [Plans -> Nat]
    /\ MonthlyQuota \in [Plans -> Nat]
    /\ DayLength \in Nat \ {0}
    /\ MonthLength \in Nat \ {0}
    /\ PlanLength \in Nat
    /\ TTL \in Nat
    /\ MaxTime \in Nat
    /\ MaxPermanent \in Nat
    /\ StalePreview \in BOOLEAN
    /\ NoUser \notin Users

VARIABLES
    now,              \* the clock
    account,          \* point_accounts
    run,              \* point_billing_runs
    usage,            \* point_billing_usage, summed per run
    reservedCalls,    \* point_billing_reservations: keys per run
    ledger,           \* point_transactions with key billing:{run_id}
    invite,           \* invite_codes: who consumed the code
    settling,         \* settlements that have read their run as pending
    granted,          \* history: points the account was ever given
    refunded          \* history: points given back to the account per run

vars == <<now, account, run, usage, reservedCalls, ledger, invite, settling,
          granted, refunded>>

-----------------------------------------------------------------------------
(* Rows.  A definition that is followed by one of the same shape under the *)
(* code's name is a deliberate fault, which some property must detect.     *)

Terminal == {"settled", "released", "failed", "cancelled"}
Statuses == {"none", "pending", "authorized"} \cup Terminal
Outcomes == {"success", "partial", "clarification", "cancelled", "failure"}

AccountRow ==
    [plan : Plans, planExpire : Nat, daily : Nat, monthly : Nat,
     permanent : Nat, dailyReset : Nat, monthlyReset : Nat]

RunRow ==
    [status : Statuses, reserved : Nat, daily : Nat, monthly : Nat,
     permanent : Nat, base : Nat, actual : Nat, created : Nat, expires : Nat]

UsageRow == [tokens : Nat, tool : Nat, media : Nat, keys : SUBSET (Turns \cup Calls)]

NoRun ==
    [status |-> "none", reserved |-> 0, daily |-> 0, monthly |-> 0,
     permanent |-> 0, base |-> 0, actual |-> 0, created |-> 0, expires |-> 0]

\* An account is inserted on first use with the free quotas; one inserted at
\* time 0 and not touched since is indistinguishable from it.
NewAccount ==
    [plan |-> 0, planExpire |-> 0, daily |-> DailyQuota[0],
     monthly |-> MonthlyQuota[0], permanent |-> 0, dailyReset |-> 0,
     monthlyReset |-> 0]

TypeOK ==
    /\ now \in Nat
    /\ account \in [Users -> AccountRow]
    /\ run \in [Runs -> RunRow]
    /\ usage \in [Runs -> UsageRow]
    /\ reservedCalls \in [Runs -> SUBSET Calls]
    /\ ledger \in [Runs -> Nat]
    /\ invite \in [Invites -> Users \cup {NoUser}]
    /\ settling \in SUBSET Runs
    /\ granted \in [Users -> Int]
    /\ refunded \in [Runs -> Nat]

Init ==
    /\ now = 0
    /\ account = [u \in Users |-> NewAccount]
    /\ run = [r \in Runs |-> NoRun]
    /\ usage = [r \in Runs |-> [tokens |-> 0, tool |-> 0, media |-> 0, keys |-> {}]]
    /\ reservedCalls = [r \in Runs |-> {}]
    /\ ledger = [r \in Runs |-> 0]
    /\ invite = [i \in Invites |-> NoUser]
    /\ settling = {}
    /\ granted = [u \in Users |-> DailyQuota[0] + MonthlyQuota[0]]
    /\ refunded = [r \in Runs |-> 0]

-----------------------------------------------------------------------------
(* Accounts *)

Day(t) == t \div DayLength
Month(t) == t \div MonthLength
Least(m, n) == IF m <= n THEN m ELSE n

Total(a) == a.daily + a.monthly + a.permanent

EnsuredPlanKept(a) ==
    LET dayDue   == a.dailyReset # Day(now)
        monthDue == a.monthlyReset < Month(now)
    IN  [a EXCEPT !.daily = IF dayDue THEN DailyQuota[a.plan] ELSE @,
                  !.monthly = IF monthDue THEN MonthlyQuota[a.plan] ELSE @,
                  !.dailyReset = IF dayDue THEN Day(now) ELSE @,
                  !.monthlyReset = IF monthDue THEN Month(now) ELSE @]

\* ensure_point_account: a paid plan that ran out falls back to free, and the
\* daily and monthly buckets start over when their period has passed.
Ensured(a) ==
    LET lapsed   == a.plan # 0 /\ a.planExpire <= now
        plan     == IF lapsed THEN 0 ELSE a.plan
        dayDue   == lapsed \/ a.dailyReset # Day(now)
        monthDue == lapsed \/ a.monthlyReset < Month(now)
    IN  [plan         |-> plan,
         planExpire   |-> IF lapsed THEN 0 ELSE a.planExpire,
         daily        |-> IF dayDue THEN DailyQuota[plan] ELSE a.daily,
         monthly      |-> IF monthDue THEN MonthlyQuota[plan] ELSE a.monthly,
         permanent    |-> a.permanent,
         dailyReset   |-> IF dayDue THEN Day(now) ELSE a.dailyReset,
         monthlyReset |-> IF monthDue THEN Month(now) ELSE a.monthlyReset]

\* What ensure_point_account gives u in this transaction.
ResetGain(u) == Total(Ensured(account[u])) - Total(account[u])

BreakdownDailyOnly(a, n) == [daily |-> n, monthly |-> 0, permanent |-> 0]

BreakdownOverlapping(a, n) ==
    LET d == Least(a.daily, n)
        m == Least(a.monthly, n)
    IN  [daily |-> d, monthly |-> m, permanent |-> IF d + m < n THEN n - d - m ELSE 0]

\* The buckets n points are taken from: daily first, then monthly.
Breakdown(a, n) ==
    LET d == Least(a.daily, n)
        m == Least(a.monthly, n - d)
    IN  [daily |-> d, monthly |-> m, permanent |-> n - d - m]

Debited(a, b) ==
    [a EXCEPT !.daily = @ - b.daily, !.monthly = @ - b.monthly,
              !.permanent = @ - b.permanent]

RefundDropsPastBuckets(b, t) ==
    [daily     |-> IF Day(t) = Day(now) THEN b.daily ELSE 0,
     monthly   |-> IF Month(t) = Month(now) THEN b.monthly ELSE 0,
     permanent |-> b.permanent]

RefundToSameBucket(b, t) ==
    [daily |-> b.daily, monthly |-> b.monthly, permanent |-> b.permanent]

\* Where b goes back to for a run created at t: a bucket whose period has
\* passed since is refunded to the permanent points.
Refund(b, t) ==
    LET d == IF Day(t) = Day(now) THEN b.daily ELSE 0
        m == IF Month(t) = Month(now) THEN b.monthly ELSE 0
    IN  [daily |-> d, monthly |-> m,
         permanent |-> b.permanent + (b.daily - d) + (b.monthly - m)]

CreditedToBucketsOnly(a, b) ==
    [a EXCEPT !.daily = @ + b.daily, !.monthly = @ + b.monthly]

Credited(a, b) ==
    [a EXCEPT !.daily = @ + b.daily, !.monthly = @ + b.monthly,
              !.permanent = @ + b.permanent]

ExpiredAnyStatus(u) ==
    {r \in Runs : Owner[r] = u /\ run[r].status # "none" /\ run[r].expires <= now}

ExpiredStrictly(u) ==
    {r \in Runs : Owner[r] = u /\ run[r].status = "authorized" /\ run[r].expires < now}

\* The holds of u that outlived their reservation.
Expired(u) ==
    {r \in Runs : Owner[r] = u /\ run[r].status = "authorized" /\ run[r].expires <= now}

\* _release_expired_for_locked_account: the account after the holds of the
\* runs in S went back to it.
Released(a, S) ==
    LET back == [r \in Runs |-> Refund(run[r], run[r].created)]
    IN  Credited(a, [daily     |-> SumFunctionOnSet([r \in Runs |-> back[r].daily], S),
                     monthly   |-> SumFunctionOnSet([r \in Runs |-> back[r].monthly], S),
                     permanent |-> SumFunctionOnSet([r \in Runs |-> back[r].permanent], S)])

\* The points of a breakdown.
Parts(b) == b.daily + b.monthly + b.permanent

ReleasedRuns(S) ==
    [r \in Runs |-> IF r \in S THEN [run[r] EXCEPT !.status = "released"] ELSE run[r]]

RefundedAll(S) ==
    [r \in Runs |-> IF r \in S THEN refunded[r] + Parts(run[r]) ELSE refunded[r]]

-----------------------------------------------------------------------------
(* Runs *)

\* create_billing_run; a second call for the same run changes nothing.
CreateRun(r) ==
    /\ run[r].status = "none"
    /\ run' = [run EXCEPT ![r] = [NoRun EXCEPT !.status = "pending", !.created = now]]
    /\ UNCHANGED <<now, account, usage, reservedCalls, ledger, invite, settling,
                   granted, refunded>>

\* authorize_billing_run for a frame that asks the user back: nothing is held.
AuthorizeClarification(r) ==
    /\ run[r].status = "pending"
    /\ run' = [run EXCEPT ![r].status = "released"]
    /\ UNCHANGED <<now, account, usage, reservedCalls, ledger, invite, settling,
                   granted, refunded>>

\* authorize_billing_run: expired holds of the owner go back first, then the
\* quote is held.  The membership of a is the account table's CHECK that no
\* bucket is negative.  Too few points roll the whole transaction back; a run that
\* is not pending any more leaves the account as ViewAccount does.
Authorize(r) ==
    LET u == Owner[r]
        S == Expired(u)
        a == Released(Ensured(account[u]), S)
    IN  /\ run[r].status = "pending"
        /\ StalePreview \/ r \notin settling
        /\ a \in AccountRow
        /\ \E q \in Quotes :
              LET b == Breakdown(a, q.reserve)
              IN  /\ q.reserve <= Total(a)
                  /\ account' = [account EXCEPT ![u] = Debited(a, b)]
                  /\ run' = [ReleasedRuns(S) EXCEPT ![r] =
                        [@ EXCEPT !.status = "authorized", !.reserved = q.reserve,
                                  !.daily = b.daily, !.monthly = b.monthly,
                                  !.permanent = b.permanent, !.base = q.base,
                                  !.expires = now + TTL]]
        /\ granted' = [granted EXCEPT ![u] = @ + ResetGain(u)]
        /\ refunded' = RefundedAll(S)
        /\ UNCHANGED <<now, usage, reservedCalls, ledger, invite, settling>>

MayReserveAnyStatus(r, c) == run[r].status # "none" /\ c \notin reservedCalls[r]

\* The checks reserve_tool_points repeats once it holds both locks.
MayReserve(r, c) == run[r].status = "authorized" /\ c \notin reservedCalls[r]

\* reserve_tool_points: a billable call of an authorised run is held for
\* before it is made, once per key, and the hold's life starts over.
ReserveTool(r, c) ==
    LET u == Owner[r]
        a == Ensured(account[u])
    IN  /\ MayReserve(r, c)
        /\ \E n \in ToolQuotes :
              LET b == Breakdown(a, n)
              IN  /\ n <= Total(a)
                  /\ account' = [account EXCEPT ![u] = Debited(a, b)]
                  /\ run' = [run EXCEPT ![r] =
                        [run[r] EXCEPT !.reserved = @ + n, !.daily = @ + b.daily,
                                  !.monthly = @ + b.monthly,
                                  !.permanent = @ + b.permanent,
                                  !.expires = now + TTL]]
        /\ reservedCalls' = [reservedCalls EXCEPT ![r] = @ \cup {c}]
        /\ granted' = [granted EXCEPT ![u] = @ + ResetGain(u)]
        /\ UNCHANGED <<now, usage, ledger, invite, settling, refunded>>

\* record_model_usage: one row per model call, whatever became of the run.
RecordModel(r, t) ==
    /\ run[r].status # "none"
    /\ t \notin usage[r].keys
    /\ \E n \in TokenCounts :
          usage' = [usage EXCEPT ![r] = [usage[r] EXCEPT !.tokens = @ + n, !.keys = @ \cup {t}]]
    /\ UNCHANGED <<now, account, run, reservedCalls, ledger, invite, settling,
                   granted, refunded>>

\* record_tool_usage: one row per successful call.
RecordTool(r, c) ==
    /\ run[r].status # "none"
    /\ c \notin usage[r].keys
    /\ \E n \in CallPoints :
          usage' = [usage EXCEPT ![r] =
                        [usage[r] EXCEPT !.tool = @ + n,
                                  !.media = @ + (IF c \in MediaCalls THEN n ELSE 0),
                                  !.keys = @ \cup {c}]]
    /\ UNCHANGED <<now, account, run, reservedCalls, ledger, invite, settling,
                   granted, refunded>>

-----------------------------------------------------------------------------
(* Settlement *)

\* model_usage_points: rounded up once for the run.
ModelPoints(tokens) == (tokens + TokensPerPoint - 1) \div TokensPerPoint

ChargeFailureAsPartial(r, outcome) ==
    CASE outcome = "success" ->
            run[r].base + usage[r].tool + ModelPoints(usage[r].tokens)
      [] outcome = "clarification" -> 0
      [] OTHER -> usage[r].tool + ModelPoints(usage[r].tokens)

\* settlement_charges
Charge(r, outcome) ==
    CASE outcome = "success" ->
            run[r].base + usage[r].tool + ModelPoints(usage[r].tokens)
      [] outcome \in {"cancelled", "partial"} ->
            usage[r].tool + ModelPoints(usage[r].tokens)
      [] outcome = "failure" -> usage[r].media
      [] OTHER -> 0

BilledUncapped(r, outcome) == Charge(r, outcome)

\* A run is never billed for more than it holds.
Billed(r, outcome) == Least(Charge(r, outcome), run[r].reserved)

\* _restore_unused: the billed points are taken from the hold's daily part
\* first; what is left of each part goes back.
Unused(r, billed) ==
    LET used == Breakdown(run[r], billed)
    IN  [daily     |-> run[r].daily - used.daily,
         monthly   |-> run[r].monthly - used.monthly,
         permanent |-> run[r].permanent - used.permanent]

FinalStatus(billed, outcome) ==
    CASE outcome = "cancelled" -> "cancelled"
      [] outcome = "failure" -> "failed"
      [] OTHER -> IF billed > 0 \/ outcome = "success" THEN "settled" ELSE "released"

\* settle_billing_run reads the run as pending ...
SettleReadsPending(r) ==
    /\ run[r].status = "pending"
    /\ settling' = settling \cup {r}
    /\ UNCHANGED <<now, account, run, usage, reservedCalls, ledger, invite,
                   granted, refunded>>

\* ... and then locks it and releases it without looking at it again.
SettlePending(r) ==
    /\ r \in settling
    /\ run' = [run EXCEPT ![r].status = "released"]
    /\ settling' = settling \ {r}
    /\ UNCHANGED <<now, account, usage, reservedCalls, ledger, invite, granted,
                   refunded>>

MaySettleAgain(r) == run[r].status \notin {"none", "pending"}

\* The terminal check settle_billing_run makes once it holds both locks.
MaySettle(r) == run[r].status = "authorized"

\* settle_billing_run of a run that was not pending, account and run locked.
\* A terminal run is left as it is.
Settle(r, outcome) ==
    LET u == Owner[r]
        billed == Billed(r, outcome)
    IN  /\ MaySettle(r)
        /\ account' = [account EXCEPT ![u] =
              Credited(Ensured(@), Refund(Unused(r, billed), run[r].created))]
        /\ run' = [run EXCEPT ![r] =
              [run[r] EXCEPT !.status = FinalStatus(billed, outcome),
                        !.actual = billed,
                        !.base = IF outcome = "success" THEN @ ELSE 0]]
        /\ ledger' = [ledger EXCEPT ![r] = IF ledger[r] = 0 THEN billed ELSE @]
        /\ granted' = [granted EXCEPT ![u] = @ + ResetGain(u)]
        /\ refunded' = [refunded EXCEPT ![r] = @ + Parts(Unused(r, billed))]
        /\ UNCHANGED <<now, usage, reservedCalls, invite, settling>>

-----------------------------------------------------------------------------
(* Accounts: the API *)

\* release_expired_billing_reservations, when a user opens the account page.
ViewAccount(u) ==
    LET S == Expired(u)
        a == Released(Ensured(account[u]), S)
    IN  /\ a \in AccountRow
        /\ account' = [account EXCEPT ![u] = a]
        /\ run' = ReleasedRuns(S)
        /\ granted' = [granted EXCEPT ![u] = @ + ResetGain(u)]
        /\ refunded' = RefundedAll(S)
        /\ UNCHANGED <<now, usage, reservedCalls, ledger, invite, settling>>

\* Transactions that lock the account and then return early: a tool call
\* already held for, free or unaffordable, a settlement of a terminal run.
TouchAccount(u) ==
    /\ account' = [account EXCEPT ![u] = Ensured(@)]
    /\ granted' = [granted EXCEPT ![u] = @ + ResetGain(u)]
    /\ UNCHANGED <<now, run, usage, reservedCalls, ledger, invite, settling,
                   refunded>>

\* The code is locked and has not been consumed.
Redeemable(i) == invite[i] = NoUser

\* upgrade_plan: only upwards; both quotas start over at the new plan's, and
\* the ledger refuses a credit of 0.
UpgradePlan(u, i) ==
    LET a == Ensured(account[u])
        p == InvitePlan[i]
        b == [a EXCEPT !.plan = p,
                       !.planExpire = (IF @ > now THEN @ ELSE now) + PlanLength,
                       !.daily = DailyQuota[p], !.monthly = MonthlyQuota[p],
                       !.dailyReset = Day(now), !.monthlyReset = Month(now)]
    IN  /\ Redeemable(i)
        /\ p > a.plan
        /\ Total(b) # Total(a)
        /\ account' = [account EXCEPT ![u] = b]
        /\ invite' = [invite EXCEPT ![i] = u]
        /\ granted' = [granted EXCEPT ![u] = @ + (Total(b) - Total(account[u]))]
        /\ UNCHANGED <<now, run, usage, reservedCalls, ledger, settling, refunded>>

\* topup_permanent_points
TopUp(u, i) ==
    /\ Redeemable(i)
    /\ InvitePlan[i] = 0
    /\ account' = [account EXCEPT ![u] =
          [Ensured(account[u]) EXCEPT !.permanent = @ + InviteTopup[i]]]
    /\ invite' = [invite EXCEPT ![i] = u]
    /\ granted' = [granted EXCEPT ![u] = @ + ResetGain(u) + InviteTopup[i]]
    /\ UNCHANGED <<now, run, usage, reservedCalls, ledger, settling, refunded>>

\* adjust_point_account: never below zero permanent points.
Adjust(u, n) ==
    /\ n # 0
    /\ account[u].permanent + n \in 0 .. MaxPermanent
    /\ account' = [account EXCEPT ![u] = [Ensured(account[u]) EXCEPT !.permanent = @ + n]]
    /\ granted' = [granted EXCEPT ![u] = @ + ResetGain(u) + n]
    /\ UNCHANGED <<now, run, usage, reservedCalls, ledger, invite, settling,
                   refunded>>

Tick ==
    /\ now < MaxTime
    /\ now' = now + 1
    /\ UNCHANGED <<account, run, usage, reservedCalls, ledger, invite, settling,
                   granted, refunded>>

-----------------------------------------------------------------------------

RunNext ==
    \E r \in Runs :
        \/ CreateRun(r)
        \/ AuthorizeClarification(r)
        \/ Authorize(r)
        \/ \E c \in Calls : ReserveTool(r, c) \/ RecordTool(r, c)
        \/ \E t \in Turns : RecordModel(r, t)
        \/ SettleReadsPending(r)
        \/ SettlePending(r)
        \/ \E o \in Outcomes : Settle(r, o)

AccountNext ==
    \E u \in Users :
        \/ ViewAccount(u)
        \/ TouchAccount(u)
        \/ \E i \in Invites : UpgradePlan(u, i) \/ TopUp(u, i)
        \/ \E n \in Adjustments : Adjust(u, n)

Next == RunNext \/ AccountNext \/ Tick

Spec == Init /\ [][Next]_vars

-----------------------------------------------------------------------------
(* Properties *)

\* A run's hold is the sum of what was taken from the three buckets, and a
\* run that was never authorised holds nothing: the refund arithmetic of
\* _restore_unused relies on both.
HoldsAddUp ==
    \A r \in Runs :
        /\ run[r].reserved = run[r].daily + run[r].monthly + run[r].permanent
        /\ run[r].status \in {"none", "pending"} => run[r].reserved = 0

\* While a run is authorised its whole hold is outstanding, and once it is
\* closed every point of the hold was either charged or given back: no
\* interleaving of settlement, expiry and tool reservations loses a point or
\* returns one twice.
HoldsClosed ==
    \A r \in Runs :
        /\ run[r].status = "authorized" => run[r].actual = 0 /\ refunded[r] = 0
        /\ run[r].status \in Terminal => run[r].reserved = run[r].actual + refunded[r]

\* The ledger shows exactly the points the run was charged, and never more
\* than what was held for it, however much usage was metered.
ChargedOnceWithinHold ==
    \A r \in Runs :
        /\ ledger[r] = run[r].actual
        /\ run[r].actual <= run[r].reserved

\* A user's points are those ever granted less those held or spent.
Conservation ==
    \A u \in Users :
        granted[u] = Total(account[u]) +
            SumFunctionOnSet([r \in Runs |-> run[r].reserved - refunded[r]],
                             {r \in Runs : Owner[r] = u})

\* A failed run is charged at most for the media its tools already produced,
\* and a released run for nothing.
FailureKeepsMediaOnly ==
    \A r \in Runs :
        /\ run[r].status = "failed" => run[r].actual <= usage[r].media
        /\ run[r].status = "released" => run[r].actual = 0

\* For a user who never changed plans, refunds never lift the daily points
\* over the plan's quota: what is left today plus what today's runs hold of
\* the daily bucket stays within it.
DailyWithinQuota ==
    \A u \in Users :
        LET today == {r \in Runs : /\ Owner[r] = u
                                   /\ run[r].status = "authorized"
                                   /\ Day(run[r].created) = Day(now)}
        IN  (\A i \in Invites : invite[i] = u => InvitePlan[i] = 0) =>
                Ensured(account[u]).daily +
                    SumFunctionOnSet([r \in Runs |-> run[r].daily], today)
                        <= DailyQuota[0]

\* A step leaves a closed run's hold, charge and refund as they are; only a
\* settlement that read the run as pending still writes its status.
Final(r) ==
    /\ run'[r] \in {run[r], [run[r] EXCEPT !.status = "released"]}
    /\ ledger'[r] = ledger[r]
    /\ refunded'[r] = refunded[r]

\* A closed run is closed for good: no late settlement, expiry, tool call or
\* repeated finalize charges it again or gives back more.
ClosedIsFinal == [][\A r \in Runs : run[r].status \in Terminal => Final(r)]_vars

\* No transaction works on a paid plan that has run out: whatever touches an
\* account leaves it on a plan that is paid for, or on the free one.
PaidPlansAreCurrent ==
    [][\A u \in Users : account'[u] # account[u] =>
          account'[u].plan = 0 \/ account'[u].planExpire > now]_vars

\* "Return stale task holds before an account balance is displayed or reused"
\* (billing.py): after the account page was served, no point of a hold past
\* its life is missing from the balance.
StaleHoldsReturned ==
    [][\A u \in Users : ViewAccount(u) =>
          \A r \in Runs :
              /\ Owner[r] = u
              /\ run[r].reserved > 0
              /\ run[r].expires <= now
              => run'[r].reserved = run'[r].actual + refunded'[r]]_vars

-----------------------------------------------------------------------------
(* Refinement *)

PhaseOf(r) ==
    CASE run[r].status \in {"none", "pending"} -> "idle"
      [] run[r].status = "authorized" -> "held"
      [] OTHER -> "closed"

Escrow == INSTANCE PointEscrow WITH
            phase    <- [r \in Runs |-> PhaseOf(r)],
            held     <- [r \in Runs |-> run[r].reserved],
            spent    <- [r \in Runs |-> run[r].actual],
            returned <- refunded

\* Every run goes through the escrow of PointEscrow.
ImplementsEscrow == Escrow!Spec
=============================================================================
