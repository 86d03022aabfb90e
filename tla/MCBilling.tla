----------------------------- MODULE MCBilling -----------------------------
(* Small instances of Billing for TLC. *)
EXTENDS Billing, TLC

CONSTANTS u1, u2, r1, r2, c1, c2, t1, upBasic, upPro, top2

\* The runs of one user are interchangeable.
RunSymmetry == Permutations({r1, r2})

MCInvites == {upBasic, upPro, top2}
MCInvitePlan == upBasic :> 1 @@ upPro :> 2 @@ top2 :> 0
MCInviteTopup == upBasic :> 0 @@ upPro :> 0 @@ top2 :> 2
NoInvites == [i \in {} |-> 0]

\* Two runs of one user, and a single run.
OneOwner == r1 :> u1 @@ r2 :> u1
SingleRun == r1 :> u1

\* The base price and a margin for model usage.  The free plan covers the
\* quotes of both runs and one tool call, across the daily and monthly buckets.
MCQuotes == {[base |-> 1, reserve |-> 2]}

MCDailyQuota == 0 :> 3 @@ 1 :> 4 @@ 2 :> 5
MCMonthlyQuota == 0 :> 2 @@ 1 :> 3 @@ 2 :> 4

\* One correction downwards, up to the last permanent point.
MCAdjustments == {-1}
=============================================================================
