---------------------------- MODULE PointEscrow ----------------------------
(***************************************************************************)
(* What the point system promises about the points of one run, whatever    *)
(* buckets they came from: a run is quoted, points are put on hold for it, *)
(* possibly in several instalments while its tools run, and the hold is    *)
(* closed exactly once.  On closing, what was used is spent and the rest   *)
(* is returned; after that nothing about the run's points changes again.   *)
(* Billing implements this specification.                                  *)
(***************************************************************************)
EXTENDS Integers

CONSTANT Runs         \* run identifiers

VARIABLES
    phase,            \* [Runs -> {"idle", "held", "closed"}]
    held,             \* points ever put on hold for the run
    spent,            \* points the run was charged
    returned          \* points given back to the account

vars == <<phase, held, spent, returned>>

TypeOK ==
    /\ phase \in [Runs -> {"idle", "held", "closed"}]
    /\ held \in [Runs -> Nat]
    /\ spent \in [Runs -> Nat]
    /\ returned \in [Runs -> Nat]

Init ==
    /\ phase = [r \in Runs |-> "idle"]
    /\ held = [r \in Runs |-> 0]
    /\ spent = [r \in Runs |-> 0]
    /\ returned = [r \in Runs |-> 0]

\* The holds of the runs in S lapse: all of each is returned.
Lapsed(S, f, g) == [r \in Runs |-> IF r \in S THEN g[r] ELSE f[r]]

(***************************************************************************)
(* More points are put on hold for r while the holds of the runs in S      *)
(* lapse.                                                                  *)
(***************************************************************************)
Place(r, S) ==
    /\ phase[r] # "closed"
    /\ S \subseteq {s \in Runs : phase[s] = "held"} \ {r}
    /\ phase' = [s \in Runs |-> IF s = r THEN "held"
                                ELSE IF s \in S THEN "closed" ELSE phase[s]]
    /\ held'[r] \in Nat /\ held[r] <= held'[r]
    /\ held' = [held EXCEPT ![r] = held'[r]]
    /\ returned' = Lapsed(S, returned, held)
    /\ UNCHANGED spent

(***************************************************************************)
(* The hold of r is closed: k of its points are spent, the rest returned.  *)
(***************************************************************************)
Close(r, k) ==
    /\ phase[r] = "held"
    /\ k <= held[r]
    /\ phase' = [phase EXCEPT ![r] = "closed"]
    /\ spent' = [spent EXCEPT ![r] = k]
    /\ returned' = [returned EXCEPT ![r] = held[r] - k]
    /\ UNCHANGED held

\* A run that never held points is closed.
Drop(r) ==
    /\ phase[r] = "idle"
    /\ phase' = [phase EXCEPT ![r] = "closed"]
    /\ UNCHANGED <<held, spent, returned>>

\* Holds nobody closed in time lapse together.
Lapse(S) ==
    /\ S \subseteq {s \in Runs : phase[s] = "held"}
    /\ phase' = [s \in Runs |-> IF s \in S THEN "closed" ELSE phase[s]]
    /\ returned' = Lapsed(S, returned, held)
    /\ UNCHANGED <<held, spent>>

Next ==
    \/ \E r \in Runs, S \in SUBSET Runs : Place(r, S)
    \/ \E r \in Runs : \E k \in 0 .. held[r] : Close(r, k)
    \/ \E r \in Runs : Drop(r)
    \/ \E S \in SUBSET Runs : Lapse(S)

Spec == Init /\ [][Next]_vars
=============================================================================
