---------------------------- MODULE ToolExecution ----------------------------
(***************************************************************************)
(* The tool calls of one run: the execute node invokes them one after the  *)
(* other (graph/nodes/execute.py, _invoke_tool_with_events and its         *)
(* retries), the hub executes them behind an idempotency key               *)
(* (mcp-hub/app/api/tools.py and tools/), and the points of a paid call    *)
(* are put on hold before and recorded after it (services/billing.py; the  *)
(* account itself is module Billing).                                      *)
(*                                                                         *)
(* An attempt of the activity that dies leaves its request with the hub;   *)
(* the next attempt makes the calls of the run again, from the first one,  *)
(* and the model may choose others.  A client that waits too long goes on  *)
(* without the answer, and the hub may restart in the middle of a call, or *)
(* carry it out and fail to store that it did.                             *)
(*                                                                         *)
(* A call is a tool with its effective arguments.  Calls that only read,   *)
(* made without a key (the image and artifact checks after a call), change *)
(* nothing here and are part of the step that judges the call.             *)
(*                                                                         *)
(* A definition followed by one of the same shape is the code, preceded by *)
(* a deliberate fault that the properties are tried against.               *)
(***************************************************************************)
EXTENDS Naturals, FiniteSets

CONSTANTS
    Shell,            \* calls of the shell tool
    Media,            \* calls that submit a job to a media service and poll it
    Plain,            \* all other calls
    Forbidden,        \* calls outside the action scope of the task
    Paid,             \* calls with a price
    Funds,            \* how many paid calls the account can put on hold
    MaxTurns,         \* bound: calls of the run
    MaxAttempts,      \* attempts Temporal makes of the activity
    MaxMishaps,       \* bound: mishaps of the hub
    Events            \* the disturbances that may happen

Calls == Shell \cup Media \cup Plain

ASSUME ToolExecutionAssumption ==
    /\ Forbidden \subseteq Calls /\ Paid \subseteq Calls
    /\ Shell \cap Media = {} /\ Shell \cap Plain = {} /\ Media \cap Plain = {}
    /\ "none" \notin Calls
    /\ {Funds, MaxMishaps} \subseteq Nat
    /\ {MaxTurns, MaxAttempts} \subseteq Nat \ {0}
    /\ Events \subseteq
          {"lost",           \* an attempt of the activity dies
           "timeout",        \* the client gives up a call the hub executes
           "unreachable",    \* a request does not reach the hub
           "settled"}        \* another attempt settles the run meanwhile

VARIABLES
    attempt,          \* which attempt of the activity is executing
    step,             \* where it stands in the current call
    turn, part, call, \* what it calls: the position, the part and the call
    reply,            \* the result it got
    requests,         \* requests the hub has
    cached,           \* .tool-idempotency: keys with a stored success
    mishaps,          \* how often the hub restarted, or could not store a success
    bill,             \* point_billing_runs.status
    held,             \* point_billing_reservations: keys
    usage,            \* point_billing_usage: keys
    proof,            \* the evidence of this attempt: successes, failed
                      \* turns, recovered turns
    successes         \* history: how often a key was executed successfully

agent == <<attempt, step, turn, part, call, reply, proof>>
hub == <<requests, cached, mishaps, successes>>
billing == <<bill, held, usage>>
vars == <<agent, hub, billing>>

\* The call itself, the installation of what it misses, the repetition after
\* that, and the repetition of a command that failed.
Parts == {"call", "recover_install", "recover_retry", "fail_retry"}

\* _tool_operation_key: the position, the part and the arguments, not the
\* attempt that asks.
Keys == [turn : 1 .. MaxTurns, part : Parts, call : Calls]

Key == [turn |-> turn, part |-> part, call |-> call]

\* What the shell tool answers when a module is missing or the command fails
\* or times out, and any other failure.
Failures == {"missing", "exit", "error"}

Replies == {"none", "ok", "refused", "unreachable"} \cup Failures

\* A request the hub has answered.
Answered == {"ok"} \cup Failures

\* A request the hub executes holds the lock of its key.
Executing == {"running", "polling", "fetching", "written"}

Stages == {"waiting"} \cup Executing \cup Answered

NoProof == [ok |-> {}, failed |-> {}, recovered |-> {}]

TypeOK ==
    /\ attempt \in 1 .. MaxAttempts
    /\ step \in {"choose", "reserve", "send", "wait", "record", "judge", "done"}
    /\ turn \in 1 .. MaxTurns
    /\ part \in Parts
    /\ call \in Calls \cup {"none"}
    /\ reply \in Replies
    /\ requests \subseteq [attempt : 1 .. MaxAttempts, key : Keys, stage : Stages]
    /\ cached \subseteq Keys
    /\ mishaps \in 0 .. MaxMishaps
    /\ bill \in {"authorized", "closed"}
    /\ held \subseteq Keys /\ usage \subseteq Keys
    /\ proof \in [ok : SUBSET Keys, failed : SUBSET (1 .. MaxTurns),
                  recovered : SUBSET (1 .. MaxTurns)]
    /\ successes \in [Keys -> Nat]

Init ==
    /\ attempt = 1
    /\ step = "choose"
    /\ turn = 1 /\ part = "call" /\ call = "none"
    /\ reply = "none"
    /\ requests = {} /\ cached = {} /\ mishaps = 0
    /\ bill = "authorized" /\ held = {} /\ usage = {}
    /\ proof = NoProof
    /\ successes = [k \in Keys |-> 0]

-----------------------------------------------------------------------------
(* The execute node *)

\* The model asks for a call, or stops.
Choose ==
    /\ step = "choose"
    /\ \/ /\ call' \in Calls
          /\ part' = "call"
          /\ reply' = "none"
          /\ step' = "reserve"
       \/ /\ step' = "done"
          /\ UNCHANGED <<call, part, reply>>
    /\ UNCHANGED <<attempt, turn, proof, hub, billing>>

\* reserve_tool_points for this key: put on hold before, free of charge, or
\* put on hold now.
Affordable(k) == k \in held \/ k.call \notin Paid \/ Cardinality(held) < Funds

Held(k) == IF k.call \in Paid THEN held \cup {k} ELSE held

\* A tool outside the scope, a run that is closed or too few points: the call
\* is answered with a refusal and never sent.
Refuse ==
    /\ step = "reserve"
    /\ call \in Forbidden \/ bill = "closed" \/ ~Affordable(Key)
    /\ reply' = "refused"
    /\ step' = "judge"
    /\ UNCHANGED <<attempt, turn, part, call, proof, hub, billing>>

Reserve ==
    /\ step = "reserve"
    /\ call \notin Forbidden
    /\ bill = "authorized"
    /\ Affordable(Key)
    /\ held' = Held(Key)
    /\ step' = "send"
    /\ UNCHANGED <<attempt, turn, part, call, reply, proof, hub, bill, usage>>

\* McpHubClient.invoke: one request, no repetition.
Send ==
    /\ step = "send"
    /\ requests' = requests \cup {[attempt |-> attempt, key |-> Key, stage |-> "waiting"]}
    /\ step' = "wait"
    /\ UNCHANGED <<attempt, turn, part, call, reply, proof, cached, mishaps, successes,
                   billing>>

Mine(q) == q.attempt = attempt /\ q.key = Key

ReceiveNoError ==
    /\ step = "wait"
    /\ \E q \in requests :
          /\ Mine(q) /\ q.stage \in Answered
          /\ reply' = q.stage
          /\ requests' = requests \ {q}
    /\ step' = "record"
    /\ UNCHANGED <<attempt, turn, part, call, proof, cached, mishaps, successes, billing>>

\* The hub's answer, or a transport error: the request never arrived, the hub
\* died with it, or it takes longer than the client waits.
Receive ==
    /\ step = "wait"
    /\ \/ \E q \in requests :
             /\ Mine(q) /\ q.stage \in Answered
             /\ reply' = q.stage
             /\ requests' = requests \ {q}
       \/ /\ \/ ~\E q \in requests : Mine(q)
             \/ "timeout" \in Events /\ \E q \in requests : Mine(q) /\ q.stage \in Executing
          /\ reply' = "unreachable"
          /\ UNCHANGED requests
    /\ step' = "record"
    /\ UNCHANGED <<attempt, turn, part, call, proof, cached, mishaps, successes, billing>>

SendFails ==
    /\ "unreachable" \in Events
    /\ step = "send"
    /\ reply' = "unreachable"
    /\ step' = "record"
    /\ UNCHANGED <<attempt, turn, part, call, proof, hub, billing>>

UsedWhateverCame(k) == usage \cup {k}

\* record_tool_usage: a success, once per key.
Used(k) == IF reply = "ok" THEN usage \cup {k} ELSE usage

Record ==
    /\ step = "record"
    /\ usage' = Used(Key)
    /\ step' = "judge"
    /\ UNCHANGED <<attempt, turn, part, call, reply, proof, hub, bill, held>>

\* On to the part of the same call that follows, or to the next call.
Proceed(next) ==
    IF next # "none"
    THEN /\ part' = next /\ step' = "reserve"
         /\ UNCHANGED <<turn, call>>
    ELSE /\ step' = IF turn < MaxTurns THEN "choose" ELSE "done"
         /\ turn' = IF turn < MaxTurns THEN turn + 1 ELSE turn
         /\ part' = "call" /\ call' = "none"

\* _retry_failed_tool_if_needed: what follows a part and its result.
Following ==
    CASE part = "call" /\ reply = "missing"         -> "recover_install"
      [] part = "call" /\ reply = "exit"            -> "fail_retry"
      [] part = "recover_install" /\ reply = "ok"   -> "recover_retry"
      [] OTHER                                      -> "none"

RecoveredByInstalling(p) ==
    IF part # "call" /\ reply = "ok" THEN p.recovered \cup {turn} ELSE p.recovered

\* A repetition that succeeds makes up for the failure, the installation alone
\* does not.
Recovered(p) ==
    IF part \in {"recover_retry", "fail_retry"} /\ reply = "ok"
    THEN p.recovered \cup {turn} ELSE p.recovered

\* _proof_from_tool_result and _merge_proof.
Judge ==
    /\ step = "judge"
    /\ proof' = [ok        |-> IF reply = "ok" THEN proof.ok \cup {Key} ELSE proof.ok,
                 failed    |-> IF part = "call" /\ reply # "ok"
                               THEN proof.failed \cup {turn} ELSE proof.failed,
                 recovered |-> Recovered(proof)]
    /\ reply' = "none"
    /\ Proceed(Following)
    /\ UNCHANGED <<attempt, hub, billing>>

\* The attempt dies; the next one executes the node from the start.
AttemptLost ==
    /\ "lost" \in Events
    /\ step # "done"
    /\ attempt < MaxAttempts
    /\ attempt' = attempt + 1
    /\ step' = "choose"
    /\ turn' = 1 /\ part' = "call" /\ call' = "none"
    /\ reply' = "none"
    /\ proof' = NoProof
    /\ requests' = {q \in requests : q.stage \notin Answered}
    /\ UNCHANGED <<cached, mishaps, successes, billing>>

\* The run is settled when it is over, or by an earlier attempt that was told
\* it is cancelled (module SessionRun).
Settle ==
    /\ bill = "authorized"
    /\ step = "done" \/ ("settled" \in Events /\ attempt > 1)
    /\ bill' = "closed"
    /\ UNCHANGED <<agent, hub, held, usage>>

-----------------------------------------------------------------------------
(* The hub *)

\* The answer to an attempt that is not waiting for it any more is dropped.
Moved(q, stage) ==
    IF stage \in Answered /\ ~(step = "wait" /\ Mine(q))
    THEN requests \ {q}
    ELSE (requests \ {q}) \cup {[q EXCEPT !.stage = stage]}

UnlockedFree(q) == TRUE

\* The lock of the key: nobody else is executing for it.
Free(q) == \A r \in requests : r.key = q.key => r.stage \notin Executing

\* invoke_tool, under the lock: a stored success is the answer, otherwise the
\* tool is executed.
Enter(q) ==
    /\ q.stage = "waiting"
    /\ Free(q)
    /\ requests' = Moved(q, IF q.key \in cached THEN "ok" ELSE "running")
    /\ UNCHANGED <<agent, cached, mishaps, successes, billing>>

\* How an execution may fail: what is missing shows in the output of a command,
\* and only commands are repeated.
FailuresOf(k) == IF k.call \in Shell THEN Failures ELSE {"error"}

Fails(q, stage) ==
    /\ q.stage = stage
    /\ \E f \in FailuresOf(q.key) : requests' = Moved(q, f)
    /\ UNCHANGED <<agent, cached, mishaps, successes, billing>>

\* The effects are in the sandbox.
Works(q, stage) ==
    /\ q.stage = stage
    /\ requests' = Moved(q, "written")
    /\ successes' = [successes EXCEPT ![q.key] = @ + 1]
    /\ UNCHANGED <<agent, cached, mishaps, billing>>

\* A command: it ends, with an exit code, or is killed at its deadline.
RunShell(q) == q.key.call \in Shell /\ (Works(q, "running") \/ Fails(q, "running"))

\* Files and searches.
UseFile(q) == q.key.call \in Plain /\ (Works(q, "running") \/ Fails(q, "running"))

\* Speech: one request answers with the audio.
Speak(q) == q.key.call \in Media /\ (Works(q, "running") \/ Fails(q, "running"))

\* Images and videos: the job is submitted ...
SubmitJob(q) ==
    /\ q.key.call \in Media
    /\ q.stage = "running"
    /\ requests' = Moved(q, "polling")
    /\ UNCHANGED <<agent, cached, mishaps, successes, billing>>

\* ... polled until it succeeded, failed or took too long ...
PollJob(q) ==
    \/ Fails(q, "polling")
    \/ /\ q.stage = "polling"
       /\ requests' = Moved(q, "fetching")
       /\ UNCHANGED <<agent, cached, mishaps, successes, billing>>

\* ... and its files are downloaded into the sandbox.
FetchJob(q) == Works(q, "fetching") \/ Fails(q, "fetching")

\* A success is stored before the lock is released; a failure is not.
Store(q) ==
    /\ q.stage = "written"
    /\ cached' = cached \cup {q.key}
    /\ requests' = Moved(q, "ok")
    /\ UNCHANGED <<agent, mishaps, successes, billing>>

\* The disk is full, say: the caller sees a failure (status 500), and nothing
\* shows that the call was carried out.
StoreFails(q) ==
    /\ mishaps < MaxMishaps
    /\ q.stage = "written"
    /\ mishaps' = mishaps + 1
    /\ requests' = Moved(q, "error")
    /\ UNCHANGED <<agent, cached, successes, billing>>

\* The hub restarts: requests and locks are gone, stored successes are not.
Restart ==
    /\ mishaps < MaxMishaps
    /\ mishaps' = mishaps + 1
    /\ requests' = {}
    /\ UNCHANGED <<agent, cached, successes, billing>>

-----------------------------------------------------------------------------

AgentStep ==
    \/ Choose \/ Refuse \/ Reserve \/ Send \/ Receive \/ SendFails \/ Record \/ Judge

HubStep ==
    \E q \in requests :
        \/ Enter(q) \/ RunShell(q) \/ UseFile(q) \/ Speak(q)
        \/ SubmitJob(q) \/ PollJob(q) \/ FetchJob(q) \/ Store(q)

HubMishap == Restart \/ \E q \in requests : StoreFails(q)

Next == AgentStep \/ AttemptLost \/ Settle \/ HubStep \/ HubMishap

Spec == Init /\ [][Next]_vars

\* An attempt goes on, and every step of the hub has a deadline of its own.
FairSpec == Spec /\ WF_vars(AgentStep) /\ WF_vars(HubStep)

-----------------------------------------------------------------------------
(* Properties *)

\* "replays success without repeating side effect" (mcp-hub/tests/test_api.py):
\* whatever attempts ask for it and however their requests overlap, an
\* operation is carried out once, and once more only for a hub that died or
\* failed between the effect and its record.
SucceedsOnce == \A k \in Keys : successes[k] <= 1 + mishaps

\* What an attempt counts as evidence has happened in the sandbox, under the
\* attempt's own position and arguments; a failure it counts as recovered was
\* made up for by the same command and not only by the installation before it.
ProofIsReal ==
    /\ \A k \in proof.ok : successes[k] > 0
    /\ proof.recovered \subseteq proof.failed
    /\ \A t \in proof.recovered :
          \E k \in proof.ok : k.turn = t /\ k.part \in {"recover_retry", "fail_retry"}

\* Only work that was done is recorded for payment, and never more than was
\* put on hold: what settlement charges is covered, over all attempts.
UsageIsCovered ==
    \A k \in usage : successes[k] > 0 /\ (k.call \in Paid => k \in held)

\* The run gets through its calls, whatever the hub does with them.
CallsEnd == <>(step = "done")
=============================================================================
