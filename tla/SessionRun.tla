----------------------------- MODULE SessionRun -----------------------------
(***************************************************************************)
(* The runs of one session: the API handlers that start, interrupt,        *)
(* terminate and delete (api/sessions.py, api/temporal.py,                 *)
(* services/session_cleanup.py), the Temporal workflow of each run and the *)
(* attempts its activity makes (temporal/), and the runner that executes   *)
(* the session graph from its last checkpoint and closes the session's row *)
(* (graph/runner.py, graph/resume.py, nodes/finalize.py).                  *)
(*                                                                         *)
(* An action is what happens between two awaits that reach the database or *)
(* Temporal.  Temporal itself is external: it starts an attempt, starts    *)
(* the next one when an attempt is lost or stalls, and tells an attempt of *)
(* a closed workflow, or a superseded one, at its next heartbeat.  A       *)
(* behaviour admits the disturbances of one of EventSets.                  *)
(*                                                                         *)
(* A definition followed by one of the same shape is the code, preceded by *)
(* a deliberate fault that the properties are tried against.               *)
(***************************************************************************)
EXTENDS Naturals, FiniteSets

CONSTANTS
    Runs,             \* run identifiers; each is posted at most once
    MaxAttempts,      \* attempts Temporal makes of an activity
    MaxCrashes,       \* bound: how often the process dies or an attempt stalls
    EventSets         \* the sets of disturbances that may happen together

ASSUME SessionRunAssumption ==
    /\ MaxAttempts \in Nat \ {0}
    /\ MaxCrashes \in Nat
    /\ Runs \cap {"free", "deleted", "none"} = {}
    /\ \A E \in EventSets : E \subseteq
          {"another",        \* a second message is posted, and more after it
           "overlap",        \* a request may overlap another of the session
           "slowUpdate",     \* a run may close before its POST wrote the row
           "interrupt",      \* the user interrupts a run that is executing
           "earlyInterrupt", \* ... or one that no attempt is executing
           "lateCancel",     \* ... and it is told after it closed the row
           "terminate",      \* a workflow is terminated through the API
           "delete",         \* the session is deleted
           "postFails",      \* a POST fails although its workflow started
           "dbLost",         \* the checkpointer's connection breaks
           "dbErrors",       \* a settlement or the row's update fails, unnoticed
           "emitFails",      \* an event cannot be written
           "stall",          \* an attempt misses its heartbeats and goes on
           "crash",          \* the process dies
           "shutdown"}       \* the process stops and cancels its runs

Attempts == 1 .. MaxAttempts

VARIABLES
    row,              \* sessions: the run in flight, "free" or "deleted"
    post,             \* where the POST of a run stands
    billing,          \* point_billing_runs: status per run
    flow,             \* the workflow of a run
    tries,            \* attempts started of a run's activity
    pc,               \* where an attempt stands
    checkpoint,       \* the thread's latest checkpoint: its run, next node
    retried,          \* attempts that reconnected the checkpointer once
    stopping,         \* terminations that have not marked the session yet
    deleting,         \* where a deletion stands
    crashes,          \* how often the process died or an attempt stalled
    finished,         \* history: runs whose graph reached its end
    mishaps,          \* history: what kept a run from closing properly
    events            \* what may happen in this behaviour

vars == <<row, post, billing, flow, tries, pc, checkpoint, retried, stopping,
          deleting, crashes, finished, mishaps, events>>

server == <<flow, tries>>
thread == <<checkpoint, retried>>
session == <<row, post, stopping, deleting>>
history == <<finished, mishaps>>

-----------------------------------------------------------------------------

\* The steps of an attempt inside the graph: reading the checkpoint, the
\* task_frame node and its checkpoint, planning and executing, and finalize.
GraphSteps == {"begin", "frame", "framed", "work", "settle", "close", "save"}

\* The runner's handlers of a cancellation and of an exception.
HandlerSteps == {"cancelSettle", "cancelClose", "failSettle", "failClose"}

LiveSteps == GraphSteps \cup HandlerSteps \cup {"ended", "raised"}

Live(r) == \E a \in Attempts : pc[r][a] \in LiveSteps

\* An attempt that works for the user: it calls models and tools.
Working(r) == \E a \in Attempts : pc[r][a] \in {"frame", "framed", "work"}

\* A settlement that failed or was cut short, an update of the row that was, and
\* a row that was freed before the run's POST wrote it.
Mishaps == {"unsettled", "unclosed", "early"}

TypeOK ==
    /\ row \in Runs \cup {"free", "deleted"}
    /\ post \in [Runs -> {"idle", "checked", "created", "started", "done", "failed"}]
    /\ billing \in [Runs -> {"none", "pending", "authorized", "closed"}]
    /\ flow \in [Runs -> {"none", "open", "closed"}]
    /\ tries \in [Runs -> 0 .. MaxAttempts]
    /\ pc \in [Runs -> [Attempts -> LiveSteps \cup {"off", "lost", "over"}]]
    /\ checkpoint \in [run : Runs \cup {"none"}, next : {"frame", "work", "finalize", "end"}]
    /\ retried \subseteq Runs \X Attempts
    /\ stopping \subseteq Runs
    /\ deleting \in {"no", "checked", "wiped", "done"}
    /\ crashes \in 0 .. MaxCrashes
    /\ finished \subseteq Runs
    /\ mishaps \subseteq Runs \X Mishaps
    /\ events \in EventSets

Init ==
    /\ row = "free"
    /\ post = [r \in Runs |-> "idle"]
    /\ billing = [r \in Runs |-> "none"]
    /\ flow = [r \in Runs |-> "none"]
    /\ tries = [r \in Runs |-> 0]
    /\ pc = [r \in Runs |-> [a \in Attempts |-> "off"]]
    /\ checkpoint = [run |-> "none", next |-> "end"]
    /\ retried = {}
    /\ stopping = {}
    /\ deleting = "no"
    /\ crashes = 0
    /\ finished = {}
    /\ mishaps = {}
    /\ events \in EventSets

\* A request of the session is being served.
Serving ==
    \/ \E r \in Runs : post[r] \in {"checked", "created", "started"}
    \/ deleting \in {"checked", "wiped"}
    \/ stopping # {}

MayRequest == "overlap" \in events \/ ~Serving

\* Bound: whether the session gets more than one message.
MayPost == "another" \in events \/ \A r \in Runs : post[r] = "idle"

-----------------------------------------------------------------------------
(* POST /sessions/{sid}/messages *)

PostAllowedAlways(r) == row # "deleted"

\* 409 while a run is in flight.
PostAllowed(r) == row = "free"

PostCheck(r) ==
    /\ post[r] = "idle"
    /\ MayRequest /\ MayPost
    /\ PostAllowed(r)
    /\ post' = [post EXCEPT ![r] = "checked"]
    /\ UNCHANGED <<row, billing, server, pc, thread, stopping, deleting,
                   crashes, history, events>>

\* create_billing_run; the row must still reference a session.
PostCreate(r) ==
    /\ post[r] = "checked"
    /\ IF row = "deleted"
       THEN /\ post' = [post EXCEPT ![r] = "failed"]
            /\ UNCHANGED billing
       ELSE /\ post' = [post EXCEPT ![r] = "created"]
            /\ billing' = [billing EXCEPT ![r] = "pending"]
    /\ UNCHANGED <<row, server, pc, thread, stopping, deleting, crashes, history, events>>

PostStart(r) ==
    /\ post[r] = "created"
    /\ flow' = [flow EXCEPT ![r] = "open"]
    /\ post' = [post EXCEPT ![r] = "started"]
    /\ UNCHANGED <<row, billing, tries, pc, thread, stopping, deleting,
                   crashes, history, events>>

\* settle_billing_run of a run that is not settled yet (module Billing).
Settled(r) ==
    [billing EXCEPT ![r] = IF @ \in {"pending", "authorized"} THEN "closed" ELSE @]

\* start_workflow raises, also when only its reply is lost:
\* mark_billing_run_unstarted and 503.
PostStartFails(r) ==
    /\ post[r] = "created"
    /\ \/ UNCHANGED flow
       \/ "postFails" \in events /\ flow' = [flow EXCEPT ![r] = "open"]
    /\ billing' = Settled(r)
    /\ post' = [post EXCEPT ![r] = "failed"]
    /\ UNCHANGED <<row, tries, pc, thread, stopping, deleting, crashes, history, events>>

\* The session's row is written after the workflow was started.
PostUpdate(r) ==
    /\ post[r] = "started"
    /\ \/ /\ row' = IF row = "deleted" THEN row ELSE r
          /\ post' = [post EXCEPT ![r] = "done"]
       \/ /\ "postFails" \in events
          /\ UNCHANGED row
          /\ post' = [post EXCEPT ![r] = "failed"]
    /\ UNCHANGED <<billing, server, pc, thread, stopping, deleting, crashes,
                   history, events>>

-----------------------------------------------------------------------------
(* Temporal *)

Current(r) == tries[r] # 0 /\ pc[r][tries[r]] \in LiveSteps

\* The next attempt: the first, one after a lost attempt, or one that
\* supersedes an attempt which is still executing.
StartAttempt(r) ==
    /\ flow[r] = "open"
    /\ tries[r] < MaxAttempts
    /\ IF Current(r)
       THEN /\ "stall" \in events
            /\ crashes < MaxCrashes
            /\ crashes' = crashes + 1
       ELSE UNCHANGED crashes
    /\ tries' = [tries EXCEPT ![r] = @ + 1]
    /\ pc' = [pc EXCEPT ![r][tries[r] + 1] = "begin"]
    /\ UNCHANGED <<session, billing, flow, thread, history, events>>

\* The last attempt was lost: the activity and with it the workflow fail.
GiveUp(r) ==
    /\ flow[r] = "open"
    /\ tries[r] = MaxAttempts
    /\ pc[r][MaxAttempts] = "lost"
    /\ flow' = [flow EXCEPT ![r] = "closed"]
    /\ UNCHANGED <<session, billing, tries, pc, thread, crashes, history, events>>

\* What a heartbeat tells an attempt.
Told(r, a) == flow[r] = "closed" \/ a < tries[r]

-----------------------------------------------------------------------------
(* The runner *)

Goto(r, a, step) == pc' = [pc EXCEPT ![r][a] = step]

DecisionNeverSkips(r) ==
    IF checkpoint.run = r /\ checkpoint.next # "end" THEN "resume" ELSE "start"

DecisionRestarts(r) ==
    IF checkpoint.run = r /\ checkpoint.next = "end" THEN "skip" ELSE "start"

\* checkpoint_resume_action
Decision(r) ==
    IF checkpoint.run # r THEN "start"
    ELSE IF checkpoint.next = "end" THEN "skip"
    ELSE "resume"

\* The step at which a node that is next begins.
FirstStep(node) == IF node = "finalize" THEN "settle" ELSE node

\* invoke_session_graph: a fresh start writes the run's input to the thread.
Begin(r, a) ==
    /\ pc[r][a] = "begin"
    /\ \/ /\ Decision(r) = "start"
          /\ checkpoint' = [run |-> r, next |-> "frame"]
          /\ Goto(r, a, "frame")
       \/ /\ Decision(r) = "resume"
          /\ Goto(r, a, FirstStep(checkpoint.next))
          /\ UNCHANGED checkpoint
       \/ /\ Decision(r) = "skip"
          /\ Goto(r, a, "ended")
          /\ UNCHANGED checkpoint
    /\ UNCHANGED <<session, retried, billing, server, crashes, history, events>>

WhenRefusedIgnored == "framed"

\* The step after a task_frame that returned an error.
WhenRefused == "settle"

\* task_frame authorises the run; a run that is closed goes on unbilled, and
\* too few points, or a row that is gone, are an error that finalize reports.
Frame(r, a) ==
    /\ pc[r][a] = "frame"
    /\ \/ /\ billing' = [billing EXCEPT ![r] = IF @ = "pending" THEN "authorized" ELSE @]
          /\ billing[r] # "none"
          /\ Goto(r, a, "framed")
          /\ UNCHANGED checkpoint
       \/ /\ billing[r] \in {"none", "pending"}
          /\ checkpoint' = [run |-> r, next |-> "finalize"]
          /\ Goto(r, a, WhenRefused)
          /\ UNCHANGED billing
    /\ UNCHANGED <<session, retried, server, crashes, history, events>>

FrameSaved(r, a) ==
    /\ pc[r][a] = "framed"
    /\ checkpoint' = [run |-> r, next |-> "work"]
    /\ Goto(r, a, "work")
    /\ UNCHANGED <<session, retried, billing, server, crashes, history, events>>

\* Planning, executing and reflecting (module SessionGraph).
Work(r, a) ==
    /\ pc[r][a] = "work"
    /\ checkpoint' = [run |-> r, next |-> "finalize"]
    /\ Goto(r, a, "settle")
    /\ UNCHANGED <<session, retried, billing, server, crashes, history, events>>

\* The connection to the checkpoints breaks while one is read or written: the
\* runner reconnects once and decides again.
Reconnect(r, a) ==
    /\ "dbLost" \in events
    /\ pc[r][a] \in {"begin", "framed", "work", "save"}
    /\ <<r, a>> \notin retried
    /\ retried' = retried \cup {<<r, a>>}
    /\ Goto(r, a, "begin")
    /\ UNCHANGED <<session, billing, server, checkpoint, crashes, history, events>>

\* A node raises, the connection breaks again, or finalize cannot write one of
\* its events: the runner's except clause takes over.
Raise(r, a) ==
    /\ \/ pc[r][a] \in {"begin", "frame", "framed", "work"}
       \/ pc[r][a] = "save" /\ <<r, a>> \in retried
       \/ pc[r][a] \in {"settle", "close"} /\ "emitFails" \in events
    /\ Goto(r, a, "failSettle")
    /\ UNCHANGED <<session, billing, server, thread, crashes, history, events>>

\* The heartbeat raises CancelledError in an attempt that was told.
Cancelled(r, a) ==
    /\ pc[r][a] \in GraphSteps
    /\ Told(r, a)
    /\ pc[r][a] = "save" => "lateCancel" \in events
    /\ Goto(r, a, "cancelSettle")
    /\ UNCHANGED <<session, billing, server, thread, crashes, history, events>>

AfterSettleEnds(step) ==
    CASE step = "settle" -> "close" [] step = "cancelSettle" -> "cancelClose" [] OTHER -> "ended"

\* The next step of an attempt that has tried to settle.
AfterSettle(step) ==
    CASE step = "settle" -> "close" [] step = "cancelSettle" -> "cancelClose" [] OTHER -> "failClose"

SettleStepUnnoticed(r, a) ==
    /\ pc[r][a] \in {"settle", "cancelSettle", "failSettle"}
    /\ UNCHANGED <<billing, mishaps>>
    /\ Goto(r, a, AfterSettle(pc[r][a]))
    /\ UNCHANGED <<session, server, thread, crashes, finished, events>>

\* finalize, and both handlers, settle the run's billing first; a settlement
\* that fails is only logged ...
SettleStep(r, a) ==
    /\ pc[r][a] \in {"settle", "cancelSettle", "failSettle"}
    /\ \/ billing' = Settled(r) /\ UNCHANGED mishaps
       \/ /\ "dbErrors" \in events
          /\ mishaps' = mishaps \cup {<<r, "unsettled">>}
          /\ UNCHANGED billing
    /\ Goto(r, a, AfterSettle(pc[r][a]))
    /\ UNCHANGED <<session, server, thread, crashes, finished, events>>

FreedNever == row

\* mark_session_run_closed and _mark_session_stopped: the row is freed,
\* whichever run it names.
Freed == IF row = "deleted" THEN row ELSE "free"

\* The next step of an attempt that has tried to free the row.
AfterClose(step) ==
    CASE step = "close" -> "save" [] step = "cancelClose" -> "raised" [] OTHER -> "ended"

\* ... and then close the session's row; an update that fails goes unnoticed too.
CloseStep(r, a) ==
    /\ pc[r][a] \in {"close", "cancelClose", "failClose"}
    /\ post[r] = "started" => "slowUpdate" \in events
    /\ \/ /\ row' = Freed
          /\ mishaps' = mishaps \cup (IF post[r] = "started" THEN {<<r, "early">>} ELSE {})
       \/ /\ "dbErrors" \in events
          /\ mishaps' = mishaps \cup {<<r, "unclosed">>}
          /\ UNCHANGED row
    /\ Goto(r, a, AfterClose(pc[r][a]))
    /\ UNCHANGED <<post, billing, server, thread, stopping, deleting, crashes,
                   finished, events>>

\* A cancellation reaches an attempt in the handler of an exception, or a handler
\* cannot write its event: neither is caught, and what the handler has not done
\* stays undone.
CutShort(r, a) ==
    /\ \/ pc[r][a] \in {"failSettle", "failClose"} /\ Told(r, a)
       \/ pc[r][a] \in {"cancelClose", "failClose"} /\ "emitFails" \in events
    /\ mishaps' = mishaps \cup {<<r, "unclosed">>}
          \cup (IF pc[r][a] = "failSettle" THEN {<<r, "unsettled">>} ELSE {})
    /\ Goto(r, a, "raised")
    /\ UNCHANGED <<session, billing, server, thread, crashes, finished, events>>

\* The graph's last checkpoint.
Save(r, a) ==
    /\ pc[r][a] = "save"
    /\ checkpoint' = [run |-> r, next |-> "end"]
    /\ finished' = finished \cup {r}
    /\ Goto(r, a, "ended")
    /\ UNCHANGED <<session, retried, billing, server, crashes, mishaps, events>>

\* The activity returns or raises: an attempt Temporal still waits for completes
\* the workflow, or is retried.
Report(r, a) ==
    /\ pc[r][a] \in {"ended", "raised"}
    /\ Goto(r, a, IF pc[r][a] = "raised" /\ ~Told(r, a) THEN "lost" ELSE "over")
    /\ flow' = [flow EXCEPT ![r] =
                    IF a = tries[r] /\ pc[r][a] = "ended" THEN "closed" ELSE @]
    /\ UNCHANGED <<session, billing, tries, thread, crashes, history, events>>

-----------------------------------------------------------------------------
(* Interrupt, terminate, delete *)

\* POST /sessions/{sid}/interrupt cancels the workflow the row names.
Interrupt(r) ==
    /\ row = r
    /\ flow[r] = "open"
    /\ \/ "interrupt" \in events /\ Current(r)
       \/ "earlyInterrupt" \in events /\ ~Current(r)
    /\ flow' = [flow EXCEPT ![r] = "closed"]
    /\ UNCHANGED <<session, billing, tries, pc, thread, crashes, history, events>>

\* POST /workflows/{id}/terminate: the row is looked up, the workflow is
\* terminated ...
Terminate(r) ==
    /\ "terminate" \in events
    /\ MayRequest
    /\ flow[r] = "open"
    /\ flow' = [flow EXCEPT ![r] = "closed"]
    /\ stopping' = IF row = r THEN stopping \cup {r} ELSE stopping
    /\ UNCHANGED <<row, post, deleting, billing, tries, pc, thread, crashes,
                   history, events>>

\* ... and the session is marked as stopped.
MarkStopped(r) ==
    /\ r \in stopping
    /\ stopping' = stopping \ {r}
    /\ row' = Freed
    /\ UNCHANGED <<post, deleting, billing, server, pc, thread, crashes, history, events>>

\* hard_delete_session refuses a session whose row is running, twice.
Deletable == row = "free"

DeleteCheck ==
    /\ "delete" \in events
    /\ deleting = "no"
    /\ MayRequest
    /\ Deletable
    /\ deleting' = "checked"
    /\ UNCHANGED <<row, post, stopping, billing, server, pc, thread, crashes,
                   history, events>>

\* Objects, uploads and the sandbox are deleted outside any transaction.
DeleteWipe ==
    /\ deleting = "checked"
    /\ deleting' = "wiped"
    /\ UNCHANGED <<row, post, stopping, billing, server, pc, thread, crashes,
                   history, events>>

\* The row goes, and with it the billing rows that reference it.
DeleteRow ==
    /\ deleting = "wiped"
    /\ IF Deletable
       THEN /\ row' = "deleted"
            /\ billing' = [r \in Runs |-> "none"]
            /\ deleting' = "done"
       ELSE /\ deleting' = "no"
            /\ UNCHANGED <<row, billing>>
    /\ UNCHANGED <<post, stopping, server, pc, thread, crashes, history, events>>

-----------------------------------------------------------------------------
(* The process *)

\* Requests that die with the process.
Dropped == [r \in Runs |-> IF post[r] \in {"checked", "created", "started"}
                           THEN "failed" ELSE post[r]]

Lost(f) == [a \in Attempts |-> IF f[a] \in LiveSteps THEN "lost" ELSE f[a]]

\* The process dies with everything it was executing.
Crash ==
    /\ "crash" \in events
    /\ crashes < MaxCrashes
    /\ crashes' = crashes + 1
    /\ pc' = [r \in Runs |-> Lost(pc[r])]
    /\ post' = Dropped
    /\ stopping' = {}
    /\ deleting' = IF deleting = "done" THEN "done" ELSE "no"
    /\ UNCHANGED <<row, billing, server, thread, history, events>>

\* cancel_all on shutdown, when the last request was served: an executing
\* attempt gets a CancelledError that nobody asked Temporal for.  It escapes
\* from cancel_all, and the other attempts, and one that was in a handler, are
\* lost with the process.
Shutdown ==
    /\ "shutdown" \in events
    /\ ~Serving
    /\ crashes < MaxCrashes
    /\ crashes' = crashes + 1
    /\ \E r \in Runs : \E a \in Attempts :
          /\ pc[r][a] \in GraphSteps
          /\ pc' = [s \in Runs |-> IF s = r THEN [Lost(pc[s]) EXCEPT ![a] = "cancelSettle"]
                                   ELSE Lost(pc[s])]
    /\ UNCHANGED <<session, billing, server, thread, history, events>>

-----------------------------------------------------------------------------

RunnerStep(r, a) ==
    \/ Begin(r, a) \/ Frame(r, a) \/ FrameSaved(r, a) \/ Work(r, a)
    \/ Reconnect(r, a) \/ Raise(r, a) \/ Cancelled(r, a)
    \/ SettleStep(r, a) \/ CloseStep(r, a) \/ CutShort(r, a) \/ Save(r, a) \/ Report(r, a)

PostStep(r) ==
    PostCreate(r) \/ PostStart(r) \/ PostStartFails(r) \/ PostUpdate(r)

ServerStep(r) == StartAttempt(r) \/ GiveUp(r)

Next ==
    \/ \E r \in Runs : PostCheck(r) \/ PostStep(r) \/ ServerStep(r)
    \/ \E r \in Runs, a \in Attempts : RunnerStep(r, a)
    \/ \E r \in Runs : Interrupt(r) \/ Terminate(r) \/ MarkStopped(r)
    \/ DeleteCheck \/ DeleteWipe \/ DeleteRow
    \/ Crash \/ Shutdown

\* Handlers and attempts that can take their next step do; Temporal starts
\* the attempts it owes.
Fairness ==
    /\ \A r \in Runs : WF_vars(PostStep(r)) /\ WF_vars(ServerStep(r)) /\ WF_vars(MarkStopped(r))
    /\ \A r \in Runs, a \in Attempts : WF_vars(RunnerStep(r, a))
    /\ WF_vars(DeleteWipe \/ DeleteRow)

Spec == Init /\ [][Next]_vars

FairSpec == Spec /\ Fairness

-----------------------------------------------------------------------------
(* Properties *)

\* "session already has an in-flight run; interrupt first" (api/sessions.py):
\* models and tools work for at most one run of a session at a time.
OneRunAtATime == Cardinality({r \in Runs : Working(r)}) <= 1

\* The last attempt died: while the workflow is open Temporal starts another,
\* and otherwise no code runs for the run any more.
Abandoned(r) == tries[r] # 0 /\ pc[r][tries[r]] = "lost"

\* The workflow was closed before any attempt.
Unstarted(r) == flow[r] = "closed" /\ tries[r] = 0

\* Somebody is there to free the row of a run: its workflow is open, or an
\* attempt or a termination is still going to.
HasRunner(r) == flow[r] = "open" \/ Live(r) \/ r \in stopping

\* A session whose row names a run is not left behind, unless every attempt
\* died.  Otherwise every later POST gets a 409, and nothing is left to
\* interrupt.
RunningRowHasRunner == \A r \in Runs : row = r => HasRunner(r) \/ Abandoned(r)

\* What leaves a row behind, and nothing else does: an attempt that died as the
\* last, a workflow that was cancelled before its first attempt, an update of the
\* row that failed or was cut short, and a run that closed before its POST wrote
\* the row.
Stranding(r) ==
    Abandoned(r) \/ Unstarted(r) \/ <<r, "unclosed">> \in mishaps \/ <<r, "early">> \in mishaps

OnlyMishapsStrand == \A r \in Runs : row = r => HasRunner(r) \/ Stranding(r)

\* When a run is over, its hold on the owner's points is over, unless its last
\* attempt died or its settlement failed or was cut short: then the hold lapses
\* (module Billing).
NoStrayHold ==
    \A r \in Runs : flow[r] = "closed" /\ ~Live(r) =>
        billing[r] # "authorized" \/ Abandoned(r) \/ <<r, "unsettled">> \in mishaps

\* Nothing plans or executes before the run's points are on hold, and after the
\* hold was settled only a run whose POST failed although it started, or a retry:
\* a later attempt, or one that has reconnected.
OnlyRetriesWorkUnbilled ==
    \A r \in Runs, a \in Attempts : pc[r][a] = "work" =>
        CASE billing[r] = "authorized" -> TRUE
          [] billing[r] = "closed" -> post[r] = "failed" \/ tries[r] > 1 \/ <<r, a>> \in retried
          [] billing[r] = "none" -> row = "deleted"
          [] billing[r] = "pending" -> FALSE

\* "skip: same run_id already reached END" (resume.py): no attempt works for a
\* run whose graph has finished, unless the attempt was superseded while it was
\* still executing.
NeverRerun == "stall" \in events \/ \A r \in finished : ~Working(r)

Rank(node) == CASE node = "frame" -> 1 [] node = "work" -> 2
                [] node = "finalize" -> 3 [] OTHER -> 4

\* Attempts of a run continue from its checkpoint: completed nodes are never
\* gone back behind ("resume: same run_id and the graph still has a next node"),
\* unless a superseded attempt is still executing.
CheckpointsAdvance ==
    [][checkpoint.run = checkpoint'.run /\ "stall" \notin events =>
          Rank(checkpoint.next) <= Rank(checkpoint'.next)]_vars

\* "not running" (hard_delete_session): a deletion never takes the sandbox from
\* under a run that works.
DeletionSparesWork ==
    [][deleting = "checked" /\ deleting' = "wiped" => \A r \in Runs : ~Working(r)]_vars

\* A session gets out of every run, unless one of the mishaps strands its row.
RowIsFreed == \A r \in Runs : row = r ~> (row # r \/ Stranding(r))
=============================================================================
