---------------------------- MODULE SessionGraph ----------------------------
(***************************************************************************)
(* The graph a run executes (graph/session_graph.py and graph/nodes/):     *)
(*                                                                         *)
(*   ingest -> task_frame -> (clarify | direct_answer |                    *)
(*                            plan -> execute <-> reflect) -> finalize     *)
(*                                                                         *)
(* and the runs of one session after each other on the same LangGraph      *)
(* thread: what one run leaves in the thread's state is what the next one  *)
(* finds.  A node is one action, except execute, whose loop over model     *)
(* turns works on local variables (pass) until it returns; a retry of the  *)
(* activity starts it over from the state of the thread.                   *)
(*                                                                         *)
(* What a model or a tool answers is a nondeterministic choice.  A todo is *)
(* its text and its status; whether a tool's evidence fits a todo is       *)
(* chosen, what the scheduler makes of it is modelled.                     *)
(*                                                                         *)
(* A definition followed by one of the same shape is the code, preceded by *)
(* a deliberate fault that the properties are tried against.               *)
(***************************************************************************)
EXTENDS Integers, Sequences

CONSTANTS
    Todos,            \* texts of todos
    TextTodos,        \* those that a written answer completes
    Proposals,        \* the todo lists a planner may propose
    MaxReflections,   \* _MAX_REFLECTIONS
    MaxToolTurns,     \* agent_max_turns
    MaxAgentTurns,    \* agent_max_total_turns
    MaxStops,         \* max_native_stop_without_delivery, max_sdk_delivery_rounds
    MaxRuns,          \* bound: runs of the session
    Engines,          \* bound: per run, the engines its post may ask for
    MaxLost           \* bound: how often an attempt dies inside execute

ASSUME SessionGraphAssumption ==
    /\ TextTodos \subseteq Todos
    /\ Proposals \subseteq Seq(Todos) \ {<<>>}
    /\ "no todo" \notin Todos
    /\ {MaxReflections, MaxToolTurns, MaxAgentTurns, MaxStops} \subseteq Nat \ {0}
    /\ {MaxRuns, MaxLost} \subseteq Nat
    /\ Engines \in [1 .. MaxRuns -> SUBSET {"native", "sdk"}]

VARIABLES
    node,             \* the node that is next; "executing" inside its loop
    message,          \* the user message, until it is framed; skip_planner
    frame,            \* task_frame
    plan,             \* the plan's todos
    planRun,          \* plan["run_id"]: the run that made the plan
    resume,           \* resume_execute
    reflections,      \* reflection_count
    turns,            \* tool_turns, total_agent_turns, the tokens are spent
    summary,          \* execution_summary
    error,            \* error is set
    pass,             \* the locals of execute_node
    run,              \* how many runs were posted
    engine,           \* executor_engine of the last run
    outcome,          \* the billing outcome and phase of the last run
    lost,             \* how often an attempt died inside execute
    evidenced,        \* history: todos that some evidence completed
    confirmed         \* history: the user confirmed what frame describes

thread == <<message, frame, plan, planRun, resume, reflections, turns, summary,
            error>>
history == <<evidenced, confirmed>>
vars == <<node, thread, pass, run, engine, outcome, lost, history>>

Statuses == {"pending", "in_progress", "done", "failed", "skipped"}
Todo == [text : Todos, status : Statuses]
Frames == [clarify : BOOLEAN, planner : BOOLEAN, risk : {"low", "high"},
           awaiting : BOOLEAN]
DefaultFrame == [clarify |-> FALSE, planner |-> TRUE, risk |-> "low", awaiting |-> FALSE]
Messages == [kind : {"task", "confirm", "cancel", "framed"}, skip : BOOLEAN]
Turns == [tool : 0 .. MaxToolTurns, agent : 0 .. MaxAgentTurns, tokens : BOOLEAN]
NoTurns == [tool |-> 0, agent |-> 0, tokens |-> FALSE]
Summaries == [tried : BOOLEAN, failed : SUBSET (Todos \cup {"no todo"}),
              rejected : BOOLEAN, missing : BOOLEAN, exception : BOOLEAN]
NoSummary == [tried |-> FALSE, failed |-> {}, rejected |-> FALSE, missing |-> FALSE,
              exception |-> FALSE]
Passes == [step : {"model", "stop", "tools"}, plan : Seq(Todo), turns : Turns,
           tried : BOOLEAN, failed : SUBSET (Todos \cup {"no todo"}),
           rejected : BOOLEAN, asked : BOOLEAN, stops : 0 .. MaxStops - 1]
NoPass == [step |-> "model", plan |-> <<>>, turns |-> NoTurns, tried |-> FALSE,
           failed |-> {}, rejected |-> FALSE, asked |-> FALSE, stops |-> 0]

-----------------------------------------------------------------------------
(* Todos and their scheduler (nodes/plan.py) *)

With(p, i, s) == [p EXCEPT ![i].status = s]
IsActive(p, i) == i \in DOMAIN p /\ p[i].status = "in_progress"
HasActive(p) == \E i \in DOMAIN p : IsActive(p, i)
AllDone(p) == \A i \in DOMAIN p : p[i].status = "done"
Unfinished(p) == \E i \in DOMAIN p : p[i].status \in {"pending", "in_progress", "failed"}

NextPending(p, i, from) ==
    /\ p[i].status = "pending"
    /\ \A j \in 1 .. i - 1 : p[j].status # "pending"

\* The first item that is not done, when it may be started; every item depends
\* on the one before it.
NextTodo(p, i, from) ==
    /\ p[i].status \in from
    /\ \A j \in 1 .. i - 1 : p[j].status = "done"

\* _start_next_pending and, from failed, _retry_first_failed.
Started(p, from) ==
    IF \E i \in DOMAIN p : NextTodo(p, i, from)
    THEN With(p, CHOOSE i \in DOMAIN p : NextTodo(p, i, from), "in_progress")
    ELSE p

\* mark_progress(start_next, retry_failed)
StartedOrRetried(p) == IF HasActive(p) THEN p ELSE Started(p, {"pending", "failed"})

\* mark_progress(fail_current)
Failed(p) ==
    [i \in DOMAIN p |-> IF IsActive(p, i) THEN [p[i] EXCEPT !.status = "failed"] ELSE p[i]]

ClosedActiveOnly(p) == Failed(p)

\* mark_progress(close_unfinished)
Closed(p) ==
    [i \in DOMAIN p |->
        CASE p[i].status = "in_progress" -> [p[i] EXCEPT !.status = "failed"]
          [] p[i].status = "pending"     -> [p[i] EXCEPT !.status = "skipped"]
          [] OTHER                       -> p[i]]

\* The active item is done and the next one starts (advance_with_proof,
\* advance_with_response_text).
Advanced(p, i) == Started(With(p, i, "done"), {"pending"})

CarriedOver(text) ==
    planRun = run /\ \E i \in DOMAIN plan : plan[i] = [text |-> text, status |-> "done"]

ReconciledFresh(texts) ==
    [i \in DOMAIN texts |-> [text |-> texts[i], status |-> "pending"]]

\* _coerce_todos and _reconcile_completed_todos: a status the planner claims is
\* dropped, work this run has completed is carried over.
Reconciled(texts) ==
    [i \in DOMAIN texts |->
        [text |-> texts[i], status |-> IF CarriedOver(texts[i]) THEN "done" ELSE "pending"]]

-----------------------------------------------------------------------------
(* Posting a run; nodes ingest, task_frame, clarify and direct_answer *)

Init ==
    /\ node = "end"
    /\ message = [kind |-> "framed", skip |-> FALSE]
    /\ frame = DefaultFrame
    /\ plan = <<>> /\ planRun = 0
    /\ resume = FALSE
    /\ reflections = 0
    /\ turns = NoTurns
    /\ summary = NoSummary
    /\ error = FALSE
    /\ pass = NoPass
    /\ run = 0 /\ engine = "native" /\ outcome = "none" /\ lost = 0
    /\ evidenced = {} /\ confirmed = FALSE

\* run_session_graph: the input of a run overwrites some of the thread's state.
Post ==
    /\ node = "end"
    /\ run < MaxRuns
    /\ run' = run + 1
    /\ engine' \in Engines[run']
    /\ message' \in {m \in Messages : m.kind # "framed"}
    /\ reflections' = 0
    /\ turns' = NoTurns
    /\ error' = FALSE
    /\ outcome' = "none"
    /\ node' = "ingest"
    /\ UNCHANGED <<frame, plan, planRun, resume, summary, pass, lost, history>>

\* A sandbox that cannot be had ends the run.  Otherwise the plan is kept only
\* for a user who answers a question that execute asked.
Ingest ==
    /\ node = "ingest"
    /\ \/ /\ error' = TRUE
          /\ node' = "finalize"
          /\ UNCHANGED <<plan, planRun, resume, summary, turns, evidenced>>
       \/ /\ resume' = frame.awaiting
          /\ turns' = NoTurns
          /\ node' = "task_frame"
          /\ IF frame.awaiting
             THEN UNCHANGED <<plan, planRun, summary, evidenced>>
             ELSE plan' = <<>> /\ planRun' = 0 /\ summary' = NoSummary /\ evidenced' = {}
          /\ UNCHANGED error
    /\ UNCHANGED <<message, frame, reflections, pass, run, engine, outcome, lost, confirmed>>

\* The question whose answer may be a confirmation.
Asked == frame.risk = "high" /\ frame.clarify

ConfirmedWithoutQuestion == message.kind = "confirm"

\* The user confirms in so many words what the last frame asked about.
Confirmed == Asked /\ message.kind = "confirm"

\* _enforce_high_risk_confirmation
Enforced(proposed) ==
    IF Asked /\ message.kind = "cancel"
    THEN [proposed EXCEPT !.clarify = FALSE, !.planner = FALSE, !.risk = "low"]
    ELSE IF Confirmed
    THEN [proposed EXCEPT !.clarify = FALSE, !.planner = TRUE, !.risk = "high"]
    ELSE IF proposed.risk = "high"
    THEN [proposed EXCEPT !.clarify = TRUE, !.planner = FALSE]
    ELSE proposed

\* normalize_task_frame: what a model may propose.
ProposedFrames == {f \in Frames : ~f.awaiting /\ (f.clarify => ~f.planner)}

\* _route_after_task_frame
RouteAfterTaskFrame(f, refused) ==
    IF refused THEN "finalize"
    ELSE IF resume THEN "execute"
    ELSE IF f.clarify THEN "clarify"
    ELSE IF ~f.planner THEN "direct_answer"
    ELSE "plan"

\* The message is never blank: post_message puts a sentence in its place.
TaskFrame ==
    /\ node = "task_frame"
    /\ IF resume
       THEN /\ frame' = [frame EXCEPT !.clarify = FALSE, !.awaiting = FALSE]
            /\ UNCHANGED confirmed
       ELSE IF message.skip
       THEN /\ frame' = DefaultFrame
            /\ confirmed' = FALSE
       ELSE /\ \E proposed \in ProposedFrames : frame' = Enforced(proposed)
            /\ confirmed' = (Asked /\ message.kind = "confirm")
    /\ error' \in BOOLEAN            \* too few points (module Billing)
    /\ message' = [message EXCEPT !.kind = "framed"]
    /\ node' = RouteAfterTaskFrame(frame', error')
    /\ UNCHANGED <<plan, planRun, resume, reflections, turns, summary,
                   pass, run, engine, outcome, lost, evidenced>>

Clarify ==
    /\ node = "clarify"
    /\ node' = "finalize"
    /\ UNCHANGED <<message, frame, plan, planRun, resume, reflections, turns, summary,
                   error, pass, run, engine, outcome, lost, history>>

DirectAnswer ==
    /\ node = "direct_answer"
    /\ node' = "finalize"
    /\ UNCHANGED <<message, frame, plan, planRun, resume, reflections, turns, summary,
                   error, pass, run, engine, outcome, lost, history>>

\* plan_node: no planner, a question to the user, or todos: the planner's, or
\* the fallback that stands in for an answer that cannot be used.
PlanNode ==
    /\ node = "plan"
    /\ \/ /\ message.skip
          /\ UNCHANGED <<frame, plan, planRun>>
       \/ /\ ~message.skip
          /\ frame' = [frame EXCEPT !.clarify = TRUE, !.planner = FALSE]
          /\ UNCHANGED <<plan, planRun>>
       \/ /\ ~message.skip
          /\ \E texts \in Proposals : plan' = Reconciled(texts)
          /\ planRun' = run
          /\ UNCHANGED frame
    /\ node' = IF frame'.clarify THEN "clarify" ELSE "execute"
    /\ UNCHANGED <<message, resume, reflections, turns, summary, error, pass,
                   run, engine, outcome, lost, history>>

-----------------------------------------------------------------------------
(* The execute node *)

\* What the loop leaves alone until it returns.
Inside == <<message, frame, plan, planRun, resume, reflections, turns, summary, error,
            run, engine, outcome>>

Within(t) == t.tool < MaxToolTurns /\ t.agent < MaxAgentTurns /\ ~t.tokens

CountedNever(t, kind) == t

Counted(t, kind) == [t EXCEPT ![kind] = @ + 1]

BudgetAfresh == NoTurns

\* The budgets of the run go on from one pass to the next.
Budget == turns

StartPass ==
    /\ node = "execute"
    /\ pass' = [step |-> "model", plan |-> StartedOrRetried(plan), turns |-> Budget,
                tried |-> summary.tried, failed |-> summary.failed,
                rejected |-> FALSE, asked |-> FALSE, stops |-> 0]
    /\ node' = "executing"
    /\ UNCHANGED <<Inside, lost, history>>

\* One answer of the model.  Its text may itself complete a todo.
ModelTurn ==
    /\ node = "executing" /\ engine = "native"
    /\ pass.step = "model"
    /\ Within(pass.turns)
    /\ \E spent \in BOOLEAN, step \in {"stop", "tools"} :
          LET next == [pass EXCEPT !.step = step,
                                   !.turns = [Counted(@, "agent") EXCEPT !.tokens = spent]]
          IN  \/ pass' = next /\ UNCHANGED evidenced
              \/ \E i \in DOMAIN pass.plan :
                    /\ IsActive(pass.plan, i)
                    /\ pass.plan[i].text \in TextTodos
                    /\ pass' = [next EXCEPT !.plan = Advanced(@, i), !.stops = 0]
                    /\ evidenced' = evidenced \cup {pass.plan[i].text}
    /\ UNCHANGED <<node, Inside, lost, confirmed>>

\* What execute_node returns.
Return(p, todos, missing, exception) ==
    /\ plan' = todos
    /\ turns' = p.turns
    /\ summary' = [tried |-> p.tried, failed |-> p.failed, rejected |-> p.rejected,
                   missing |-> missing, exception |-> exception]
    /\ pass' = NoPass
    /\ UNCHANGED <<message, planRun, resume, reflections, run, engine, outcome, lost, confirmed>>

\* The model stops.  _stop_blocked_reason finds what is still missing; when it
\* has said so often enough the node gives up.
Stop ==
    /\ node = "executing"
    /\ pass.step = "stop"
    /\ \E undelivered \in BOOLEAN :
          LET blocked == ~AllDone(pass.plan) \/ pass.failed # {} \/ undelivered
          IN  IF blocked /\ pass.stops + 1 < MaxStops
              THEN /\ pass' = [pass EXCEPT !.step = "model", !.stops = @ + 1]
                   /\ UNCHANGED <<node, Inside, lost, confirmed>>
              ELSE /\ Return(pass, IF blocked THEN Failed(pass.plan) ELSE pass.plan,
                             blocked, FALSE)
                   /\ node' = "reflect"
                   /\ UNCHANGED <<frame, error>>
    /\ UNCHANGED evidenced

\* The outcomes of a tool call; "none" stands for a turn of a single call.
Calls == {"rejected", "asks", "fails", "idles", "works", "completes", "salvages"}

\* Those whose evidence completes the active todo: also a call that fails may
\* leave such evidence, in the steps that tried to recover it.
Completing == {"completes", "salvages"}

\* active_todo_allows_tool: a plan that is unfinished needs an active item.
Permitted(p) == p = <<>> \/ HasActive(p) \/ AllDone(p)

\* The todo a call works for.
Task(p) ==
    IF HasActive(p) THEN p[CHOOSE i \in DOMAIN p : IsActive(p, i)].text ELSE "no todo"

\* _run_tool_calls, for one call: the scheduler refuses it, or it is a question
\* to the user, or it fails, does nothing for the active todo, adds evidence to
\* it or completes it.  Only a call without a failure that completes a todo makes
\* up for the failures of that todo (_track_task_recovery).
Called(p, call) ==
    CASE call = "none"      -> p
      [] call = "rejected"  -> [p EXCEPT !.rejected = TRUE]
      [] call = "asks"      -> [p EXCEPT !.asked = TRUE]
      [] call = "fails"     -> [p EXCEPT !.tried = TRUE, !.failed = @ \cup {Task(p.plan)}]
      [] call = "idles"     -> [p EXCEPT !.tried = TRUE]
      [] call = "works"     -> [p EXCEPT !.tried = TRUE, !.stops = 0]
      [] call \in Completing ->
            [p EXCEPT !.tried = TRUE, !.stops = 0,
                      !.failed = IF call = "completes" THEN @ \ {Task(p.plan)}
                                 ELSE @ \cup {Task(p.plan)},
                      !.plan = Advanced(@, CHOOSE i \in DOMAIN @ : IsActive(@, i))]

MayCall(p, call) ==
    /\ call \in {"fails", "idles", "works"} \cup Completing => Permitted(p.plan)
    /\ call \in {"works"} \cup Completing => HasActive(p.plan)

Evidence(p, call) == IF call \in Completing THEN {Task(p.plan)} ELSE {}

\* The tool calls of one turn, two at most.  A question ends the run until the
\* user answers, a refusal of the scheduler hands over to reflect.
Tools ==
    /\ node = "executing"
    /\ pass.step = "tools"
    /\ \E first \in Calls, second \in Calls \cup {"none"} :
          LET begin  == [pass EXCEPT !.turns = Counted(@, "tool"), !.step = "model"]
              middle == Called(begin, first)
              end    == Called(middle, second)
          IN  /\ MayCall(begin, first)
              /\ MayCall(middle, second)
              /\ evidenced' = evidenced \cup Evidence(begin, first) \cup Evidence(middle, second)
              /\ IF end.asked \/ end.rejected
                 THEN /\ Return(end, end.plan, FALSE, FALSE)
                      /\ IF end.asked
                         THEN /\ frame' = [frame EXCEPT !.clarify = TRUE, !.awaiting = TRUE]
                              /\ node' = "finalize"
                         ELSE /\ node' = "reflect"
                              /\ UNCHANGED frame
                      /\ UNCHANGED error
                 ELSE /\ pass' = end
                      /\ UNCHANGED <<node, Inside, lost, confirmed>>

\* A budget is used up; the loop of the SDK does not look at the tool turns.
Spent(t) == t.agent >= MaxAgentTurns \/ t.tokens

Exhausted ==
    /\ node = "executing"
    /\ pass.step = "model"
    /\ IF engine = "sdk" THEN Spent(pass.turns) ELSE ~Within(pass.turns)
    /\ Return(pass, Failed(pass.plan), FALSE, FALSE)
    /\ node' = "reflect"
    /\ UNCHANGED <<frame, error, evidenced>>

-----------------------------------------------------------------------------
(* The execute node with the agent SDK, whose loop is over queries: the SDK *)
(* calls the tools and asks the model itself, and answers when it is done.  *)

\* The turns a query adds, as many as are left; a missing result adds none.
QueryTurns(t) ==
    {u \in Turns : /\ u.tool = t.tool
                   /\ u.agent - t.agent \in 0 .. MaxToolTurns
                   /\ t.tokens => u.tokens}

SdkCalls == Calls \ {"asks"}

\* _SomnaBridge.run_tool: a call does not take back the count of the answers
\* that delivered nothing.
SdkCalled(p, call) ==
    [Called([p EXCEPT !.turns = Counted(@, "tool")], call) EXCEPT !.stops = p.stops]

\* One call, or two beside each other: both read the plan before either wrote
\* it back, and what the second makes of it is kept.  After a refusal of the
\* scheduler, and without tool turns, a call is turned away.
SdkTools ==
    /\ node = "executing" /\ engine = "sdk"
    /\ ~Spent(pass.turns)
    /\ pass.turns.tool < MaxToolTurns /\ ~pass.rejected
    /\ \E first \in SdkCalls, second \in SdkCalls \cup {"none"} :
          LET middle == SdkCalled(pass, first)
              end    == SdkCalled([middle EXCEPT !.plan = pass.plan], second)
          IN  /\ MayCall(pass, first) /\ MayCall(pass, second)
              /\ second # "none" =>
                    /\ pass.turns.tool + 1 < MaxToolTurns
                    /\ "rejected" \notin {first, second}
              /\ pass' = IF second = "none" THEN middle ELSE end
              /\ evidenced' = evidenced \cup Evidence(pass, first) \cup Evidence(pass, second)
    /\ UNCHANGED <<node, Inside, lost, confirmed>>

\* The query is over.  A refusal hands over to reflect; otherwise the text may
\* complete a todo, and what is still missing is asked for in another query.
SdkAnswer ==
    /\ node = "executing" /\ engine = "sdk"
    /\ ~Spent(pass.turns)
    /\ \E t \in QueryTurns(pass.turns), undelivered \in BOOLEAN,
          done \in {i \in DOMAIN pass.plan : ~pass.rejected /\ IsActive(pass.plan, i)
                                               /\ pass.plan[i].text \in TextTodos}
                   \cup {0} :
          LET todos   == IF done = 0 THEN pass.plan ELSE Advanced(pass.plan, done)
              next    == [pass EXCEPT !.turns = t, !.plan = todos]
              blocked == ~pass.rejected
                         /\ (~AllDone(todos) \/ pass.failed # {} \/ undelivered)
          IN  /\ evidenced' = IF done = 0 THEN evidenced
                              ELSE evidenced \cup {pass.plan[done].text}
              /\ IF blocked /\ pass.stops + 1 < MaxStops
                 THEN /\ pass' = [next EXCEPT !.stops = @ + 1]
                      /\ UNCHANGED <<node, Inside, lost, confirmed>>
                 ELSE /\ Return(next, IF blocked THEN Failed(todos) ELSE todos, blocked, FALSE)
                      /\ node' = "reflect"
                      /\ UNCHANGED <<frame, error>>

\* An exception inside the loop: what a turn's calls had changed is lost with
\* them.  With something to reflect on it is not an error of the run.
Recoverable(p) == p.tried \/ p.failed # {} \/ p.rejected

ExecuteRaises ==
    /\ node = "executing"
    /\ \E t \in CASE engine = "sdk"    -> QueryTurns(pass.turns)
                [] pass.step = "tools" -> {Counted(pass.turns, "tool")}
                [] OTHER               -> {pass.turns} :
          LET p == [pass EXCEPT !.turns = t]
          IN  /\ Return(p, IF Recoverable(p) THEN p.plan ELSE Failed(p.plan), FALSE, TRUE)
              /\ error' = ~Recoverable(p)
              /\ node' = IF Recoverable(p) THEN "reflect" ELSE "finalize"
    /\ UNCHANGED <<frame, evidenced>>

\* The attempt dies inside execute: the next one starts the node over.
AttemptLost ==
    /\ node = "executing"
    /\ lost < MaxLost
    /\ lost' = lost + 1
    /\ node' = "execute"
    /\ pass' = NoPass
    /\ UNCHANGED <<Inside, history>>

-----------------------------------------------------------------------------
(* Nodes reflect and finalize *)

RouteUncapped(answer, n, gap, high) == answer

\* reflect_node: the model's answer, or _fallback_decision's, and what
\* overrides it.  A selected skill keeps a run going for the same reasons as
\* are listed here; at the cap nothing does.  A run of high autonomy that has
\* an answer and nothing open does not go on (high).
Route(answer, n, gap, high) ==
    LET open   == Unfinished(plan) \/ summary.failed # {} \/ summary.exception \/ gap
        asked  == IF summary.rejected /\ Unfinished(plan) THEN "replan" ELSE answer
        forced == IF asked = "finalize" /\ open THEN "continue_execute" ELSE asked
        ready  == high /\ ~summary.missing /\ ~open
    IN  IF n >= MaxReflections \/ (forced = "continue_execute" /\ ready)
        THEN "finalize"
        ELSE forced

Reflect ==
    /\ node = "reflect"
    /\ IF ~Within(turns)
       THEN /\ plan' = Closed(plan)
            /\ node' = "finalize"
            /\ UNCHANGED reflections
       ELSE /\ reflections' = reflections + 1
            /\ \E answer \in {"finalize", "continue_execute", "replan"},
                  gap \in BOOLEAN, high \in BOOLEAN :
                  /\ high => frame.risk # "high"     \* effective_autonomy_level
                  /\ node' = CASE Route(answer, reflections', gap, high) = "replan" -> "plan"
                               [] Route(answer, reflections', gap, high) = "finalize" -> "finalize"
                               [] OTHER -> "execute"
            /\ plan' = IF node' = "finalize" /\ Unfinished(plan) THEN Closed(plan) ELSE plan
    /\ UNCHANGED <<message, frame, planRun, resume, turns, summary, error, pass,
                   run, engine, outcome, lost, history>>

OutcomeIgnoresTodos ==
    IF error THEN "failure" ELSE IF frame.clarify THEN "clarification" ELSE "success"

\* What finalize settles the run with and tells the user.
Outcome ==
    IF error THEN "failure"
    ELSE IF frame.clarify THEN "clarification"
    ELSE IF ~AllDone(plan) THEN "partial"
    ELSE "success"

Finalize ==
    /\ node = "finalize"
    /\ outcome' = Outcome
    /\ node' = "end"
    /\ UNCHANGED <<thread, pass, run, engine, lost, history>>

\* A node raises, execute in the handler of its own exceptions, or the run is
\* cancelled: the thread keeps the state before the node, and the runner ends the
\* run.
Abort ==
    /\ node \notin {"end", "finalize"}
    /\ outcome' \in {"failure", "cancelled"}
    /\ node' = "end"
    /\ pass' = NoPass
    /\ UNCHANGED <<thread, run, engine, lost, history>>

Step == \/ Ingest \/ TaskFrame \/ Clarify \/ DirectAnswer \/ PlanNode
        \/ StartPass \/ ModelTurn \/ Stop \/ Tools \/ Exhausted \/ ExecuteRaises
        \/ SdkTools \/ SdkAnswer \/ Reflect \/ Finalize

Next == Post \/ Step \/ AttemptLost \/ Abort

Spec == Init /\ [][Next]_vars

\* A node that may execute does: the runner awaits one after the other.
FairSpec == Spec /\ WF_vars(Step)

-----------------------------------------------------------------------------
(* Properties *)

TypeOK ==
    /\ node \in {"ingest", "task_frame", "clarify", "direct_answer", "plan", "execute",
                 "executing", "reflect", "finalize", "end"}
    /\ message \in Messages
    /\ frame \in Frames
    /\ plan \in Seq(Todo)
    /\ planRun \in 0 .. run
    /\ resume \in BOOLEAN
    /\ reflections \in 0 .. MaxReflections
    /\ turns \in Turns
    /\ summary \in Summaries
    /\ error \in BOOLEAN
    /\ pass \in Passes
    /\ run \in 0 .. MaxRuns
    /\ engine \in {"native", "sdk"}
    /\ outcome \in {"none", "success", "partial", "clarification", "failure", "cancelled"}
    /\ lost \in 0 .. MaxLost
    /\ evidenced \subseteq Todos
    /\ confirmed \in BOOLEAN

\* The items of a plan are executed in order: one that is being worked on, or
\* that failed, comes after items that are done, so there is at most one.
InOrder(p) ==
    \A i \in DOMAIN p : p[i].status \in {"in_progress", "failed"} =>
        \A j \in 1 .. i - 1 : p[j].status = "done"

\* Somna "promises ordered execution in the UI" (plan.py): no retry, replan,
\* crash or resumption works on an item before the ones ahead of it are done.
OrderedExecution == InOrder(plan) /\ InOrder(pass.plan)

\* A run is reported and billed as a success only when some evidence completed
\* each of its todos: neither the planner's claims, nor a model that stops, nor
\* the reflection cap makes a todo done.
SuccessIsEvidenced ==
    outcome = "success" => \A i \in DOMAIN plan : plan[i].text \in evidenced

\* A run that ends without an error or a question leaves no todo of its plan
\* open: what was not done is marked as failed or skipped.
ClosedTruthfully ==
    outcome \in {"success", "partial"} =>
        \A i \in DOMAIN plan : plan[i].status \notin {"pending", "in_progress"}

\* "High-risk execution needs a deterministic confirmation, not only an LLM
\* suggestion" (task_frame.py): no run plans or executes a high-risk task that
\* the user did not confirm, whatever an earlier run left in the thread.
HighRiskIsConfirmed ==
    node \in {"plan", "execute", "executing"} /\ frame.risk = "high" => confirmed

\* "Run-global budgets ... remain monotonic across reflect -> execute passes"
\* (state.py): what the thread has counted is not given back.  The turns of a pass
\* that is lost with its attempt, or that is aborted, were never counted.
BudgetsOnlyGrow ==
    [][run' = run /\ node # "ingest" =>
          /\ turns'.tool >= turns.tool /\ turns'.agent >= turns.agent
          /\ turns.tokens => turns'.tokens]_vars

\* The todos a run works on: inside execute, those of its pass.
Current == IF node = "executing" THEN pass.plan ELSE plan

Texts(p) == [i \in DOMAIN p |-> p[i].text]

\* What is done in p is done in q: item by item in the same list, and in another
\* list in every item with the text.
Kept(p, q) ==
    IF Texts(p) = Texts(q)
    THEN \A i \in DOMAIN p : p[i].status = "done" => q[i].status = "done"
    ELSE \A i \in DOMAIN p, j \in DOMAIN q :
            p[i].status = "done" /\ q[j].text = p[i].text => q[j].status = "done"

\* Only with its attempt, or its run, work that is not in the thread yet is lost.
PassLost == node = "executing" /\ node' \in {"execute", "end"}

\* "Carry exact completed work and its evidence across a replan" (plan.py): a todo
\* that is done stays done as long as the run lasts, in the loop of execute and
\* after it, when calls fail, in every later plan and at the end.  Excepted are a
\* pass that is lost, and the replan of a plan that an earlier run made.
CompletedWorkIsKept ==
    [][run' = run /\ node # "ingest" /\ (node = "plan" => planRun = run) /\ ~PassLost =>
          Kept(Current, Current')]_vars

\* The same of every replan, that of a resumed plan included.
ReplansKeepWork == [][run' = run /\ node = "plan" => Kept(plan, plan')]_vars

\* A run comes to its end, whatever the models answer: the reflection cap and
\* the budgets break every cycle of the graph.
RunEnds == (node # "end") ~> (node = "end")

\* How far a node is from the end, but for the ways back from reflect.
Distance(n) ==
    CASE n = "ingest" -> 7 [] n = "task_frame" -> 6 [] n = "plan" -> 5
      [] n \in {"clarify", "direct_answer", "execute"} -> 4
      [] n = "executing" -> 3 [] n = "reflect" -> 2 [] n = "finalize" -> 1
      [] OTHER -> 0

\* What the loop of execute has left: answers of the model, each with what follows
\* from it; with the SDK the calls of tools, and queries that delivered nothing.
LoopLeft ==
    IF engine = "native"
    THEN 2 * (MaxAgentTurns - pass.turns.agent) + (IF pass.step = "model" THEN 0 ELSE 1)
    ELSE (MaxToolTurns - pass.turns.tool) + (MaxStops - pass.stops)

\* Why a run ends: every step uses up a reflection, or leads towards the end, or
\* uses up the loop of execute.  The counters behind it (reflection_count,
\* total_agent_turns, tool_turns, the stops) are bounded, so that only an attempt
\* that dies gives a run more steps.
EveryStepDescends ==
    [][node # "end" /\ lost' = lost =>
          \/ reflections < reflections' /\ reflections' <= MaxReflections
          \/ /\ reflections' = reflections
             /\ \/ Distance(node') < Distance(node)
                \/ /\ node = "executing" /\ node' = "executing"
                   /\ LoopLeft' \in Nat /\ LoopLeft' < LoopLeft]_vars

\* "A tool failure that was not recovered must not be treated as completed"
\* (execute.py, _unrecovered_failure_reason).
FailuresAreNotSuccess == outcome = "success" => summary.failed = {}
=============================================================================
