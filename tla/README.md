# Formal models of Somna

This directory holds TLA+ models of Somna's agent core (`apps/agent-core`), of the
tool hub (`apps/mcp-hub`) and of the chat page (`apps/web`), the TLC configurations that
check them on small instances, and TLAPS proofs of what holds for instances of every
size. Paths below are relative to the repository
unless they name a module.

A user posts a message to a session. The API creates a billing run and starts a
Temporal workflow; the workflow's activity executes a LangGraph graph (frame the
task, plan todos, execute them with models and tools, reflect, finalize), which
checkpoints after every node, puts the user's points on hold, meters them and
settles them at the end. What the nodes do is emitted as events, which the chat page
restores, follows and polls. The modules follow these paths from the outside in:

    auth.py, deps.py, admin_users.py, skills.py       Users, Skills (EXTENDS Users)
                                       |
    api/sessions.py -> Temporal -> runner/resume      SessionRun
                                       |
             ingest .. plan, execute, reflect ..      SessionGraph
                     |                     |
     tools/client.py -> mcp-hub            |          ToolExecution
                     |                     |
             authorize / reserve / record / settle    Billing  (implements PointEscrow)

    emitter.py -> NATS -> stream.py -> the chat page  EventStream, WebClient (EXTENDS it)

## 1. Inventory

| Component | Code | State it keeps | Operations | Talks to |
|---|---|---|---|---|
| Point accounts, billing runs | `services/billing.py`, `services/points.py`, tables of `infra/postgres/init/06_points_invite_codes.sql` | `point_accounts`, `point_billing_runs`, usage, reservations, transactions | ensure (quota and plan refresh), create, authorise, reserve for a tool, record usage, settle, expire | called by the API, task_frame, the tool client, finalize and the runner's handlers |
| Point API | `api/points.py` | invite codes, accounts | upgrade, top up, adjust, list | accounts |
| Session API | `api/sessions.py`, `services/session_cleanup.py`, `services/session_phase.py` | `sessions.status`, `current_run_id`, `workflow_id` | post, interrupt, delete | Temporal, billing, mcp-hub |
| Workflow and activity | `temporal/` | history of a workflow, attempts of its activity (both in Temporal) | start, attempt, heartbeat, cancel, give up, terminate | runner |
| Runner, resume, registry | `graph/runner.py`, `graph/resume.py`, `graph/runtime.py` | one LangGraph thread per session, tasks in memory | decide to start, resume or skip; reconnect; handlers of cancellation and errors | graph, billing, session row |
| Graph and nodes | `graph/session_graph.py`, `graph/nodes/` | `SessionState` of the thread: frame, plan, budgets, summary | the nodes and the routing between them | models, tools, billing |
| Tool calls, MCP hub | `graph/nodes/execute.py`, `tools/client.py`, `apps/mcp-hub/app/api/tools.py`, `tools/` | stored answers by idempotency key, files of the sandbox, evidence in the locals of the node | reserve, invoke, retry, recover, record | docker, billing |
| Event log and live stream | `events/emitter.py`, `api/stream.py`, `api/sessions.py` | table `events`, NATS subjects, the last number of a connection | emit, replay, catch up, follow, list | every node, the chat page |
| Chat page | `apps/web/lib/events`, `lib/store`, `components/chat` | cursor, plan and other stores of the tab | restore, follow, poll, send | stream and session API |
| Users | `api/auth.py`, `api/deps.py`, `api/admin_users.py`, `security/` | `users`, codes and cooldowns in redis, tokens | send and use a code, register, log in, change and reset a password, create, patch, delete | invite codes |
| Skills | `services/skills.py`, `api/skills.py` | `skills`, `user_skills`, files of a package | create, upload, generate, patch, enable, delete, seed, offer to a prompt | users, models |
| Attachments, memory | `services/attachments.py`, `memory/` | files, vectors | reads and single writes | |

### What is hard

* **Concurrency.** Handlers of one session overlap in one event loop; every
  `await` is a place where another can run. Transactions of several runs and
  requests meet on one account. `settle_billing_run` reads without a lock.
* **Failure.** The process may die between any two steps; Temporal starts the
  activity again, and two attempts may run at the same time when one misses its
  heartbeats. A reply of `start_workflow` may be lost. Billing failures in
  finalize are swallowed.
* **Overlapping deliveries.** A tool request goes on in the hub after its client gave
  up or died, and is repeated under the same key. An event reaches the page by the
  history, the stream and the poll; rows commit and messages are published in
  another order than that of their numbers.
* **Reads that are old.** Handlers read a user, a skill or a code in one statement
  and write in another, with a token that was issued long before.
* **Ordering.** `post_message` writes the row after the workflow has started,
  finalize frees the row before the activity reports, a cancellation may come at
  any of these points, and the thread of a session is shared by its runs.
* **Timeouts.** Holds expire after two hours, plans and quotas by the calendar,
  while runs that use them go on.
* **Cycles.** execute and reflect send a run back and forth; only counters end it.

`PROJECT.json` lists the hazards one by one with their lines and the properties
that address each.

### What makes each component correct

* Billing: points are neither lost nor invented; a run is charged once, never
  more than its hold; a closed run stays closed; holds that lapsed are returned.
* Session runs: one run of a session at a time; a session stuck in `running`, or a
  hold that outlives its run, only where a mishap of the run accounts for it; attempts
  continue from the checkpoint and never repeat a finished graph.
* Graph: todos are executed in order; success is backed by evidence; a run never
  ends with a todo open; high-risk work is confirmed; budgets only grow; every
  run ends.
* Tools: an operation is carried out once, however often it is asked for; evidence
  is of work that was done; usage is of work that was paid for; every call ends.
* Events: the page handles each event once and in order, misses none that was there
  before it was opened, shows the plan a reload would show, and catches up.
* Users and skills: a disabled account stays out, whatever requests overlap, but for an
  edit that read it before; a spent code is refused; prompts contain what their user
  chose; a generated package is complete.

## 2. Modules

### PointEscrow

The abstract specification of the points of a run: held in instalments, closed
once, then part spent and the rest returned.

### Billing

One action is one transaction. Transactions lock the account's row and then the
run's, so each is atomic; `settle_billing_run` is the exception and is split into
`SettleReadsPending` (the unlocked read at billing.py:785) and `SettlePending`
(what it then writes). `StalePreview = FALSE` closes the window between the two.

| Variable | Code |
|---|---|
| `account`, `run`, `invite` | rows of `point_accounts`, `point_billing_runs`, `invite_codes` |
| `usage` | the rows of `point_billing_usage`, summed per run, with the keys seen |
| `reservedCalls` | keys of `point_billing_reservations` |
| `ledger` | the transaction with key `billing:{run_id}` |
| `now` | the clock; a day, a month, a plan and a hold last a number of ticks |
| `granted`, `refunded` | history: what the account was given; what a run's hold gave back |

Helpers carry the code's names: `Ensured` is `ensure_point_account`, `Refund` and
`Credited` are the two halves of `_restore_unused`, `Expired` and `Released` are
`_release_expired_for_locked_account`. Points are naturals; tokens are counted in
units, `TokensPerPoint` of which make a point. A session's deletion, which removes
its billing rows, is in SessionRun.

### SessionRun

An action is what happens between two awaits that reach the database or Temporal.

| Variable | Code |
|---|---|
| `row` | `sessions.status` and `current_run_id`: a run, `"free"` or `"deleted"` |
| `post`, `deleting`, `stopping` | where the handlers of POST, DELETE and terminate stand |
| `billing` | status of the run in `point_billing_runs` |
| `flow`, `tries` | the workflow in Temporal and the attempts of its activity |
| `pc` | where each attempt stands: begin, frame, work, settle, close, save, and the same for the cancellation and error handlers |
| `checkpoint` | the thread's latest checkpoint: its run and its next node |
| `retried`, `crashes` | the one reconnect of an attempt; bound |
| `finished`, `mishaps` | history: runs whose graph reached its end; settlements ("unsettled") and updates of the row ("unclosed") that failed or were cut short, and a row freed before its POST wrote it ("early") |
| `events` | which disturbances may happen in this behaviour |

`EventSets` is the set of the sets of disturbances an instance admits together: a second
message, overlapping requests, slow row updates, early, timely and late interrupts,
terminations, deletions, a POST that fails although its workflow started ("postFails":
`start_workflow` or the update of the row), a lost checkpoint connection, settlements and
updates that fail and are only logged ("dbErrors"), events that cannot be written
("emitFails": the node or the handler that emits raises), stalls, crashes, shutdowns.
`Init` picks one set, so that a run states under which of them its properties hold.
`MayPost` bounds behaviours without "another" to one message, `MaxCrashes` the crashes,
stalls and shutdowns.

What finalize and the runner's handlers do may fail or be cut short wherever the code
lets it: `SettleStep` and `CloseStep` go on after a failure that the code swallows
(finalize.py:48-51, 107-114; runner.py:114-117, 127-134, 139-142, 161-168), and
`CutShort` is a cancellation that is delivered inside the handler of an exception
(runner.py:136-168), which neither clause catches, or an event that a handler cannot
write. Each leaves an entry in `mishaps`, so that the properties say exactly when a hold
or a row may stay behind, and with which mishap. A workflow whose last attempt dies
(`GiveUp`) frees nothing and settles nothing; `Abandoned` excepts it by name.
With stalls, an attempt that was superseded may go on, run a node again and write an
older checkpoint: `NeverRerun` and `CheckpointsAdvance` say nothing of such behaviours.
External, modelled from how the code uses it: Temporal (attempts, cancellation by
heartbeat) and the writes of checkpoints by LangGraph. The nodes between the frame and
the end are the single step `Work`; SessionGraph has them in detail.

### SessionGraph

The nodes as actions, and the loop of `execute_node` with its local variables
(`pass`) as actions `StartPass`, `ModelTurn`, `Stop`, `Tools`, `Exhausted` and
`ExecuteRaises`, and for the agent SDK `SdkTools` and `SdkAnswer`, so that an attempt
may die in the middle (`AttemptLost`) and lose the locals. Several runs of a session share the thread's state: what the input of
a run overwrites (`runner.py:55-88`) and what it leaves is exactly what `Post`
changes and leaves.

| Variable | Code |
|---|---|
| `message` | the user's message: a task, "确认" or "取消"; `skip` is `skip_planner` |
| `frame` | `task_frame`: clarification, planner, risk, `awaiting_execute_decision` |
| `plan`, `planRun` | the todos (text and status) and the run that made them |
| `reflections`, `turns` | `reflection_count`; `tool_turns`, `total_agent_turns`, and whether the tokens are spent |
| `summary` | `execution_summary`: tools tried, unrecovered failures, rejections, missing delivery, exception |
| `pass` | the locals of `execute_node` |
| `engine` | `executor_engine` of the run: the loop of execute.py or the agent SDK |
| `outcome` | the outcome finalize, or the runner, settles the run with |
| `evidenced`, `confirmed` | history |

Answers of models and results of tools are nondeterministic: any frame that
`normalize_task_frame` lets through, any of the proposed todo lists (a list may have a
text twice: nothing in the planner prevents it), any decision of reflect, and for each
tool call refused, asking, failing, idle, working, completing, or failing although
the steps that tried to recover it completed the todo ("salvages"). Whether evidence fits a todo is chosen; that only the active todo can
be completed, and what follows, is modelled. With the SDK a pass is a loop over
queries: the SDK asks the model and calls the tools, two at a time if it likes, in
which case both work on the plan they read and the later result is kept
(execute_agent_sdk.py:174); its turns are counted when the query is over, and not at
all when it raises.

### ToolExecution

The calls of one run, from the node to the hub and back. An attempt that dies leaves
its request with the hub, and the next attempt makes the calls again. The hub may
restart, and it may carry out a call and fail to store that it did (`StoreFails`): both
are `mishaps`, and each may cost one repetition. A stored result is assumed to be
readable (tools.py:40-44 treats one that is not as absent).

| Variable | Code |
|---|---|
| `attempt`, `step`, `turn`, `part`, `call`, `reply` | where `_invoke_tool_with_events`, `_retry_failed_tool_if_needed` and the recovery of a failed command stand; part names which of them makes the call |
| `requests` | requests the hub works on, with their stage: waiting for the lock, running, polling a media job, fetching, written, answered |
| `cached` | `.tool-idempotency`: successes stored by key |
| `mishaps` | restarts of the hub, which lose its requests and locks and keep its files, and successes it could not store |
| `bill`, `held`, `usage` | status, reservations and usage of the run (the amounts are in Billing) |
| `proof` | `_ExecutionProof` of the attempt: successes, failed and recovered turns |
| `successes` | history: how often the effect of a key happened |

### Users

Requests as handlers in several steps; `request[h]` is what handler `h` has read and
where it stands, `account`, `code`, `cooling` and `tokens` are the rows, the keys of
redis and who holds a token. `barred`, `overtaken`, `revived` and `spent` are history.
Everybody knows their password and every code that was mailed to them.

Requests overlap freely, two edits of one account included. `patch_user`
(admin_users.py:144-157) reads a row, fills what the request leaves out from it and
writes both the role and the status: an edit whose account is disabled between the two is
`overtaken`, and one that then writes the status it read has `revived` the account.
`BarredStaysOut` says that nothing else lets a disabled account in. Likewise `CodeSpent`
is about requests that read the key of a code after it was spent; two that have both read
it before either deletes it (otp_codes.py:48-51) may both go on.

### Skills

Extends Users with `skill`, `enabled`, `made` and the history `chosen`, `endorsed` and
`generated`: packages with the scripts they refer to and contain, versions, visibility, the
requests that create, patch, share, enable and delete them, the built-in skill that each
start restores, and `Candidates`, what the router is offered for a user's prompt.

`validate_skill_package` drops paths with ".." and names that begin with a dot
(skills.py:211-217): `Unkept` are the paths among `Scripts` that it drops, and `Kept` is
what it leaves of a package. A stub that was added for such a path is dropped with it.
`Drafts` and `Uploads` bound what a model drafts and users submit. Not modelled: the
prefix of SKILL.md's directory that an upload is stripped of, and the renaming of
paths with "." or "//".

### EventStream and WebClient

EventStream has `emit()` in steps (`Begin` fixes `created_at`, `Insert` takes the number,
`Commit` makes the row visible, `Publish` or `LosePublication`), the reads of the table, and the server side of a
connection (`CatchUp`, `Subscribe`, `Follow`). WebClient extends it with the browser.

| Variable | Code |
|---|---|
| `begun`, `clock`, `emitting` | the INSERT of each run that has begun, by its time; the call of `emit` of each run |
| `log`, `commits`, `stream` | rows of `events` with their `created_at`; the order in which they became visible; the messages of the NATS subject |
| `conn`, `wire` | `_replay_then_live` of the browser's connection; what it sent and the browser has not read |
| `generation`, `boot`, `applied`, `url` | `effectGenerationRef`, `runBootstrap`, `appliedSeqRef`, the `since` an EventSource reconnects with |
| `polls` | polls in flight, with the visit that asked and the rows they will bring |
| `plan` | `usePlanStore` |
| `sending`, `answered` | the POST in flight, and the runs whose answer came |
| `handled`, `known` | history: events handed to the handlers; rows visible when the page was entered |

The page reads its history in pages (`BootPage`), sorts it by `created_at` (`ByCreation`,
timeline.ts:85-97), replays it in chunks between which the browser gets its turn
(`ReplayChunk`), and goes live from the greatest number (`GoLive`). So two runs whose
INSERTs overlap may be replayed in another order than that of the numbers, by which the
stream and the polls go, and `OnceInOrder` claims the order of the numbers only for the
events of one run and for what comes after the replay. The user's messages
are replayed between the events and counted among the items of a chunk
(useEventStream.ts:196-199), so a chunk may hold fewer than `ChunkSize` events. Outside of
the model: the screenshots of the history, which the page skips, but for the last
(useEventStream.ts:37, 189-213), and rows that the parser of a poll
rejects (sessions.ts:173-177).

A run announces itself with a `planning` event more than once (ingest.py:34,
task_frame.py:569, plan.py:413); `LateStart = FALSE` says that an interrupted run does not
do so after the next message was sent (`WillAnnounce`). The composer waits until the
status is not `running` any more (Composer.tsx:91-116), which is when the interrupted run
is over, unless a termination or a late cancellation (finding 2) freed the row while it
still works. With TRUE, a run that announces itself after its successor replaces the
plan of the successor (plan.ts:19), and `PlanIsReplayed` fails.

Definitions that come directly before a definition of the same shape are
deliberate faults. `PROJECT.json` (`mutants`) pairs each with the property that
detects it; nothing else uses them.

## 3. Runs

Run any of them with `tlc -workers 2 -config X.cfg M`.

| Run | Question | Bounds and why they are enough |
|---|---|---|
| `billing` (MCBilling.cfg) | Do authorisation, tool reservations, metering, settlement with every outcome and expiry, of two runs of one user, keep every point? Is it an escrow? | Two runs, so that the hold of one lapses while the other authorises; three days in two months, so that refunds meet today's, this month's and past buckets; quotas of 3 daily and 2 monthly points, so that quotes of 2 cross the buckets and the last one is refused; one tool call and one model turn, each of which may be repeated. |
| `accounts` (MCAccounts.cfg) | The same books with two users racing for three codes, plan changes and expiry, top-ups and adjustments | One run; the plans free, basic and pro; a plan lasts one tick of two. |
| `stale_settlement` | Finding 1 | as `billing`, with the window open |
| `session` (MCSessionRun.cfg) | Do runs exclude each other, do attempts go on where they were, and is every row or hold that stays behind accounted for by a mishap? | Five sets of disturbances. With a second message: interrupts at any moment, a late row, failing settlements and updates, a deletion. With one message: crashes with a lost connection, an interrupt and failing settlements; shutdown and stall with failing POSTs and events; crashes, failing POSTs and events, a late row and terminations; terminations, early interrupts, deletion, stall and overlapping requests. Two attempts, although the code makes five (`ACTIVITY_MAXIMUM_ATTEMPTS`), and two crashes: the first hits the first attempt anywhere, the second one that resumed, skipped or started over, and ends the workflow; a third attempt finds nothing that the second does not. 109 000 states. |
| `graph` (MCSessionGraph.cfg) | The properties of the graph, with both engines | Two runs, so that the second finds the first's frame and plan; plans of two todos, with different texts and with the same text twice, so that a replan carries work over, drops it and meets an item it cannot tell from another; a cap of two reflections and budgets of two tool turns and three model turns, so that each of them is what ends some run; one lost attempt. The first run has either engine; a run with the SDK cannot ask the user and so leaves nothing but its frame. The second run is native; with `<<{"native"}, {"native", "sdk"}>>` for `Engines`, where the SDK resumes a native run, the same properties hold (1.1 million states). |
| `tools` (MCToolExecution.cfg) | What repeated, late and lost calls do | One call at a time out of a shell command, two paid media jobs with money for one, a plain and a forbidden call; three attempts and a mishap of the hub, so that a request of the first attempt can meet the one of the third in a hub that lost its locks or could not store a result. |
| `users` (MCUsers.cfg) | Requests of an admin and a user that overlap two at a time | Three accounts, two codes, so that one replaces the other under the request that consumes it, five requests: to send and use two codes, or to read an account, disable it, write it and come back; one restart. The two handlers are symmetric. 710 000 states. |
| `skills` (MCSkills.cfg) | The same requests with skills instead of codes | Two skills beside each other or one in two versions, three requests: one that read before, one that changes what was read, and one after both; a script that validation keeps and one that it drops, a draft that lacks both and one that has more than it refers to. 2.6 million states. |
| `events` (MCWebClient.cfg) | One page, two runs, four ways for an event to arrive or not | Three events, read two (history) or one (poll) and replayed one at a time, so that each read has a last page and a replay is interrupted; two visits of the page, one poll in flight, one fault. 1.5 million states. |
| `failure_as_success`, `late_cancel`, `stuck_session` | Findings 2 to 4 | smallest instance that shows each |

Each finding is a run of its own. Eight more configurations show where a property fails
that the code, a comment or a page claims; the properties of the runs above except exactly
these cases:

| Configuration | Property that fails | What happens, and what says otherwise |
|---|---|---|
| MCCutShort.cfg (MCSessionRun) | `RunningRowHasRunner` | A cancellation is delivered while the handler of an exception awaits; the handler ends where it stands and the row stays running, which its last step is there to prevent (runner.py:160). |
| MCOverlappingPosts.cfg (MCSessionRun) | `OneRunAtATime` | Two POSTs read the row before either writes it (sessions.py:394); "session already has an in-flight run; interrupt first" (sessions.py:397). |
| MCDeleteRace.cfg (MCSessionRun) | `DeletionSparesWork` | A POST between the check and the wipe of a deletion (session_cleanup.py:76); "not running" (session_cleanup.py:55). |
| MCResumedReplan.cfg (MCSessionGraph) | `ReplansKeepWork` | A run that resumed the plan of an earlier run replans: `_previous_plan_for_current_run` returns nothing (plan.py:221-227); "Carry exact completed work and its evidence across a replan" (plan.py:197). |
| MCRevivedAccount.cfg (MCUsers) | `DisabledStaysOut` | An edit of the role writes the status it read before another admin disabled the account (admin_users.py:154). |
| MCCodeTwice.cfg (MCUsers) | `OneRequestPerCode` | Two requests read a code before either deletes it (otp_codes.py:48), which the login page calls a "one-time-code". |
| MCGhostScript.cfg (MCSkills) | `NoGhostScripts` | The pattern of references takes scripts/a/../b.py for a script, a stub is added, and validation drops it (skills.py:215); "Do not reference scripts that are not included" (skills.py:724). |
| MCImposedSkill.cfg (MCSkills) | `OnlyEnabledSkills` | An admin's upload named skill-creator enters the prompts of everybody (skills.py:1072); "Return all user-enabled active Skill packages" (skills.py:1051). |

Deadlock is not checked where the system may stop: a session with no further
message, a bounded number of runs.

### Fairness

`SessionRun!Fairness`: a handler or an attempt that can take its next step takes it
(the event loop schedules every ready task; a process that died is not fair, its
attempts are replaced), and Temporal starts the attempts it owes. Users are not
fair: interrupts, deletions, crashes and posts need not happen.
`SessionGraph!FairSpec`: weak fairness of the nodes together; the runner awaits one
after the other. `ToolExecution!FairSpec`: the attempt goes on, and so does the hub, each
of whose steps has a deadline; weak fairness suffices since neither waits for more than
the other. `WebClient!Fairness`: an INSERT that was sent commits, the boot's pages are
read and replayed (`GoLive \/ ReplayChunk`), the timer polls and polls are answered; nothing is assumed of NATS, of
connections or of users. Users and Skills state no liveness, and Billing states none: nothing in the code expires holds by
itself, the sweep is part of the next transaction of the account.

## 4. Proofs

`Billing_proofs` (checked with `tlapm Billing_proofs.tla`) proves for every number of
users, runs, calls and codes and for all quotas, prices and bounds allowed by
`BillingAssumption`:

| Theorem | Statement |
|---|---|
| `TypesAndHolds` | `Spec => [](TypeOK /\ HoldsAddUp)` |
| `NoHoldIsLost` | `~StalePreview`, `Spec => []HoldsClosed` |
| `ChargesAreExact` | `Spec => []ChargedOnceWithinHold` |
| `ClosedRunsAreFinal` | `Spec => ClosedIsFinal` |
| `EscrowButForStaleReads` | `Spec => Escrow!Init /\ [][Escrow!Next \/ \E r \in Runs : StaleRelease(r)]_(Escrow!vars)` |
| `BillingImplementsEscrow` | `~StalePreview`, `Spec => ImplementsEscrow` |

and `Billing_balances`, which builds on it:

| Theorem | Statement |
|---|---|
| `PointsAreConserved` | `IsFiniteSet(Runs)`, `Spec => []Conservation` |
| `DailyPointsAreBounded` | `IsFiniteSet(Runs)`, `Spec => []DailyWithinQuota` |
| `PlansAreCurrent` | `PlanLength > 0`, `Spec => PaidPlansAreCurrent` |
| `FailuresPayForMediaOnly` | `~StalePreview`, `Spec => []FailureKeepsMediaOnly` |
| `StaleHoldsComeBack` | `~StalePreview`, `Spec => StaleHoldsReturned` |

The argument: `HoldsAddUp` is not inductive without the types (the buckets of a
breakdown must be naturals), and a charge within the hold needs that the parts of
a hold add up, because a refund is computed from the parts and a charge from the
sum. The invariant that is inductive is `TypeOK /\ HoldsAddUp /\ RunInv`, where
`RunInv` says of each run what its status implies for its charge, its ledger entry
and its refund. Every action has a lemma for each conjunct it can disturb. The
lemma that an amount the account covers is split over the buckets exactly
(`BreakdownExact`) carries the arithmetic. `RunInv` holds with the window of
finding 1 open: it says of a run that was released by a stale settlement that its hold
was forgotten (`Forgotten`). So charges are exact and closed runs are final whatever overlaps, and
every step is one of the escrow except a `StaleRelease`, which closes a run that was
authorised without returning its hold. The theorems that assume `~StalePreview`, that no settlement
works on a status it read before the run was authorised, are those that this step breaks. The code has
the window where a start whose reply was lost, or the handler of a superseded
attempt, settles a run that another attempt is framing.

The balances are sums over the runs of a user. `Conservation` is inductive together
with the types and `HoldsAddUp`: the lemmas say of each half of a transaction (ensure,
hold, settle, refund, expire) by how much it changes the sum, so that the window of
finding 1 does no harm here. `DailyWithinQuota` needs `DailyInv`: for a user on the free plan,
what is left of the day and what today's runs hold of the daily bucket stays within the
quota, and no run was created in the future. Sums over a set of runs are induction over
data, which the library states with an operator as parameter; `Induction` restates it of
sets (a set of numbers with 0 and each successor is all of them; the same for the subsets
of a finite set), and with that the sum lemmas go through.

`SessionGraph_proofs` proves for all todos and proposals, budgets, runs and engines
allowed by `SessionGraphAssumption`:

| Theorem | Statement |
|---|---|
| `GraphTyped` | `Spec => []TypeOK` |
| `GraphInOrder` | `Spec => []OrderedExecution` |
| `GraphEvidenced` | `Spec => []SuccessIsEvidenced` |
| `GraphClosed` | `Spec => []ClosedTruthfully` |
| `GraphConfirmed` | `Spec => []HighRiskIsConfirmed` |
| `GraphBudgets` | `Spec => BudgetsOnlyGrow` |
| `GraphDescends` | `Spec => EveryStepDescends` |
| `WorkIsKept` | `Spec => CompletedWorkIsKept` |

None of them is inductive alone; the invariant `Inv` adds what a node may rely on
because of the nodes that lead to it. A success is evidenced because every done item
of the thread's plan *and* of the loop's copy is backed by evidence (`SoundInv`), which
a replan keeps only because it carries over what was done. No todo stays open because
whatever enters finalize without an error or a question has closed its plan
(`OutcomeInv`), which for the edge from direct_answer needs that a frame without planner
finds the plan of an earlier run cleared (`ControlInv`). A high-risk task is confirmed
also when a run resumes: a frame that awaits an answer was confirmed before its
question (`ConfirmedInv`). The types need that reflections are below the cap in every
node ahead of finalize, and that a loop with a tool turn to take has one left
(`BudgetInv`). The scheduler has lemmas of its own: each of its operations keeps a plan
typed, in order and backed (`SoundStarted` .. `SoundReconciled`), a call of a tool does,
by either engine (`CalledFacts`, `SdkCalledFacts`), and two lemmas serve every step of
the loop (`WithinLoop`) and every return from it (`ReturnInv`). `WorkIsKept` adds that the
loop has all the work of the thread's plan (`WorkInv`), which every operation of the
scheduler keeps (`KeepsStarted` .. `KeepsSdkCalled`). Work is told by its text where a plan
replaces another, and by its place where the list stays, so that a proposal may have a text
twice. Outside of it are a pass that is lost with its attempt, and the replan of a plan
that an earlier run made, where the code does lose work (MCResumedReplan.cfg). `GraphBudgets` is of
what the thread has counted: the turns of a pass that dies with its attempt were never there.

`GraphDescends` is why a run ends, as far as it can be said without fairness: from `Inv`, every
step of a run that is not a lost attempt counts a reflection, of which there are
`MaxReflections` at most, or lowers the distance of its node from the end, or, inside the loop
of execute, lowers the natural number `LoopLeft`. Together the three are a lexicographic
variant. The budgets alone would not do for the SDK, whose queries may report no turns: there
it is the count of the answers that delivered nothing which no tool call sets back. That a run
therefore reaches its end (`RunEnds`) also needs that nodes are executed, and stays with TLC.

`SessionRun_proofs` proves, for all runs, attempts and crashes allowed by
`SessionRunAssumption`:

| Theorem | Statement |
|---|---|
| `RunTyped` | `Spec => []TypeOK` |
| `HoldsEnd` | `Spec => []NoStrayHold` |
| `RowsKeepRunners` | `Spec => []OnlyMishapsStrand` |
| `WorkAuthorized` | `Spec => []OnlyRetriesWorkUnbilled` |
| `RunsExclude` | sessions with several messages are calm, `Spec => []OneRunAtATime` |
| `FinishedStayFinished` | one message, or a process that lives, `Spec => []NeverRerun` |
| `AttemptsGoOn` | `Spec => CheckpointsAdvance` |

`HoldsEnd`, `RowsKeepRunners`, `WorkAuthorized` and `AttemptsGoOn` hold for every
`EventSets`, that is under all disturbances together: what goes wrong in them is named by
the property, not assumed away. The hypotheses of the other two are on `EventSets`, and the
`session` run satisfies both. `RunsExclude` assumes that a set with "another" is a subset of
`CalmEvents` (interrupts, early ones too, deletions, late rows, failing settlements and updates);
a session with one message may meet anything. Each other disturbance but two breaks
`OneRunAtATime` in the code when a second message is posted: overlapping requests
(MCOverlappingPosts.cfg), a termination, a failing POST, a lost connection, a stall, a crash or a
shutdown each by itself, late cancellations together with interrupts (finding 2); events that
cannot be written do not by themselves, and are outside of the proof. `FinishedStayFinished`
assumes that a set with "another" has neither "crash" nor "shutdown": with one of them, a
finished run may be executed again, see section 5.

The argument has three layers and two asides. `Base` holds whatever happens: nothing is on hold and
nothing in the thread before a run's first attempt (`StartInv`), and whoever has settled
a run, or finds the thread at its end, leaves no hold, or a mishap (`OverInv`). `HoldInv` adds
that an open hold has an attempt that is going to settle it (`Attended`), or else the settlement
failed (`Unsettled`) or the last attempt died (`Abandoned`); `WorkInv` that whoever works has a hold, or is a retry,
or its POST failed. `LoneInv` says of behaviours without "another" that
one run is posted, from which both hypotheses take their first case. `CalmInv` adds why runs exclude each other: a run has one
attempt (`AttemptInv`, which `OrderInv` carries beyond calm), and the row names whoever is ahead of the step that frees it, or
is free while a POST or a deletion is being served (`RowInv`). `OneRunAtATime` alone is not
inductive: a deletion or a POST that has read a free row relies on it until it is done,
and closing a row is only harmless because the row names nobody else. The steps of an
attempt are summed up once (`RunnerEffect` for all disturbances, `RunnerMove` for orderly
ones), so that each invariant has one case for the runner and one for each handler.
One aside is `KeepInv`: from the update of its POST to the step that frees it, the row that
names a run has its open workflow, an attempt ahead of that step, or a termination to free it,
or one of the mishaps has happened (`Misclosed`). The other is `TurnInv`, for behaviours without
stalls: only the last attempt of a run
executes (`LatestInv`), none executes a node behind its run's checkpoint (`PlaceInv`), and a
finished run has the thread at its end, or its last attempt still reports or has closed
the workflow (`DoneInv`).

`ToolExecution_proofs` proves, for all calls, keys, limits and restarts allowed by the
module's assumptions:

| Theorem | Statement |
|---|---|
| `ToolsTyped` | `Spec => []TypeOK` |
| `ToolsSucceedOnce` | `Spec => []SucceedsOnce` |
| `ToolsProve` | `Spec => []ProofIsReal` |
| `ToolsCovered` | `Spec => []UsageIsCovered` |
| `StoredIsFinal` | `Spec => [][..]_vars`: a stored success stays and is never repeated |

That an operation succeeds once needs what the hub does with a key: one request per key
executes (`Locked`), none whose success is stored does (`RunsUncached`), and beyond the
successes that mishaps made the hub forget there is at most one, which is stored or about
to be (`Counted`). The agent's half (`AgentInv`) says where a call and its repetitions stand.

`Skills_proofs` proves, for all accounts, addresses, codes, skills, handlers and bounds
of Users and Skills:

| Theorem | Statement |
|---|---|
| `SkillsTyped` | `Spec => []TypeOK` |
| `SkillsAreWhole` | `Spec => []GeneratedIsWhole` |
| `SkillsAreChosen` | `Spec => []PromptsAreChosen` |
| `BarredStayOut` | `Spec => BarredStaysOut` |
| `CodesAreSpent` | `Spec => CodeSpent` |

Handlers read in one step and write in a later one, so the invariant speaks of what each
request under way carries with it: the row an edit read, and whether it was overtaken (`EditsInv`, `BarredInv`), the code that is to be
consumed and the keys that hold it (`CodesInv`, `ConsumesInv`), the version a patch is about to write
(`VersionsInv`), how those relate to rows that others have changed since, and where what is stored
came from (`OriginsInv`).

`WebClient_proofs` proves, for all runs, scripts, page limits, visits and faults allowed by
`StreamAssumption` and `ClientAssumption`:

| Theorem | Statement |
|---|---|
| `PageTypes` | `Spec => []TypeOK` |
| `EventsInOrder` | `Spec => []OnceInOrder` |
| `GapsExplained` | `Spec => []GapsAreExplained` |
| `PlanReplayed` | `~LateStart`, `ScriptsAnnounce`, `Spec => []PlanIsReplayed` |

The page handles events in order because whatever is under way to it is in order and
counted against the same cursor (`HandledInv`, `WireInv`); a gap is explained because each of the
places an event may be in (the replay, the connection, a poll, the boot's pages) covers
what its reader has passed (`Covered`, in `SubscribedInv`, `ReadingInv`, `ReadyInv`, `PollsInv`).

That the plan is the one a reload shows needs two statements about folds, since the page
applies events by their numbers where the reload goes by `created_at`. The plan equals the fold
of the handled events, except that the page clears it when it sends (`PlanInv`), and two
folds from different plans agree from the first `planning` event on. And two orders of the
same events give the same plan when both keep what matters (`Respects`, `TwoOrders`): the
events of each run in their order, and all announcements of a run before those of the next
one (`TurnInv`), for an update of another run than the last announced one is ignored.
`ScriptsAnnounce` says that a run's first event is `planning`, as ingest emits it.

`TypeOK` of each module and `ClosedIsFinal` of Billing are proved (of Users by `SkillsTyped`, of
EventStream by `PageTypes`) and are therefore in no run; TLC checked them while the models
were written.

Only model-checked is liveness (`RowIsFreed`, `RunEnds`, `CallsEnd`, `CursorCatchesUp`), which is
outside of what the proof system covers. Every invariant and every action property that
a passing run checks is also a theorem, under the hypotheses in the tables.

## 5. Findings

1. **A settlement that overlaps the authorisation strands the hold**
   (`stale_settlement`). `settle_billing_run` reads the run's status without a lock
   (billing.py:788) and, if it was pending, sets it to released. When the run was
   authorised in between, its points stay debited, and the expiry sweep looks only
   at authorised runs.
2. **A late cancellation frees the next run's session** (`late_cancel`).
   `mark_session_run_closed` does not compare the run (session_phase.py:22).
3. **A session may stay in `running`** (`stuck_session`): an interrupt before the
   first attempt closes the workflow, and only an attempt frees the row.
4. **An unrecovered failure may be billed as a success** (`failure_as_success`):
   finalize looks at the todos alone, execute says such a failure must not count as
   completed (execute.py:646).

Not findings, but worth knowing when these parts change:

* What the eight configurations of section 3 show beside the findings.
* A finished run may be executed again: its attempt died before reporting, and the next
  run has replaced the thread's checkpoint (resume.py:34). `NeverRerun` fails with
  `EventSets = {{"another", "crash"}}`.
* Two runs of a session may work at once: the process dies after the workflow of a POST
  was started and before its row was written, so the next POST finds the row free.
  `OneRunAtATime` fails with the same set.
* The first run that a shutdown cancels ends `cancel_all` and the rest of the shutdown:
  `suppress(Exception)` does not catch `CancelledError` (runtime.py:97). `Shutdown` has it so,
  without the order in which the lifespan closes its connections.
* A workflow that was cancelled or terminated, and whose attempt dies with the process
  before its next heartbeat, keeps its hold until it expires: nobody starts another
  attempt. `NoStrayHold` excepts it as `Abandoned`.
* A termination of a run whose POST is still being served closes the workflow and frees the
  row, and then the POST writes its row: nobody is left to free it (`Unstarted`, or "early").
* An attempt may work for a run whose hold is closed already: a shutdown settles the run
  that it cancels, and the activity's retry goes on with it, since task_frame neither
  authorises a closed run again nor refuses it. `OnlyRetriesWorkUnbilled` lists the ways: a
  POST that failed although its workflow started, a later attempt, a reconnected one.
* Termination frees the row while the attempt still works until its next heartbeat, and a
  deletion may then wipe the files under it.
* A client waits 120 s for a tool and the hub works for up to 600 s
  (tools/client.py:52): the next call may work in the sandbox beside the one that was
  given up, though its key keeps it from being repeated.

## 6. Plan

Done: PointEscrow, Billing, SessionRun, SessionGraph with both engines, ToolExecution,
Users, Skills, EventStream, WebClient; Induction, Billing_proofs, Billing_balances,
SessionRun_proofs, SessionGraph_proofs, ToolExecution_proofs, Skills_proofs, WebClient_proofs.

Next, in this order:

1. **Composition** of SessionRun with the outcomes of SessionGraph and the
   statuses of Billing, in which `Work` and `SettleStep` are theirs.
2. **Stores of the chat page** other than the plan: phase, frames, and the question that
   a late answer of a POST clears (Composer.tsx:121).
3. **Proofs** of `FinishedStayFinished` under weaker hypotheses: several runs and a process
   that dies, as long as no other run takes the thread over.

## 7. Not modelled

* Prompts, parsing and rendering, text similarity of skills, compaction of
  messages, streaming of an answer, the inference of missing paths: data without state
  of their own.
* What the agent SDK does between the calls it makes: it is not part of the repository.
* The retry endpoint of `api/temporal.py`: it looks a session up by a workflow id
  that the row has only while the run executes, and then refuses.
* Usage rows of model turns and their keys (execute.py:1213): SessionGraph has the
  counters the keys are made of, Billing has rows without counters.
* The sandbox manager of mcp-hub, whose operations hold a lock per session and keep no
  state over a call; attachments and memory, which are files and external searches.
* The chat, frame, live and phase stores of the page, and rendering.
* Infrastructure: Postgres, Redis, NATS, Temporal and LangGraph are assumed to do
  what the code relies on, with the failures described above.
