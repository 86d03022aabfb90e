------------------------------- MODULE WebClient --------------------------------
(***************************************************************************)
(* The chat page of one session (apps/web): the effect of useEventStream   *)
(* that restores the history, follows the stream and polls, the plan store *)
(* it feeds, and the sending of a message, whose answer changes that store *)
(* as well.                                                                *)
(*                                                                         *)
(* The stores belong to the tab: they outlive the page, so the answer to a *)
(* message may come after the user left the page and came back.            *)
(*                                                                         *)
(* Screenshots are left out: of those in the history the page applies the  *)
(* last one only, when everything else is replayed.                        *)
(***************************************************************************)
EXTENDS EventStream

CONSTANTS PageLimit,       \* rows of a page of the history (800)
          PollLimit,       \* rows of a poll (400)
          ChunkSize,       \* events that are replayed at a time (32)
          MaxPolls,        \* bound on polls in flight
          MaxMounts,       \* bound on visits of the page
          LateStart        \* an interrupted run may still announce itself after
                           \* the next message was sent

ASSUME ClientAssumption ==
    /\ PageLimit \in Nat \ {0}
    /\ PollLimit \in Nat \ {0}
    /\ ChunkSize \in Nat \ {0}
    /\ MaxPolls \in Nat \ {0}
    /\ MaxMounts \in Nat
    /\ LateStart \in BOOLEAN

VARIABLES generation,  \* effectGenerationRef: which visit of the page this is
          boot,        \* how far the page is, and the history it has read or replays
          applied,     \* appliedSeqRef
          url,         \* the since of the EventSource, used again on reconnecting
          polls,       \* polls in flight: the visit that asked, the rows
          handled,     \* the events given to the handlers since the page was entered
          plan,        \* the plan store: a run and its last update, an event id or 0
          sending,     \* the run of the message in flight, or NoRun
          answered,    \* the runs whose answer changed the stores
          known        \* the rows visible when the page was entered

viewVars == <<applied, handled, plan>>
clientVars == <<generation, boot, url, polls, viewVars, sending, answered, known>>
vars == <<streamVars, clientVars>>

NoPlan == [run |-> NoRun, update |-> 0]

-----------------------------------------------------------------------------
(* lib/store/plan.ts and the handlers of the chat page *)

\* clearing the plan whatever run it belongs to
ForgetfulRunStarted(p, r) == [run |-> r, update |-> 0]

\* onRunStarted: the plan of another run is dropped, that of this run kept
OnRunStarted(p, r) == IF p.run = r THEN p ELSE [run |-> r, update |-> 0]

\* onPlanUpdate: the update of another run is ignored
OnPlanUpdate(p, r, i) == IF p.run \in {NoRun, r} THEN [run |-> r, update |-> i] ELSE p

Apply(p, i) ==
    CASE log[i].kind = "planning"    -> OnRunStarted(p, log[i].run)
      [] log[i].kind = "plan.update" -> OnPlanUpdate(p, log[i].run, i)
      [] OTHER -> p

ApplyAll(p, ids) == FoldLeft(Apply, p, ids)

\* the handlers get the events that are newer than all they got
Handle(ids) ==
    LET places == Ascending({k \in DOMAIN ids : ids[k] > applied})
        new == [n \in DOMAIN places |-> ids[places[n]]]
    IN  /\ plan' = ApplyAll(plan, new)
        /\ handled' = handled \o new
        /\ applied' = IF new = <<>> THEN applied ELSE Last(new)

-----------------------------------------------------------------------------
Init ==
    /\ started = {} /\ emitting = [r \in Runs |-> 0]
    /\ begun = [r \in Runs |-> 0] /\ clock = 0
    /\ log = <<>> /\ commits = <<>> /\ stream = <<>>
    /\ conn = Connection("off", 0) /\ wire = <<>>
    /\ faults = 0
    /\ generation = 1
    /\ boot = [pc |-> "reading", rows |-> <<>>]
    /\ url = 0 /\ polls = {}
    /\ applied = 0 /\ handled = <<>>
    /\ plan = NoPlan
    /\ sending = NoRun /\ answered = {}
    /\ known = {}

(* lib/api/sessions.ts *)

\* listAllSessionEventPayloads: a page starts after the last row of the one before
HistoryPage == ListEvents(IF boot.rows = <<>> THEN 0 ELSE Last(boot.rows), PageLimit)

ListSessionEvents(since) == ListEvents(since, PollLimit)

(* useEventStream.ts: the effect, and the page's own one that clears the stores *)

\* entering the page: what an earlier visit has in flight is stale from now on
Mount ==
    /\ generation < MaxMounts
    /\ generation' = generation + 1
    /\ boot' = [pc |-> "reading", rows |-> <<>>]
    /\ applied' = 0 /\ handled' = <<>> /\ plan' = NoPlan
    /\ conn' = Connection("off", 0) /\ wire' = <<>>
    /\ url' = 0
    /\ known' = Visible
    /\ UNCHANGED <<started, logVars, faults, polls, sending, answered>>

\* startLive: the EventSource, from the last event of the history
StartLive(since) ==
    /\ url' = since
    /\ conn' = Connection("catchup", since)
    /\ wire' = <<>>

\* mergeUserMessagesAndEvents: in the order of created_at; the events of one
\* millisecond go by their numbers, as if the later one had begun later
ByCreation(S) ==
    CHOOSE ids \in [1..Cardinality(S) -> S] :
        /\ ToSet(ids) = S
        /\ \A m, n \in DOMAIN ids : m < n => log[ids[m]].at < log[ids[n]].at

\* a page of the history; after the last one the history is sorted
BootPage ==
    /\ boot.pc = "reading"
    /\ LET rows == boot.rows \o HistoryPage
       IN  boot' = IF Len(HistoryPage) = PageLimit
                   THEN [boot EXCEPT !.rows = rows]
                   ELSE [pc |-> "replaying", rows |-> ByCreation(ToSet(rows))]
    /\ UNCHANGED <<streamVars, generation, url, polls, viewVars, sending, answered, known>>

\* what is left of the history to replay
Unplayed == SubSeq(boot.rows, Len(handled) + 1, Len(boot.rows))

\* some of it: the browser gets its turn after each 32 items, which messages of
\* the user are counted among
ReplayChunk ==
    /\ boot.pc = "replaying"
    /\ \E k \in 1..ChunkSize :
          /\ k <= Len(Unplayed)
          /\ plan' = ApplyAll(plan, SubSeq(Unplayed, 1, k))
          /\ handled' = handled \o SubSeq(Unplayed, 1, k)
    /\ UNCHANGED <<streamVars, generation, boot, url, polls, applied, sending, answered, known>>

\* the rest of it: the page is restored and follows from the greatest number
GoLive ==
    /\ boot.pc = "replaying"
    /\ Len(Unplayed) <= ChunkSize
    /\ plan' = ApplyAll(plan, Unplayed)
    /\ handled' = handled \o Unplayed
    /\ applied' = Max(ToSet(boot.rows) \cup {0})
    /\ boot' = [boot EXCEPT !.pc = "ready"]
    /\ StartLive(applied')
    /\ UNCHANGED <<started, logVars, faults, generation, polls, sending, answered, known>>

\* a history that cannot be read counts as empty
BootFails ==
    /\ boot.pc = "reading"
    /\ Fault
    /\ boot' = [pc |-> "ready", rows |-> <<>>]
    /\ StartLive(0)
    /\ UNCHANGED <<started, logVars, generation, polls, viewVars, sending, answered, known>>

\* a frame of the stream
Receive ==
    /\ boot.pc = "ready"
    /\ wire # <<>>
    /\ Handle(<<Head(wire)>>)
    /\ wire' = Tail(wire)
    /\ UNCHANGED <<started, logVars, conn, faults, generation, boot, url, polls,
                   sending, answered, known>>

\* the connection breaks, or its subscription fails: the EventSource opens its
\* URL again
Reconnect ==
    /\ conn.pc # "off"
    /\ Fault
    /\ conn' = Connection("catchup", url)
    /\ wire' = <<>>
    /\ UNCHANGED <<started, logVars, clientVars>>

\* polling with the cursor the page had when it went live
FrozenPoll ==
    /\ boot.pc = "ready"
    /\ Cardinality(polls) < MaxPolls
    /\ ListSessionEvents(url) # <<>>
    /\ polls' = polls \cup {[visit |-> generation, rows |-> ListSessionEvents(url)]}
    /\ UNCHANGED <<streamVars, generation, boot, url, viewVars, sending, answered, known>>

\* the poll timer: the rows after the last applied event; a poll that finds none
\* changes nothing and is left out
Poll ==
    /\ boot.pc = "ready"
    /\ Cardinality(polls) < MaxPolls
    /\ ListSessionEvents(applied) # <<>>
    /\ polls' = polls \cup {[visit |-> generation, rows |-> ListSessionEvents(applied)]}
    /\ UNCHANGED <<streamVars, generation, boot, url, viewVars, sending, answered, known>>

\* an answer is applied without looking at what came meanwhile
BlindPollAnswer(p) ==
    /\ polls' = polls \ {p}
    /\ IF p.visit = generation /\ p.rows # <<>>
       THEN /\ plan' = ApplyAll(plan, p.rows)
            /\ handled' = handled \o p.rows
            /\ applied' = Last(p.rows)
       ELSE UNCHANGED viewVars
    /\ UNCHANGED <<streamVars, generation, boot, url, sending, answered, known>>

\* an answer: rows that were applied meanwhile are skipped, and so is the answer
\* to an earlier visit
PollAnswer(p) ==
    /\ polls' = polls \ {p}
    /\ IF p.visit = generation THEN Handle(p.rows) ELSE UNCHANGED viewVars
    /\ UNCHANGED <<streamVars, generation, boot, url, sending, answered, known>>

PollFails(p) ==
    /\ Fault
    /\ polls' = polls \ {p}
    /\ UNCHANGED <<started, logVars, connVars, generation, boot, url, viewVars,
                   sending, answered, known>>

-----------------------------------------------------------------------------
(* Composer.tsx send, ClarificationCard.tsx submit *)

\* a run may announce itself again whenever it frames or plans
WillAnnounce(q) ==
    \E n \in SaidBy(q) + 1 .. Len(Script[q]) : Script[q][n] = "planning"

\* the page is restored and no message is in flight; the API starts the run
Send(r) ==
    /\ boot.pc = "ready"
    /\ sending = NoRun
    /\ r \notin started
    /\ LateStart \/ \A q \in started : ~WillAnnounce(q)
    /\ started' = started \cup {r}
    /\ sending' = r
    /\ UNCHANGED <<logVars, connVars, faults, generation, boot, url, polls, viewVars,
                   answered, known>>

\* the answer with the run id: the plan of another run goes
Answer ==
    /\ sending # NoRun
    /\ plan' = OnRunStarted(plan, sending)
    /\ answered' = answered \cup {sending}
    /\ sending' = NoRun
    /\ UNCHANGED <<streamVars, generation, boot, url, polls, applied, handled, known>>

\* the answer is lost, or the page was loaded anew: the stores stay as they are
AnswerLost ==
    /\ sending # NoRun
    /\ Fault
    /\ sending' = NoRun
    /\ UNCHANGED <<started, logVars, connVars, generation, boot, url, polls, viewVars,
                   answered, known>>

-----------------------------------------------------------------------------
EmitNext == (\E r \in Runs : EmitStep(r)) /\ UNCHANGED clientVars

ServerNext == ServerStep /\ UNCHANGED clientVars

Next ==
    \/ EmitNext
    \/ ServerNext
    \/ Mount \/ BootPage \/ BootFails \/ ReplayChunk \/ GoLive
    \/ Receive \/ Reconnect
    \/ Poll
    \/ \E p \in polls : PollAnswer(p) \/ PollFails(p)
    \/ \E r \in Runs : Send(r)
    \/ Answer \/ AnswerLost

Spec == Init /\ [][Next]_vars

\* an INSERT that was sent commits; the browser's timers, requests and answers go
\* on (failures are bounded by MaxFaults); the stream may be as slow as it likes
Fairness ==
    /\ \A r \in Runs : WF_vars(Commit(r) /\ UNCHANGED clientVars)
    /\ WF_vars(BootPage) /\ WF_vars(GoLive \/ ReplayChunk)
    /\ WF_vars(Poll)
    /\ WF_vars(\E p \in polls : PollAnswer(p))

FairSpec == Spec /\ Fairness

-----------------------------------------------------------------------------
TypeOK ==
    /\ started \subseteq Runs /\ answered \subseteq started
    /\ emitting \in [Runs -> 0..Len(log)] /\ begun \in [Runs -> 0..clock]
    /\ Visible \subseteq DOMAIN log /\ ToSet(stream) \subseteq Visible
    /\ conn.pc \in {"off", "catchup", "subscribe", "tail"} /\ ToSet(wire) \subseteq Visible
    /\ boot.pc \in {"reading", "replaying", "ready"} /\ ToSet(boot.rows) \subseteq Visible
    /\ applied \in 0..Len(log) /\ ToSet(handled) \subseteq Visible
    /\ plan.run \in Runs \cup {NoRun} /\ plan.update \in 0..Len(log)

\* The handlers get every event at most once, the events of one run in the order
\* in which it emitted them, and what the stream or a poll brings in the order of
\* the numbers and after the history: text is appended and usage added up by them.
\* (The history is replayed by created_at, so there the events of two runs that
\* overlap may come in another order than that of their numbers.)
OnceInOrder ==
    \A m, n \in DOMAIN handled : m < n =>
        /\ handled[m] # handled[n]
        /\ \/ n > Len(boot.rows)
           \/ log[handled[m]].run = log[handled[n]].run
           => handled[m] < handled[n]

Before(seq, j, i) == \E m, n \in DOMAIN seq : m < n /\ seq[m] = j /\ seq[n] = i

\* Another event became visible, or was published, before this one of a lower
\* number.
Overtaken(i) ==
    \/ \E j \in Visible : j > i /\ (i \notin Visible \/ Before(commits, j, i))
    \/ \E j \in ToSet(stream) : j > i /\ (i \notin ToSet(stream) \/ Before(stream, j, i))

\* The page passes over an event only if a later one overtook it after the page
\* was entered: nothing that was in the table then is missing, and nothing falls
\* between the replay and the subscription, between the pages of the history or
\* between a poll and the stream.
GapsAreExplained ==
    boot.pc = "ready" =>
        \A i \in 1..applied : i \notin ToSet(handled) => i \notin known /\ Overtaken(i)

\* The plan a page without gaps shows is the one a reload would show, although
\* that replays the events in the order of their creation: the answer to a
\* message, which the events of its run may precede, drops only the plan of an
\* earlier run.
PlanIsReplayed ==
    (/\ boot.pc = "ready"
     /\ sending = NoRun
     /\ ToSet(handled) = 1..applied
     /\ \A r \in answered : \E i \in ToSet(handled) : log[i].run = r)
    => plan = ApplyAll(NoPlan, ByCreation(1..applied))

\* The cursor of the page always reaches the events in the table again, those
\* included whose publication failed and that no stream will bring.
CursorCatchesUp == []<>(\A i \in Visible : i <= applied)

=============================================================================
