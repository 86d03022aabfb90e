------------------------------- MODULE EventStream -------------------------------
(***************************************************************************)
(* The events of one session, from the runs that emit them to the browser  *)
(* connection that carries them (events/emitter.py, api/stream.py,         *)
(* api/sessions.py list_events).                                           *)
(*                                                                         *)
(* emit() inserts a row, whose id is the sequence number of the event, and *)
(* then publishes the event; two runs of a session overlap while the older *)
(* one is being cancelled, so rows may become visible, and messages may be *)
(* published, in another order than that of their numbers; created_at is   *)
(* the time at which the insert began, and may have another order still.   *)
(* A connection first reads the table until it finds nothing new and then  *)
(* follows the message stream from its beginning, dropping what it has     *)
(* already sent.                                                           *)
(***************************************************************************)
EXTENDS Integers, Sequences, FiniteSets, SequencesExt

CONSTANTS Runs,          \* the runs of the session
          Script,          \* what each run emits, a sequence of kinds
          HistoryLimit,    \* rows a connection reads at once (10 000)
          MaxFaults,       \* bound on calls that fail and connections that break
          NoRun

\* a run announces itself with the status "planning"; of the others only plan
\* updates are told apart
Kinds == {"planning", "plan.update", "other"}

ASSUME StreamAssumption ==
    /\ NoRun \notin Runs
    /\ Script \in [Runs -> Seq(Kinds)]
    /\ HistoryLimit \in Nat \ {0}
    /\ MaxFaults \in Nat

VARIABLES started,   \* the runs the API has started
          emitting,  \* the row each run is about to commit or to publish, or 0
          begun,     \* the time at which the INSERT of each run began, or 0
          clock,     \* the times given out so far
          log,       \* table events by id: the run, the kind and created_at
          commits,   \* the ids in the order in which their rows became visible
          stream,    \* the message stream: ids in the order of publication
          conn,      \* the server side of the browser's connection
          wire,      \* what the connection has sent and the browser not read
          faults     \* faults so far

logVars == <<emitting, begun, clock, log, commits, stream>>
connVars == <<conn, wire>>
streamVars == <<started, logVars, connVars, faults>>

Visible == ToSet(commits)

Fault == faults < MaxFaults /\ faults' = faults + 1

SaidBy(r) == Cardinality({i \in DOMAIN log : log[i].run = r})

-----------------------------------------------------------------------------
(* emitter.py emit *)

\* the INSERT begins: created_at is now() ...
Begin(r) ==
    /\ r \in started
    /\ emitting[r] = 0 /\ begun[r] = 0
    /\ SaidBy(r) < Len(Script[r])
    /\ clock' = clock + 1
    /\ begun' = [begun EXCEPT ![r] = clock']
    /\ UNCHANGED <<started, emitting, log, commits, stream, connVars, faults>>

\* ... it takes the next number of the sequence ...
Insert(r) ==
    /\ begun[r] # 0
    /\ log' = Append(log, [run |-> r, kind |-> Script[r][SaidBy(r) + 1], at |-> begun[r]])
    /\ emitting' = [emitting EXCEPT ![r] = Len(log')]
    /\ begun' = [begun EXCEPT ![r] = 0]
    /\ UNCHANGED <<started, clock, commits, stream, connVars, faults>>

\* ... and its row becomes visible when it commits
Commit(r) ==
    /\ emitting[r] # 0
    /\ emitting[r] \notin Visible
    /\ commits' = Append(commits, emitting[r])
    /\ UNCHANGED <<started, emitting, begun, clock, log, stream, connVars, faults>>

Publish(r) ==
    /\ emitting[r] \in Visible
    /\ stream' = Append(stream, emitting[r])
    /\ emitting' = [emitting EXCEPT ![r] = 0]
    /\ UNCHANGED <<started, begun, clock, log, commits, connVars, faults>>

\* a publication that fails is logged and dropped; a run that is cancelled or
\* whose worker dies between the two calls does not publish either
LosePublication(r) ==
    /\ emitting[r] \in Visible
    /\ Fault
    /\ emitting' = [emitting EXCEPT ![r] = 0]
    /\ UNCHANGED <<started, begun, clock, log, commits, stream, connVars>>

-----------------------------------------------------------------------------
(* emitter.py fetch_history: visible rows after a number, oldest first *)

\* ORDER BY id
Ascending(S) ==
    CHOOSE ids \in [1..Cardinality(S) -> S] :
        /\ ToSet(ids) = S
        /\ \A m, n \in DOMAIN ids : m < n => ids[m] < ids[n]

FetchHistory(since, limit) ==
    LET ids == Ascending({i \in Visible : i > since})
    IN  SubSeq(ids, 1, IF Len(ids) < limit THEN Len(ids) ELSE limit)

\* sessions.py list_events
ListEvents(since, limit) == FetchHistory(since, limit)

(* stream.py _replay_then_live: pc "off", "catchup", "subscribe" or "tail" *)

Connection(pc, last) == [pc |-> pc, last |-> last, pos |-> 0]

\* the replay of the table and the loop that drains what was added meanwhile: an
\* empty answer ends it
CatchUp ==
    /\ conn.pc = "catchup"
    /\ LET rows == FetchHistory(conn.last, HistoryLimit)
       IN  /\ conn' = IF rows = <<>> THEN Connection("subscribe", conn.last)
                                     ELSE Connection("catchup", Last(rows))
           /\ wire' = wire \o rows
    /\ UNCHANGED <<started, logVars, faults>>

\* subscribing to new messages only: what was published since the last read of
\* the table is never sent
SubscribeToNew ==
    /\ conn.pc = "subscribe"
    /\ conn' = [conn EXCEPT !.pc = "tail", !.pos = Len(stream)]
    /\ UNCHANGED <<started, logVars, wire, faults>>

\* the subscription, without a durable name, delivers the messages of the session
\* from the first on
Subscribe ==
    /\ conn.pc = "subscribe"
    /\ conn' = [conn EXCEPT !.pc = "tail"]
    /\ UNCHANGED <<started, logVars, wire, faults>>

\* the next message: one that the connection has passed is acknowledged only
Follow ==
    /\ conn.pc = "tail"
    /\ conn.pos < Len(stream)
    /\ LET seq == stream[conn.pos + 1]
       IN  IF seq <= conn.last
           THEN /\ conn' = [conn EXCEPT !.pos = @ + 1]
                /\ UNCHANGED wire
           ELSE /\ conn' = [conn EXCEPT !.pos = @ + 1, !.last = seq]
                /\ wire' = Append(wire, seq)
    /\ UNCHANGED <<started, logVars, faults>>

ServerStep == CatchUp \/ Subscribe \/ Follow

EmitStep(r) == Begin(r) \/ Insert(r) \/ Commit(r) \/ Publish(r) \/ LosePublication(r)

=============================================================================
