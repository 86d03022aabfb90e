------------------------ MODULE ToolExecution_proofs ------------------------
(***************************************************************************)
(* Proofs about module ToolExecution: an operation is carried out at most  *)
(* once and once more per mishap of the hub, the evidence of an attempt    *)
(* and the recorded usage are about work that was done, and what is        *)
(* recorded for payment was on hold.                                       *)
(*                                                                         *)
(* None of the three is inductive.  That an operation succeeds once rests  *)
(* on the lock (one request per key executes), on the order of the store   *)
(* and the release (a key with a stored success is not executed), and on a *)
(* count: beyond the successes that a mishap of the hub forgot there is    *)
(* one more at most, and then it is stored or about to be.                 *)
(***************************************************************************)
EXTENDS ToolExecution, TLAPS

-----------------------------------------------------------------------------
(* The inductive invariant, what the hub keeps and what the agent keeps *)

\* The lock: the requests that execute for one key are one request.
Locked ==
    \A q, r \in requests :
        q.key = r.key /\ q.stage \in Executing /\ r.stage \in Executing => q = r

\* What executes has no stored success.
RunsUncached == \A q \in requests : q.stage \in Executing => q.key \notin cached

\* Some request has produced the effects of the key and not stored them.
Written(k) == \E q \in requests : q.key = k /\ q.stage = "written"

\* The successes of a key: those that a mishap forgot, and one that is
\* stored or about to be.
Counted ==
    \A k \in Keys :
        /\ successes[k] <= mishaps + 1
        /\ k \notin cached /\ ~Written(k) => successes[k] <= mishaps

\* A stored success and an answer "ok" stand for a success.
AnswersAreReal ==
    /\ \A k \in cached : successes[k] > 0
    /\ \A q \in requests : q.stage \in {"written", "ok"} => successes[q.key] > 0

HubInv == Locked /\ RunsUncached /\ Counted /\ AnswersAreReal

\* Where the agent stands: it has a call from the choice to the judgement, a
\* success only in the last two steps of it, and the points of a paid call are
\* on hold from the reservation on.
Standing ==
    /\ step \in {"reserve", "send", "wait", "record", "judge"} => call \in Calls
    /\ reply = "ok" => step \in {"record", "judge"} /\ successes[Key] > 0
    /\ step \in {"send", "wait", "record"} /\ call \in Paid => Key \in held

\* A repetition is made of a call whose failure is on record.
FailureKnown == part # "call" => turn \in proof.failed

AgentInv == Standing /\ FailureKnown /\ ProofIsReal /\ UsageIsCovered

ToolInv == TypeOK /\ HubInv /\ AgentInv

Requests == [attempt : 1 .. MaxAttempts, key : Keys, stage : Stages]

-----------------------------------------------------------------------------
(* Types *)

LEMMA KeyTyped ==
    ASSUME TypeOK, call \in Calls
    PROVE  Key \in Keys /\ Key.turn = turn /\ Key.part = part /\ Key.call = call
BY DEF TypeOK, Key, Keys

\* What a request becomes, and that nothing happens to the others.
LEMMA MovedFacts ==
    ASSUME NEW q \in requests, requests \subseteq Requests, NEW s \in Stages
    PROVE  /\ Moved(q, s) \subseteq Requests
           /\ requests \ {q} \subseteq Moved(q, s)
           /\ \A r \in Moved(q, s) :
                 r \in requests \ {q} \/ (r = [q EXCEPT !.stage = s] /\ r.key = q.key /\ r.stage = s)
           /\ s \notin Answered =>
                 \E r \in Moved(q, s) : r.key = q.key /\ r.stage = s
<1>1. q \in Requests
  OBVIOUS
<1>2. /\ [q EXCEPT !.stage = s] \in Requests
      /\ [q EXCEPT !.stage = s].key = q.key
      /\ [q EXCEPT !.stage = s].stage = s
  BY <1>1 DEF Requests
<1>3. QED
  BY <1>2 DEF Moved

\* What the hub does to a request: it enters, fails, goes on, succeeds or is
\* stored.
Fail(q) ==
    /\ q.stage \in Executing \ {"written"}
    /\ \E f \in Failures : requests' = Moved(q, f)
    /\ UNCHANGED <<agent, cached, mishaps, successes, billing>>

GoOn(q) ==
    /\ q.stage \in Executing \ {"written"}
    /\ \E s \in {"polling", "fetching"} : requests' = Moved(q, s)
    /\ UNCHANGED <<agent, cached, mishaps, successes, billing>>

Succeed(q) ==
    /\ q.stage \in Executing \ {"written"}
    /\ requests' = Moved(q, "written")
    /\ successes' = [successes EXCEPT ![q.key] = @ + 1]
    /\ UNCHANGED <<agent, cached, mishaps, billing>>

LEMMA HubCases ==
    ASSUME NEW q \in requests,
           \/ Enter(q) \/ RunShell(q) \/ UseFile(q) \/ Speak(q)
           \/ SubmitJob(q) \/ PollJob(q) \/ FetchJob(q) \/ Store(q)
    PROVE  Enter(q) \/ Fail(q) \/ GoOn(q) \/ Succeed(q) \/ Store(q)
<1>1. ASSUME NEW stage \in Executing \ {"written"}, Fails(q, stage)
      PROVE  Fail(q)
  <2>1. FailuresOf(q.key) \subseteq Failures
    BY DEF FailuresOf, Failures
  <2>2. QED
    BY <1>1, <2>1 DEF Fails, Fail
<1>2. ASSUME NEW stage \in Executing \ {"written"}, Works(q, stage)
      PROVE  Succeed(q)
  BY <1>2 DEF Works, Succeed
<1>3. {"running", "polling", "fetching"} = Executing \ {"written"}
  BY DEF Executing
<1>4. CASE RunShell(q) \/ UseFile(q) \/ Speak(q)
  BY <1>1, <1>2, <1>3, <1>4 DEF RunShell, UseFile, Speak
<1>5. CASE SubmitJob(q)
  BY <1>3, <1>5 DEF SubmitJob, GoOn
<1>6. CASE PollJob(q)
  <2>1. CASE Fails(q, "polling")
    BY <1>1, <1>3, <2>1
  <2>2. CASE ~Fails(q, "polling")
    BY <1>3, <1>6, <2>2 DEF PollJob, GoOn
  <2>3. QED
    BY <2>1, <2>2
<1>7. CASE FetchJob(q)
  BY <1>1, <1>2, <1>3, <1>7 DEF FetchJob
<1>8. QED
  BY <1>4, <1>5, <1>6, <1>7

-----------------------------------------------------------------------------
(* What the agent does to requests never disturbs the hub's part: it adds  *)
(* one that waits and drops answers, never one that executes.              *)

LEMMA AgentSparesHub ==
    ASSUME TypeOK, HubInv,
           \A r \in requests' : r \in requests \/ r.stage = "waiting",
           \A r \in requests : r.stage \in Executing => r \in requests',
           UNCHANGED <<cached, mishaps, successes>>
    PROVE  HubInv'
<1>1. \A r \in requests' : r.stage \in Executing => r \in requests
  BY DEF Executing
<1>2. Locked'
  BY <1>1 DEF HubInv, Locked
<1>3. RunsUncached'
  BY <1>1 DEF HubInv, RunsUncached
<1>4. Counted'
  <2>1. ASSUME NEW k, ~Written(k)'
        PROVE  ~Written(k)
    BY <2>1 DEF Written, Executing
  <2>2. QED
    BY <2>1 DEF HubInv, Counted
<1>5. AnswersAreReal'
  BY DEF HubInv, AnswersAreReal
<1>6. QED
  BY <1>2, <1>3, <1>4, <1>5 DEF HubInv

\* What the agent holds stays true while the successes only grow.
LEMMA HubSparesAgent ==
    ASSUME TypeOK, AgentInv,
           UNCHANGED <<agent, billing>>,
           \A k \in Keys : successes[k] > 0 => successes'[k] > 0
    PROVE  AgentInv'
<1>1. Standing'
  <2>1. CASE reply = "ok"
    BY <2>1, KeyTyped DEF AgentInv, Standing, agent, billing, Key
  <2>2. CASE reply # "ok"
    BY <2>2 DEF AgentInv, Standing, agent, billing, Key
  <2>3. QED
    BY <2>1, <2>2
<1>2. FailureKnown'
  BY DEF AgentInv, FailureKnown, agent
<1>3. ProofIsReal'
  <2>1. proof.ok \subseteq Keys
    BY DEF TypeOK
  <2>2. QED
    BY <2>1 DEF AgentInv, ProofIsReal, agent
<1>4. UsageIsCovered'
  <2>1. usage \subseteq Keys
    BY DEF TypeOK
  <2>2. QED
    BY <2>1 DEF AgentInv, UsageIsCovered, billing
<1>5. QED
  BY <1>1, <1>2, <1>3, <1>4 DEF AgentInv

-----------------------------------------------------------------------------
(* The hub *)

\* A request that moves keeps the lock when it had it, or when it was free,
\* or when it does not take it.
LEMMA MoveKeepsLock ==
    ASSUME requests \subseteq Requests, Locked, NEW q \in requests, NEW s \in Stages,
           requests' = Moved(q, s),
           s \in Executing => q.stage \in Executing \/ Free(q)
    PROVE  Locked'
<1>1. \A r \in requests' :
         r \in requests \ {q} \/ (r = [q EXCEPT !.stage = s] /\ r.key = q.key /\ r.stage = s)
  BY MovedFacts
<1>2. ASSUME NEW r \in requests \ {q}, r.key = q.key, r.stage \in Executing, s \in Executing
      PROVE  FALSE
  BY <1>2 DEF Locked, Free
<1>3. QED
  BY <1>1, <1>2 DEF Locked

LEMMA HubTyped ==
    ASSUME TypeOK, NEW q \in requests,
           Enter(q) \/ Fail(q) \/ GoOn(q) \/ Succeed(q) \/ Store(q)
    PROVE  TypeOK'
<1>1. requests \subseteq Requests /\ q.key \in Keys
  BY DEF TypeOK, Requests
<1>2. PICK s \in Stages : requests' = Moved(q, s)
  BY DEF Enter, Fail, GoOn, Succeed, Store, Stages, Executing, Answered, Failures
<1>3. requests' \subseteq Requests
  BY <1>1, <1>2, MovedFacts
<1>4. cached' \subseteq Keys
  BY <1>1 DEF TypeOK, Enter, Fail, GoOn, Succeed, Store
<1>5. successes' \in [Keys -> Nat]
  BY <1>1 DEF TypeOK, Enter, Fail, GoOn, Succeed, Store
<1>6. UNCHANGED <<agent, mishaps, billing>>
  BY DEF Enter, Fail, GoOn, Succeed, Store
<1>7. QED
  BY <1>3, <1>4, <1>5, <1>6 DEF TypeOK, Requests, agent, billing

\* A request that enters, fails or goes on changes nothing that is counted.
LEMMA MoveKeepsCount ==
    ASSUME TypeOK, HubInv, NEW q \in requests, NEW s \in Stages,
           q.stage # "written", s # "written",
           requests' = Moved(q, s),
           s \in Executing => q.stage \in Executing \/ (Free(q) /\ q.key \notin cached),
           s = "ok" => q.key \in cached,
           UNCHANGED <<cached, mishaps, successes>>
    PROVE  HubInv'
<1>1. requests \subseteq Requests
  BY DEF TypeOK, Requests
<1>2. /\ requests \ {q} \subseteq requests'
      /\ \A r \in requests' : r \in requests \/ (r.key = q.key /\ r.stage = s)
  BY <1>1, MovedFacts
<1>3. Locked'
  <2>1. Locked /\ (s \in Executing => q.stage \in Executing \/ Free(q))
    BY DEF HubInv
  <2>2. QED
    BY <1>1, <2>1, MoveKeepsLock
<1>4. RunsUncached'
  BY <1>2 DEF HubInv, RunsUncached
<1>5. Counted'
  <2>1. ASSUME NEW k, ~Written(k)'
        PROVE  ~Written(k)
    BY <1>2, <2>1 DEF Written
  <2>2. QED
    BY <2>1 DEF HubInv, Counted
<1>6. AnswersAreReal'
  BY <1>2 DEF HubInv, AnswersAreReal
<1>7. QED
  BY <1>3, <1>4, <1>5, <1>6 DEF HubInv

\* The effects of a call: its key had no stored success and none under way, so
\* all its earlier successes are those that mishaps forgot.
LEMMA SucceedKeepsHub ==
    ASSUME TypeOK, HubInv, NEW q \in requests, Succeed(q)
    PROVE  HubInv'
<1>1. /\ requests \subseteq Requests /\ q.key \in Keys
      /\ successes \in [Keys -> Nat] /\ mishaps \in Nat /\ cached \subseteq Keys
      /\ "written" \in Stages /\ "written" \notin Answered /\ "written" \in Executing
  BY ToolExecutionAssumption DEF TypeOK, Requests, Stages, Executing, Answered, Failures
<1>2. q.stage \in Executing /\ q.stage # "written" /\ requests' = Moved(q, "written")
  BY DEF Succeed
<1>3. /\ requests \ {q} \subseteq requests'
      /\ \A r \in requests' : r \in requests \/ (r.key = q.key /\ r.stage = "written")
      /\ \E r \in requests' : r.key = q.key /\ r.stage = "written"
  BY <1>1, <1>2, MovedFacts
<1>4. /\ \A k \in Keys \ {q.key} : successes'[k] = successes[k]
      /\ successes'[q.key] = successes[q.key] + 1
      /\ UNCHANGED <<cached, mishaps>>
  BY <1>1 DEF Succeed
<1>5. q.key \notin cached /\ ~Written(q.key)
  BY <1>1, <1>2 DEF HubInv, RunsUncached, Locked, Written
<1>6. Locked'
  <2>1. Locked
    BY DEF HubInv
  <2>2. QED
    BY <1>1, <1>2, <2>1, MoveKeepsLock
<1>7. RunsUncached'
  BY <1>2, <1>3, <1>4 DEF HubInv, RunsUncached
<1>8. Counted'
  <2>1. successes[q.key] \in Nat /\ successes[q.key] <= mishaps
    BY <1>1, <1>5 DEF HubInv, Counted
  <2>2. Written(q.key)'
    BY <1>3 DEF Written
  <2>3. ASSUME NEW k \in Keys \ {q.key}, ~Written(k)'
        PROVE  ~Written(k)
    BY <1>3, <2>3 DEF Written
  <2>4. ASSUME NEW k \in Keys
        PROVE  /\ successes'[k] <= mishaps' + 1
               /\ k \notin cached' /\ ~Written(k)' => successes'[k] <= mishaps'
    <3>1. CASE k = q.key
      BY <1>1, <1>4, <2>1, <2>2, <3>1
    <3>2. CASE k # q.key
      BY <1>4, <2>3, <3>2 DEF HubInv, Counted
    <3>3. QED
      BY <3>1, <3>2
  <2>5. QED
    BY <2>4 DEF Counted
<1>9. AnswersAreReal'
  <2>1. \A k \in Keys : successes[k] > 0 => successes'[k] > 0
    BY <1>1, <1>4
  <2>2. successes'[q.key] > 0
    BY <1>1, <1>4
  <2>3. \A r \in requests : r.key \in Keys
    BY <1>1 DEF Requests
  <2>4. QED
    BY <1>1, <1>3, <1>4, <2>1, <2>2, <2>3 DEF HubInv, AnswersAreReal
<1>10. QED
  BY <1>6, <1>7, <1>8, <1>9 DEF HubInv

\* The store of a success: its key was executing and is stored from now on.
LEMMA StoreKeepsHub ==
    ASSUME TypeOK, HubInv, NEW q \in requests, Store(q)
    PROVE  HubInv'
<1>1. /\ requests \subseteq Requests /\ q.key \in Keys
      /\ "ok" \in Stages /\ "ok" \notin Executing /\ "written" \in Executing
  BY DEF TypeOK, Requests, Stages, Executing, Answered
<1>2. /\ q.stage = "written" /\ requests' = Moved(q, "ok")
      /\ cached' = cached \cup {q.key}
      /\ UNCHANGED <<mishaps, successes>>
  BY DEF Store
<1>3. /\ requests \ {q} \subseteq requests'
      /\ \A r \in requests' : r \in requests \ {q} \/ (r.key = q.key /\ r.stage = "ok")
  BY <1>1, <1>2, MovedFacts
<1>4. Locked'
  <2>1. Locked
    BY DEF HubInv
  <2>2. QED
    BY <1>1, <1>2, <2>1, MoveKeepsLock
<1>5. RunsUncached'
  BY <1>1, <1>2, <1>3 DEF HubInv, RunsUncached, Locked
<1>6. Counted'
  <2>1. ASSUME NEW k, k # q.key, ~Written(k)'
        PROVE  ~Written(k)
    BY <1>3, <2>1 DEF Written
  <2>2. QED
    BY <1>2, <2>1 DEF HubInv, Counted
<1>7. AnswersAreReal'
  BY <1>2, <1>3 DEF HubInv, AnswersAreReal
<1>8. QED
  BY <1>4, <1>5, <1>6, <1>7 DEF HubInv

LEMMA HubStepKeeps ==
    ASSUME ToolInv, HubStep
    PROVE  ToolInv'
<1>1. PICK q \in requests : Enter(q) \/ Fail(q) \/ GoOn(q) \/ Succeed(q) \/ Store(q)
  BY HubCases DEF HubStep
<1>2. TypeOK'
  BY <1>1, HubTyped DEF ToolInv
<1>3. HubInv'
  <2>1. CASE Enter(q)
    <3>1. /\ q.stage # "written" /\ Free(q)
          /\ UNCHANGED <<cached, mishaps, successes>>
      BY <2>1 DEF Enter
    <3>2. CASE q.key \in cached
      <4>1. requests' = Moved(q, "ok") /\ "ok" \in Stages /\ "ok" \notin Executing
        BY <2>1, <3>2 DEF Enter, Stages, Answered, Executing
      <4>2. QED
        BY <3>1, <3>2, <4>1, MoveKeepsCount DEF ToolInv
    <3>3. CASE q.key \notin cached
      <4>1. requests' = Moved(q, "running") /\ "running" \in Stages
        BY <2>1, <3>3 DEF Enter, Stages, Executing
      <4>2. QED
        BY <3>1, <3>3, <4>1, MoveKeepsCount DEF ToolInv
    <3>4. QED
      BY <3>2, <3>3
  <2>2. CASE Fail(q)
    <3>1. PICK f \in Failures : requests' = Moved(q, f)
      BY <2>2 DEF Fail
    <3>2. /\ q.stage # "written" /\ f # "written" /\ f # "ok" /\ f \notin Executing
          /\ f \in Stages /\ UNCHANGED <<cached, mishaps, successes>>
      BY <2>2 DEF Fail, Failures, Executing, Stages, Answered
    <3>3. QED
      BY <3>1, <3>2, MoveKeepsCount DEF ToolInv
  <2>3. CASE GoOn(q)
    <3>1. PICK s \in {"polling", "fetching"} : requests' = Moved(q, s)
      BY <2>3 DEF GoOn
    <3>2. /\ q.stage \in Executing /\ q.stage # "written" /\ s # "written" /\ s # "ok"
          /\ s \in Stages /\ UNCHANGED <<cached, mishaps, successes>>
      BY <2>3 DEF GoOn, Executing, Stages
    <3>3. QED
      BY <3>1, <3>2, MoveKeepsCount DEF ToolInv
  <2>4. QED
    BY <1>1, <2>1, <2>2, <2>3, SucceedKeepsHub, StoreKeepsHub DEF ToolInv
<1>4. AgentInv'
  <2>1. UNCHANGED <<agent, billing>>
    BY <1>1 DEF Enter, Fail, GoOn, Succeed, Store
  <2>2. \A k \in Keys : successes[k] > 0 => successes'[k] > 0
    <3>1. successes \in [Keys -> Nat]
      BY DEF ToolInv, TypeOK
    <3>2. QED
      BY <1>1, <3>1 DEF Enter, Fail, GoOn, Succeed, Store
  <2>3. QED
    BY <2>1, <2>2, HubSparesAgent DEF ToolInv
<1>5. QED
  BY <1>2, <1>3, <1>4 DEF ToolInv

-----------------------------------------------------------------------------
(* The agent *)

\* The steps that leave the hub alone.
LEMMA HubAlone ==
    ASSUME HubInv, UNCHANGED hub
    PROVE  HubInv'
BY DEF HubInv, Locked, RunsUncached, Counted, Written, AnswersAreReal, hub

LEMMA ChooseKeeps ==
    ASSUME ToolInv, Choose
    PROVE  ToolInv'
<1>1. TypeOK'
  BY DEF ToolInv, TypeOK, Choose, hub, billing, Parts, Replies
<1>2. HubInv'
  BY HubAlone DEF ToolInv, Choose
<1>3. Standing'
  BY DEF ToolInv, AgentInv, Standing, Choose
<1>4. FailureKnown' /\ ProofIsReal' /\ UsageIsCovered'
  BY DEF ToolInv, AgentInv, FailureKnown, ProofIsReal, UsageIsCovered, Choose, hub, billing
<1>5. QED
  BY <1>1, <1>2, <1>3, <1>4 DEF ToolInv, AgentInv

LEMMA RefuseKeeps ==
    ASSUME ToolInv, Refuse
    PROVE  ToolInv'
<1>1. TypeOK'
  BY DEF ToolInv, TypeOK, Refuse, hub, billing, Replies
<1>2. HubInv'
  BY HubAlone DEF ToolInv, Refuse
<1>3. Standing'
  BY DEF ToolInv, AgentInv, Standing, Refuse
<1>4. FailureKnown' /\ ProofIsReal' /\ UsageIsCovered'
  BY DEF ToolInv, AgentInv, FailureKnown, ProofIsReal, UsageIsCovered, Refuse, hub, billing
<1>5. QED
  BY <1>1, <1>2, <1>3, <1>4 DEF ToolInv, AgentInv

\* The reservation is what puts the points of the call on hold.
LEMMA ReserveKeeps ==
    ASSUME ToolInv, Reserve
    PROVE  ToolInv'
<1>1. /\ call \in Calls /\ Key \in Keys /\ Key.call = call
      /\ held \subseteq held' /\ held' \subseteq Keys
      /\ call \in Paid => Key \in held'
  <2>1. call \in Calls
    BY DEF ToolInv, AgentInv, Standing, Reserve
  <2>2. Key \in Keys /\ Key.call = call
    BY <2>1, KeyTyped DEF ToolInv
  <2>3. QED
    BY <2>1, <2>2 DEF ToolInv, TypeOK, Reserve, Held
<1>2. TypeOK'
  BY <1>1 DEF ToolInv, TypeOK, Reserve, hub
<1>3. HubInv'
  BY HubAlone DEF ToolInv, Reserve
<1>4. Key' = Key
  BY DEF Reserve, Key
<1>5. Standing'
  BY <1>1, <1>4 DEF ToolInv, AgentInv, Standing, Reserve
<1>6. FailureKnown' /\ ProofIsReal' /\ UsageIsCovered'
  BY <1>1 DEF ToolInv, AgentInv, FailureKnown, ProofIsReal, UsageIsCovered, Reserve, hub
<1>7. QED
  BY <1>2, <1>3, <1>5, <1>6 DEF ToolInv, AgentInv

LEMMA SendKeeps ==
    ASSUME ToolInv, Send
    PROVE  ToolInv'
<1>1. Key \in Keys /\ Key' = Key
  <2>1. call \in Calls
    BY DEF ToolInv, AgentInv, Standing, Send
  <2>2. Key \in Keys
    BY <2>1, KeyTyped DEF ToolInv
  <2>3. QED
    BY <2>2 DEF Send, Key
<1>2. requests' \subseteq Requests
  <2>1. [attempt |-> attempt, key |-> Key, stage |-> "waiting"] \in Requests
    BY <1>1 DEF ToolInv, TypeOK, Requests, Stages
  <2>2. QED
    BY <2>1 DEF ToolInv, TypeOK, Requests, Send
<1>3. TypeOK'
  BY <1>2 DEF ToolInv, TypeOK, Requests, Send, billing
<1>4. HubInv'
  <2>1. /\ \A r \in requests' : r \in requests \/ r.stage = "waiting"
        /\ \A r \in requests : r.stage \in Executing => r \in requests'
        /\ UNCHANGED <<cached, mishaps, successes>>
    BY DEF Send
  <2>2. QED
    BY <2>1, AgentSparesHub DEF ToolInv
<1>5. Standing'
  BY <1>1 DEF ToolInv, AgentInv, Standing, Send, billing
<1>6. FailureKnown' /\ ProofIsReal' /\ UsageIsCovered'
  BY DEF ToolInv, AgentInv, FailureKnown, ProofIsReal, UsageIsCovered, Send, billing
<1>7. QED
  BY <1>3, <1>4, <1>5, <1>6 DEF ToolInv, AgentInv

\* The answer "ok" the agent takes is about its own key, and real.
LEMMA ReceiveKeeps ==
    ASSUME ToolInv, Receive
    PROVE  ToolInv'
<1>1. /\ requests' \subseteq requests
      /\ \A r \in requests : r.stage \in Executing => r \in requests'
      /\ reply' \in Replies
      /\ reply' = "ok" => successes[Key] > 0
  <2>1. CASE \E q \in requests : /\ Mine(q) /\ q.stage \in Answered
                                /\ reply' = q.stage /\ requests' = requests \ {q}
    <3>1. PICK q \in requests : /\ Mine(q) /\ q.stage \in Answered
                               /\ reply' = q.stage /\ requests' = requests \ {q}
      BY <2>1
    <3>2. q.stage \notin Executing /\ q.stage \in Replies
      BY <3>1 DEF Answered, Executing, Failures, Replies
    <3>3. q.stage = "ok" => successes[Key] > 0
      BY <3>1 DEF ToolInv, HubInv, AnswersAreReal, Mine
    <3>4. QED
      BY <3>1, <3>2, <3>3
  <2>2. CASE UNCHANGED requests /\ reply' = "unreachable"
    BY <2>2 DEF Replies
  <2>3. QED
    BY <2>1, <2>2 DEF Receive
<1>2. UNCHANGED <<attempt, turn, part, call, proof, cached, mishaps, successes, billing>>
  BY DEF Receive
<1>3. TypeOK'
  BY <1>1, <1>2 DEF ToolInv, TypeOK, Receive, billing
<1>4. HubInv'
  BY <1>1, <1>2, AgentSparesHub DEF ToolInv
<1>5. Key' = Key /\ successes'[Key'] = successes[Key]
  BY <1>2 DEF Key
<1>6. Standing'
  BY <1>1, <1>2, <1>5 DEF ToolInv, AgentInv, Standing, Receive, billing
<1>7. FailureKnown' /\ ProofIsReal' /\ UsageIsCovered'
  BY <1>2 DEF ToolInv, AgentInv, FailureKnown, ProofIsReal, UsageIsCovered, billing
<1>8. QED
  BY <1>3, <1>4, <1>6, <1>7 DEF ToolInv, AgentInv

LEMMA SendFailsKeeps ==
    ASSUME ToolInv, SendFails
    PROVE  ToolInv'
<1>1. TypeOK'
  BY DEF ToolInv, TypeOK, SendFails, hub, billing, Replies
<1>2. HubInv'
  BY HubAlone DEF ToolInv, SendFails
<1>3. Standing'
  BY DEF ToolInv, AgentInv, Standing, SendFails, Key, billing
<1>4. FailureKnown' /\ ProofIsReal' /\ UsageIsCovered'
  BY DEF ToolInv, AgentInv, FailureKnown, ProofIsReal, UsageIsCovered, SendFails, hub, billing
<1>5. QED
  BY <1>1, <1>2, <1>3, <1>4 DEF ToolInv, AgentInv

\* Usage is recorded of a success, and what it costs is on hold by then.
LEMMA RecordKeeps ==
    ASSUME ToolInv, Record
    PROVE  ToolInv'
<1>1. call \in Calls /\ Key \in Keys /\ Key.call = call
  <2>1. call \in Calls
    BY DEF ToolInv, AgentInv, Standing, Record
  <2>2. QED
    BY <2>1, KeyTyped DEF ToolInv
<1>2. usage' \subseteq Keys
  BY <1>1 DEF ToolInv, TypeOK, Record, Used
<1>3. TypeOK'
  BY <1>2 DEF ToolInv, TypeOK, Record, hub
<1>4. HubInv'
  BY HubAlone DEF ToolInv, Record
<1>5. Standing'
  BY DEF ToolInv, AgentInv, Standing, Record, Key, hub
<1>6. FailureKnown' /\ ProofIsReal'
  BY DEF ToolInv, AgentInv, FailureKnown, ProofIsReal, Record, hub
<1>7. UsageIsCovered'
  <2>1. ASSUME NEW k \in usage'
        PROVE  successes[k] > 0 /\ (k.call \in Paid => k \in held)
    <3>1. CASE k \in usage
      BY <3>1 DEF ToolInv, AgentInv, UsageIsCovered
    <3>2. CASE k = Key /\ reply = "ok"
      BY <1>1, <3>2 DEF ToolInv, AgentInv, Standing, Record
    <3>3. QED
      BY <2>1, <3>1, <3>2 DEF Record, Used
  <2>2. QED
    BY <2>1 DEF UsageIsCovered, Record, hub
<1>8. QED
  BY <1>3, <1>4, <1>5, <1>6, <1>7 DEF ToolInv, AgentInv

\* A repetition that is judged a success is of a call whose failure is on
\* record, and its own success is.
LEMMA JudgeKeeps ==
    ASSUME ToolInv, Judge
    PROVE  ToolInv'
<1>1. /\ call \in Calls /\ Key \in Keys
      /\ Key.turn = turn /\ Key.part = part /\ Key.call = call
  <2>1. call \in Calls
    BY DEF ToolInv, AgentInv, Standing, Judge
  <2>2. QED
    BY <2>1, KeyTyped DEF ToolInv
<1>2. /\ proof'.ok = IF reply = "ok" THEN proof.ok \cup {Key} ELSE proof.ok
      /\ proof'.failed = IF part = "call" /\ reply # "ok"
                         THEN proof.failed \cup {turn} ELSE proof.failed
      /\ proof'.recovered = IF part \in {"recover_retry", "fail_retry"} /\ reply = "ok"
                            THEN proof.recovered \cup {turn} ELSE proof.recovered
      /\ DOMAIN proof' = {"ok", "failed", "recovered"}
  BY DEF Judge, Recovered
<1>3. proof' \in [ok : SUBSET Keys, failed : SUBSET (1 .. MaxTurns),
                 recovered : SUBSET (1 .. MaxTurns)]
  <2>1. /\ proof.ok \subseteq Keys /\ proof.failed \subseteq 1 .. MaxTurns
        /\ proof.recovered \subseteq 1 .. MaxTurns /\ turn \in 1 .. MaxTurns
    BY DEF ToolInv, TypeOK
  <2>2. QED
    BY <1>1, <2>1 DEF Judge, Recovered
<1>4. Following \in {"none", "recover_install", "recover_retry", "fail_retry"}
  BY DEF Following
<1>5. \/ Following # "none" /\ part' = Following /\ step' = "reserve" /\ UNCHANGED <<turn, call>>
      \/ /\ Following = "none" /\ part' = "call" /\ call' = "none"
         /\ step' \in {"choose", "done"} /\ turn' \in {turn, turn + 1}
         /\ turn' \in 1 .. MaxTurns
  BY ToolExecutionAssumption DEF ToolInv, TypeOK, Judge, Proceed
<1>6. reply' = "none" /\ UNCHANGED <<attempt, hub, billing>>
  BY DEF Judge
<1>7. TypeOK'
  BY <1>3, <1>4, <1>5, <1>6 DEF ToolInv, TypeOK, hub, billing, Parts, Replies
<1>8. HubInv'
  BY <1>6, HubAlone DEF ToolInv
<1>9. Standing'
  BY <1>1, <1>5, <1>6 DEF Standing
<1>10. FailureKnown'
  <2>1. CASE Following = "none"
    BY <1>5, <2>1 DEF FailureKnown
  <2>2. CASE part = "call" /\ Following # "none"
    <3>1. reply # "ok"
      BY <2>2 DEF Following
    <3>2. QED
      BY <1>2, <1>5, <2>2, <3>1 DEF FailureKnown
  <2>3. CASE part # "call" /\ Following # "none"
    BY <1>2, <1>5, <2>3 DEF ToolInv, AgentInv, FailureKnown
  <2>4. QED
    BY <2>1, <2>2, <2>3
<1>11. ProofIsReal'
  <2>1. \A k \in proof'.ok : successes[k] > 0
    BY <1>2 DEF ToolInv, AgentInv, ProofIsReal, Standing
  <2>2. proof'.recovered \subseteq proof'.failed
    BY <1>2 DEF ToolInv, AgentInv, ProofIsReal, FailureKnown
  <2>3. ASSUME NEW t \in proof'.recovered
        PROVE  \E k \in proof'.ok : k.turn = t /\ k.part \in {"recover_retry", "fail_retry"}
    <3>1. CASE t \in proof.recovered
      BY <1>2, <3>1 DEF ToolInv, AgentInv, ProofIsReal
    <3>2. CASE t \notin proof.recovered
      BY <1>1, <1>2, <2>3, <3>2
    <3>3. QED
      BY <3>1, <3>2
  <2>4. QED
    BY <1>6, <2>1, <2>2, <2>3 DEF ProofIsReal, hub
<1>12. UsageIsCovered'
  BY <1>6 DEF ToolInv, AgentInv, UsageIsCovered, hub, billing
<1>13. QED
  BY <1>7, <1>8, <1>9, <1>10, <1>11, <1>12 DEF ToolInv, AgentInv

LEMMA AgentStepKeeps ==
    ASSUME ToolInv, AgentStep
    PROVE  ToolInv'
BY ChooseKeeps, RefuseKeeps, ReserveKeeps, SendKeeps, ReceiveKeeps, SendFailsKeeps,
   RecordKeeps, JudgeKeeps
DEF AgentStep

-----------------------------------------------------------------------------
(* Attempts and mishaps *)

\* The next attempt starts with nothing; requests of the last one go on.
LEMMA AttemptLostKeeps ==
    ASSUME ToolInv, AttemptLost
    PROVE  ToolInv'
<1>1. /\ requests' \subseteq requests
      /\ \A r \in requests : r.stage \in Executing => r \in requests'
      /\ UNCHANGED <<cached, mishaps, successes>>
  <2>1. Executing \cap Answered = {}
    BY DEF Executing, Answered, Failures
  <2>2. QED
    BY <2>1 DEF AttemptLost
<1>2. TypeOK'
  <2>1. /\ attempt' \in 1 .. MaxAttempts /\ step' = "choose" /\ turn' \in 1 .. MaxTurns
        /\ part' \in Parts /\ call' = "none" /\ reply' \in Replies
    BY ToolExecutionAssumption DEF ToolInv, TypeOK, AttemptLost, Parts, Replies
  <2>2. proof' \in [ok : SUBSET Keys, failed : SUBSET (1 .. MaxTurns),
                   recovered : SUBSET (1 .. MaxTurns)]
    BY DEF AttemptLost, NoProof
  <2>3. QED
    BY <1>1, <2>1, <2>2 DEF ToolInv, TypeOK, AttemptLost, billing
<1>3. HubInv'
  BY <1>1, AgentSparesHub DEF ToolInv
<1>4. AgentInv'
  <2>1. ProofIsReal'
    BY DEF AttemptLost, NoProof, ProofIsReal
  <2>2. Standing' /\ FailureKnown'
    BY DEF AttemptLost, Standing, FailureKnown
  <2>3. UsageIsCovered'
    BY DEF ToolInv, AgentInv, UsageIsCovered, AttemptLost, billing
  <2>4. QED
    BY <2>1, <2>2, <2>3 DEF AgentInv
<1>5. QED
  BY <1>2, <1>3, <1>4 DEF ToolInv

LEMMA SettleKeeps ==
    ASSUME ToolInv, Settle
    PROVE  ToolInv'
<1>1. TypeOK'
  BY DEF ToolInv, TypeOK, Settle, agent, hub
<1>2. HubInv'
  BY HubAlone DEF ToolInv, Settle
<1>3. Standing'
  BY DEF ToolInv, AgentInv, Standing, Settle, agent, hub, Key
<1>4. FailureKnown' /\ ProofIsReal' /\ UsageIsCovered'
  BY DEF ToolInv, AgentInv, FailureKnown, ProofIsReal, UsageIsCovered, Settle, agent, hub
<1>5. QED
  BY <1>1, <1>2, <1>3, <1>4 DEF ToolInv, AgentInv

\* A restart forgets the successes that were not stored: one per key at most,
\* which is what the count of mishaps makes up for.
LEMMA RestartKeeps ==
    ASSUME ToolInv, Restart
    PROVE  ToolInv'
<1>1. /\ requests' = {} /\ mishaps' = mishaps + 1 /\ mishaps' \in 0 .. MaxMishaps
      /\ UNCHANGED <<agent, cached, successes, billing>>
  BY ToolExecutionAssumption DEF ToolInv, TypeOK, Restart
<1>2. TypeOK'
  BY <1>1 DEF ToolInv, TypeOK, agent, billing
<1>3. HubInv'
  <2>1. Locked' /\ RunsUncached' /\ AnswersAreReal'
    BY <1>1 DEF ToolInv, HubInv, Locked, RunsUncached, AnswersAreReal
  <2>2. Counted'
    <3>1. successes \in [Keys -> Nat] /\ mishaps \in Nat
      BY ToolExecutionAssumption DEF ToolInv, TypeOK
    <3>2. ASSUME NEW k \in Keys
          PROVE  successes[k] <= mishaps + 1 /\ successes[k] <= mishaps + 1 + 1
      BY <3>1 DEF ToolInv, HubInv, Counted
    <3>3. QED
      BY <1>1, <3>2 DEF Counted
  <2>3. QED
    BY <2>1, <2>2 DEF HubInv
<1>4. AgentInv'
  BY <1>1, HubSparesAgent DEF ToolInv
<1>5. QED
  BY <1>2, <1>3, <1>4 DEF ToolInv

\* A success that cannot be stored is one that the count of mishaps makes up for.
LEMMA StoreFailsKeeps ==
    ASSUME ToolInv, NEW q \in requests, StoreFails(q)
    PROVE  ToolInv'
<1>1. /\ requests \subseteq Requests /\ q.key \in Keys
      /\ "error" \in Stages /\ "error" \notin Executing /\ "error" \notin {"written", "ok"}
  BY DEF ToolInv, TypeOK, Requests, Stages, Executing, Answered, Failures
<1>2. /\ requests' = Moved(q, "error")
      /\ mishaps' = mishaps + 1 /\ mishaps' \in 0 .. MaxMishaps
      /\ UNCHANGED <<agent, cached, successes, billing>>
  BY ToolExecutionAssumption DEF ToolInv, TypeOK, StoreFails
<1>3. /\ requests' \subseteq Requests
      /\ \A r \in requests' : r \in requests \/ (r.key = q.key /\ r.stage = "error")
  BY <1>1, <1>2, MovedFacts
<1>4. TypeOK'
  BY <1>2, <1>3 DEF ToolInv, TypeOK, Requests, agent, billing
<1>5. HubInv'
  <2>1. Locked
    BY DEF ToolInv, HubInv
  <2>2. Locked'
    BY <1>1, <1>2, <2>1, MoveKeepsLock
  <2>3. RunsUncached' /\ AnswersAreReal'
    BY <1>1, <1>2, <1>3 DEF ToolInv, HubInv, RunsUncached, AnswersAreReal
  <2>4. Counted'
    <3>1. successes \in [Keys -> Nat] /\ mishaps \in Nat
      BY ToolExecutionAssumption DEF ToolInv, TypeOK
    <3>2. ASSUME NEW k \in Keys
          PROVE  successes[k] <= mishaps + 1 /\ successes[k] <= mishaps + 1 + 1
      BY <3>1 DEF ToolInv, HubInv, Counted
    <3>3. QED
      BY <1>2, <3>2 DEF Counted
  <2>5. QED
    BY <2>2, <2>3, <2>4 DEF HubInv
<1>6. AgentInv'
  BY <1>2, HubSparesAgent DEF ToolInv
<1>7. QED
  BY <1>4, <1>5, <1>6 DEF ToolInv

-----------------------------------------------------------------------------
(* The theorems *)

LEMMA InitTools == Init => ToolInv
<1>1. SUFFICES ASSUME Init PROVE ToolInv
  OBVIOUS
<1>2. TypeOK
  BY <1>1, ToolExecutionAssumption DEF Init, TypeOK, Parts, Replies, NoProof
<1>3. HubInv
  BY <1>1 DEF Init, HubInv, Locked, RunsUncached, Counted, AnswersAreReal
<1>4. AgentInv
  BY <1>1 DEF Init, AgentInv, Standing, FailureKnown, ProofIsReal, UsageIsCovered, NoProof
<1>5. QED
  BY <1>2, <1>3, <1>4 DEF ToolInv

LEMMA NextTools == ToolInv /\ [Next]_vars => ToolInv'
<1>1. SUFFICES ASSUME ToolInv, [Next]_vars PROVE ToolInv'
  OBVIOUS
<1>2. CASE UNCHANGED vars
  <2>1. UNCHANGED <<agent, hub, billing>>
    BY <1>2 DEF vars
  <2>2. TypeOK'
    BY <1>1, <2>1 DEF ToolInv, TypeOK, agent, hub, billing
  <2>3. HubInv'
    BY <1>1, <2>1, HubAlone DEF ToolInv
  <2>4. AgentInv'
    <3>1. \A k \in Keys : successes[k] > 0 => successes'[k] > 0
      BY <2>1 DEF hub
    <3>2. QED
      BY <1>1, <2>1, <3>1, HubSparesAgent DEF ToolInv
  <2>5. QED
    BY <2>2, <2>3, <2>4 DEF ToolInv
<1>3. QED
  BY <1>1, <1>2, AgentStepKeeps, AttemptLostKeeps, SettleKeeps, HubStepKeeps, RestartKeeps,
     StoreFailsKeeps
  DEF Next, HubMishap

LEMMA AlwaysTools == Spec => []ToolInv
BY InitTools, NextTools, PTL DEF Spec

\* Every variable of the execution of tools keeps its type.
THEOREM ToolsTyped == Spec => []TypeOK
<1>1. ToolInv => TypeOK
  BY DEF ToolInv
<1>2. QED
  BY <1>1, AlwaysTools, PTL

\* The hub carries an operation out once, and once more only for a restart that
\* came, or a failure, between the effect and its record, however many attempts ask for it at
\* the same time (tools.py, invoke_tool).
THEOREM ToolsSucceedOnce == Spec => []SucceedsOnce
<1>1. ToolInv => SucceedsOnce
  <2>1. ASSUME ToolInv, NEW k \in Keys
        PROVE  successes[k] <= 1 + mishaps
    <3>1. successes[k] <= mishaps + 1
      BY <2>1 DEF ToolInv, HubInv, Counted
    <3>2. mishaps \in Nat
      BY <2>1, ToolExecutionAssumption DEF ToolInv, TypeOK
    <3>3. QED
      BY <3>1, <3>2
  <2>2. QED
    BY <2>1 DEF SucceedsOnce
<1>2. QED
  BY <1>1, AlwaysTools, PTL

\* The evidence of an attempt is about work in the sandbox, and what it counts
\* as recovered was repeated with success (execute.py, _merge_proof).
THEOREM ToolsProve == Spec => []ProofIsReal
<1>1. ToolInv => ProofIsReal
  BY DEF ToolInv, AgentInv
<1>2. QED
  BY <1>1, AlwaysTools, PTL

\* Recorded usage is of work that was done, and paid usage is on hold
\* (billing.py, reserve_tool_points and record_tool_usage).
THEOREM ToolsCovered == Spec => []UsageIsCovered
<1>1. ToolInv => UsageIsCovered
  BY DEF ToolInv, AgentInv
<1>2. QED
  BY <1>1, AlwaysTools, PTL

\* An operation whose success is stored is never carried out again, and its
\* success stays stored: the next attempt is answered from the store
\* (tools.py, invoke_tool).
THEOREM StoredIsFinal ==
    Spec => [][\A k \in cached : k \in cached' /\ successes'[k] = successes[k]]_vars
<1>1. ToolInv /\ [Next]_vars =>
        [\A k \in cached : k \in cached' /\ successes'[k] = successes[k]]_vars
  <2>1. SUFFICES ASSUME ToolInv, Next, NEW k \in cached
                 PROVE  k \in cached' /\ successes'[k] = successes[k]
    OBVIOUS
  <2>2. CASE AgentStep \/ AttemptLost \/ Settle
    BY <2>2 DEF AgentStep, Choose, Refuse, Reserve, Send, Receive, SendFails, Record, Judge,
                AttemptLost, Settle, hub
  <2>3. CASE HubStep
    <3>1. PICK q \in requests : Enter(q) \/ Fail(q) \/ GoOn(q) \/ Succeed(q) \/ Store(q)
      BY <2>3, HubCases DEF HubStep
    <3>2. CASE Succeed(q)
      <4>1. q.key # k
        BY <2>1, <3>2 DEF ToolInv, HubInv, RunsUncached, Succeed
      <4>2. k \in Keys /\ successes \in [Keys -> Nat]
        BY <2>1 DEF ToolInv, TypeOK
      <4>3. QED
        BY <2>1, <3>2, <4>1, <4>2 DEF Succeed
    <3>3. CASE ~Succeed(q)
      BY <2>1, <3>1, <3>3 DEF Enter, Fail, GoOn, Store
    <3>4. QED
      BY <3>2, <3>3
  <2>4. CASE HubMishap
    BY <2>1, <2>4 DEF HubMishap, Restart, StoreFails
  <2>5. QED
    BY <2>1, <2>2, <2>3, <2>4 DEF Next
<1>2. QED
  BY <1>1, AlwaysTools, PTL DEF Spec
=============================================================================
