-------------------------- MODULE SessionRun_proofs --------------------------
(***************************************************************************)
(* Proofs about SessionRun, for any runs, attempts and crashes.  Whatever   *)
(* disturbs the runs: the types; that a hold is left only by an attempt     *)
(* that died or a settlement that failed; that a row is left only by the    *)
(* mishaps of Stranding; that only retries work unbilled; and that attempts *)
(* continue where their run's checkpoint says.  For requests served one     *)
(* after the other and a process that lives: that runs of a session exclude *)
(* each other.                                                              *)
(***************************************************************************)
EXTENDS SessionRun, FiniteSetTheorems, TLAPS

-----------------------------------------------------------------------------
(* What holds whatever disturbs the runs *)

Steps == LiveSteps \cup {"off", "lost", "over"}

\* An attempt that will settle the run's billing, and one that has.
PreSettle == {"begin", "frame", "framed", "work", "settle", "cancelSettle", "failSettle"}
PostSettle == {"close", "save", "ended", "cancelClose", "failClose", "raised"}

Over(r) == billing[r] \in {"closed", "none"}

\* A settlement of the run failed or was cut short.
Unsettled(r) == <<r, "unsettled">> \in mishaps

\* The thread is at the end of the run.
Ended(r) == checkpoint.run = r /\ checkpoint.next = "end"

\* Nothing is there for a run before its workflow, and nothing is on hold or
\* in the thread before its first attempt.
StartInv ==
    \A r \in Runs :
        /\ post[r] \in {"idle", "checked", "created"} => flow[r] = "none"
        /\ post[r] \in {"started", "done"} => flow[r] # "none"
        /\ flow[r] = "none" => tries[r] = 0
        /\ tries[r] = 0 => billing[r] # "authorized"
        /\ checkpoint.run = r => tries[r] # 0
        /\ \A a \in Attempts : pc[r][a] # "off" <=> a <= tries[r]

\* Whoever has settled a run leaves no hold, unless the settlement failed.
OverInv ==
    \A r \in Runs :
        /\ \A a \in Attempts : pc[r][a] \in PostSettle \cup {"over"} => Over(r) \/ Unsettled(r)
        /\ Ended(r) => Over(r) \/ Unsettled(r)

Base == TypeOK /\ StartInv /\ OverInv

\* What a step of an attempt may do.
Effect(r, a, step) ==
    /\ pc[r][a] \in LiveSteps /\ step \in Steps \ {"off"}
    /\ Goto(r, a, step)
    /\ UNCHANGED <<post, stopping, deleting, tries, crashes, events>>
    /\ row' \in {row, Freed}
    /\ \/ flow' = flow
       \/ pc[r][a] = "ended" /\ flow' = [flow EXCEPT ![r] = "closed"]
    /\ \/ billing' = billing
       \/ billing' = Settled(r)
       \/ billing[r] = "pending" /\ billing' = [billing EXCEPT ![r] = "authorized"]
    /\ \/ checkpoint' = checkpoint
       \/ \E n \in {"frame", "work", "finalize"} : checkpoint' = [run |-> r, next |-> n]
       \/ pc[r][a] = "save" /\ checkpoint' = [run |-> r, next |-> "end"]
    /\ retried \subseteq retried' /\ retried' \subseteq Runs \X Attempts /\ finished' \subseteq Runs
    /\ pc[r][a] \in PreSettle => step \in PreSettle \cup PostSettle
    /\ mishaps \subseteq mishaps' /\ mishaps' \subseteq Runs \X Mishaps
    /\ step \notin PreSettle =>
         pc[r][a] \in PostSettle \/ billing' = Settled(r) \/ Ended(r) \/ Unsettled(r)'

LEMMA StepSets ==
    /\ PreSettle \cup PostSettle = LiveSteps
    /\ PreSettle \cap PostSettle = {}
    /\ {"off", "lost", "over"} \cap LiveSteps = {}
    /\ GraphSteps \subseteq LiveSteps /\ HandlerSteps \subseteq LiveSteps
BY DEF PreSettle, PostSettle, LiveSteps, GraphSteps, HandlerSteps

LEMMA GotoFacts ==
    ASSUME TypeOK, NEW r \in Runs, NEW a \in Attempts, NEW step \in Steps, Goto(r, a, step)
    PROVE  /\ pc' \in [Runs -> [Attempts -> Steps]]
           /\ pc'[r][a] = step
           /\ \A s \in Runs, b \in Attempts : s # r \/ b # a => pc'[s][b] = pc[s][b]
BY DEF TypeOK, Goto, Steps

LEMMA SettledFacts ==
    ASSUME TypeOK, NEW r \in Runs
    PROVE  /\ Settled(r) \in [Runs -> {"none", "pending", "authorized", "closed"}]
           /\ Settled(r)[r] \in {"closed", "none"}
           /\ \A s \in Runs : s # r => Settled(r)[s] = billing[s]
BY DEF TypeOK, Settled

LEMMA FreedType == TypeOK => Freed \in Runs \cup {"free", "deleted"}
BY DEF TypeOK, Freed

LEMMA RunnerEffect ==
    ASSUME Base, NEW r \in Runs, NEW a \in Attempts, RunnerStep(r, a)
    PROVE  \E step : Effect(r, a, step)
<1>1. TypeOK
  BY DEF Base
<1>2. /\ billing \in [Runs -> {"none", "pending", "authorized", "closed"}]
      /\ flow \in [Runs -> {"none", "open", "closed"}]
      /\ retried \subseteq Runs \X Attempts /\ finished \subseteq Runs
      /\ checkpoint.next \in {"frame", "work", "finalize", "end"}
      /\ mishaps \subseteq Runs \X Mishaps
      /\ \A m \in Mishaps : <<r, m>> \in Runs \X Mishaps
      /\ {"unsettled", "unclosed", "early"} = Mishaps
  BY <1>1 DEF TypeOK, Mishaps
<1> USE DEF Effect, session, server, thread, history, Steps, LiveSteps, GraphSteps, HandlerSteps,
            PreSettle, PostSettle, Unsettled
<1>3. CASE Begin(r, a)
  <2>1. CASE Decision(r) = "start" /\ checkpoint' = [run |-> r, next |-> "frame"]
             /\ Goto(r, a, "frame")
    BY <1>2, <1>3, <2>1 DEF Begin
  <2>2. CASE Decision(r) = "resume" /\ Goto(r, a, FirstStep(checkpoint.next))
             /\ UNCHANGED checkpoint
    <3>1. FirstStep(checkpoint.next) \in {"frame", "work", "settle"}
      BY <1>2, <2>2 DEF Decision, FirstStep
    <3>2. QED
      BY <1>2, <1>3, <2>2, <3>1 DEF Begin
  <2>3. CASE Decision(r) = "skip" /\ Goto(r, a, "ended") /\ UNCHANGED checkpoint
    <3>1. Ended(r)
      BY <2>3 DEF Decision, Ended
    <3>2. QED
      BY <1>2, <1>3, <2>3, <3>1 DEF Begin
  <2>4. QED
    BY <1>3, <2>1, <2>2, <2>3 DEF Begin
<1>4. CASE Frame(r, a)
  <2>1. CASE billing' = [billing EXCEPT ![r] = IF @ = "pending" THEN "authorized" ELSE @]
             /\ Goto(r, a, "framed") /\ UNCHANGED checkpoint
    <3>1. \/ billing' = billing
          \/ billing[r] = "pending" /\ billing' = [billing EXCEPT ![r] = "authorized"]
      BY <1>2, <2>1
    <3>2. QED
      BY <1>2, <1>4, <2>1, <3>1 DEF Frame
  <2>2. CASE checkpoint' = [run |-> r, next |-> "finalize"] /\ Goto(r, a, WhenRefused)
             /\ UNCHANGED billing
    BY <1>2, <1>4, <2>2 DEF Frame, WhenRefused
  <2>3. QED
    BY <1>4, <2>1, <2>2 DEF Frame
<1>5. CASE FrameSaved(r, a)
  BY <1>2, <1>5 DEF FrameSaved
<1>6. CASE Work(r, a)
  BY <1>2, <1>6 DEF Work
<1>7. CASE Reconnect(r, a)
  BY <1>2, <1>7 DEF Reconnect
<1>8. CASE Raise(r, a)
  BY <1>2, <1>8 DEF Raise
<1>9. CASE Cancelled(r, a)
  BY <1>2, <1>9 DEF Cancelled
<1>10. CASE SettleStep(r, a)
  <2>1. AfterSettle(pc[r][a]) \in {"close", "cancelClose", "failClose"}
    BY DEF AfterSettle
  <2>2. CASE billing' = Settled(r) /\ UNCHANGED mishaps
    BY <1>2, <1>10, <2>1, <2>2 DEF SettleStep
  <2>3. CASE mishaps' = mishaps \cup {<<r, "unsettled">>} /\ UNCHANGED billing
    BY <1>2, <1>10, <2>1, <2>3 DEF SettleStep
  <2>4. QED
    BY <1>10, <2>2, <2>3 DEF SettleStep
<1>11. CASE CloseStep(r, a)
  <2>1. AfterClose(pc[r][a]) \in {"save", "raised", "ended"}
    BY DEF AfterClose
  <2>2. mishaps \subseteq mishaps' /\ mishaps' \subseteq Runs \X Mishaps
    BY <1>2, <1>11 DEF CloseStep
  <2>3. QED
    BY <1>2, <1>11, <2>1, <2>2 DEF CloseStep
<1>12. CASE CutShort(r, a)
  <2>1. mishaps \subseteq mishaps' /\ mishaps' \subseteq Runs \X Mishaps
    BY <1>2, <1>12 DEF CutShort
  <2>2. pc[r][a] = "failSettle" => Unsettled(r)'
    BY <1>12 DEF CutShort
  <2>3. QED
    BY <1>2, <1>12, <2>1, <2>2 DEF CutShort
<1>13. CASE Save(r, a)
  BY <1>2, <1>13 DEF Save
<1>14. CASE Report(r, a)
  BY <1>2, <1>14 DEF Report
<1>15. QED
  BY <1>3, <1>4, <1>5, <1>6, <1>7, <1>8, <1>9, <1>10, <1>11, <1>12, <1>13, <1>14
     DEF RunnerStep

LEMMA BoundFacts == MaxAttempts \in Nat \ {0} /\ MaxCrashes \in Nat
BY SessionRunAssumption

\* The fields of the types a step changes; the others carry over.
LEMMA TypeFacts ==
    ASSUME TypeOK
    PROVE  /\ row \in Runs \cup {"free", "deleted"}
           /\ post \in [Runs -> {"idle", "checked", "created", "started", "done", "failed"}]
           /\ billing \in [Runs -> {"none", "pending", "authorized", "closed"}]
           /\ flow \in [Runs -> {"none", "open", "closed"}]
           /\ tries \in [Runs -> 0 .. MaxAttempts]
           /\ pc \in [Runs -> [Attempts -> Steps]]
BY DEF TypeOK, Steps

LEMMA BillingEffect ==
    ASSUME TypeOK, NEW r \in Runs, NEW a \in Attempts, NEW step, Effect(r, a, step)
    PROVE  /\ billing' \in [Runs -> {"none", "pending", "authorized", "closed"}]
           /\ \A s \in Runs : s # r => billing'[s] = billing[s]
           /\ Over(r) => billing'[r] \in {"closed", "none"}
           /\ billing' = Settled(r) => billing'[r] \in {"closed", "none"}
<1>1. \/ billing' = billing
      \/ billing' = Settled(r)
      \/ billing[r] = "pending" /\ billing' = [billing EXCEPT ![r] = "authorized"]
  BY DEF Effect
<1>2. billing \in [Runs -> {"none", "pending", "authorized", "closed"}]
  BY TypeFacts
<1>3. CASE billing' = Settled(r)
  BY <1>3, SettledFacts
<1>4. CASE billing' = billing /\ billing' # Settled(r)
  BY <1>2, <1>4 DEF Over
<1>5. CASE /\ billing[r] = "pending" /\ billing' = [billing EXCEPT ![r] = "authorized"]
           /\ billing' # Settled(r)
  BY <1>2, <1>5 DEF Over
<1>6. QED
  BY <1>1, <1>3, <1>4, <1>5

LEMMA RunnerBase ==
    ASSUME Base, NEW r \in Runs, NEW a \in Attempts, RunnerStep(r, a)
    PROVE  Base'
<1>1. PICK step : Effect(r, a, step)
  BY RunnerEffect
<1>2. TypeOK
  BY DEF Base
<1>3. /\ pc' \in [Runs -> [Attempts -> Steps]]
      /\ pc'[r][a] = step /\ step \in Steps \ {"off"} /\ pc[r][a] # "off"
      /\ \A s \in Runs, b \in Attempts : s # r \/ b # a => pc'[s][b] = pc[s][b]
  BY <1>1, <1>2, GotoFacts, StepSets DEF Effect
<1>4. tries[r] # 0 /\ flow[r] # "none" /\ post[r] \notin {"idle", "checked", "created"}
  <2>1. a <= tries[r] /\ a \in Nat /\ a >= 1
    BY <1>3, BoundFacts DEF Base, StartInv, Attempts
  <2>2. QED
    BY <2>1, <1>2, TypeFacts DEF Base, StartInv
<1>5. /\ billing' \in [Runs -> {"none", "pending", "authorized", "closed"}]
      /\ \A s \in Runs : s # r => billing'[s] = billing[s]
      /\ Over(r) => billing'[r] \in {"closed", "none"}
      /\ billing' = Settled(r) => billing'[r] \in {"closed", "none"}
  BY <1>1, <1>2, BillingEffect
<1>6. /\ flow' \in [Runs -> {"none", "open", "closed"}]
      /\ \A s \in Runs : flow'[s] = "none" <=> flow[s] = "none"
  BY <1>1, <1>2, <1>4, TypeFacts DEF Effect
<1>7. TypeOK'
  <2>1. row' \in Runs \cup {"free", "deleted"}
    BY <1>1, <1>2, TypeFacts, FreedType DEF Effect
  <2>2. checkpoint' \in [run : Runs \cup {"none"}, next : {"frame", "work", "finalize", "end"}]
    BY <1>1, <1>2 DEF Effect, TypeOK
  <2>3. /\ retried' \subseteq Runs \X Attempts /\ finished' \subseteq Runs
        /\ mishaps' \subseteq Runs \X Mishaps
        /\ UNCHANGED <<post, stopping, deleting, tries, crashes, events>>
    BY <1>1 DEF Effect
  <2>4. QED
    BY <1>2, <1>3, <1>5, <1>6, <2>1, <2>2, <2>3 DEF TypeOK, Steps
<1>8. StartInv'
  <2> SUFFICES ASSUME NEW s \in Runs
               PROVE  /\ post'[s] \in {"idle", "checked", "created"} => flow'[s] = "none"
                      /\ post'[s] \in {"started", "done"} => flow'[s] # "none"
                      /\ flow'[s] = "none" => tries'[s] = 0
                      /\ tries'[s] = 0 => billing'[s] # "authorized"
                      /\ checkpoint'.run = s => tries'[s] # 0
                      /\ \A b \in Attempts : pc'[s][b] # "off" <=> b <= tries'[s]
    BY DEF StartInv
  <2>1. post' = post /\ tries' = tries
    BY <1>1 DEF Effect
  <2>2. checkpoint'.run = s => checkpoint.run = s \/ s = r
    BY <1>1 DEF Effect
  <2>3. \A b \in Attempts : pc'[s][b] # "off" <=> pc[s][b] # "off"
    BY <1>3
  <2>4. QED
    BY <1>4, <1>5, <1>6, <2>1, <2>2, <2>3 DEF Base, StartInv
<1>9. OverInv'
  <2>1. Over(r) \/ billing' = Settled(r) => billing'[r] \in {"closed", "none"}
    BY <1>5
  <2>2. \A s \in Runs : Over(s) => Over(s)'
    BY <1>5 DEF Over
  <2>3. \A s \in Runs : Unsettled(s) => Unsettled(s)'
    BY <1>1 DEF Effect, Unsettled
  <2>4. ASSUME NEW s \in Runs, NEW b \in Attempts, pc'[s][b] \in PostSettle \cup {"over"}
        PROVE  Over(s)' \/ Unsettled(s)'
    <3>1. CASE s = r /\ b = a
      <4>1. step \notin PreSettle
        BY <1>3, <2>4, <3>1, StepSets
      <4>2. Over(r) \/ Unsettled(r) \/ billing' = Settled(r) \/ Unsettled(r)'
        BY <1>1, <4>1 DEF Effect, Base, OverInv
      <4>3. QED
        BY <2>1, <2>3, <3>1, <4>2 DEF Over
    <3>2. CASE ~(s = r /\ b = a)
      <4>1. Over(s) \/ Unsettled(s)
        BY <1>3, <2>4, <3>2 DEF Base, OverInv
      <4>2. QED
        BY <2>2, <2>3, <4>1
    <3>3. QED
      BY <3>1, <3>2
  <2>5. ASSUME NEW s \in Runs, Ended(s)'
        PROVE  Over(s)' \/ Unsettled(s)'
    <3>1. Over(s) \/ Unsettled(s)
      <4>1. CASE checkpoint' = checkpoint
        BY <2>5, <4>1 DEF Ended, Base, OverInv
      <4>2. CASE checkpoint' # checkpoint
        <5>1. s = r /\ pc[r][a] = "save"
          BY <1>1, <2>5, <4>2 DEF Ended, Effect
        <5>2. QED
          BY <5>1 DEF Base, OverInv, PostSettle
      <4>3. QED
        BY <4>1, <4>2
    <3>2. QED
      BY <2>2, <2>3, <3>1
  <2>6. QED
    BY <2>4, <2>5 DEF OverInv
<1>10. QED
  BY <1>7, <1>8, <1>9 DEF Base

\* A step of a handler of a request: no attempt moves.
LEMMA RequestBase ==
    ASSUME Base, NEW r \in Runs,
           \/ PostCheck(r) \/ PostStep(r) \/ Interrupt(r) \/ Terminate(r) \/ MarkStopped(r)
    PROVE  Base'
<1>1. TypeOK
  BY DEF Base
<1> USE DEF session, server, thread, history
<1>2. UNCHANGED <<tries, pc, checkpoint, retried, crashes, finished, mishaps, events>>
  BY DEF PostCheck, PostStep, PostCreate, PostStart, PostStartFails, PostUpdate, Interrupt,
         Terminate, MarkStopped
<1>3. /\ row' \in {row, r, Freed, "deleted"}
      /\ stopping' \in {stopping, stopping \cup {r}, stopping \ {r}}
      /\ deleting' = deleting
  BY <1>1, TypeFacts
     DEF PostCheck, PostStep, PostCreate, PostStart, PostStartFails, PostUpdate, Interrupt,
         Terminate, MarkStopped, Freed
<1>4. \/ billing' = billing
      \/ billing' = Settled(r)
      \/ post[r] = "checked" /\ billing' = [billing EXCEPT ![r] = "pending"]
  BY DEF PostCheck, PostStep, PostCreate, PostStart, PostStartFails, PostUpdate, Interrupt,
         Terminate, MarkStopped
<1>5. \/ post' = post
      \/ post[r] = "idle" /\ post' = [post EXCEPT ![r] = "checked"]
      \/ post[r] = "checked" /\ post' = [post EXCEPT ![r] = "created"]
      \/ \E p \in {"started", "failed", "done"} : post' = [post EXCEPT ![r] = p]
  BY DEF PostCheck, PostStep, PostCreate, PostStart, PostStartFails, PostUpdate, Interrupt,
         Terminate, MarkStopped
<1>6. \/ flow' = flow
      \/ /\ flow' = [flow EXCEPT ![r] = "open"]
         /\ \E p \in {"started", "failed"} : post' = [post EXCEPT ![r] = p]
      \/ flow[r] = "open" /\ flow' = [flow EXCEPT ![r] = "closed"] /\ post' = post
  BY DEF PostCheck, PostStep, PostCreate, PostStart, PostStartFails, PostUpdate, Interrupt,
         Terminate, MarkStopped
<1>7. /\ billing' \in [Runs -> {"none", "pending", "authorized", "closed"}]
      /\ \A s \in Runs : billing'[s] = "authorized" => billing[s] = "authorized"
      /\ \A s \in Runs : Over(s) =>
            billing'[s] \in {"closed", "none"} \/ (s = r /\ post[r] = "checked")
  <2>1. CASE billing' = billing
    BY <1>1, <2>1, TypeFacts DEF Over
  <2>2. CASE billing' = Settled(r)
    <3>1. \A s \in Runs : s # r => billing'[s] = billing[s]
      BY <1>1, <2>2, SettledFacts
    <3>2. billing'[r] \in {"closed", "none"}
      BY <1>1, <2>2, SettledFacts
    <3>3. QED
      BY <1>1, <2>2, <3>1, <3>2, SettledFacts DEF Over
  <2>3. CASE post[r] = "checked" /\ billing' = [billing EXCEPT ![r] = "pending"]
    BY <1>1, <2>3, TypeFacts DEF Over
  <2>4. QED
    BY <1>4, <2>1, <2>2, <2>3
<1>8. post' \in [Runs -> {"idle", "checked", "created", "started", "done", "failed"}]
  BY <1>1, <1>5, TypeFacts
<1>9. flow' \in [Runs -> {"none", "open", "closed"}]
  BY <1>1, <1>6, TypeFacts
<1>10. row' \in Runs \cup {"free", "deleted"}
  BY <1>1, <1>3, TypeFacts, FreedType
<1>11. TypeOK'
  <2>1. stopping' \subseteq Runs /\ deleting' \in {"no", "checked", "wiped", "done"}
    BY <1>1, <1>3 DEF TypeOK
  <2>2. QED
    BY <1>1, <1>2, <1>7, <1>8, <1>9, <1>10, <2>1 DEF TypeOK
<1>12. StartInv'
  <2> SUFFICES ASSUME NEW s \in Runs
               PROVE  /\ post'[s] \in {"idle", "checked", "created"} => flow'[s] = "none"
                      /\ post'[s] \in {"started", "done"} => flow'[s] # "none"
                      /\ flow'[s] = "none" => tries'[s] = 0
                      /\ tries'[s] = 0 => billing'[s] # "authorized"
                      /\ checkpoint'.run = s => tries'[s] # 0
                      /\ \A b \in Attempts : pc'[s][b] # "off" <=> b <= tries'[s]
    BY DEF StartInv
  <2>1. flow'[s] = "none" => flow[s] = "none"
    BY <1>1, <1>6, TypeFacts
  <2>2. post'[s] \in {"idle", "checked", "created"} => flow'[s] = "none"
    <3>1. post'[s] \in {"idle", "checked", "created"}
            => post[s] \in {"idle", "checked", "created"}
      BY <1>1, <1>5, TypeFacts
    <3>2. flow[s] = "none" =>
            flow'[s] = "none" \/ (s = r /\ post'[r] \in {"started", "failed"})
      BY <1>1, <1>6, TypeFacts
    <3>3. QED
      BY <3>1, <3>2 DEF Base, StartInv
  <2>3. post'[s] \in {"started", "done"} => flow'[s] # "none"
    <3>1. \/ post'[s] = post[s] \/ post'[s] \notin {"started", "done"}
          \/ post[s] = "started" \/ flow'[s] = "open"
      BY <1>1, TypeFacts
         DEF PostCheck, PostStep, PostCreate, PostStart, PostStartFails, PostUpdate, Interrupt,
             Terminate, MarkStopped
    <3>2. QED
      BY <2>1, <3>1 DEF Base, StartInv
  <2>4. QED
    BY <1>2, <1>7, <2>1, <2>2, <2>3 DEF Base, StartInv
<1>13. OverInv'
  <2>1. ASSUME NEW s \in Runs, Over(s), tries[s] # 0
        PROVE  Over(s)'
    <3>1. post[s] # "checked"
      BY <2>1 DEF Base, StartInv
    <3>2. QED
      BY <1>7, <2>1, <3>1 DEF Over
  <2>2. ASSUME NEW s \in Runs, NEW b \in Attempts, pc[s][b] \in PostSettle \cup {"over"}
        PROVE  (Over(s) \/ Unsettled(s)) /\ tries[s] # 0
    <3>1. b <= tries[s] /\ b \in Nat /\ b >= 1
      BY <2>2, BoundFacts DEF Base, StartInv, Attempts, PostSettle
    <3>2. QED
      BY <2>2, <3>1, <1>1, TypeFacts DEF Base, OverInv
  <2>3. ASSUME NEW s \in Runs, Ended(s)
        PROVE  (Over(s) \/ Unsettled(s)) /\ tries[s] # 0
    BY <2>3 DEF Base, OverInv, StartInv, Ended
  <2>4. QED
    BY <1>2, <2>1, <2>2, <2>3 DEF OverInv, Ended, Unsettled
<1>14. QED
  BY <1>11, <1>12, <1>13 DEF Base

LEMMA DeleteBase ==
    ASSUME Base, DeleteCheck \/ DeleteWipe \/ DeleteRow
    PROVE  Base'
<1>1. TypeOK
  BY DEF Base
<1>2. /\ UNCHANGED <<post, stopping, flow, tries, pc, checkpoint, retried, crashes, finished,
                     mishaps, events>>
      /\ row' \in {row, "deleted"} /\ deleting' \in {"checked", "wiped", "done", "no"}
      /\ billing' = billing \/ billing' = [s \in Runs |-> "none"]
  BY DEF DeleteCheck, DeleteWipe, DeleteRow, server, thread, history
<1>3. /\ billing' \in [Runs -> {"none", "pending", "authorized", "closed"}]
      /\ \A s \in Runs : billing'[s] \in {billing[s], "none"}
  BY <1>1, <1>2, TypeFacts
<1>4. TypeOK'
  BY <1>1, <1>2, <1>3 DEF TypeOK
<1>5. StartInv' /\ OverInv'
  BY <1>2, <1>3 DEF Base, StartInv, OverInv, Over, Ended, Unsettled
<1>6. QED
  BY <1>4, <1>5 DEF Base

LEMMA StartAttemptFacts ==
    ASSUME Base, NEW r \in Runs, StartAttempt(r)
    PROVE  /\ tries[r] + 1 \in Attempts /\ tries[r] \in Nat
           /\ pc[r][tries[r] + 1] = "off"
           /\ tries' = [tries EXCEPT ![r] = tries[r] + 1]
           /\ Goto(r, tries[r] + 1, "begin")
<1>1. tries[r] \in 0 .. MaxAttempts /\ tries[r] < MaxAttempts
  BY TypeFacts DEF Base, StartAttempt
<1>2. tries[r] + 1 \in Attempts /\ tries[r] \in Nat
  BY <1>1, BoundFacts DEF Attempts
<1>3. pc[r][tries[r] + 1] = "off"
  <2>1. ~(tries[r] + 1 <= tries[r])
    BY <1>2
  <2>2. QED
    BY <1>2, <2>1 DEF Base, StartInv
<1>4. QED
  BY <1>2, <1>3 DEF StartAttempt, Goto

LEMMA StartAttemptBase ==
    ASSUME Base, NEW r \in Runs, StartAttempt(r)
    PROVE  Base'
<1>1. TypeOK
  BY DEF Base
<1> DEFINE a == tries[r] + 1
<1>2. /\ a \in Attempts /\ tries[r] \in Nat /\ pc[r][a] = "off"
      /\ tries' = [tries EXCEPT ![r] = a] /\ Goto(r, a, "begin")
  BY StartAttemptFacts
<1>3. /\ flow[r] = "open"
      /\ UNCHANGED <<row, post, stopping, deleting, billing, flow, checkpoint, retried,
                     finished, mishaps, events>>
      /\ crashes' = crashes \/ (crashes < MaxCrashes /\ crashes' = crashes + 1)
  BY DEF StartAttempt, session, thread, history
<1>4. a # 0 /\ a \in 0 .. MaxAttempts
  BY <1>2, BoundFacts DEF Attempts
<1> HIDE DEF a
<1>5. /\ pc' \in [Runs -> [Attempts -> Steps]]
      /\ pc'[r][a] = "begin"
      /\ \A s \in Runs, b \in Attempts : s # r \/ b # a => pc'[s][b] = pc[s][b]
  <2>1. "begin" \in Steps
    BY DEF Steps, LiveSteps, GraphSteps
  <2>2. QED
    BY <1>1, <1>2, <2>1, GotoFacts
<1>6. /\ tries' \in [Runs -> 0 .. MaxAttempts]
      /\ tries'[r] = a /\ \A s \in Runs : s # r => tries'[s] = tries[s]
  BY <1>1, <1>2, <1>4, TypeFacts
<1>7. crashes' \in 0 .. MaxCrashes
  BY <1>1, <1>3, BoundFacts DEF TypeOK
<1>8. TypeOK'
  BY <1>1, <1>3, <1>5, <1>6, <1>7 DEF TypeOK, Steps
<1>9. StartInv'
  <2> SUFFICES ASSUME NEW s \in Runs
               PROVE  /\ post'[s] \in {"idle", "checked", "created"} => flow'[s] = "none"
                      /\ post'[s] \in {"started", "done"} => flow'[s] # "none"
                      /\ flow'[s] = "none" => tries'[s] = 0
                      /\ tries'[s] = 0 => billing'[s] # "authorized"
                      /\ checkpoint'.run = s => tries'[s] # 0
                      /\ \A b \in Attempts : pc'[s][b] # "off" <=> b <= tries'[s]
    BY DEF StartInv
  <2>1. CASE s # r
    BY <1>3, <1>5, <1>6, <2>1 DEF Base, StartInv
  <2>2. CASE s = r
    <3>1. \A b \in Attempts : pc'[r][b] # "off" <=> b <= a
      <4>1. ASSUME NEW b \in Attempts, b # a
            PROVE  pc'[r][b] # "off" <=> b <= a
        <5>1. pc[r][b] # "off" <=> b <= tries[r]
          BY DEF Base, StartInv
        <5>2. b \in Nat
          BY BoundFacts DEF Attempts
        <5>3. b <= tries[r] <=> b <= a
          BY <1>2, <4>1, <5>2 DEF a
        <5>4. QED
          BY <1>5, <4>1, <5>1, <5>3
      <4>2. a <= a
        BY <1>2 DEF a
      <4>3. QED
        BY <1>5, <4>1, <4>2
    <3>2. QED
      BY <1>3, <1>4, <1>6, <2>2, <3>1 DEF Base, StartInv
  <2>3. QED
    BY <2>1, <2>2
<1>10. OverInv'
  BY <1>3, <1>5 DEF Base, OverInv, Over, Ended, Unsettled, PostSettle
<1>11. QED
  BY <1>8, <1>9, <1>10 DEF Base

LEMMA GiveUpBase ==
    ASSUME Base, NEW r \in Runs, GiveUp(r)
    PROVE  Base'
<1>1. TypeOK
  BY DEF Base
<1>2. /\ flow[r] = "open" /\ flow' = [flow EXCEPT ![r] = "closed"]
      /\ UNCHANGED <<row, post, stopping, deleting, billing, tries, pc, checkpoint, retried,
                     crashes, finished, mishaps, events>>
  BY DEF GiveUp, session, thread, history
<1>3. /\ flow' \in [Runs -> {"none", "open", "closed"}]
      /\ \A s \in Runs : flow'[s] = "none" <=> flow[s] = "none"
  BY <1>1, <1>2, TypeFacts
<1>4. TypeOK'
  BY <1>1, <1>2, <1>3 DEF TypeOK
<1>5. StartInv' /\ OverInv'
  BY <1>2, <1>3 DEF Base, StartInv, OverInv, Over, Ended, Unsettled
<1>6. QED
  BY <1>4, <1>5 DEF Base

\* The process dies or stops: attempts are lost, or one is cancelled.
LEMMA DeathFacts ==
    ASSUME TypeOK, Crash \/ Shutdown
    PROVE  /\ events \cap {"crash", "shutdown"} # {}
           /\ pc' \in [Runs -> [Attempts -> Steps]]
           /\ \A s \in Runs, b \in Attempts :
                 \/ pc'[s][b] = pc[s][b] /\ pc[s][b] \notin LiveSteps
                 \/ pc'[s][b] \in {"lost", "cancelSettle"} /\ pc[s][b] \in LiveSteps
           /\ UNCHANGED <<row, billing, flow, tries, checkpoint, retried, finished, mishaps, events>>
           /\ crashes < MaxCrashes /\ crashes' = crashes + 1
           /\ post' \in {post, Dropped} /\ stopping' \in {stopping, {}}
           /\ deleting' \in {deleting, "no"}
<1> USE DEF session, server, thread, history
<1>1. CASE Crash
  <2>1. pc' = [s \in Runs |-> Lost(pc[s])]
    BY <1>1 DEF Crash
  <2>2. /\ pc' \in [Runs -> [Attempts -> Steps]]
        /\ \A s \in Runs, b \in Attempts :
              pc'[s][b] = IF pc[s][b] \in LiveSteps THEN "lost" ELSE pc[s][b]
    BY <2>1, TypeFacts DEF Lost, Steps
  <2>3. QED
    BY <1>1, <2>2 DEF Crash
<1>2. CASE Shutdown
  <2>1. PICK r \in Runs, a \in Attempts :
            /\ pc[r][a] \in GraphSteps
            /\ pc' = [s \in Runs |-> IF s = r THEN [Lost(pc[s]) EXCEPT ![a] = "cancelSettle"]
                                     ELSE Lost(pc[s])]
    BY <1>2 DEF Shutdown
  <2>2. \A s \in Runs : /\ Lost(pc[s]) \in [Attempts -> Steps]
                         /\ \A b \in Attempts : Lost(pc[s])[b] =
                               IF pc[s][b] \in LiveSteps THEN "lost" ELSE pc[s][b]
    BY TypeFacts DEF Lost, Steps
  <2>3. "cancelSettle" \in Steps
    BY DEF Steps, LiveSteps, HandlerSteps
  <2>4. pc' \in [Runs -> [Attempts -> Steps]]
    BY <2>1, <2>2, <2>3
  <2>5. \A s \in Runs, b \in Attempts :
            pc'[s][b] = IF s = r /\ b = a THEN "cancelSettle"
                        ELSE IF pc[s][b] \in LiveSteps THEN "lost" ELSE pc[s][b]
    BY <2>1, <2>2
  <2>6. pc[r][a] \in LiveSteps
    BY <2>1, StepSets
  <2>7. QED
    BY <1>2, <2>4, <2>5, <2>6 DEF Shutdown
<1>3. QED
  BY <1>1, <1>2

LEMMA DeathBase ==
    ASSUME Base, Crash \/ Shutdown
    PROVE  Base'
<1>1. TypeOK
  BY DEF Base
<1>2. /\ pc' \in [Runs -> [Attempts -> Steps]]
      /\ \A s \in Runs, b \in Attempts :
            \/ pc'[s][b] = pc[s][b] /\ pc[s][b] \notin LiveSteps
            \/ pc'[s][b] \in {"lost", "cancelSettle"} /\ pc[s][b] \in LiveSteps
      /\ UNCHANGED <<row, billing, flow, tries, checkpoint, retried, finished, mishaps, events>>
      /\ crashes < MaxCrashes /\ crashes' = crashes + 1
      /\ post' \in {post, Dropped} /\ stopping' \in {stopping, {}}
      /\ deleting' \in {deleting, "no"}
  BY <1>1, DeathFacts
<1>3. /\ post' \in [Runs -> {"idle", "checked", "created", "started", "done", "failed"}]
      /\ \A s \in Runs : post'[s] \in {post[s], "failed"}
  BY <1>1, <1>2, TypeFacts DEF Dropped
<1>4. crashes' \in 0 .. MaxCrashes
  BY <1>1, <1>2, BoundFacts DEF TypeOK
<1>5. TypeOK'
  BY <1>1, <1>2, <1>3, <1>4 DEF TypeOK, Steps
<1>6. StartInv'
  BY <1>2, <1>3, StepSets DEF Base, StartInv
<1>7. OverInv'
  <2>1. \A s \in Runs, b \in Attempts : pc'[s][b] \in PostSettle \cup {"over"} => pc'[s][b] = pc[s][b]
    BY <1>2 DEF PostSettle
  <2>2. QED
    BY <1>2, <2>1 DEF Base, OverInv, Over, Ended, Unsettled
<1>8. QED
  BY <1>5, <1>6, <1>7 DEF Base

LEMMA InitBase == Init => Base
<1> SUFFICES ASSUME Init PROVE Base
  OBVIOUS
<1>1. TypeOK
  BY BoundFacts DEF Init, TypeOK
<1>2. StartInv /\ OverInv
  <2>1. checkpoint.run = "none" /\ "none" \notin Runs
    BY SessionRunAssumption DEF Init
  <2>2. \A a \in Attempts : ~(a <= 0)
    BY BoundFacts DEF Attempts
  <2>3. QED
    BY <2>1, <2>2 DEF Init, StartInv, OverInv, Ended, PostSettle
<1>3. QED
  BY <1>1, <1>2 DEF Base

LEMMA NextBase == Base /\ [Next]_vars => Base'
<1> SUFFICES ASSUME Base, [Next]_vars PROVE Base'
  OBVIOUS
<1>1. ASSUME NEW r \in Runs, PostCheck(r) \/ PostStep(r) \/ ServerStep(r)
      PROVE  Base'
  BY <1>1, RequestBase, StartAttemptBase, GiveUpBase DEF ServerStep
<1>2. ASSUME NEW r \in Runs, NEW a \in Attempts, RunnerStep(r, a)
      PROVE  Base'
  BY <1>2, RunnerBase
<1>3. ASSUME NEW r \in Runs, Interrupt(r) \/ Terminate(r) \/ MarkStopped(r)
      PROVE  Base'
  BY <1>3, RequestBase
<1>4. CASE DeleteCheck \/ DeleteWipe \/ DeleteRow
  BY <1>4, DeleteBase
<1>5. CASE Crash \/ Shutdown
  BY <1>5, DeathBase
<1>6. CASE UNCHANGED vars
  BY <1>6 DEF vars, server, thread, session, Base, TypeOK, StartInv, OverInv, Over, Ended,
              Unsettled
<1>7. QED
  BY <1>1, <1>2, <1>3, <1>4, <1>5, <1>6 DEF Next

-----------------------------------------------------------------------------
(* A hold is left only by an attempt that died or a settlement that failed *)

\* Some attempt is still going to settle the run.
Attended(r) == \E a \in Attempts : pc[r][a] \in PreSettle

HoldInv ==
    \A r \in Runs : billing[r] = "authorized" => Attended(r) \/ Unsettled(r) \/ Abandoned(r)

LEMMA RunnerHold ==
    ASSUME Base, HoldInv, NEW r \in Runs, NEW a \in Attempts, RunnerStep(r, a)
    PROVE  HoldInv'
<1>1. PICK step : Effect(r, a, step)
  BY RunnerEffect
<1>2. TypeOK
  BY DEF Base
<1>3. /\ pc'[r][a] = step /\ pc[r][a] \in LiveSteps
      /\ \A s \in Runs, b \in Attempts : s # r \/ b # a => pc'[s][b] = pc[s][b]
  BY <1>1, <1>2, GotoFacts DEF Effect
<1>4. /\ \A s \in Runs : s # r => billing'[s] = billing[s]
      /\ Over(r) => billing'[r] \in {"closed", "none"}
      /\ billing' = Settled(r) => billing'[r] \in {"closed", "none"}
  BY <1>1, <1>2, BillingEffect
<1>5. tries' = tries /\ \A s \in Runs : Unsettled(s) => Unsettled(s)'
  BY <1>1 DEF Effect, Unsettled
<1> SUFFICES ASSUME NEW s \in Runs, billing'[s] = "authorized"
             PROVE  Attended(s)' \/ Unsettled(s)' \/ Abandoned(s)'
  BY DEF HoldInv
<1>6. CASE s # r
  <2>1. tries[s] # 0 => tries[s] \in Attempts
    BY <1>2, TypeFacts, BoundFacts DEF Attempts
  <2>2. QED
    BY <1>3, <1>4, <1>5, <1>6, <2>1 DEF HoldInv, Attended, Abandoned
<1>7. CASE s = r
  <2>1. ~Over(r) /\ billing' # Settled(r)
    BY <1>4, <1>7
  <2>2. CASE pc[r][a] \in PostSettle
    BY <1>5, <1>7, <2>1, <2>2 DEF Base, OverInv
  <2>3. CASE pc[r][a] \in PreSettle
    <3>1. CASE step \in PreSettle
      BY <1>3, <1>7, <3>1 DEF Attended
    <3>2. CASE step \notin PreSettle
      <4>1. pc[r][a] \notin PostSettle
        BY <2>3, StepSets
      <4>2. Ended(r) \/ Unsettled(r)'
        BY <1>1, <2>1, <3>2, <4>1 DEF Effect
      <4>3. QED
        BY <1>5, <1>7, <2>1, <4>2 DEF Base, OverInv
    <3>3. QED
      BY <3>1, <3>2
  <2>4. QED
    BY <1>3, <2>2, <2>3, StepSets
<1>8. QED
  BY <1>6, <1>7

\* A request moves no attempt and puts nothing on hold.
LEMMA RequestHold ==
    ASSUME Base, HoldInv,
           \/ \E r \in Runs : \/ PostCheck(r) \/ PostStep(r) \/ GiveUp(r)
                              \/ Interrupt(r) \/ Terminate(r) \/ MarkStopped(r)
           \/ DeleteCheck \/ DeleteWipe \/ DeleteRow
    PROVE  HoldInv'
<1>1. TypeOK
  BY DEF Base
<1>2. UNCHANGED <<tries, pc, mishaps>>
  BY DEF PostCheck, PostStep, PostCreate, PostStart, PostStartFails, PostUpdate, GiveUp,
         Interrupt, Terminate, MarkStopped, DeleteCheck, DeleteWipe, DeleteRow, session,
         server, thread, history
<1>3. \/ billing' = billing
      \/ \E r \in Runs : billing' = Settled(r)
      \/ \E r \in Runs : billing' = [billing EXCEPT ![r] = "pending"]
      \/ billing' = [s \in Runs |-> "none"]
  BY DEF PostCheck, PostStep, PostCreate, PostStart, PostStartFails, PostUpdate, GiveUp,
         Interrupt, Terminate, MarkStopped, DeleteCheck, DeleteWipe, DeleteRow
<1>4. ASSUME NEW s \in Runs, billing'[s] = "authorized"
      PROVE  billing[s] = "authorized"
  BY <1>1, <1>3, <1>4, TypeFacts, SettledFacts
<1>5. QED
  BY <1>2, <1>4 DEF HoldInv, Attended, Unsettled, Abandoned

\* A new attempt will settle the run.
LEMMA StartHold ==
    ASSUME Base, HoldInv, NEW r \in Runs, StartAttempt(r)
    PROVE  HoldInv'
<1>1. TypeOK
  BY DEF Base
<1> DEFINE a == tries[r] + 1
<1>2. /\ a \in Attempts /\ tries' = [tries EXCEPT ![r] = a] /\ Goto(r, a, "begin")
      /\ UNCHANGED <<billing, mishaps>>
  BY StartAttemptFacts DEF StartAttempt, history
<1> HIDE DEF a
<1>3. /\ pc'[r][a] = "begin"
      /\ \A s \in Runs, b \in Attempts : s # r \/ b # a => pc'[s][b] = pc[s][b]
  BY <1>1, <1>2, GotoFacts DEF Steps, LiveSteps, GraphSteps
<1>4. Attended(r)'
  BY <1>2, <1>3 DEF Attended, PreSettle
<1>5. \A s \in Runs : s # r => tries'[s] = tries[s] /\ (tries[s] # 0 => tries[s] \in Attempts)
  BY <1>1, <1>2, TypeFacts, BoundFacts DEF Attempts
<1>6. QED
  BY <1>2, <1>3, <1>4, <1>5 DEF HoldInv, Attended, Unsettled, Abandoned

\* Where the process dies, the last attempt of a run with a hold dies, or is
\* cancelled, or had ended before with a settlement that failed.
LEMMA DeathHold ==
    ASSUME Base, Crash \/ Shutdown
    PROVE  HoldInv'
<1>1. TypeOK
  BY DEF Base
<1>2. /\ UNCHANGED <<billing, tries, mishaps>>
      /\ \A s \in Runs, b \in Attempts :
            \/ pc'[s][b] = pc[s][b] /\ pc[s][b] \notin LiveSteps
            \/ pc'[s][b] \in {"lost", "cancelSettle"} /\ pc[s][b] \in LiveSteps
  BY <1>1, DeathFacts
<1> SUFFICES ASSUME NEW s \in Runs, billing[s] = "authorized"
             PROVE  Attended(s)' \/ Unsettled(s)' \/ Abandoned(s)'
  BY <1>2 DEF HoldInv
<1>3. tries[s] # 0 /\ tries[s] \in Attempts /\ tries[s] <= tries[s]
  BY <1>1, TypeFacts, BoundFacts DEF Attempts, Base, StartInv
<1>4. pc[s][tries[s]] \in Steps \ {"off"}
  BY <1>1, <1>3, TypeFacts DEF Base, StartInv
<1>5. CASE pc[s][tries[s]] \in LiveSteps
  <2>1. pc'[s][tries[s]] \in {"lost", "cancelSettle"}
    BY <1>2, <1>3, <1>5
  <2>2. QED
    BY <1>2, <1>3, <2>1 DEF Attended, Abandoned, PreSettle
<1>6. CASE pc[s][tries[s]] = "lost"
  BY <1>2, <1>3, <1>6, StepSets DEF Abandoned
<1>7. CASE pc[s][tries[s]] = "over"
  <2>1. Over(s) \/ Unsettled(s)
    BY <1>3, <1>7 DEF Base, OverInv
  <2>2. QED
    BY <1>2, <2>1 DEF Over, Unsettled
<1>8. QED
  BY <1>4, <1>5, <1>6, <1>7 DEF Steps

LEMMA NextHold == Base /\ HoldInv /\ [Next]_vars => HoldInv'
<1> SUFFICES ASSUME Base, HoldInv, [Next]_vars PROVE HoldInv'
  OBVIOUS
<1>1. ASSUME NEW r \in Runs, NEW a \in Attempts, RunnerStep(r, a)
      PROVE  HoldInv'
  BY <1>1, RunnerHold
<1>2. ASSUME NEW r \in Runs,
             \/ PostCheck(r) \/ PostStep(r) \/ ServerStep(r)
             \/ Interrupt(r) \/ Terminate(r) \/ MarkStopped(r)
      PROVE  HoldInv'
  BY <1>2, RequestHold, StartHold DEF ServerStep
<1>3. CASE DeleteCheck \/ DeleteWipe \/ DeleteRow
  BY <1>3, RequestHold
<1>4. CASE Crash \/ Shutdown
  BY <1>4, DeathHold
<1>5. CASE UNCHANGED vars
  BY <1>5 DEF vars, HoldInv, Attended, Unsettled, Abandoned
<1>6. QED
  BY <1>1, <1>2, <1>3, <1>4, <1>5 DEF Next

-----------------------------------------------------------------------------
(* A row is left only by the mishaps of Stranding *)

\* The steps that free the row, and those after them.
Closing == {"close", "cancelClose", "failClose"}
Passed == {"save", "ended", "raised"}
PreClose == PreSettle \cup Closing

\* The row does not name the run and its POST will not write it.
Free(r) == row # r /\ post[r] # "started"

Misclosed(r) == <<r, "unclosed">> \in mishaps \/ <<r, "early">> \in mishaps

\* Who has passed the step that frees the row has left it free, but for a mishap.
KeepInv ==
    \A r \in Runs :
        /\ row = r => post[r] = "done"
        /\ \A a \in Attempts : pc[r][a] \in Passed \cup {"over"} => Free(r) \/ Misclosed(r)
        /\ Ended(r) => Free(r) \/ Misclosed(r)

LEMMA KeepSets ==
    /\ PreClose \cup Passed = LiveSteps
    /\ PreClose \cap (Passed \cup {"over", "lost", "off"}) = {}
    /\ {"off", "lost", "over"} \cap LiveSteps = {}
BY DEF PreClose, PreSettle, Closing, Passed, LiveSteps, GraphSteps, HandlerSteps

LEMMA RunNames == "free" \notin Runs /\ "deleted" \notin Runs /\ "none" \notin Runs
BY SessionRunAssumption

\* How a step of an attempt leaves the row when it passes the step that frees it.
Left(r, a) ==
    \/ pc[r][a] \in Passed
    \/ Ended(r)
    \/ <<r, "unclosed">> \in mishaps'
    \/ row' = Freed /\ (post[r] = "started" => <<r, "early">> \in mishaps')

LEMMA RunnerLeave ==
    ASSUME Base, NEW r \in Runs, NEW a \in Attempts, RunnerStep(r, a)
    PROVE  \E step : Effect(r, a, step) /\ (step \in Passed \cup {"over"} => Left(r, a))
<1>1. PICK step : Effect(r, a, step)
  BY RunnerEffect
<1>2. TypeOK /\ pc'[r][a] = step
  BY <1>1, GotoFacts DEF Base, Effect
<1>3. ASSUME NEW s \in Steps, Goto(r, a, s)
      PROVE  step = s
  BY <1>2, <1>3, GotoFacts
<1> SUFFICES ASSUME step \in Passed \cup {"over"} PROVE Left(r, a)
  BY <1>1
<1>4. step \in {"save", "ended", "raised", "over"}
  BY DEF Passed
<1> USE DEF Steps, LiveSteps, GraphSteps, HandlerSteps
<1>5. CASE Begin(r, a)
  <2>1. CASE Decision(r) = "start" /\ Goto(r, a, "frame")
    BY <1>3, <1>4, <2>1
  <2>2. CASE Decision(r) = "resume" /\ Goto(r, a, FirstStep(checkpoint.next))
    <3>1. FirstStep(checkpoint.next) \in {"frame", "work", "settle"}
      BY <1>2, <2>2 DEF Decision, FirstStep, TypeOK
    <3>2. QED
      BY <1>3, <1>4, <2>2, <3>1
  <2>3. CASE Decision(r) = "skip"
    BY <2>3 DEF Decision, Ended, Left
  <2>4. QED
    BY <1>5, <2>1, <2>2, <2>3 DEF Begin
<1>6. CASE Frame(r, a)
  <2>1. step = "framed" \/ step = "settle"
    BY <1>3, <1>6 DEF Frame, WhenRefused
  <2>2. QED
    BY <1>4, <2>1
<1>7. CASE FrameSaved(r, a)
  BY <1>3, <1>4, <1>7 DEF FrameSaved
<1>8. CASE Work(r, a)
  BY <1>3, <1>4, <1>8 DEF Work
<1>9. CASE Reconnect(r, a)
  BY <1>3, <1>4, <1>9 DEF Reconnect
<1>10. CASE Raise(r, a)
  BY <1>3, <1>4, <1>10 DEF Raise
<1>11. CASE Cancelled(r, a)
  BY <1>3, <1>4, <1>11 DEF Cancelled
<1>12. CASE SettleStep(r, a)
  <2>1. AfterSettle(pc[r][a]) \in {"close", "cancelClose", "failClose"}
    BY DEF AfterSettle
  <2>2. Goto(r, a, AfterSettle(pc[r][a]))
    BY <1>12 DEF SettleStep
  <2>3. QED
    BY <1>3, <1>4, <2>1, <2>2
<1>13. CASE CloseStep(r, a)
  <2>1. CASE /\ row' = Freed
             /\ mishaps' = mishaps \cup (IF post[r] = "started" THEN {<<r, "early">>} ELSE {})
    BY <2>1 DEF Left
  <2>2. CASE mishaps' = mishaps \cup {<<r, "unclosed">>}
    BY <2>2 DEF Left
  <2>3. QED
    BY <1>13, <2>1, <2>2 DEF CloseStep
<1>14. CASE CutShort(r, a)
  BY <1>14 DEF CutShort, Left
<1>15. CASE Save(r, a)
  BY <1>15 DEF Save, Left, Passed
<1>16. CASE Report(r, a)
  BY <1>16 DEF Report, Left, Passed
<1>17. QED
  BY <1>5, <1>6, <1>7, <1>8, <1>9, <1>10, <1>11, <1>12, <1>13, <1>14, <1>15, <1>16
     DEF RunnerStep

LEMMA RunnerKeep ==
    ASSUME Base, KeepInv, NEW r \in Runs, NEW a \in Attempts, RunnerStep(r, a)
    PROVE  KeepInv'
<1>1. PICK step : Effect(r, a, step) /\ (step \in Passed \cup {"over"} => Left(r, a))
  BY RunnerLeave
<1>2. /\ pc'[r][a] = step
      /\ \A s \in Runs, b \in Attempts : s # r \/ b # a => pc'[s][b] = pc[s][b]
  BY <1>1, GotoFacts DEF Base, Effect
<1>3. /\ post' = post /\ row' \in {row, Freed} /\ mishaps \subseteq mishaps'
      /\ \A s \in Runs : Ended(s)' => Ended(s) \/ (s = r /\ pc[r][a] = "save")
  BY <1>1 DEF Effect, Ended
<1>4. \A s \in Runs : row' = s => row = s
  BY <1>3, RunNames DEF Freed
<1>5. \A s \in Runs : Free(s) \/ Misclosed(s) => (Free(s) \/ Misclosed(s))'
  BY <1>3, <1>4 DEF Free, Misclosed
<1>6. pc[r][a] \in Passed \/ Ended(r) => Free(r) \/ Misclosed(r)
  BY DEF KeepInv
<1>7. Left(r, a) => (Free(r) \/ Misclosed(r))'
  <2>1. CASE row' = Freed /\ (post[r] = "started" => <<r, "early">> \in mishaps')
    <3>1. row' # r
      BY <2>1, RunNames DEF Freed
    <3>2. QED
      BY <1>3, <2>1, <3>1 DEF Free, Misclosed
  <2>2. QED
    BY <1>5, <1>6, <2>1 DEF Left, Misclosed
<1>8. ASSUME NEW s \in Runs, NEW b \in Attempts, pc'[s][b] \in Passed \cup {"over"}
      PROVE  (Free(s) \/ Misclosed(s))'
  <2>1. CASE s = r /\ b = a
    BY <1>1, <1>2, <1>7, <1>8, <2>1
  <2>2. CASE s # r \/ b # a
    BY <1>2, <1>5, <1>8, <2>2 DEF KeepInv
  <2>3. QED
    BY <2>1, <2>2
<1>9. ASSUME NEW s \in Runs, Ended(s)'
      PROVE  (Free(s) \/ Misclosed(s))'
  BY <1>3, <1>5, <1>6, <1>9 DEF KeepInv, Passed
<1>10. QED
  BY <1>3, <1>4, <1>8, <1>9 DEF KeepInv

\* Only the POST of a run makes the row name it, and it does so before any attempt
\* has passed the step that frees the row, or records that one has.
LEMMA PostKeep ==
    ASSUME Base, KeepInv, NEW r \in Runs, PostStep(r)
    PROVE  KeepInv'
<1>1. TypeOK
  BY DEF Base
<1> USE DEF session, server, thread, history
<1>2. UNCHANGED <<pc, checkpoint, mishaps>>
  BY DEF PostStep, PostCreate, PostStart, PostStartFails, PostUpdate
<1>3. \/ row' = row
      \/ row' = r /\ post[r] = "started" /\ post'[r] = "done"
  BY <1>1, TypeFacts DEF PostStep, PostCreate, PostStart, PostStartFails, PostUpdate
<1>4. /\ \A s \in Runs : s # r => post'[s] = post[s]
      /\ post[r] # "done"
      /\ post'[r] = "started" => post[r] = "created"
  BY <1>1, TypeFacts DEF PostStep, PostCreate, PostStart, PostStartFails, PostUpdate
<1>5. post[r] = "created" =>
          ~Ended(r) /\ \A a \in Attempts : pc[r][a] \notin Passed \cup {"over"}
  <2> SUFFICES ASSUME post[r] = "created"
               PROVE  ~Ended(r) /\ \A a \in Attempts : pc[r][a] = "off"
    BY DEF Passed
  <2>1. tries[r] = 0
    BY DEF Base, StartInv
  <2>2. \A a \in Attempts : ~(a <= 0)
    BY BoundFacts DEF Attempts
  <2>3. QED
    BY <2>1, <2>2 DEF Base, StartInv, Ended
<1>6. ASSUME NEW s \in Runs, Free(s), post'[s] # "started"
      PROVE  Free(s)'
  BY <1>3, <1>6 DEF Free
<1>7. ASSUME NEW s \in Runs, Free(s) \/ Misclosed(s), s # r \/ post[r] # "created"
      PROVE  (Free(s) \/ Misclosed(s))'
  <2>1. CASE Misclosed(s)
    BY <1>2, <2>1 DEF Misclosed
  <2>2. CASE Free(s)
    BY <1>4, <1>6, <1>7, <2>2 DEF Free
  <2>3. QED
    BY <1>7, <2>1, <2>2
<1>8. \A s \in Runs : row' = s => post'[s] = "done"
  BY <1>3, <1>4 DEF KeepInv
<1>9. \A s \in Runs : \A a \in Attempts :
          pc'[s][a] \in Passed \cup {"over"} => (Free(s) \/ Misclosed(s))'
  BY <1>2, <1>5, <1>7 DEF KeepInv
<1>10. \A s \in Runs : Ended(s)' => (Free(s) \/ Misclosed(s))'
  BY <1>2, <1>5, <1>7 DEF KeepInv, Ended
<1>11. QED
  BY <1>8, <1>9, <1>10 DEF KeepInv

\* Any other step writes no run to the row and lets no attempt pass.
LEMMA OtherKeep ==
    ASSUME Base, KeepInv,
           \/ \E r \in Runs : \/ PostCheck(r) \/ ServerStep(r)
                              \/ Interrupt(r) \/ Terminate(r) \/ MarkStopped(r)
           \/ DeleteCheck \/ DeleteWipe \/ DeleteRow \/ Crash \/ Shutdown
           \/ UNCHANGED vars
    PROVE  KeepInv'
<1>1. TypeOK
  BY DEF Base
<1> USE DEF session, server, thread, history
<1>2. checkpoint' = checkpoint /\ mishaps' = mishaps
  BY DEF PostCheck, ServerStep, StartAttempt, GiveUp, Interrupt, Terminate, MarkStopped,
         DeleteCheck, DeleteWipe, DeleteRow, Crash, Shutdown, vars
<1>3. row' \in {row, Freed, "deleted"}
  BY DEF PostCheck, ServerStep, StartAttempt, GiveUp, Interrupt, Terminate, MarkStopped,
         DeleteCheck, DeleteWipe, DeleteRow, Crash, Shutdown, vars
<1>4. \/ post' = post \/ post' = Dropped
      \/ \E r \in Runs : post[r] = "idle" /\ post' = [post EXCEPT ![r] = "checked"]
  BY DEF PostCheck, ServerStep, StartAttempt, GiveUp, Interrupt, Terminate, MarkStopped,
         DeleteCheck, DeleteWipe, DeleteRow, Crash, Shutdown, vars
<1>5. \A s \in Runs : row' = s => row = s
  BY <1>3, RunNames DEF Freed
<1>6. \A s \in Runs : (post[s] = "done" => post'[s] = "done")
                      /\ (post'[s] = "started" => post[s] = "started")
  BY <1>1, <1>4, TypeFacts DEF Dropped
<1>7. ASSUME NEW s \in Runs, NEW b \in Attempts, pc'[s][b] \in Passed \cup {"over"}
      PROVE  pc[s][b] \in Passed \cup {"over"}
  <2>1. CASE \E r \in Runs : StartAttempt(r)
    <3>1. PICK r \in Runs : StartAttempt(r)
      BY <2>1
    <3>2. tries[r] + 1 \in Attempts /\ Goto(r, tries[r] + 1, "begin")
      BY <3>1, StartAttemptFacts
    <3>3. "begin" \in Steps /\ "begin" \notin Passed \cup {"over"}
      BY DEF Steps, LiveSteps, GraphSteps, Passed
    <3>4. QED
      BY <1>1, <1>7, <3>2, <3>3, GotoFacts
  <2>2. CASE Crash \/ Shutdown
    BY <1>1, <1>7, <2>2, DeathFacts DEF Passed
  <2>3. CASE pc' = pc
    BY <1>7, <2>3
  <2>4. QED
    BY <2>1, <2>2, <2>3
       DEF PostCheck, ServerStep, GiveUp, Interrupt, Terminate, MarkStopped,
           DeleteCheck, DeleteWipe, DeleteRow, vars
<1>8. \A s \in Runs : Free(s) \/ Misclosed(s) => (Free(s) \/ Misclosed(s))'
  BY <1>2, <1>5, <1>6 DEF Free, Misclosed
<1>9. \A s \in Runs : row' = s => post'[s] = "done"
  BY <1>5, <1>6 DEF KeepInv
<1>10. \A s \in Runs : Ended(s)' => (Free(s) \/ Misclosed(s))'
  BY <1>2, <1>8 DEF KeepInv, Ended
<1>11. QED
  BY <1>7, <1>8, <1>9, <1>10 DEF KeepInv

LEMMA NextKeep == Base /\ KeepInv /\ [Next]_vars => KeepInv'
<1> SUFFICES ASSUME Base, KeepInv, [Next]_vars PROVE KeepInv'
  OBVIOUS
<1>1. ASSUME NEW r \in Runs, NEW a \in Attempts, RunnerStep(r, a)
      PROVE  KeepInv'
  BY <1>1, RunnerKeep
<1>2. ASSUME NEW r \in Runs, PostStep(r)
      PROVE  KeepInv'
  BY <1>2, PostKeep
<1>3. CASE \/ \E r \in Runs : \/ PostCheck(r) \/ ServerStep(r)
                              \/ Interrupt(r) \/ Terminate(r) \/ MarkStopped(r)
           \/ DeleteCheck \/ DeleteWipe \/ DeleteRow \/ Crash \/ Shutdown
           \/ UNCHANGED vars
  BY <1>3, OtherKeep
<1>4. QED
  BY <1>1, <1>2, <1>3 DEF Next

LEMMA InitKeep == Init => HoldInv /\ KeepInv
<1> SUFFICES ASSUME Init PROVE HoldInv /\ KeepInv
  OBVIOUS
<1>1. \A r \in Runs : row # r /\ ~Ended(r)
  BY RunNames DEF Init, Ended
<1>2. QED
  BY <1>1 DEF Init, HoldInv, KeepInv, Passed

-----------------------------------------------------------------------------
(* Only retries work unbilled *)

\* The steps before an attempt settles.
Early == {"begin", "frame", "framed", "work"}

\* An attempt that may be ahead of its settlement though the run was settled.
MayWork(r, a) == post[r] = "failed" \/ tries[r] > 1 \/ <<r, a>> \in retried

WorkInv ==
    \A r \in Runs :
        /\ billing[r] = "closed" =>
              /\ tries[r] = 0 => post[r] = "failed"
              /\ \A a \in Attempts : pc[r][a] \in Early => MayWork(r, a)
        /\ billing[r] = "pending" =>
              /\ \A a \in Attempts : pc[r][a] \notin {"framed", "work"}
              /\ ~(checkpoint.run = r /\ checkpoint.next = "work")
        /\ billing[r] = "none" /\ (post[r] \in {"created", "started", "done"} \/ flow[r] # "none")
              => row = "deleted"

LEMMA EarlyFacts ==
    ASSUME Base, WorkInv, NEW r \in Runs, NEW a \in Attempts, RunnerStep(r, a)
    PROVE  \E step :
             /\ Effect(r, a, step)
             /\ step \in Early => /\ pc[r][a] \in Early \/ <<r, a>> \in retried'
                                  /\ billing' = billing \/ billing'[r] = "authorized"
             /\ step \in {"framed", "work"} => billing'[r] # "pending"
             /\ checkpoint' = [run |-> r, next |-> "work"] => billing'[r] # "pending"
<1>1. PICK step : Effect(r, a, step)
  BY RunnerEffect
<1>2. TypeOK /\ pc'[r][a] = step
  BY <1>1, GotoFacts DEF Base, Effect
<1>3. ASSUME NEW s \in Steps, Goto(r, a, s)
      PROVE  step = s
  BY <1>2, <1>3, GotoFacts
<1>4. /\ billing \in [Runs -> {"none", "pending", "authorized", "closed"}]
      /\ checkpoint.next \in {"frame", "work", "finalize", "end"}
  BY <1>2 DEF TypeOK
<1>5. pc[r][a] \in {"framed", "work"} \/ (checkpoint.run = r /\ checkpoint.next = "work")
          => billing[r] # "pending"
  BY DEF WorkInv
<1> SUFFICES /\ step \in Early => /\ pc[r][a] \in Early \/ <<r, a>> \in retried'
                                  /\ billing' = billing \/ billing'[r] = "authorized"
             /\ step \in {"framed", "work"} => billing'[r] # "pending"
             /\ checkpoint' = [run |-> r, next |-> "work"] => billing'[r] # "pending"
  BY <1>1
<1> USE DEF Early, Steps, LiveSteps, GraphSteps, HandlerSteps
<1>6. CASE Begin(r, a)
  <2>1. pc[r][a] = "begin" /\ billing' = billing
    BY <1>6 DEF Begin
  <2>2. CASE Decision(r) = "start" /\ Goto(r, a, "frame")
             /\ checkpoint' = [run |-> r, next |-> "frame"]
    BY <1>3, <2>1, <2>2
  <2>3. CASE Decision(r) = "resume" /\ Goto(r, a, FirstStep(checkpoint.next))
             /\ checkpoint' = checkpoint
    <3>1. checkpoint.run = r /\ FirstStep(checkpoint.next) \in {"frame", "work", "settle"}
      BY <1>4, <2>3 DEF Decision, FirstStep
    <3>2. step = "work" => checkpoint.next = "work"
      BY <1>3, <1>4, <2>3, <3>1 DEF FirstStep
    <3>3. step # "framed"
      BY <1>3, <2>3, <3>1
    <3>4. QED
      BY <1>5, <2>1, <2>3, <3>1, <3>2, <3>3
  <2>4. CASE Decision(r) = "skip" /\ Goto(r, a, "ended") /\ checkpoint' = checkpoint
    BY <1>3, <1>5, <2>1, <2>4
  <2>5. QED
    BY <1>6, <2>2, <2>3, <2>4 DEF Begin
<1>7. CASE Frame(r, a)
  <2>1. CASE billing' = [billing EXCEPT ![r] = IF @ = "pending" THEN "authorized" ELSE @]
             /\ Goto(r, a, "framed") /\ UNCHANGED checkpoint
    <3>1. billing'[r] # "pending" /\ (billing' = billing \/ billing'[r] = "authorized")
      BY <1>4, <2>1
    <3>2. pc[r][a] = "frame"
      BY <1>7 DEF Frame
    <3>3. QED
      BY <3>1, <3>2
  <2>2. CASE checkpoint' = [run |-> r, next |-> "finalize"] /\ Goto(r, a, WhenRefused)
             /\ UNCHANGED billing
    BY <1>3, <2>2 DEF WhenRefused
  <2>3. QED
    BY <1>7, <2>1, <2>2 DEF Frame
<1>8. CASE FrameSaved(r, a)
  BY <1>3, <1>5, <1>8 DEF FrameSaved
<1>9. CASE Work(r, a)
  BY <1>3, <1>9 DEF Work
<1>10. CASE Reconnect(r, a)
  BY <1>3, <1>5, <1>10 DEF Reconnect
<1>11. CASE Raise(r, a)
  BY <1>3, <1>5, <1>11 DEF Raise, thread
<1>12. CASE Cancelled(r, a)
  BY <1>3, <1>5, <1>12 DEF Cancelled, thread
<1>13. CASE SettleStep(r, a)
  <2>1. AfterSettle(pc[r][a]) \in {"close", "cancelClose", "failClose"}
    BY DEF AfterSettle
  <2>2. Goto(r, a, AfterSettle(pc[r][a])) /\ checkpoint' = checkpoint
    BY <1>13 DEF SettleStep, thread
  <2>3. billing'[r] = "pending" => billing[r] = "pending"
    BY <1>2, <1>13, SettledFacts DEF SettleStep
  <2>4. QED
    BY <1>3, <1>5, <2>1, <2>2, <2>3
<1>14. CASE CloseStep(r, a)
  <2>1. AfterClose(pc[r][a]) \in {"save", "raised", "ended"}
    BY DEF AfterClose
  <2>2. Goto(r, a, AfterClose(pc[r][a])) /\ checkpoint' = checkpoint /\ billing' = billing
    BY <1>14 DEF CloseStep, thread
  <2>3. QED
    BY <1>3, <1>5, <2>1, <2>2
<1>15. CASE CutShort(r, a)
  BY <1>3, <1>5, <1>15 DEF CutShort, thread
<1>16. CASE Save(r, a)
  BY <1>3, <1>16 DEF Save
<1>17. CASE Report(r, a)
  BY <1>3, <1>5, <1>17 DEF Report, thread
<1>18. QED
  BY <1>6, <1>7, <1>8, <1>9, <1>10, <1>11, <1>12, <1>13, <1>14, <1>15, <1>16, <1>17
     DEF RunnerStep

LEMMA RunnerWork ==
    ASSUME Base, WorkInv, NEW r \in Runs, NEW a \in Attempts, RunnerStep(r, a)
    PROVE  WorkInv'
<1>1. PICK step :
         /\ Effect(r, a, step)
         /\ step \in Early => /\ pc[r][a] \in Early \/ <<r, a>> \in retried'
                              /\ billing' = billing \/ billing'[r] = "authorized"
         /\ step \in {"framed", "work"} => billing'[r] # "pending"
         /\ checkpoint' = [run |-> r, next |-> "work"] => billing'[r] # "pending"
  BY EarlyFacts
<1>2. TypeOK
  BY DEF Base
<1>3. /\ pc'[r][a] = step /\ pc[r][a] # "off" /\ step # "off"
      /\ \A s \in Runs, b \in Attempts : s # r \/ b # a => pc'[s][b] = pc[s][b]
  BY <1>1, <1>2, GotoFacts, StepSets DEF Effect
<1>4. /\ post' = post /\ tries' = tries /\ retried \subseteq retried'
      /\ row = "deleted" => row' = "deleted"
  BY <1>1 DEF Effect, Freed
<1>5. /\ \A s \in Runs : s # r => billing'[s] = billing[s] /\ flow'[s] = flow[s]
      /\ flow[r] = "none" => flow'[r] = "none" \/ tries[r] # 0
      /\ billing'[r] = "pending" => billing[r] = "pending"
      /\ billing'[r] = "none" <=> billing[r] = "none"
  <2>1. \A s \in Runs : s # r => billing'[s] = billing[s]
    BY <1>1, <1>2, BillingEffect
  <2>2. /\ billing'[r] = "pending" => billing[r] = "pending"
        /\ billing'[r] = "none" <=> billing[r] = "none"
    BY <1>1, <1>2, TypeFacts DEF Effect, Settled
  <2>3. /\ \A s \in Runs : s # r => flow'[s] = flow[s]
        /\ flow[r] = "none" => flow'[r] = "none" \/ tries[r] # 0
    <3>1. a <= tries[r] /\ a \in Nat /\ a >= 1
      BY <1>3, BoundFacts DEF Base, StartInv, Attempts
    <3>2. QED
      BY <1>1, <1>2, <3>1, TypeFacts DEF Effect
  <2>4. QED
    BY <2>1, <2>2, <2>3
<1>6. a <= tries[r] /\ a \in Nat /\ a >= 1 /\ tries[r] \in Nat
  BY <1>2, <1>3, TypeFacts, BoundFacts DEF Base, StartInv, Attempts
<1>7. ASSUME NEW s \in Runs, billing'[s] = "closed", NEW b \in Attempts, pc'[s][b] \in Early
      PROVE  MayWork(s, b)'
  <2>1. CASE s # r
    BY <1>3, <1>4, <1>5, <1>7, <2>1 DEF WorkInv, MayWork
  <2>2. CASE s = r /\ b = a
    <3>1. step \in Early
      BY <1>3, <1>7, <2>2
    <3>2. billing[r] = "closed"
      BY <1>1, <1>7, <2>2, <3>1
    <3>3. QED
      BY <1>1, <1>4, <2>2, <3>1, <3>2 DEF WorkInv, MayWork
  <2>3. CASE s = r /\ b # a
    <3>1. pc[r][b] # "off" /\ b \in Nat /\ b >= 1
      BY <1>3, <1>7, <2>3, BoundFacts DEF Early, Attempts
    <3>2. b <= tries[r]
      BY <3>1 DEF Base, StartInv
    <3>3. tries[r] > 1
      BY <1>6, <2>3, <3>1, <3>2
    <3>4. QED
      BY <1>4, <2>3, <3>3 DEF MayWork
  <2>4. QED
    BY <2>1, <2>2, <2>3
<1>8. ASSUME NEW s \in Runs, billing'[s] = "closed", tries'[s] = 0
      PROVE  post'[s] = "failed"
  BY <1>4, <1>5, <1>6, <1>8 DEF WorkInv
<1>9. ASSUME NEW s \in Runs, billing'[s] = "pending"
      PROVE  /\ \A b \in Attempts : pc'[s][b] \notin {"framed", "work"}
             /\ ~(checkpoint'.run = s /\ checkpoint'.next = "work")
  <2>1. billing[s] = "pending"
    BY <1>5, <1>9
  <2>2. ~(checkpoint.run = s /\ checkpoint.next = "work")
    BY <2>1 DEF WorkInv
  <2>3. ~(checkpoint'.run = s /\ checkpoint'.next = "work")
    BY <1>1, <1>9, <2>2 DEF Effect
  <2>4. \A b \in Attempts : pc'[s][b] \notin {"framed", "work"}
    BY <1>1, <1>3, <1>9, <2>1 DEF WorkInv
  <2>5. QED
    BY <2>3, <2>4
<1>10. ASSUME NEW s \in Runs, billing'[s] = "none",
              post'[s] \in {"created", "started", "done"} \/ flow'[s] # "none"
       PROVE  row' = "deleted"
  <2>1. billing[s] = "none"
    BY <1>5, <1>10
  <2>2. post[s] \in {"created", "started", "done"} \/ flow[s] # "none"
    BY <1>4, <1>5, <1>6, <1>10 DEF Base, StartInv
  <2>3. QED
    BY <1>4, <2>1, <2>2 DEF WorkInv
<1>11. QED
  BY <1>7, <1>8, <1>9, <1>10 DEF WorkInv

\* A POST puts a run's billing on the way before its workflow, and closes it only
\* when it fails.
LEMMA PostWork ==
    ASSUME Base, WorkInv, NEW r \in Runs, PostStep(r)
    PROVE  WorkInv'
<1>1. TypeOK
  BY DEF Base
<1> USE DEF session, server, thread, history
<1>2. UNCHANGED <<pc, tries, checkpoint, retried>>
  BY DEF PostStep, PostCreate, PostStart, PostStartFails, PostUpdate
<1>3. /\ row = "deleted" => row' = "deleted"
      /\ \A s \in Runs : s # r => /\ post'[s] = post[s] /\ billing'[s] = billing[s]
                                  /\ flow'[s] = flow[s]
  BY <1>1, TypeFacts DEF PostStep, PostCreate, PostStart, PostStartFails, PostUpdate, Settled
<1>4. post[r] \in {"checked", "created"} =>
          tries[r] = 0 /\ flow[r] = "none" /\ checkpoint.run # r
          /\ \A a \in Attempts : pc[r][a] = "off"
  <2>1. \A a \in Attempts : ~(a <= 0)
    BY BoundFacts DEF Attempts
  <2>2. QED
    BY <2>1 DEF Base, StartInv
<1>5. /\ post[r] = "failed" => post'[r] = "failed"
      /\ \/ billing'[r] = billing[r]
         \/ post[r] = "checked" /\ billing'[r] = "pending"
         \/ post'[r] = "failed" /\ billing'[r] = "closed"
      /\ billing'[r] = "none" /\ (post'[r] \in {"created", "started", "done"} \/ flow'[r] # "none")
           => \/ post[r] \in {"created", "started", "done"}
              \/ flow[r] # "none"
  BY <1>1, TypeFacts DEF PostStep, PostCreate, PostStart, PostStartFails, PostUpdate, Settled
<1>6. ASSUME NEW s \in Runs, billing'[s] = "closed"
      PROVE  /\ tries'[s] = 0 => post'[s] = "failed"
             /\ \A a \in Attempts : pc'[s][a] \in Early => MayWork(s, a)'
  <2>1. CASE s = r /\ post'[r] = "failed"
    BY <2>1 DEF MayWork
  <2>2. CASE billing'[s] = billing[s] /\ (post[s] = "failed" => post'[s] = "failed")
    BY <1>2, <1>6, <2>2 DEF WorkInv, MayWork
  <2>3. QED
    BY <1>3, <1>5, <1>6, <2>1, <2>2
<1>7. ASSUME NEW s \in Runs, billing'[s] = "pending"
      PROVE  /\ \A a \in Attempts : pc'[s][a] \notin {"framed", "work"}
             /\ ~(checkpoint'.run = s /\ checkpoint'.next = "work")
  <2>1. CASE s = r /\ post[r] = "checked"
    BY <1>2, <1>4, <2>1
  <2>2. CASE billing[s] = "pending"
    BY <1>2, <2>2 DEF WorkInv
  <2>3. QED
    BY <1>3, <1>5, <1>7, <2>1, <2>2
<1>8. ASSUME NEW s \in Runs, billing'[s] = "none",
             post'[s] \in {"created", "started", "done"} \/ flow'[s] # "none"
      PROVE  row' = "deleted"
  <2>1. billing[s] = "none" /\ (post[s] \in {"created", "started", "done"} \/ flow[s] # "none")
    BY <1>3, <1>5, <1>8
  <2>2. QED
    BY <1>3, <2>1 DEF WorkInv
<1>9. QED
  BY <1>6, <1>7, <1>8 DEF WorkInv

LEMMA StartWork ==
    ASSUME Base, WorkInv, NEW r \in Runs, StartAttempt(r)
    PROVE  WorkInv'
<1>1. TypeOK
  BY DEF Base
<1> DEFINE a == tries[r] + 1
<1>2. /\ a \in Attempts /\ tries[r] \in Nat /\ tries' = [tries EXCEPT ![r] = a]
      /\ Goto(r, a, "begin")
      /\ UNCHANGED <<row, post, billing, flow, checkpoint, retried>>
  BY StartAttemptFacts DEF StartAttempt, session, thread
<1>3. /\ pc'[r][a] = "begin"
      /\ \A s \in Runs, b \in Attempts : s # r \/ b # a => pc'[s][b] = pc[s][b]
  <2>1. "begin" \in Steps
    BY DEF Steps, LiveSteps, GraphSteps
  <2> HIDE DEF a
  <2>2. QED
    BY <1>1, <1>2, <2>1, GotoFacts
<1>4. /\ tries'[r] = a /\ a # 0 /\ (tries[r] # 0 => a > 1)
      /\ \A s \in Runs : s # r => tries'[s] = tries[s]
  <2>1. a # 0 /\ (tries[r] # 0 => a > 1)
    BY <1>2
  <2> HIDE DEF a
  <2>2. tries'[r] = a /\ \A s \in Runs : s # r => tries'[s] = tries[s]
    BY <1>1, <1>2, TypeFacts
  <2>3. QED
    BY <2>1, <2>2
<1>5. ASSUME NEW s \in Runs, billing[s] = "closed"
      PROVE  /\ tries'[s] = 0 => post[s] = "failed"
             /\ \A b \in Attempts : pc'[s][b] \in Early => MayWork(s, b)'
  <2>1. CASE s = r
    <3>1. post[r] = "failed" \/ tries'[r] > 1
      BY <1>4, <1>5, <2>1 DEF WorkInv
    <3>2. QED
      BY <1>2, <1>4, <2>1, <3>1 DEF MayWork
  <2>2. CASE s # r
    BY <1>2, <1>3, <1>4, <1>5, <2>2 DEF WorkInv, MayWork
  <2>3. QED
    BY <2>1, <2>2
<1>6. ASSUME NEW s \in Runs, billing[s] = "pending", NEW b \in Attempts
      PROVE  pc'[s][b] \notin {"framed", "work"}
  BY <1>3, <1>6 DEF WorkInv
<1>7. QED
  BY <1>2, <1>5, <1>6 DEF WorkInv

\* No other step lets an attempt get ahead, opens a run or closes its billing.
LEMMA OtherWork ==
    ASSUME Base, WorkInv,
           \/ \E r \in Runs : \/ PostCheck(r) \/ GiveUp(r)
                              \/ Interrupt(r) \/ Terminate(r) \/ MarkStopped(r)
           \/ DeleteCheck \/ DeleteWipe \/ DeleteRow \/ Crash \/ Shutdown
           \/ UNCHANGED vars
    PROVE  WorkInv'
<1>1. TypeOK
  BY DEF Base
<1> USE DEF session, server, thread, history
<1>2. /\ UNCHANGED <<tries, checkpoint, retried>>
      /\ \/ billing' = billing
         \/ row' = "deleted" /\ billing' = [r \in Runs |-> "none"]
      /\ row = "deleted" => row' = "deleted"
  BY DEF PostCheck, GiveUp, Interrupt, Terminate, MarkStopped,
         DeleteCheck, DeleteWipe, DeleteRow, Crash, Shutdown, vars, Freed
<1>3. \/ post' = post \/ post' = Dropped
      \/ \E r \in Runs : post[r] = "idle" /\ post' = [post EXCEPT ![r] = "checked"]
  BY DEF PostCheck, GiveUp, Interrupt, Terminate, MarkStopped,
         DeleteCheck, DeleteWipe, DeleteRow, Crash, Shutdown, vars
<1>4. \/ flow' = flow
      \/ \E r \in Runs : flow[r] = "open" /\ flow' = [flow EXCEPT ![r] = "closed"]
  BY DEF PostCheck, GiveUp, Interrupt, Terminate, MarkStopped,
         DeleteCheck, DeleteWipe, DeleteRow, Crash, Shutdown, vars
<1>5. /\ \A s \in Runs : /\ post[s] = "failed" => post'[s] = "failed"
                         /\ post'[s] \in {"created", "started", "done"} => post'[s] = post[s]
      /\ \A s \in Runs : flow'[s] # "none" => flow[s] # "none"
  BY <1>1, <1>3, <1>4, TypeFacts DEF Dropped
<1>6. \A s \in Runs, b \in Attempts : pc'[s][b] \in Early => pc'[s][b] = pc[s][b]
  <2>1. CASE Crash \/ Shutdown
    BY <1>1, <2>1, DeathFacts DEF Early
  <2>2. CASE pc' = pc
    BY <2>2
  <2>3. QED
    BY <2>1, <2>2 DEF PostCheck, GiveUp, Interrupt, Terminate, MarkStopped,
         DeleteCheck, DeleteWipe, DeleteRow, vars
<1>7. CASE billing' = billing
  <2>1. ASSUME NEW s \in Runs, billing[s] = "closed"
        PROVE  /\ tries'[s] = 0 => post'[s] = "failed"
               /\ \A a \in Attempts : pc'[s][a] \in Early => MayWork(s, a)'
    BY <1>2, <1>5, <1>6, <2>1 DEF WorkInv, MayWork
  <2>2. ASSUME NEW s \in Runs, billing[s] = "pending"
        PROVE  /\ \A a \in Attempts : pc'[s][a] \notin {"framed", "work"}
               /\ ~(checkpoint'.run = s /\ checkpoint'.next = "work")
    BY <1>2, <1>6, <2>2 DEF WorkInv, Early
  <2>3. ASSUME NEW s \in Runs, billing[s] = "none",
               post'[s] \in {"created", "started", "done"} \/ flow'[s] # "none"
        PROVE  row' = "deleted"
    BY <1>2, <1>5, <2>3 DEF WorkInv
  <2>4. QED
    BY <1>7, <2>1, <2>2, <2>3 DEF WorkInv
<1>8. CASE row' = "deleted" /\ billing' = [r \in Runs |-> "none"]
  BY <1>8 DEF WorkInv
<1>9. QED
  BY <1>2, <1>7, <1>8

LEMMA NextWork == Base /\ WorkInv /\ [Next]_vars => WorkInv'
<1> SUFFICES ASSUME Base, WorkInv, [Next]_vars PROVE WorkInv'
  OBVIOUS
<1>1. ASSUME NEW r \in Runs, NEW a \in Attempts, RunnerStep(r, a)
      PROVE  WorkInv'
  BY <1>1, RunnerWork
<1>2. ASSUME NEW r \in Runs, PostStep(r)
      PROVE  WorkInv'
  BY <1>2, PostWork
<1>3. ASSUME NEW r \in Runs, StartAttempt(r)
      PROVE  WorkInv'
  BY <1>3, StartWork
<1>4. CASE \/ \E r \in Runs : \/ PostCheck(r) \/ GiveUp(r)
                              \/ Interrupt(r) \/ Terminate(r) \/ MarkStopped(r)
           \/ DeleteCheck \/ DeleteWipe \/ DeleteRow \/ Crash \/ Shutdown
           \/ UNCHANGED vars
  BY <1>4, OtherWork
<1>5. QED
  BY <1>1, <1>2, <1>3, <1>4 DEF Next, ServerStep

LEMMA InitWork == Init => WorkInv
BY DEF Init, WorkInv, Early

-----------------------------------------------------------------------------

LEMMA BaseInvariant == Spec => []Base
BY InitBase, NextBase, PTL DEF Spec

LEMMA KeepInvariant == Spec => [](Base /\ HoldInv /\ KeepInv)
BY InitBase, InitKeep, NextBase, NextHold, NextKeep, PTL DEF Spec

\* Types, whatever disturbs the runs.
THEOREM RunTyped == Spec => []TypeOK
<1>1. Base => TypeOK
  BY DEF Base
<1>2. QED
  BY <1>1, BaseInvariant, PTL

\* When a run is over, so is its hold, whatever disturbs the runs: finalize and
\* both handlers of the runner settle first (nodes/finalize.py, graph/runner.py),
\* and what can leave a hold to lapse is a last attempt that died or a settlement
\* that failed or was cut short, and nothing else.
THEOREM HoldsEnd == Spec => []NoStrayHold
<1>1. \A r \in Runs : Attended(r) => Live(r)
  BY StepSets DEF Attended, Live
<1>2. HoldInv => NoStrayHold
  BY <1>1 DEF HoldInv, NoStrayHold, Unsettled
<1>3. QED
  BY <1>2, KeepInvariant, PTL

\* A row that names a run has somebody to free it, whatever disturbs the runs,
\* unless one of the four mishaps of Stranding happened to that very run: a last
\* attempt that died, a workflow cancelled before its first attempt, an update of
\* the row that failed or was cut short, a run that closed before its POST wrote
\* the row.
THEOREM RowsKeepRunners == Spec => []OnlyMishapsStrand
<1>1. ASSUME Base, KeepInv, NEW r \in Runs, row = r
      PROVE  HasRunner(r) \/ Stranding(r)
  <2>1. flow[r] \in {"open", "closed"}
    BY <1>1, TypeFacts DEF Base, StartInv, KeepInv
  <2>2. CASE flow[r] = "open"
    BY <2>2 DEF HasRunner
  <2>3. CASE flow[r] = "closed" /\ tries[r] = 0
    BY <2>3 DEF Stranding, Unstarted
  <2>4. CASE tries[r] # 0
    <3>1. tries[r] \in Attempts /\ tries[r] <= tries[r]
      BY <1>1, <2>4, TypeFacts, BoundFacts DEF Attempts, Base
    <3>2. pc[r][tries[r]] \in LiveSteps \cup {"lost", "over"}
      BY <1>1, <3>1, TypeFacts DEF Base, StartInv, Steps
    <3>3. CASE pc[r][tries[r]] \in LiveSteps
      BY <3>1, <3>3 DEF HasRunner, Live
    <3>4. CASE pc[r][tries[r]] = "lost"
      BY <2>4, <3>4 DEF Stranding, Abandoned
    <3>5. CASE pc[r][tries[r]] = "over"
      BY <1>1, <3>1, <3>5 DEF KeepInv, Free, Misclosed, Stranding
    <3>6. QED
      BY <3>2, <3>3, <3>4, <3>5
  <2>5. QED
    BY <2>1, <2>2, <2>3, <2>4
<1>2. Base /\ KeepInv => OnlyMishapsStrand
  BY <1>1 DEF OnlyMishapsStrand
<1>3. QED
  BY <1>2, KeepInvariant, PTL

\* Nothing plans or executes before the run's points are on hold, and after the
\* hold was settled only a retry does, or a run whose POST failed although its
\* workflow had started (task_frame authorises first, and a closed run goes on
\* unbilled), whatever disturbs the runs.
THEOREM WorkAuthorized == Spec => []OnlyRetriesWorkUnbilled
<1>1. ASSUME Base, WorkInv, NEW r \in Runs, NEW a \in Attempts, pc[r][a] = "work"
      PROVE  CASE billing[r] = "authorized" -> TRUE
               [] billing[r] = "closed" ->
                    post[r] = "failed" \/ tries[r] > 1 \/ <<r, a>> \in retried
               [] billing[r] = "none" -> row = "deleted"
               [] billing[r] = "pending" -> FALSE
  <2>1. billing[r] \in {"none", "pending", "authorized", "closed"}
    BY <1>1, TypeFacts DEF Base
  <2>2. billing[r] # "pending"
    BY <1>1 DEF WorkInv
  <2>3. billing[r] = "closed" => MayWork(r, a)
    BY <1>1 DEF WorkInv, Early
  <2>4. billing[r] = "none" => row = "deleted"
    <3>1. a <= tries[r] /\ a \in Nat /\ a >= 1
      BY <1>1, BoundFacts DEF Base, StartInv, Attempts
    <3>2. flow[r] # "none"
      BY <1>1, <3>1 DEF Base, StartInv
    <3>3. QED
      BY <1>1, <3>2 DEF WorkInv
  <2>5. QED
    BY <2>1, <2>2, <2>3, <2>4 DEF MayWork
<1>2. Base /\ WorkInv => OnlyRetriesWorkUnbilled
  BY <1>1 DEF OnlyRetriesWorkUnbilled
<1>3. QED
  BY <1>2, InitBase, InitWork, NextBase, NextWork, PTL DEF Spec

-----------------------------------------------------------------------------
(* A session without a second message has one run *)

LEMMA EventsStay ==
    ASSUME Base, [Next]_vars
    PROVE  events' = events
<1>1. ASSUME NEW r \in Runs, NEW a \in Attempts, RunnerStep(r, a)
      PROVE  events' = events
  BY <1>1, RunnerEffect DEF Effect
<1>2. QED
  BY <1>1 DEF Next, vars, PostCheck, PostStep, PostCreate, PostStart, PostStartFails,
              PostUpdate, ServerStep, StartAttempt, GiveUp, Interrupt, Terminate,
              MarkStopped, DeleteCheck, DeleteWipe, DeleteRow, Crash, Shutdown

\* Without a second message the session has one run only.
LoneInv ==
    "another" \notin events =>
        \A r, s \in Runs : post[r] # "idle" /\ post[s] # "idle" => r = s

LEMMA StartedPosted ==
    ASSUME Base, NEW r \in Runs
    PROVE  /\ checkpoint.run = r => post[r] # "idle"
           /\ \A a \in Attempts : pc[r][a] \in LiveSteps => post[r] # "idle"
<1>1. tries[r] # 0 => post[r] # "idle"
  BY DEF Base, StartInv
<1>2. ASSUME NEW a \in Attempts, pc[r][a] \in LiveSteps
      PROVE  tries[r] # 0
  <2>1. a <= tries[r] /\ ~(a <= 0)
    BY <1>2, BoundFacts DEF Base, StartInv, LiveSteps, GraphSteps, HandlerSteps, Attempts
  <2>2. QED
    BY <2>1
<1>3. QED
  BY <1>1, <1>2 DEF Base, StartInv

\* Only the check of a POST makes a message of a run, and without "another" only
\* the first one passes.
LEMMA NextLone ==
    ASSUME Base, LoneInv, [Next]_vars
    PROVE  LoneInv'
<1>1. post \in [Runs -> {"idle", "checked", "created", "started", "done", "failed"}]
  BY DEF Base, TypeOK
<1>2. events' = events
  BY EventsStay
<1>3. ASSUME NEW r \in Runs, PostCheck(r)
      PROVE  LoneInv'
  <2>1. post' = [post EXCEPT ![r] = "checked"] /\ MayPost
    BY <1>3 DEF PostCheck
  <2>2. \A s \in Runs : s # r => post'[s] = post[s]
    BY <1>1, <2>1
  <2>3. QED
    BY <1>2, <2>1, <2>2 DEF LoneInv, MayPost
<1>4. ASSUME \A s \in Runs : post'[s] # "idle" => post[s] # "idle"
      PROVE  LoneInv'
  BY <1>2, <1>4 DEF LoneInv
<1>5. ASSUME NEW r \in Runs, PostStep(r)
      PROVE  \A s \in Runs : post'[s] # "idle" => post[s] # "idle"
  <2>1. post[r] # "idle" /\ \E w \in {"created", "started", "done", "failed"} :
                                post' = [post EXCEPT ![r] = w]
    BY <1>5 DEF PostStep, PostCreate, PostStart, PostStartFails, PostUpdate
  <2>2. QED
    BY <1>1, <2>1
<1>6. ASSUME NEW r \in Runs, NEW a \in Attempts, RunnerStep(r, a)
      PROVE  post' = post
  BY <1>6, RunnerEffect DEF Effect
<1>7. CASE Crash
  BY <1>1, <1>4, <1>7 DEF Crash, Dropped
<1>8. QED
  BY <1>3, <1>4, <1>5, <1>6, <1>7
     DEF Next, vars, ServerStep, StartAttempt, GiveUp, Interrupt, Terminate, MarkStopped,
         DeleteCheck, DeleteWipe, DeleteRow, Shutdown, session

LEMMA LoneInvariant == Spec => [](Base /\ LoneInv)
<1>1. Init => LoneInv
  BY DEF Init, LoneInv
<1>2. Base /\ LoneInv /\ [Next]_vars => LoneInv'
  BY NextLone
<1>3. QED
  BY <1>1, <1>2, BaseInvariant, PTL DEF Spec

-----------------------------------------------------------------------------
(* Runs of a session exclude each other while requests come one after the other *)

\* A user may post any number of messages, interrupt at any time and delete, a run
\* may close before its POST wrote the row, and updates of the row and settlements
\* may fail.
CalmEvents == {"another", "interrupt", "earlyInterrupt", "delete", "slowUpdate", "dbErrors"}

\* No two requests of the session overlap, no workflow is terminated, every call
\* of a POST is answered, no cancellation comes after the row was closed, and the
\* process, its attempts and its connections live.
Calm == events \subseteq CalmEvents

Posting(r) == post[r] \in {"checked", "created", "started"}
Waiting(r) == flow[r] = "open" /\ tries[r] = 0

Busy(r) == Waiting(r) \/ pc[r][1] \in PreClose

CancelSteps == {"cancelSettle", "cancelClose", "raised", "over"}

\* A run has one attempt; one that was cancelled has no open workflow.
AttemptInv ==
    \A r \in Runs :
        /\ \A a \in Attempts : a # 1 => pc[r][a] = "off"
        /\ tries[r] \in {0, 1}
        /\ pc[r][1] # "lost"
        /\ flow[r] = "open" => pc[r][1] \notin CancelSteps

\* The row stands for whoever is busy; it is free for one who posts or deletes.
RowInv ==
    /\ stopping = {}
    /\ \A r, s \in Runs : Posting(r) /\ Posting(s) => r = s
    /\ \A r \in Runs : Posting(r) => row = "free" /\ deleting \notin {"checked", "wiped"}
    /\ \A r \in Runs : Busy(r) => row = r \/ post[r] = "started"
    /\ deleting \in {"checked", "wiped"} => row = "free"

CalmInv == AttemptInv /\ RowInv /\ retried = {}

LEMMA CalmFacts ==
    ASSUME Calm, TypeOK
    PROVE  /\ events \cap {"overlap", "lateCancel", "terminate", "postFails", "dbLost",
                           "emitFails", "stall", "crash", "shutdown"} = {}
           /\ 1 \in Attempts
<1>1. events \subseteq CalmEvents
  BY DEF Calm
<1>2. 1 \in Attempts
  BY BoundFacts DEF Attempts
<1>3. QED
  BY <1>1, <1>2 DEF CalmEvents

\* What a step of the one attempt of a run does, seen from outside.
Move(r, step) ==
    /\ Goto(r, 1, step) /\ step \in LiveSteps \cup {"over"}
    /\ pc[r][1] \in LiveSteps
    /\ UNCHANGED <<post, stopping, deleting, tries, retried, events>>
    /\ flow' \in {flow, [flow EXCEPT ![r] = "closed"]}
    /\ flow'[r] = "open" => step \notin CancelSteps
    /\ row' = row \/ (row' = Freed /\ pc[r][1] \in Closing)
    /\ step \in PreClose => pc[r][1] \in PreClose /\ row' = row

LEMMA OneAttempt ==
    ASSUME AttemptInv, NEW r \in Runs, NEW a \in Attempts, pc[r][a] \in LiveSteps
    PROVE  a = 1
BY StepSets DEF AttemptInv

LEMMA RunnerMove ==
    ASSUME Calm, Base, CalmInv, NEW r \in Runs, NEW a \in Attempts, RunnerStep(r, a)
    PROVE  \E step : Move(r, step)
<1>1. TypeOK /\ AttemptInv
  BY DEF Base, CalmInv
<1>2. a = 1 /\ pc[r][1] \in LiveSteps
  <2>1. pc[r][a] \in LiveSteps
    BY RunnerEffect DEF Effect
  <2>2. QED
    BY <1>1, <2>1, OneAttempt
<1>3. tries[r] = 1
  <2>1. 1 <= tries[r]
    BY <1>2, StepSets DEF Base, StartInv
  <2>2. QED
    BY <1>1, <2>1 DEF AttemptInv
<1>4. flow[r] = "open" => pc[r][1] \notin CancelSteps
  BY <1>1 DEF AttemptInv
<1>5. Told(r, 1) <=> flow[r] = "closed"
  BY <1>3 DEF Told
<1>6. events \cap {"dbLost", "lateCancel", "emitFails"} = {}
  BY <1>1, CalmFacts
<1>7. flow[r] \in {"open", "closed"}
  <2>1. flow[r] \in {"none", "open", "closed"}
    BY <1>1, TypeFacts
  <2>2. QED
    BY <1>3, <2>1 DEF Base, StartInv
<1>8. checkpoint.next \in {"frame", "work", "finalize", "end"}
  BY <1>1 DEF TypeOK
<1> USE DEF Move, session, server, thread, LiveSteps, GraphSteps, HandlerSteps,
            PreClose, PreSettle, Closing, CancelSteps
<1>9. CASE Begin(r, a)
  <2>1. PICK step \in {"frame", "work", "settle", "ended"} : Goto(r, 1, step)
    <3>1. checkpoint.next # "end" => FirstStep(checkpoint.next) \in {"frame", "work", "settle"}
      BY <1>8 DEF FirstStep
    <3>2. QED
      BY <1>2, <1>9, <3>1 DEF Begin, Decision
  <2>2. QED
    BY <1>2, <1>9, <2>1 DEF Begin
<1>10. CASE Frame(r, a)
  <2>1. PICK step \in {"framed", "settle"} : Goto(r, 1, step)
    BY <1>2, <1>10 DEF Frame, WhenRefused
  <2>2. QED
    BY <1>2, <1>10, <2>1 DEF Frame
<1>11. CASE FrameSaved(r, a)
  BY <1>2, <1>11 DEF FrameSaved
<1>12. CASE Work(r, a)
  BY <1>2, <1>12 DEF Work
<1>13. CASE Reconnect(r, a)
  BY <1>6, <1>13 DEF Reconnect
<1>14. CASE Raise(r, a)
  <2>1. pc[r][1] \in PreClose \/ pc[r][1] = "save"
    BY <1>2, <1>14 DEF Raise
  <2>2. CASE pc[r][1] \in PreClose
    BY <1>2, <1>14, <2>2 DEF Raise
  <2>3. CASE pc[r][1] = "save"
    <3>1. <<r, a>> \in retried
      BY <1>2, <1>14, <2>3 DEF Raise
    <3>2. QED
      BY <3>1 DEF CalmInv
  <2>4. QED
    BY <2>1, <2>2, <2>3
<1>15. CASE Cancelled(r, a)
  BY <1>2, <1>5, <1>6, <1>15 DEF Cancelled
<1>16. CASE SettleStep(r, a)
  <2>1. pc[r][1] \in {"settle", "cancelSettle", "failSettle"}
        /\ Goto(r, 1, AfterSettle(pc[r][1]))
    BY <1>2, <1>16 DEF SettleStep
  <2>2. AfterSettle(pc[r][1]) \in {"close", "failClose"}
        \/ (AfterSettle(pc[r][1]) = "cancelClose" /\ pc[r][1] = "cancelSettle")
    BY <2>1 DEF AfterSettle
  <2>3. QED
    BY <1>2, <1>4, <1>16, <2>1, <2>2 DEF SettleStep
<1>17. CASE CloseStep(r, a)
  <2>1. pc[r][1] \in {"close", "cancelClose", "failClose"}
        /\ Goto(r, 1, AfterClose(pc[r][1]))
    BY <1>2, <1>17 DEF CloseStep
  <2>2. AfterClose(pc[r][1]) \in {"save", "ended"}
        \/ (AfterClose(pc[r][1]) = "raised" /\ pc[r][1] = "cancelClose")
    BY <2>1 DEF AfterClose
  <2>3. QED
    BY <1>2, <1>4, <1>17, <2>1, <2>2 DEF CloseStep
<1>18. CASE CutShort(r, a)
  BY <1>2, <1>5, <1>6, <1>18 DEF CutShort
<1>19. CASE Save(r, a)
  BY <1>2, <1>19 DEF Save
<1>20. CASE Report(r, a)
  <2>1. /\ pc[r][1] \in {"ended", "raised"} /\ Goto(r, 1, "over")
        /\ flow' \in {flow, [flow EXCEPT ![r] = "closed"]}
        /\ flow'[r] # "open"
    <3>1. pc[r][1] = "raised" => flow[r] = "closed" /\ Told(r, 1)
      BY <1>4, <1>5, <1>7
    <3>2. /\ pc[r][1] \in {"ended", "raised"}
          /\ Goto(r, 1, IF pc[r][1] = "raised" /\ ~Told(r, 1) THEN "lost" ELSE "over")
          /\ flow' = [flow EXCEPT ![r] = IF pc[r][1] = "ended" THEN "closed" ELSE @]
      BY <1>2, <1>3, <1>20 DEF Report
    <3>3. flow \in [Runs -> {"none", "open", "closed"}]
      BY <1>1, TypeFacts
    <3>4. CASE pc[r][1] = "ended"
      BY <3>2, <3>3, <3>4
    <3>5. CASE pc[r][1] = "raised"
      BY <3>1, <3>2, <3>3, <3>5
    <3>6. QED
      BY <3>2, <3>4, <3>5
  <2>2. UNCHANGED <<session, tries, retried, events>>
    BY <1>20 DEF Report
  <2>3. QED
    BY <1>2, <2>1, <2>2
<1>21. QED
  BY <1>9, <1>10, <1>11, <1>12, <1>13, <1>14, <1>15, <1>16, <1>17, <1>18, <1>19, <1>20
     DEF RunnerStep

\* Nobody is busy while the row is free and nobody posts.
LEMMA NobodyBusy ==
    ASSUME RowInv, row = "free", \A r \in Runs : ~Posting(r), NEW s \in Runs
    PROVE  ~Busy(s)
BY RunNames DEF RowInv, Posting

LEMMA RunnerCalm ==
    ASSUME Calm, Base, CalmInv, NEW r \in Runs, NEW a \in Attempts, RunnerStep(r, a)
    PROVE  CalmInv'
<1>1. PICK step : Move(r, step)
  BY RunnerMove
<1>2. TypeOK /\ AttemptInv /\ RowInv /\ 1 \in Attempts
  BY CalmFacts DEF Base, CalmInv
<1>3. /\ pc'[r][1] = step /\ pc[r][1] \in LiveSteps
      /\ \A s \in Runs, b \in Attempts : s # r \/ b # 1 => pc'[s][b] = pc[s][b]
  <2>1. step \in Steps /\ Goto(r, 1, step)
    BY <1>1 DEF Move, Steps
  <2>2. QED
    BY <1>1, <1>2, <2>1, GotoFacts DEF Move
<1>4. UNCHANGED <<post, stopping, deleting, tries, retried, events>>
  BY <1>1 DEF Move
<1>5. /\ \A s \in Runs : s # r => pc'[s][1] = pc[s][1] /\ flow'[s] = flow[s]
      /\ flow'[r] = "open" => flow[r] = "open"
  BY <1>1, <1>2, <1>3, TypeFacts DEF Move
<1>6. AttemptInv'
  <2>1. step # "lost"
    BY <1>1 DEF Move, LiveSteps, GraphSteps, HandlerSteps
  <2>2. flow'[r] = "open" => step \notin CancelSteps
    BY <1>1 DEF Move
  <2>3. QED
    BY <1>2, <1>3, <1>4, <1>5, <2>1, <2>2 DEF AttemptInv
<1>7. \A s \in Runs : s # r => (Busy(s)' => Busy(s))
  BY <1>4, <1>5 DEF Busy, Waiting
<1>8. Busy(r)' => Busy(r) /\ row' = row
  <2>1. CASE step \in PreClose
    BY <1>1, <2>1 DEF Move, Busy
  <2>2. CASE step \notin PreClose
    <3>1. tries[r] # 0
      BY <1>2, <1>3, StepSets, BoundFacts DEF Base, StartInv, Attempts
    <3>2. QED
      BY <1>3, <1>4, <2>2, <3>1 DEF Busy, Waiting
  <2>3. QED
    BY <2>1, <2>2
<1>9. row' = row \/ (row' = Freed /\ Busy(r))
  BY <1>1 DEF Move, Busy, PreClose
<1>10. row = "free" => row' = "free"
  BY <1>9, RunNames DEF Freed
<1>11. ASSUME NEW s \in Runs, Busy(s)'
       PROVE  row' = s \/ post'[s] = "started"
  <2>1. Busy(s) /\ (row = s \/ post[s] = "started")
    BY <1>2, <1>7, <1>8, <1>11 DEF RowInv
  <2>2. CASE row' = row
    BY <1>4, <2>1, <2>2
  <2>3. CASE row' # row
    <3>1. Busy(r) /\ s # r
      BY <1>8, <1>9, <1>11, <2>3
    <3>2. row = r \/ post[r] = "started"
      BY <1>2, <3>1 DEF RowInv
    <3>3. post[r] = "started" => row = "free"
      BY <1>2 DEF RowInv, Posting
    <3>4. post[s] = "started"
      BY <1>10, <2>1, <2>3, <3>1, <3>2, <3>3
    <3>5. QED
      BY <1>4, <3>4
  <2>4. QED
    BY <2>2, <2>3
<1>12. RowInv'
  BY <1>2, <1>4, <1>10, <1>11 DEF RowInv, Posting
<1>13. QED
  BY <1>4, <1>6, <1>12 DEF CalmInv

\* A handler of a request: no attempt moves.
LEMMA RequestCalm ==
    ASSUME Calm, Base, CalmInv, NEW r \in Runs,
           \/ PostCheck(r) \/ PostStep(r) \/ Interrupt(r) \/ Terminate(r) \/ MarkStopped(r)
    PROVE  CalmInv'
<1>1. /\ TypeOK /\ StartInv /\ AttemptInv /\ RowInv /\ retried = {}
      /\ events \cap {"overlap", "terminate", "postFails"} = {}
  BY CalmFacts DEF Base, CalmInv
<1>2. ~Terminate(r) /\ ~MarkStopped(r)
  BY <1>1 DEF Terminate, MarkStopped, RowInv
<1>3. UNCHANGED <<tries, pc, retried, stopping, deleting>>
  BY <1>2 DEF PostCheck, PostStep, PostCreate, PostStart, PostStartFails, PostUpdate, Interrupt,
         session, server, thread
<1>4. /\ post \in [Runs -> {"idle", "checked", "created", "started", "done", "failed"}]
      /\ flow \in [Runs -> {"none", "open", "closed"}]
  BY <1>1, TypeFacts
<1>5. stopping = {} /\ stopping' = {}
  BY <1>1, <1>3 DEF RowInv
<1>6. Posting(r) => /\ row = "free" /\ deleting \notin {"checked", "wiped"}
                    /\ \A s \in Runs : Posting(s) => s = r
  BY <1>1 DEF RowInv
<1>7. AttemptInv'
  <2>1. \/ flow' = flow
        \/ flow' = [flow EXCEPT ![r] = "closed"]
        \/ tries[r] = 0 /\ flow' = [flow EXCEPT ![r] = "open"]
    BY <1>1, <1>2
       DEF PostCheck, PostStep, PostCreate, PostStart, PostStartFails, PostUpdate, Interrupt,
           server, StartInv
  <2>2. tries[r] = 0 => pc[r][1] = "off"
    <3>1. ~(1 <= 0) /\ 1 \in Attempts
      BY <1>1, CalmFacts
    <3>2. QED
      BY <1>1, <3>1 DEF StartInv
  <2>3. \A s \in Runs : flow'[s] = "open" => pc[s][1] \notin CancelSteps
    BY <1>1, <1>4, <2>1, <2>2 DEF AttemptInv, CancelSteps
  <2>4. QED
    BY <1>1, <1>3, <2>3 DEF AttemptInv
<1>8. CASE PostCheck(r)
  <2>1. /\ row = "free" /\ row' = row /\ flow' = flow /\ ~Serving
        /\ post' = [post EXCEPT ![r] = "checked"]
    BY <1>1, <1>8 DEF PostCheck, PostAllowed, MayRequest, server
  <2>2. /\ \A s \in Runs : ~Posting(s)
        /\ deleting \notin {"checked", "wiped"}
    BY <2>1 DEF Serving, Posting
  <2>3. \A s \in Runs : ~Busy(s)
    BY <1>1, <2>1, <2>2, NobodyBusy
  <2>4. \A s \in Runs : ~Busy(s)'
    BY <1>3, <2>1, <2>3 DEF Busy, Waiting
  <2>5. \A s \in Runs : (Posting(s)' => s = r) /\ post'[s] # "started"
    BY <1>4, <2>1, <2>2 DEF Posting
  <2>6. RowInv'
    BY <1>3, <1>5, <2>1, <2>2, <2>4, <2>5 DEF RowInv
  <2>7. QED
    BY <1>1, <1>3, <1>7, <2>6 DEF CalmInv
<1>9. CASE PostCreate(r) \/ PostStart(r) \/ PostStartFails(r)
  <2>1. post[r] \in {"checked", "created"} /\ row' = row
    BY <1>9 DEF PostCreate, PostStart, PostStartFails, session
  <2>2. flow[r] = "none"
    BY <1>1, <2>1 DEF StartInv
  <2>3. Posting(r)
    BY <2>1 DEF Posting
  <2>4. /\ \A s \in Runs : s # r => post'[s] = post[s] /\ flow'[s] = flow[s]
        /\ \/ flow' = flow /\ post'[r] \in {"created", "failed"}
           \/ flow'[r] = "open" /\ post'[r] = "started"
    BY <1>1, <1>4, <1>9 DEF PostCreate, PostStart, PostStartFails, server
  <2>5. tries[r] = 0
    BY <1>1, <2>2 DEF StartInv
  <2>6. \A s \in Runs : s # r => ~Posting(s) /\ ~Posting(s)'
    BY <1>6, <2>3, <2>4 DEF Posting
  <2>7. \A s \in Runs : s # r => (Busy(s)' <=> Busy(s))
    BY <1>3, <2>4 DEF Busy, Waiting
  <2>8. \A s \in Runs : s # r => ~Busy(s)'
    BY <1>1, <1>6, <2>3, <2>6, <2>7, RunNames DEF RowInv, Posting
  <2>9. ~Busy(r)
    BY <1>1, <1>6, <2>1, <2>3, RunNames DEF RowInv
  <2>10. Busy(r)' => post'[r] = "started"
    BY <1>3, <2>2, <2>4, <2>5, <2>9 DEF Busy, Waiting
  <2>11. RowInv'
    BY <1>3, <1>5, <1>6, <2>1, <2>3, <2>6, <2>8, <2>10 DEF RowInv
  <2>12. QED
    BY <1>1, <1>3, <1>7, <2>11 DEF CalmInv
<1>10. CASE PostUpdate(r)
  <2>1. /\ post[r] = "started" /\ flow' = flow
        /\ post' = [post EXCEPT ![r] = "done"]
        /\ row' = IF row = "deleted" THEN row ELSE r
    BY <1>1, <1>10 DEF PostUpdate, server
  <2>2. Posting(r)
    BY <2>1 DEF Posting
  <2>3. row' = r
    BY <1>6, <2>1, <2>2
  <2>4. \A s \in Runs : (Busy(s)' <=> Busy(s)) /\ ~Posting(s)'
    BY <1>3, <1>4, <1>6, <2>1, <2>2 DEF Busy, Waiting, Posting
  <2>5. \A s \in Runs : Busy(s) => s = r
    BY <1>1, <1>6, <2>2, RunNames DEF RowInv, Posting
  <2>6. RowInv'
    BY <1>3, <1>5, <1>6, <2>2, <2>3, <2>4, <2>5 DEF RowInv
  <2>7. QED
    BY <1>1, <1>3, <1>7, <2>6 DEF CalmInv
<1>11. CASE Interrupt(r)
  <2>1. /\ row = r /\ row' = row /\ post' = post
        /\ flow' = [flow EXCEPT ![r] = "closed"]
    BY <1>11 DEF Interrupt, session
  <2>2. \A s \in Runs : Busy(s)' => Busy(s)
    BY <1>3, <1>4, <2>1 DEF Busy, Waiting
  <2>3. \A s \in Runs : Posting(s)' <=> Posting(s)
    BY <2>1 DEF Posting
  <2>4. RowInv'
    BY <1>1, <1>3, <2>1, <2>2, <2>3 DEF RowInv
  <2>5. QED
    BY <1>1, <1>3, <1>7, <2>4 DEF CalmInv
<1>12. QED
  BY <1>2, <1>8, <1>9, <1>10, <1>11 DEF PostStep

LEMMA DeleteCalm ==
    ASSUME Calm, Base, CalmInv, DeleteCheck \/ DeleteWipe \/ DeleteRow
    PROVE  CalmInv'
<1>1. AttemptInv /\ RowInv /\ retried = {} /\ "overlap" \notin events
  BY CalmFacts DEF Base, CalmInv
<1>2. UNCHANGED <<post, flow, tries, pc, retried, stopping>>
  BY DEF DeleteCheck, DeleteWipe, DeleteRow, server, thread
<1>3. row = "free" /\ \A r \in Runs : ~Posting(r)
  <2>1. CASE DeleteCheck
    BY <1>1, <2>1 DEF DeleteCheck, Deletable, MayRequest, Serving, Posting
  <2>2. CASE DeleteWipe \/ DeleteRow
    BY <1>1, <2>2 DEF DeleteWipe, DeleteRow, RowInv
  <2>3. QED
    BY <2>1, <2>2
<1>4. \A s \in Runs : ~Busy(s)
  BY <1>1, <1>3, NobodyBusy
<1>5. \A s \in Runs : ~Busy(s)' /\ ~Posting(s)'
  BY <1>2, <1>3, <1>4 DEF Busy, Waiting, Posting
<1>6. row' = row \/ (row' = "deleted" /\ deleting' = "done")
  BY <1>3 DEF DeleteCheck, DeleteWipe, DeleteRow, Deletable
<1>7. AttemptInv' /\ RowInv'
  BY <1>1, <1>2, <1>3, <1>5, <1>6 DEF AttemptInv, RowInv
<1>8. QED
  BY <1>1, <1>2, <1>7 DEF CalmInv

LEMMA ServerCalm ==
    ASSUME Calm, Base, CalmInv, NEW r \in Runs, ServerStep(r)
    PROVE  CalmInv'
<1>1. TypeOK /\ StartInv /\ AttemptInv /\ RowInv /\ retried = {}
  BY DEF Base, CalmInv
<1>2. 1 \in Attempts /\ "stall" \notin events
  BY <1>1, CalmFacts
<1>3. pc[r][1] \in Steps
  BY <1>1, <1>2, TypeFacts
<1>4. CASE StartAttempt(r)
  <2>1. flow[r] = "open" /\ ~Current(r)
    BY <1>2, <1>4 DEF StartAttempt
  <2>2. tries[r] = 0
    <3>1. tries[r] \in {0, 1}
      BY <1>1 DEF AttemptInv
    <3>2. CASE tries[r] = 1
      <4>1. pc[r][1] \notin LiveSteps
        BY <2>1, <3>2 DEF Current
      <4>2. pc[r][1] \notin {"off", "lost", "over"}
        BY <1>1, <1>2, <2>1, <3>2 DEF AttemptInv, StartInv, CancelSteps
      <4>3. QED
        BY <1>3, <4>1, <4>2 DEF Steps
    <3>3. QED
      BY <3>1, <3>2
  <2>3. /\ tries' = [tries EXCEPT ![r] = tries[r] + 1]
        /\ Goto(r, tries[r] + 1, "begin")
    BY <1>4, StartAttemptFacts
  <2>4. tries' = [tries EXCEPT ![r] = 1] /\ Goto(r, 1, "begin")
    BY <2>2, <2>3
  <2>5. "begin" \in Steps
    BY DEF Steps, LiveSteps, GraphSteps
  <2>6. /\ pc'[r][1] = "begin"
        /\ \A s \in Runs, b \in Attempts : s # r \/ b # 1 => pc'[s][b] = pc[s][b]
    BY <1>1, <1>2, <2>4, <2>5, GotoFacts
  <2>7. tries'[r] = 1 /\ \A s \in Runs : s # r => tries'[s] = tries[s]
    BY <1>1, <2>4, TypeFacts
  <2>8. UNCHANGED <<row, post, stopping, deleting, flow, retried>>
    BY <1>4 DEF StartAttempt, session, thread
  <2>9. AttemptInv'
    BY <1>1, <1>2, <2>6, <2>7, <2>8 DEF AttemptInv, CancelSteps
  <2>10. \A s \in Runs : Busy(s)' => Busy(s)
    <3>1. Busy(r)
      BY <2>1, <2>2 DEF Busy, Waiting
    <3>2. \A s \in Runs : s # r => (Busy(s)' => Busy(s))
      BY <1>2, <2>6, <2>7, <2>8 DEF Busy, Waiting
    <3>3. QED
      BY <3>1, <3>2
  <2>11. RowInv'
    BY <1>1, <2>8, <2>10 DEF RowInv, Posting
  <2>12. QED
    BY <1>1, <2>8, <2>9, <2>11 DEF CalmInv
<1>5. CASE GiveUp(r)
  <2>1. pc[r][MaxAttempts] = "lost" /\ MaxAttempts \in Attempts
    BY <1>5, BoundFacts DEF GiveUp, Attempts
  <2>2. QED
    BY <1>1, <2>1 DEF AttemptInv
<1>6. QED
  BY <1>4, <1>5 DEF ServerStep

LEMMA NextCalm ==
    ASSUME Calm, Base, CalmInv, [Next]_vars
    PROVE  CalmInv'
<1>1. ASSUME NEW r \in Runs, PostCheck(r) \/ PostStep(r) \/ ServerStep(r)
      PROVE  CalmInv'
  BY <1>1, RequestCalm, ServerCalm
<1>2. ASSUME NEW r \in Runs, NEW a \in Attempts, RunnerStep(r, a)
      PROVE  CalmInv'
  BY <1>2, RunnerCalm
<1>3. ASSUME NEW r \in Runs, Interrupt(r) \/ Terminate(r) \/ MarkStopped(r)
      PROVE  CalmInv'
  BY <1>3, RequestCalm
<1>4. CASE DeleteCheck \/ DeleteWipe \/ DeleteRow
  BY <1>4, DeleteCalm
<1>5. CASE Crash \/ Shutdown
  BY <1>5, CalmFacts DEF Base, Crash, Shutdown
<1>6. CASE UNCHANGED vars
  BY <1>6 DEF vars, server, thread, session, CalmInv, AttemptInv, RowInv, Posting, Waiting,
              Busy
<1>7. QED
  BY <1>1, <1>2, <1>3, <1>4, <1>5, <1>6 DEF Next

LEMMA CalmInvariant == Spec => [](Calm => CalmInv)
<1>1. Init => CalmInv
  <2> SUFFICES ASSUME Init PROVE CalmInv
    OBVIOUS
  <2>1. 1 \in Attempts
    BY BoundFacts DEF Attempts
  <2>2. \A r \in Runs : ~Posting(r) /\ ~Busy(r)
    BY <2>1 DEF Init, Posting, Busy, Waiting, PreClose, PreSettle, Closing
  <2>3. AttemptInv /\ RowInv
    BY <2>1, <2>2 DEF Init, AttemptInv, RowInv
  <2>4. QED
    BY <2>3 DEF Init, CalmInv
<1>2. Base /\ (Calm => CalmInv) /\ [Next]_vars => (Calm => CalmInv)'
  <2> SUFFICES ASSUME Base, Calm => CalmInv, [Next]_vars, Calm'
               PROVE  CalmInv'
    OBVIOUS
  <2>1. Calm
    BY EventsStay DEF Calm
  <2>2. QED
    BY <2>1, NextCalm
<1>3. QED
  BY <1>1, <1>2, BaseInvariant, PTL DEF Spec

LEMMA WorkingRow ==
    ASSUME CalmInv, NEW r \in Runs, Working(r)
    PROVE  row = r \/ post[r] = "started"
<1>1. PICK a \in Attempts : pc[r][a] \in {"frame", "framed", "work"}
  BY DEF Working
<1>2. a = 1
  BY <1>1 DEF CalmInv, AttemptInv
<1>3. Busy(r)
  BY <1>1, <1>2 DEF Busy, PreClose, PreSettle
<1>4. QED
  BY <1>3 DEF CalmInv, RowInv

\* Models and tools work for at most one run of a session at a time, for requests
\* that come one after the other and a process that lives, whatever updates fail
\* and whenever the user interrupts: the row that a POST reads names whoever works
\* (post_message in api/sessions.py), and nobody closes another's row.  The
\* hypothesis is that behaviours with more than one message are calm: where
\* requests overlap or a cancellation comes late, the property fails.
THEOREM RunsExclude ==
    ASSUME \A E \in EventSets : "another" \in E => E \subseteq CalmEvents
    PROVE  Spec => []OneRunAtATime
<1>1. Base /\ LoneInv /\ (Calm => CalmInv) => OneRunAtATime
  <2> SUFFICES ASSUME Base, LoneInv, Calm => CalmInv PROVE OneRunAtATime
    OBVIOUS
  <2>1. ASSUME NEW r \in Runs, NEW s \in Runs, Working(r), Working(s)
        PROVE  r = s
    <3>1. CASE "another" \notin events
      <4>1. post[r] # "idle" /\ post[s] # "idle"
        BY <2>1, StartedPosted DEF Working, LiveSteps, GraphSteps
      <4>2. QED
        BY <3>1, <4>1 DEF LoneInv
    <3>2. CASE "another" \in events
      <4>1. CalmInv
        BY <3>2 DEF Calm, Base, TypeOK
      <4>2. /\ row = r \/ post[r] = "started"
            /\ row = s \/ post[s] = "started"
        BY <2>1, <4>1, WorkingRow
      <4>3. /\ post[r] = "started" => row = "free" /\ Posting(r)
            /\ post[s] = "started" => row = "free" /\ Posting(s)
        BY <4>1 DEF CalmInv, RowInv, Posting
      <4>4. QED
        BY <4>1, <4>2, <4>3, RunNames DEF CalmInv, RowInv
    <3>3. QED
      BY <3>1, <3>2
  <2> DEFINE W == {r \in Runs : Working(r)}
  <2>2. CASE W = {}
    BY <2>2, FS_EmptySet DEF OneRunAtATime
  <2>3. CASE W # {}
    <3>1. PICK r : W = {r}
      BY <2>1, <2>3
    <3>2. Cardinality(W) = 1
      BY <3>1, FS_Singleton
    <3>3. QED
      BY <3>2 DEF OneRunAtATime
  <2>4. QED
    BY <2>2, <2>3
<1>2. QED
  BY <1>1, LoneInvariant, CalmInvariant, PTL

-----------------------------------------------------------------------------
(* One attempt of a run after the other: where each continues *)

Deaths == {"crash", "shutdown"}

\* Only the last attempt of a run executes.
LatestInv == \A r \in Runs, a \in Attempts : pc[r][a] \in LiveSteps => a = tries[r]

\* No attempt executes a node behind the checkpoint of its run.
PlaceInv ==
    \A r \in Runs, a \in Attempts : checkpoint.run = r =>
        /\ pc[r][a] \in {"frame", "framed"} => checkpoint.next = "frame"
        /\ pc[r][a] = "work" => checkpoint.next = "work"

\* Why a finished run is not executed again: nobody else wrote to its thread, or
\* its last attempt lives until it has reported.
DoneInv ==
    /\ "another" \notin events => \A r \in finished : Ended(r) /\ ~Working(r)
    /\ events \cap Deaths = {} =>
         \A r \in finished :
             /\ tries[r] \in Attempts
             /\ \/ pc[r][tries[r]] = "ended"
                \/ pc[r][tries[r]] = "over" /\ flow[r] = "closed"

TurnInv == "stall" \notin events => LatestInv /\ PlaceInv /\ DoneInv

\* PlaceInv for one attempt at a step, with the thread at checkpoint cp.
InPlace(step, cp, r) ==
    cp.run = r => /\ step \in {"frame", "framed"} => cp.next = "frame"
                  /\ step = "work" => cp.next = "work"

\* Where a step of an attempt leaves the attempt and the thread.
LEMMA RunnerPlace ==
    ASSUME Base, NEW r \in Runs, NEW a \in Attempts, RunnerStep(r, a),
           InPlace(pc[r][a], checkpoint, r)
    PROVE  \E step :
             /\ Effect(r, a, step)
             /\ InPlace(step, checkpoint', r)
             /\ checkpoint' = checkpoint \/ checkpoint'.run = r
             /\ checkpoint.run = r /\ checkpoint'.run = r
                  => Rank(checkpoint.next) <= Rank(checkpoint'.next)
             /\ step \in {"frame", "framed", "work"} =>
                  \/ pc[r][a] \in {"frame", "framed", "work"}
                  \/ ~Ended(r)
             /\ \/ finished' = finished
                \/ /\ finished' = finished \cup {r} /\ step = "ended"
                   /\ checkpoint' = [run |-> r, next |-> "end"]
             /\ Ended(r) /\ pc[r][a] \notin {"frame", "framed", "work"}
                  => checkpoint' = checkpoint \/ checkpoint' = [run |-> r, next |-> "end"]
             /\ pc[r][a] = "ended" => step = "over" /\ (a = tries[r] => flow'[r] = "closed")
<1>1. PICK step : Effect(r, a, step)
  BY RunnerEffect
<1>2. TypeOK
  BY DEF Base
<1>3. /\ flow \in [Runs -> {"none", "open", "closed"}] /\ pc \in [Runs -> [Attempts -> Steps]]
      /\ checkpoint.next \in {"frame", "work", "finalize", "end"}
      /\ Goto(r, a, step)
  BY <1>1, <1>2, TypeFacts DEF TypeOK, Effect
<1>4. pc'[r][a] = step
  BY <1>2, <1>1, GotoFacts DEF Effect, Steps
<1>5. ASSUME NEW s, Goto(r, a, s) PROVE step = s
  BY <1>3, <1>4, <1>5 DEF Goto
<1> HIDE DEF Base
<1> USE DEF session, server, thread, history, InPlace, Ended, Rank
<1>6. CASE Begin(r, a)
  <2>1. UNCHANGED finished /\ pc[r][a] = "begin"
    BY <1>6 DEF Begin
  <2>2. CASE Decision(r) = "start" /\ checkpoint' = [run |-> r, next |-> "frame"]
             /\ Goto(r, a, "frame")
    <3>1. step = "frame" /\ checkpoint.run # r
      BY <1>5, <2>2 DEF Decision
    <3>2. QED
      BY <1>1, <2>1, <2>2, <3>1
  <2>3. CASE Decision(r) = "resume" /\ Goto(r, a, FirstStep(checkpoint.next))
             /\ UNCHANGED checkpoint
    <3>1. checkpoint.next \in {"frame", "work", "finalize"} /\ checkpoint.run = r
      BY <1>3, <2>3 DEF Decision
    <3>2. step = FirstStep(checkpoint.next)
      BY <1>5, <2>3, <3>1 DEF FirstStep
    <3>3. QED
      BY <1>1, <2>1, <2>3, <3>1, <3>2 DEF FirstStep
  <2>4. CASE Decision(r) = "skip" /\ Goto(r, a, "ended") /\ UNCHANGED checkpoint
    <3>1. step = "ended"
      BY <1>5, <2>4
    <3>2. QED
      BY <1>1, <1>3, <2>1, <2>4, <3>1
  <2>5. QED
    BY <1>6, <2>2, <2>3, <2>4 DEF Begin
<1>7. CASE Frame(r, a)
  <2>1. pc[r][a] = "frame" /\ finished' = finished
        /\ (checkpoint.run = r => checkpoint.next = "frame")
    BY <1>7 DEF Frame
  <2>2. CASE Goto(r, a, "framed") /\ UNCHANGED checkpoint
    <3>1. step = "framed"
      BY <1>5, <2>2
    <3>2. QED
      BY <1>1, <2>1, <2>2, <3>1
  <2>3. CASE checkpoint' = [run |-> r, next |-> "finalize"] /\ Goto(r, a, WhenRefused)
    <3>1. step = "settle"
      BY <1>5, <2>3 DEF WhenRefused
    <3>2. QED
      BY <1>1, <2>1, <2>3, <3>1
  <2>4. QED
    BY <1>7, <2>2, <2>3 DEF Frame
<1>8. CASE FrameSaved(r, a)
  <2>1. step = "work"
    BY <1>5, <1>8 DEF FrameSaved
  <2>2. QED
    BY <1>1, <1>3, <1>8, <2>1 DEF FrameSaved
<1>9. CASE Work(r, a)
  <2>1. step = "settle"
    BY <1>5, <1>9 DEF Work
  <2>2. QED
    BY <1>1, <1>3, <1>9, <2>1 DEF Work
<1>10. CASE Save(r, a)
  <2>1. step = "ended"
    BY <1>5, <1>10 DEF Save
  <2>2. QED
    BY <1>1, <1>3, <1>10, <2>1 DEF Save
<1>11. CASE \/ Reconnect(r, a) \/ Raise(r, a) \/ Cancelled(r, a)
            \/ SettleStep(r, a) \/ CloseStep(r, a) \/ CutShort(r, a)
  <2>1. AfterSettle(pc[r][a]) \in {"close", "cancelClose", "failClose"}
        /\ AfterClose(pc[r][a]) \in {"save", "raised", "ended"}
    BY DEF AfterSettle, AfterClose
  <2>2. /\ pc[r][a] # "ended" /\ checkpoint' = checkpoint /\ finished' = finished
        /\ \E s \in {"begin", "failSettle", "cancelSettle", "close", "cancelClose", "failClose",
                     "save", "raised", "ended"} : Goto(r, a, s)
    BY <1>11, <2>1 DEF Reconnect, Raise, Cancelled, SettleStep, CloseStep, CutShort, GraphSteps
  <2>3. step \notin {"frame", "framed", "work"}
    BY <1>5, <2>2
  <2>4. QED
    BY <1>1, <1>3, <2>2, <2>3
<1>12. CASE Report(r, a)
  <2>1. checkpoint' = checkpoint /\ finished' = finished
    BY <1>12 DEF Report
  <2>2. step \in {"lost", "over"} /\ (pc[r][a] = "ended" => step = "over")
    BY <1>5, <1>12 DEF Report
  <2>3. pc[r][a] = "ended" /\ a = tries[r] => flow'[r] = "closed"
    BY <1>3, <1>12 DEF Report
  <2>4. QED
    BY <1>1, <1>3, <2>1, <2>2, <2>3
<1>13. QED
  BY <1>6, <1>7, <1>8, <1>9, <1>10, <1>11, <1>12 DEF RunnerStep

\* What a step of an attempt leaves alone when no attempt was superseded.
LEMMA RunnerTurn ==
    ASSUME Base, LoneInv, TurnInv, "stall" \notin events,
           NEW r \in Runs, NEW a \in Attempts, RunnerStep(r, a)
    PROVE  TurnInv'
<1>1. TypeOK /\ LatestInv /\ PlaceInv /\ DoneInv
  BY DEF Base, TurnInv
<1>2. InPlace(pc[r][a], checkpoint, r)
  BY <1>1 DEF PlaceInv, InPlace
<1>3. PICK step :
         /\ Effect(r, a, step)
         /\ InPlace(step, checkpoint', r)
         /\ checkpoint' = checkpoint \/ checkpoint'.run = r
         /\ checkpoint.run = r /\ checkpoint'.run = r
              => Rank(checkpoint.next) <= Rank(checkpoint'.next)
         /\ step \in {"frame", "framed", "work"} =>
              \/ pc[r][a] \in {"frame", "framed", "work"}
              \/ ~Ended(r)
         /\ \/ finished' = finished
            \/ /\ finished' = finished \cup {r} /\ step = "ended"
               /\ checkpoint' = [run |-> r, next |-> "end"]
         /\ Ended(r) /\ pc[r][a] \notin {"frame", "framed", "work"}
              => checkpoint' = checkpoint \/ checkpoint' = [run |-> r, next |-> "end"]
         /\ pc[r][a] = "ended" => step = "over" /\ (a = tries[r] => flow'[r] = "closed")
  BY <1>2, RunnerPlace
<1>4. /\ pc'[r][a] = step
      /\ \A s \in Runs, b \in Attempts : s # r \/ b # a => pc'[s][b] = pc[s][b]
  BY <1>1, <1>3, GotoFacts DEF Effect
<1>5. /\ tries' = tries /\ events' = events /\ pc[r][a] \in LiveSteps
      /\ \A s \in Runs : s # r => flow'[s] = flow[s]
      /\ flow[r] = "closed" => flow'[r] = "closed"
  BY <1>1, <1>3, TypeFacts DEF Effect
<1>6. a = tries[r]
  BY <1>1, <1>5 DEF LatestInv
<1>7. LatestInv'
  BY <1>1, <1>4, <1>5, <1>6 DEF LatestInv
<1>8. PlaceInv'
  <2> SUFFICES ASSUME NEW s \in Runs, NEW b \in Attempts, checkpoint'.run = s
               PROVE  /\ pc'[s][b] \in {"frame", "framed"} => checkpoint'.next = "frame"
                      /\ pc'[s][b] = "work" => checkpoint'.next = "work"
    BY DEF PlaceInv
  <2>1. CASE s = r /\ b = a
    BY <1>3, <1>4, <2>1 DEF InPlace
  <2>2. CASE s = r /\ b # a
    <3>1. pc'[s][b] \notin LiveSteps
      BY <1>1, <1>4, <1>6, <2>2 DEF LatestInv
    <3>2. QED
      BY <3>1 DEF LiveSteps, GraphSteps
  <2>3. CASE s # r
    <3>1. checkpoint' = checkpoint /\ pc'[s][b] = pc[s][b]
      BY <1>3, <1>4, <2>3
    <3>2. QED
      BY <1>1, <3>1 DEF PlaceInv
  <2>4. QED
    BY <2>1, <2>2, <2>3
<1>9. ASSUME "another" \notin events, NEW s \in finished'
      PROVE  Ended(s)' /\ ~Working(s)'
  <2>1. s \in Runs /\ s = r
    <3>1. s \in Runs /\ (s \in finished \/ s = r)
      BY <1>3, <1>9 DEF Effect
    <3>2. CASE s \in finished
      <4>1. post[s] # "idle" /\ post[r] # "idle"
        BY <1>1, <1>5, <1>9, <3>1, <3>2, StartedPosted DEF DoneInv, Ended
      <4>2. QED
        BY <1>9, <3>1, <4>1 DEF LoneInv
    <3>3. QED
      BY <3>1, <3>2
  <2>2. CASE checkpoint' = [run |-> r, next |-> "end"] /\ step = "ended"
    <3>1. \A b \in Attempts : pc'[r][b] \notin {"frame", "framed", "work"}
      BY <1>1, <1>4, <1>6, <2>2 DEF LatestInv, LiveSteps, GraphSteps
    <3>2. QED
      BY <2>1, <2>2, <3>1 DEF Ended, Working
  <2>3. CASE finished' = finished
    <3>1. Ended(r) /\ \A b \in Attempts : pc[r][b] \notin {"frame", "framed", "work"}
      BY <1>1, <1>9, <2>1, <2>3 DEF DoneInv, Working
    <3>2. \A b \in Attempts : pc'[r][b] \notin {"frame", "framed", "work"}
      BY <1>3, <1>4, <3>1
    <3>3. checkpoint' = checkpoint \/ checkpoint' = [run |-> r, next |-> "end"]
      BY <1>3, <3>1
    <3>4. QED
      BY <2>1, <3>1, <3>2, <3>3 DEF Ended, Working
  <2>4. QED
    BY <1>3, <2>2, <2>3
<1>10. ASSUME events \cap Deaths = {}, NEW s \in finished'
       PROVE  /\ tries'[s] \in Attempts
              /\ \/ pc'[s][tries'[s]] = "ended"
                 \/ pc'[s][tries'[s]] = "over" /\ flow'[s] = "closed"
  <2>1. s \in Runs
    BY <1>3, <1>10 DEF Effect
  <2>2. CASE s \in finished
    <3>1. /\ tries[s] \in Attempts
          /\ \/ pc[s][tries[s]] = "ended"
             \/ pc[s][tries[s]] = "over" /\ flow[s] = "closed"
      BY <1>1, <1>10, <2>2 DEF DoneInv
    <3>2. CASE s # r
      BY <1>4, <1>5, <2>1, <3>1, <3>2
    <3>3. CASE s = r
      <4>1. pc[r][a] = "ended"
        BY <1>5, <1>6, <3>1, <3>3, StepSets
      <4>2. QED
        BY <1>3, <1>4, <1>5, <1>6, <3>3, <4>1
    <3>4. QED
      BY <3>2, <3>3
  <2>3. CASE s \notin finished
    <3>1. s = r /\ step = "ended"
      BY <1>3, <1>10, <2>3
    <3>2. QED
      BY <1>4, <1>5, <1>6, <3>1
  <2>4. QED
    BY <2>2, <2>3
<1>11. DoneInv'
  BY <1>5, <1>9, <1>10 DEF DoneInv
<1>12. QED
  BY <1>7, <1>8, <1>11 DEF TurnInv

\* Handlers of requests: no attempt moves, and no closed workflow opens again.
LEMMA RequestTurn ==
    ASSUME Base, TurnInv,
           \/ \E r \in Runs : \/ PostCheck(r) \/ PostStep(r) \/ GiveUp(r)
                              \/ Interrupt(r) \/ Terminate(r) \/ MarkStopped(r)
           \/ DeleteCheck \/ DeleteWipe \/ DeleteRow
           \/ UNCHANGED vars
    PROVE  TurnInv' /\ checkpoint' = checkpoint
<1> USE DEF session, server, thread, history
<1>1. UNCHANGED <<tries, pc, checkpoint, finished, events>>
  BY DEF PostCheck, PostStep, PostCreate, PostStart, PostStartFails, PostUpdate, GiveUp,
         Interrupt, Terminate, MarkStopped, DeleteCheck, DeleteWipe, DeleteRow, vars
<1>2. \/ flow' = flow
      \/ \E r \in Runs : flow' = [flow EXCEPT ![r] = "closed"]
      \/ \E r \in Runs : post[r] = "created" /\ flow' = [flow EXCEPT ![r] = "open"]
  BY DEF PostCheck, PostStep, PostCreate, PostStart, PostStartFails, PostUpdate, GiveUp,
         Interrupt, Terminate, MarkStopped, DeleteCheck, DeleteWipe, DeleteRow, vars
<1>3. ASSUME NEW s \in Runs, flow[s] = "closed"
      PROVE  flow'[s] = "closed"
  <2>1. post[s] # "created"
    BY <1>3 DEF Base, StartInv
  <2>2. QED
    BY <1>2, <1>3, <2>1, TypeFacts DEF Base
<1>4. finished \subseteq Runs
  BY DEF Base, TypeOK
<1>5. ASSUME "stall" \notin events
      PROVE  LatestInv' /\ PlaceInv' /\ DoneInv'
  <2>1. LatestInv' /\ PlaceInv'
    BY <1>1, <1>5 DEF TurnInv, LatestInv, PlaceInv
  <2>2. DoneInv'
    BY <1>1, <1>3, <1>4, <1>5 DEF TurnInv, DoneInv, Ended, Working
  <2>3. QED
    BY <2>1, <2>2
<1>6. QED
  BY <1>1, <1>5 DEF TurnInv

\* Without a stall Temporal starts an attempt only when the last one is lost or
\* was cancelled: not of a run whose last attempt still has to report, nor of
\* one whose workflow is closed.
LEMMA StartTurn ==
    ASSUME Base, TurnInv, "stall" \notin events, NEW r \in Runs, StartAttempt(r)
    PROVE  TurnInv'
<1>1. TypeOK /\ LatestInv /\ PlaceInv /\ DoneInv
  BY DEF Base, TurnInv
<1>2. /\ flow[r] = "open" /\ ~Current(r)
      /\ UNCHANGED <<flow, checkpoint, finished, events>>
  BY DEF StartAttempt, thread, history
<1> DEFINE b == tries[r] + 1
<1>3. /\ b \in Attempts /\ tries[r] \in Nat
      /\ tries' = [tries EXCEPT ![r] = b] /\ Goto(r, b, "begin")
  BY StartAttemptFacts
<1> HIDE DEF b
<1>4. "begin" \in Steps \cap LiveSteps /\ "begin" \notin {"frame", "framed", "work"}
  BY DEF Steps, LiveSteps, GraphSteps
<1>5. /\ pc'[r][b] = "begin"
      /\ \A s \in Runs, c \in Attempts : s # r \/ c # b => pc'[s][c] = pc[s][c]
  BY <1>1, <1>3, <1>4, GotoFacts
<1>6. tries'[r] = b /\ \A s \in Runs : s # r => tries'[s] = tries[s]
  BY <1>1, <1>3, TypeFacts
<1>7. \A c \in Attempts : pc[r][c] \notin LiveSteps
  <2>1. ASSUME NEW c \in Attempts, pc[r][c] \in LiveSteps
        PROVE  FALSE
    <3>1. c = tries[r] /\ c # 0
      BY <1>1, <2>1 DEF LatestInv, Attempts
    <3>2. QED
      BY <1>2, <2>1, <3>1 DEF Current
  <2>2. QED
    BY <2>1
<1>8. LatestInv'
  BY <1>1, <1>5, <1>6, <1>7 DEF LatestInv
<1>9. PlaceInv'
  BY <1>1, <1>2, <1>4, <1>5 DEF PlaceInv
<1>10. \A s \in Runs : Working(s)' => Working(s)
  BY <1>4, <1>5 DEF Working
<1>11. events \cap Deaths = {} => r \notin finished
  BY <1>1, <1>2, <1>7, StepSets DEF DoneInv, LiveSteps
<1>12. DoneInv'
  <2>1. "another" \notin events => \A s \in finished : Ended(s)' /\ ~Working(s)'
    BY <1>1, <1>2, <1>10 DEF DoneInv, Ended, TypeOK
  <2>2. ASSUME events \cap Deaths = {}, NEW s \in finished
        PROVE  /\ tries'[s] \in Attempts
               /\ \/ pc'[s][tries'[s]] = "ended"
                  \/ pc'[s][tries'[s]] = "over" /\ flow'[s] = "closed"
    <3>1. s \in Runs /\ s # r
      BY <1>1, <1>2, <1>11, <2>2 DEF TypeOK
    <3>2. /\ tries[s] \in Attempts
          /\ \/ pc[s][tries[s]] = "ended"
             \/ pc[s][tries[s]] = "over" /\ flow[s] = "closed"
      BY <1>1, <1>2, <2>2 DEF DoneInv
    <3>3. tries'[s] = tries[s] /\ pc'[s][tries[s]] = pc[s][tries[s]] /\ flow'[s] = flow[s]
      BY <1>2, <1>5, <1>6, <3>1, <3>2
    <3>4. QED
      BY <3>2, <3>3
  <2>3. QED
    BY <1>2, <2>1, <2>2 DEF DoneInv
<1>13. QED
  BY <1>8, <1>9, <1>12 DEF TurnInv

LEMMA DeathTurn ==
    ASSUME Base, TurnInv, Crash \/ Shutdown
    PROVE  TurnInv' /\ checkpoint' = checkpoint
<1>1. TypeOK
  BY DEF Base
<1>2. /\ events \cap Deaths # {}
      /\ \A s \in Runs, b \in Attempts :
            \/ pc'[s][b] = pc[s][b] /\ pc[s][b] \notin LiveSteps
            \/ pc'[s][b] \in {"lost", "cancelSettle"} /\ pc[s][b] \in LiveSteps
      /\ UNCHANGED <<flow, tries, checkpoint, finished, events>>
  BY <1>1, DeathFacts DEF Deaths
<1>3. ASSUME "stall" \notin events
      PROVE  LatestInv' /\ PlaceInv' /\ DoneInv'
  <2>1. LatestInv'
    BY <1>2, <1>3, StepSets DEF TurnInv, LatestInv
  <2>2. PlaceInv'
    BY <1>2, <1>3 DEF TurnInv, PlaceInv
  <2>3. \A s \in Runs : Working(s)' => Working(s)
    BY <1>2 DEF Working
  <2>4. DoneInv'
    BY <1>1, <1>2, <1>3, <2>3 DEF TurnInv, DoneInv, Ended, TypeOK
  <2>5. QED
    BY <2>1, <2>2, <2>4
<1>4. QED
  BY <1>2, <1>3 DEF TurnInv

LEMMA InitTurn == Init => LoneInv /\ TurnInv
BY DEF Init, LoneInv, TurnInv, LatestInv, PlaceInv, DoneInv, LiveSteps, GraphSteps, HandlerSteps

\* Without a stall a step keeps the invariant, and takes the thread back behind
\* no checkpoint of the same run.
LEMMA NextTurn ==
    ASSUME Base, LoneInv, TurnInv, [Next]_vars
    PROVE  /\ TurnInv'
           /\ checkpoint.run = checkpoint'.run /\ "stall" \notin events
                => Rank(checkpoint.next) <= Rank(checkpoint'.next)
<1>1. events' = events
  BY EventsStay
<1>2. CASE "stall" \in events
  BY <1>1, <1>2 DEF TurnInv
<1>3. Rank(checkpoint.next) <= Rank(checkpoint.next)
  BY DEF Rank
<1>4. CASE "stall" \notin events
  <2>1. ASSUME NEW r \in Runs, NEW a \in Attempts, RunnerStep(r, a)
        PROVE  /\ TurnInv'
               /\ checkpoint.run = checkpoint'.run
                    => Rank(checkpoint.next) <= Rank(checkpoint'.next)
    <3>1. InPlace(pc[r][a], checkpoint, r)
      BY <1>4, <2>1 DEF TurnInv, PlaceInv, InPlace
    <3>2. /\ checkpoint' = checkpoint \/ checkpoint'.run = r
          /\ checkpoint.run = r /\ checkpoint'.run = r
               => Rank(checkpoint.next) <= Rank(checkpoint'.next)
      BY <2>1, <3>1, RunnerPlace
    <3>3. QED
      BY <1>3, <1>4, <2>1, <3>2, RunnerTurn
  <2>2. ASSUME NEW r \in Runs, StartAttempt(r)
        PROVE  TurnInv' /\ checkpoint' = checkpoint
    BY <1>4, <2>2, StartTurn DEF StartAttempt, thread, history
  <2>3. CASE Crash \/ Shutdown
    BY <1>3, <2>3, DeathTurn
  <2>4. CASE \/ \E r \in Runs : \/ PostCheck(r) \/ PostStep(r) \/ GiveUp(r)
                                \/ Interrupt(r) \/ Terminate(r) \/ MarkStopped(r)
             \/ DeleteCheck \/ DeleteWipe \/ DeleteRow
             \/ UNCHANGED vars
    BY <1>3, <2>4, RequestTurn
  <2>5. QED
    BY <1>3, <2>1, <2>2, <2>3, <2>4 DEF Next, ServerStep
<1>5. QED
  BY <1>2, <1>4

LEMMA TurnInvariant == Spec => [](Base /\ LoneInv /\ TurnInv)
<1>1. Base /\ LoneInv /\ TurnInv /\ [Next]_vars => LoneInv' /\ TurnInv'
  BY NextTurn, NextLone
<1>2. Spec => [](LoneInv /\ TurnInv)
  BY <1>1, InitTurn, BaseInvariant, PTL DEF Spec
<1>3. QED
  BY <1>2, BaseInvariant, PTL

\* No attempt works for a run whose graph has finished ("skip: same run_id
\* already reached END", checkpoint_resume_action in graph/resume.py), unless a
\* superseded attempt is still executing: for a session with one message whatever
\* else happens, and for any runs while the process lives.  With several runs
\* and a process that dies, the next run may have taken the thread over before
\* the finished one is attempted again, and checkpoint_resume_action starts it
\* afresh.
THEOREM FinishedStayFinished ==
    ASSUME \A E \in EventSets : "another" \notin E \/ E \cap Deaths = {}
    PROVE  Spec => []NeverRerun
<1>1. Base /\ LoneInv /\ TurnInv => NeverRerun
  <2> SUFFICES ASSUME Base, TurnInv, "stall" \notin events, NEW r \in finished, Working(r)
               PROVE  FALSE
    BY DEF NeverRerun
  <2>1. r \in Runs /\ events \in EventSets
    BY DEF Base, TypeOK
  <2>2. "another" \in events
    BY DEF TurnInv, DoneInv
  <2>3. events \cap Deaths = {}
    BY <2>1, <2>2
  <2>4. PICK a \in Attempts : pc[r][a] \in {"frame", "framed", "work"}
    BY DEF Working
  <2>5. a = tries[r]
    BY <2>1, <2>4 DEF TurnInv, LatestInv, LiveSteps, GraphSteps
  <2>6. pc[r][tries[r]] \in {"ended", "over"}
    BY <2>3 DEF TurnInv, DoneInv
  <2>7. QED
    BY <2>4, <2>5, <2>6
<1>2. QED
  BY <1>1, TurnInvariant, PTL

\* Attempts of a run continue from its checkpoint and never go back behind a
\* node that completed (checkpoint_resume_action: "resume: same run_id and the
\* graph still has a next node"), whatever disturbs the runs, unless a
\* superseded attempt is still executing.
THEOREM AttemptsGoOn == Spec => CheckpointsAdvance
<1> DEFINE Advance ==
      checkpoint.run = checkpoint'.run /\ "stall" \notin events =>
          Rank(checkpoint.next) <= Rank(checkpoint'.next)
<1>1. Base /\ LoneInv /\ TurnInv /\ [Next]_vars => [Advance]_vars
  BY NextTurn
<1>2. QED
  BY <1>1, TurnInvariant, PTL DEF Spec, CheckpointsAdvance
==============================================================================
