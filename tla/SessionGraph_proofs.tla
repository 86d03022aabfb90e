------------------------- MODULE SessionGraph_proofs -------------------------
(***************************************************************************)
(* Proofs about SessionGraph: for any todos, proposals, budgets, runs and  *)
(* engines, plans are executed in order, a success is backed by evidence,  *)
(* no run ends with a todo open, a high-risk task is confirmed before it   *)
(* is planned or executed, the budgets of a run only grow, every step uses *)
(* up a counter or leads towards the end, and work that was completed      *)
(* stays completed.                                                        *)
(***************************************************************************)
EXTENDS SessionGraph, TLAPS

-----------------------------------------------------------------------------
(* The inductive invariant, one conjunct per concern *)

\* The nodes that plan and execute.
Progressing == {"plan", "execute", "executing", "reflect"}

\* What a node may rely on because of the nodes that lead to it.
ControlInv ==
    /\ node # "executing" => pass = NoPass
    /\ node # "end" => outcome = "none"
    /\ node = "task_frame" => (resume => frame.awaiting) /\ (~resume => plan = <<>>)
    /\ node = "direct_answer" => plan = <<>>
    /\ node = "clarify" => frame.clarify

\* A question that execute asked is about a task that was confirmed.
ConfirmedInv ==
    frame.risk = "high" /\ (node \in Progressing \/ frame.awaiting) => confirmed

\* No budget of t is smaller in u.
Grown(t, u) ==
    /\ u.tool >= t.tool /\ u.agent >= t.agent
    /\ t.tokens => u.tokens

BudgetInv ==
    /\ node = "executing" => Grown(turns, pass.turns)
    /\ pass.step = "tools" => engine = "native" /\ pass.turns.tool < MaxToolTurns
    /\ node \notin {"finalize", "end"} => reflections < MaxReflections

\* What a plan's done items were completed by.
Backed(p, e) == \A i \in DOMAIN p : p[i].status = "done" => p[i].text \in e

\* A plan that is typed, in order, and backed by the evidence e.
Sound(p, e) == p \in Seq(Todo) /\ InOrder(p) /\ Backed(p, e)

SoundInv == Sound(plan, evidenced) /\ Sound(pass.plan, evidenced)

NoneOpen(p) == \A i \in DOMAIN p : p[i].status \notin {"pending", "in_progress"}

OutcomeInv ==
    /\ node = "finalize" /\ ~error /\ ~frame.clarify => NoneOpen(plan)
    /\ outcome \in {"success", "partial"} => NoneOpen(plan)
    /\ outcome = "success" => AllDone(plan)

Inv == TypeOK /\ ControlInv /\ ConfirmedInv /\ BudgetInv /\ SoundInv /\ OutcomeInv

-----------------------------------------------------------------------------
(* The scheduler of the todos *)

\* q is p with other statuses.
SameTodos(p, q) ==
    /\ q \in Seq(Todo)
    /\ Len(q) = Len(p)
    /\ \A i \in 1 .. Len(p) : q[i].text = p[i].text

LEMMA TodoFacts ==
    ASSUME NEW p \in Seq(Todo)
    PROVE  /\ DOMAIN p = 1 .. Len(p)
           /\ Len(p) \in Nat
           /\ \A i \in 1 .. Len(p) :
                 /\ p[i] \in Todo
                 /\ p[i].text \in Todos
                 /\ p[i].status \in Statuses
<1>1. DOMAIN p = 1 .. Len(p) /\ Len(p) \in Nat
  OBVIOUS
<1>2. ASSUME NEW i \in 1 .. Len(p)
      PROVE  p[i] \in Todo
  OBVIOUS
<1>3. \A t \in Todo : t.text \in Todos /\ t.status \in Statuses
  BY DEF Todo
<1>4. QED
  BY <1>1, <1>2, <1>3

LEMMA SequenceOf ==
    ASSUME NEW S, NEW n \in Nat, NEW f \in [1 .. n -> S]
    PROVE  f \in Seq(S) /\ Len(f) = n
OBVIOUS

LEMMA WithFacts ==
    ASSUME NEW p \in Seq(Todo), NEW i \in 1 .. Len(p), NEW s \in Statuses
    PROVE  /\ SameTodos(p, With(p, i, s))
           /\ With(p, i, s)[i].status = s
           /\ \A j \in 1 .. Len(p) : j # i => With(p, i, s)[j] = p[j]
<1>1. /\ DOMAIN p = 1 .. Len(p) /\ Len(p) \in Nat
      /\ \A j \in 1 .. Len(p) : p[j] \in Todo
  BY TodoFacts
<1>2. [p[i] EXCEPT !.status = s] \in Todo
  BY <1>1 DEF Todo
<1>3. With(p, i, s) \in [1 .. Len(p) -> Todo]
  BY <1>1, <1>2 DEF With
<1>4. With(p, i, s) \in Seq(Todo) /\ Len(With(p, i, s)) = Len(p)
  BY <1>1, <1>3, SequenceOf
<1>5. /\ With(p, i, s)[i] = [p[i] EXCEPT !.status = s]
      /\ \A j \in 1 .. Len(p) : j # i => With(p, i, s)[j] = p[j]
  BY <1>1 DEF With
<1>6. [p[i] EXCEPT !.status = s].status = s /\ [p[i] EXCEPT !.status = s].text = p[i].text
  BY <1>1 DEF Todo
<1>7. QED
  BY <1>4, <1>5, <1>6 DEF SameTodos

LEMMA StartedFacts ==
    ASSUME NEW p \in Seq(Todo), NEW from \in SUBSET Statuses
    PROVE  \/ Started(p, from) = p
           \/ \E i \in 1 .. Len(p) :
                 NextTodo(p, i, from) /\ Started(p, from) = With(p, i, "in_progress")
<1>1. DOMAIN p = 1 .. Len(p)
  BY TodoFacts
<1>2. CASE \E i \in DOMAIN p : NextTodo(p, i, from)
  <2>1. PICK i \in DOMAIN p : i = CHOOSE k \in DOMAIN p : NextTodo(p, k, from)
    BY <1>2
  <2>2. NextTodo(p, i, from)
    BY <1>2, <2>1
  <2>3. QED
    BY <1>1, <1>2, <2>1, <2>2 DEF Started
<1>3. CASE ~\E i \in DOMAIN p : NextTodo(p, i, from)
  BY <1>3 DEF Started
<1>4. QED
  BY <1>2, <1>3

LEMMA StartedSame ==
    ASSUME NEW p \in Seq(Todo), NEW from \in SUBSET Statuses
    PROVE  SameTodos(p, Started(p, from))
<1>1. "in_progress" \in Statuses
  BY DEF Statuses
<1>2. SameTodos(p, p)
  BY TodoFacts DEF SameTodos
<1>3. QED
  BY <1>1, <1>2, StartedFacts, WithFacts

\* Starting an item keeps the order: the ones ahead of it are done.
LEMMA StartedInOrder ==
    ASSUME NEW p \in Seq(Todo), NEW from \in SUBSET Statuses, "done" \notin from,
           InOrder(p)
    PROVE  InOrder(Started(p, from))
<1>1. CASE Started(p, from) = p
  BY <1>1
<1>2. ASSUME NEW i \in 1 .. Len(p), NextTodo(p, i, from),
             Started(p, from) = With(p, i, "in_progress")
      PROVE  InOrder(Started(p, from))
  <2> DEFINE q == With(p, i, "in_progress")
  <2>1. /\ SameTodos(p, q)
        /\ \A j \in 1 .. Len(p) : j # i => q[j] = p[j]
    BY WithFacts DEF Statuses
  <2>2. DOMAIN q = 1 .. Len(p) /\ DOMAIN p = 1 .. Len(p) /\ Len(p) \in Nat
    BY <2>1, TodoFacts DEF SameTodos
  <2>3. /\ p[i].status # "done"
        /\ \A j \in 1 .. i - 1 : p[j].status = "done"
    BY <1>2 DEF NextTodo
  <2>4. SUFFICES ASSUME NEW k \in 1 .. Len(p), q[k].status \in {"in_progress", "failed"},
                        NEW j \in 1 .. k - 1
                 PROVE  q[j].status = "done"
    BY <1>2, <2>2 DEF InOrder
  <2>5. j \in 1 .. Len(p) /\ j < k
    BY <2>2
  <2>6. CASE k = i
    BY <2>1, <2>3, <2>5, <2>6
  <2>7. CASE k # i
    <3>1. p[k].status \in {"in_progress", "failed"}
      BY <2>1, <2>4, <2>7
    <3>2. \A l \in 1 .. k - 1 : p[l].status = "done"
      BY <3>1, <2>2 DEF InOrder
    <3>3. j # i
      BY <2>3, <3>2
    <3>4. QED
      BY <2>1, <2>5, <3>2, <3>3
  <2>8. QED
    BY <2>6, <2>7
<1>3. QED
  BY <1>1, <1>2, StartedFacts

LEMMA RetriedFacts ==
    ASSUME NEW p \in Seq(Todo), InOrder(p)
    PROVE  SameTodos(p, StartedOrRetried(p)) /\ InOrder(StartedOrRetried(p))
<1>1. {"pending", "failed"} \in SUBSET Statuses /\ "done" \notin {"pending", "failed"}
  BY DEF Statuses
<1>2. SameTodos(p, p)
  BY TodoFacts DEF SameTodos
<1>3. QED
  BY <1>1, <1>2, StartedSame, StartedInOrder DEF StartedOrRetried

LEMMA AdvancedFacts ==
    ASSUME NEW p \in Seq(Todo), InOrder(p), NEW i \in DOMAIN p
    PROVE  SameTodos(p, Advanced(p, i)) /\ InOrder(Advanced(p, i))
<1> DEFINE q == With(p, i, "done")
<1>1. DOMAIN p = 1 .. Len(p) /\ Len(p) \in Nat
  BY TodoFacts
<1>2. /\ SameTodos(p, q)
      /\ q[i].status = "done"
      /\ \A j \in 1 .. Len(p) : j # i => q[j] = p[j]
  BY <1>1, WithFacts DEF Statuses
<1>3. q \in Seq(Todo) /\ DOMAIN q = 1 .. Len(p)
  BY <1>1, <1>2, TodoFacts DEF SameTodos
<1>4. InOrder(q)
  <2>1. SUFFICES ASSUME NEW k \in 1 .. Len(p), q[k].status \in {"in_progress", "failed"},
                        NEW j \in 1 .. k - 1
                 PROVE  q[j].status = "done"
    BY <1>3 DEF InOrder
  <2>2. k # i /\ j \in 1 .. Len(p)
    BY <1>1, <1>2, <2>1
  <2>3. p[j].status = "done"
    BY <1>1, <1>2, <2>1, <2>2 DEF InOrder
  <2>4. QED
    BY <1>2, <2>2, <2>3
<1>5. {"pending"} \in SUBSET Statuses /\ "done" \notin {"pending"}
  BY DEF Statuses
<1>6. Advanced(p, i) = Started(q, {"pending"})
  BY DEF Advanced
<1>7. SameTodos(q, Advanced(p, i)) /\ InOrder(Advanced(p, i))
  BY <1>3, <1>4, <1>5, <1>6, StartedSame, StartedInOrder
<1>8. QED
  BY <1>2, <1>7 DEF SameTodos

-----------------------------------------------------------------------------
(* What the scheduler makes of a sound plan is sound *)

LEMMA SoundEmpty ==
    ASSUME NEW e
    PROVE  Sound(<<>>, e)
BY DEF Sound, InOrder, Backed

LEMMA SoundMore ==
    ASSUME NEW e, NEW f, e \subseteq f, NEW p, Sound(p, e)
    PROVE  Sound(p, f)
BY DEF Sound, Backed

LEMMA SoundStarted ==
    ASSUME NEW e, NEW p, Sound(p, e)
    PROVE  Sound(StartedOrRetried(p), e)
<1>1. p \in Seq(Todo) /\ InOrder(p) /\ Backed(p, e)
  BY DEF Sound
<1> DEFINE q == StartedOrRetried(p)
<1>2. SameTodos(p, q) /\ InOrder(q)
  BY <1>1, RetriedFacts
<1>3. {"pending", "failed"} \in SUBSET Statuses /\ "in_progress" \in Statuses
  BY DEF Statuses
<1>4. \/ q = p
      \/ \E i \in 1 .. Len(p) : q = With(p, i, "in_progress")
  BY <1>1, <1>3, StartedFacts DEF StartedOrRetried
<1>5. Backed(q, e)
  <2>1. CASE q = p
    BY <1>1, <2>1
  <2>2. ASSUME NEW i \in 1 .. Len(p), q = With(p, i, "in_progress")
        PROVE  Backed(q, e)
    <3>1. /\ q[i].status = "in_progress"
          /\ \A j \in 1 .. Len(p) : j # i => q[j] = p[j]
      BY <1>1, <1>3, <2>2, WithFacts
    <3>2. DOMAIN q = 1 .. Len(p) /\ DOMAIN p = 1 .. Len(p)
      BY <1>1, <1>2, TodoFacts DEF SameTodos
    <3>3. QED
      BY <1>1, <3>1, <3>2 DEF Backed
  <2>3. QED
    BY <1>4, <2>1, <2>2
<1>6. QED
  BY <1>2, <1>5 DEF Sound, SameTodos

LEMMA SoundAdvanced ==
    ASSUME NEW e, NEW p, Sound(p, e), NEW i \in DOMAIN p
    PROVE  Sound(Advanced(p, i), e \cup {p[i].text})
<1>1. p \in Seq(Todo) /\ InOrder(p) /\ Backed(p, e) /\ i \in 1 .. Len(p)
  BY TodoFacts DEF Sound
<1> DEFINE q == With(p, i, "done")
           a == Advanced(p, i)
           f == e \cup {p[i].text}
<1>2. {"pending"} \in SUBSET Statuses /\ {"in_progress", "done"} \subseteq Statuses
  BY DEF Statuses
<1>3. /\ SameTodos(p, q)
      /\ \A j \in 1 .. Len(p) : j # i => q[j] = p[j]
  BY <1>1, <1>2, WithFacts
<1>4. /\ q \in Seq(Todo) /\ DOMAIN q = 1 .. Len(p) /\ DOMAIN p = 1 .. Len(p)
      /\ Len(q) = Len(p)
  BY <1>1, <1>3, TodoFacts DEF SameTodos
<1>5. Backed(q, f)
  BY <1>1, <1>3, <1>4 DEF Backed, SameTodos
<1>6. \/ a = q
      \/ \E k \in 1 .. Len(q) : a = With(q, k, "in_progress")
  BY <1>2, <1>4, StartedFacts DEF Advanced
<1>7. SameTodos(p, a) /\ InOrder(a)
  BY <1>1, AdvancedFacts
<1>8. Backed(a, f)
  <2>1. CASE a = q
    BY <1>5, <2>1
  <2>2. ASSUME NEW k \in 1 .. Len(q), a = With(q, k, "in_progress")
        PROVE  Backed(a, f)
    <3>1. /\ a[k].status = "in_progress"
          /\ \A j \in 1 .. Len(q) : j # k => a[j] = q[j]
      <4> "in_progress" \in Statuses
        BY <1>2
      <4> HIDE DEF q, a
      <4> QED
        BY <1>4, <2>2, WithFacts
    <3>2. DOMAIN a = 1 .. Len(q)
      BY <1>4, <1>7, TodoFacts DEF SameTodos
    <3>3. QED
      BY <1>4, <1>5, <3>1, <3>2 DEF Backed
  <2>3. QED
    BY <1>6, <2>1, <2>2
<1>9. QED
  BY <1>7, <1>8 DEF Sound, SameTodos

LEMMA SoundFailed ==
    ASSUME NEW e, NEW p, Sound(p, e)
    PROVE  Sound(Failed(p), e)
<1>1. /\ p \in Seq(Todo) /\ InOrder(p) /\ Backed(p, e)
      /\ DOMAIN p = 1 .. Len(p) /\ Len(p) \in Nat
      /\ \A i \in 1 .. Len(p) : p[i] \in Todo
  BY TodoFacts DEF Sound
<1> DEFINE q == Failed(p)
<1>2. \A i \in 1 .. Len(p) : /\ [p[i] EXCEPT !.status = "failed"] \in Todo
                              /\ [p[i] EXCEPT !.status = "failed"].status = "failed"
  BY <1>1 DEF Todo, Statuses
<1>3. /\ DOMAIN q = 1 .. Len(p)
      /\ \A i \in 1 .. Len(p) :
            q[i] = IF p[i].status = "in_progress" THEN [p[i] EXCEPT !.status = "failed"] ELSE p[i]
  BY <1>1 DEF Failed, IsActive
<1>4. q \in [1 .. Len(p) -> Todo]
  BY <1>1, <1>2 DEF Failed, IsActive
<1>5. q \in Seq(Todo)
  BY <1>1, <1>4, SequenceOf
<1>6. InOrder(q)
  BY <1>1, <1>2, <1>3 DEF InOrder
<1>7. Backed(q, e)
  BY <1>1, <1>2, <1>3 DEF Backed
<1>8. QED
  BY <1>5, <1>6, <1>7 DEF Sound

LEMMA SoundClosed ==
    ASSUME NEW e, NEW p, Sound(p, e)
    PROVE  Sound(Closed(p), e) /\ NoneOpen(Closed(p))
<1>1. /\ p \in Seq(Todo) /\ InOrder(p) /\ Backed(p, e)
      /\ DOMAIN p = 1 .. Len(p) /\ Len(p) \in Nat
      /\ \A i \in 1 .. Len(p) : p[i] \in Todo
  BY TodoFacts DEF Sound
<1> DEFINE q == Closed(p)
<1>2. \A i \in 1 .. Len(p), s \in {"failed", "skipped"} :
          /\ [p[i] EXCEPT !.status = s] \in Todo
          /\ [p[i] EXCEPT !.status = s].status = s
  BY <1>1 DEF Todo, Statuses
<1>3. /\ DOMAIN q = 1 .. Len(p)
      /\ \A i \in 1 .. Len(p) :
            q[i] = IF p[i].status = "in_progress" THEN [p[i] EXCEPT !.status = "failed"]
                   ELSE IF p[i].status = "pending" THEN [p[i] EXCEPT !.status = "skipped"]
                   ELSE p[i]
  BY <1>1 DEF Closed
<1>4. q \in [1 .. Len(p) -> Todo]
  <2>1. \A i \in 1 .. Len(p) : q[i] \in Todo
    BY <1>1, <1>2, <1>3
  <2>2. q = [i \in 1 .. Len(p) |-> q[i]]
    BY <1>1 DEF Closed
  <2>3. QED
    BY <2>1, <2>2
<1>5. q \in Seq(Todo)
  BY <1>1, <1>4, SequenceOf
<1>6. InOrder(q)
  <2>1. SUFFICES ASSUME NEW k \in 1 .. Len(p), q[k].status \in {"in_progress", "failed"},
                        NEW j \in 1 .. k - 1
                 PROVE  q[j].status = "done"
    BY <1>3 DEF InOrder
  <2>2. p[k].status \in {"in_progress", "failed"}
    BY <1>2, <1>3, <2>1
  <2>3. p[j].status = "done" /\ j \in 1 .. Len(p)
    BY <1>1, <2>2 DEF InOrder
  <2>4. QED
    BY <1>3, <2>3
<1>7. Backed(q, e)
  BY <1>1, <1>2, <1>3 DEF Backed
<1>8. NoneOpen(q)
  BY <1>1, <1>2, <1>3 DEF NoneOpen
<1>9. QED
  BY <1>5, <1>6, <1>7, <1>8 DEF Sound

LEMMA SoundReconciled ==
    ASSUME NEW texts \in Proposals, Sound(plan, evidenced)
    PROVE  Sound(Reconciled(texts), evidenced)
<1>1. texts \in Seq(Todos)
  BY SessionGraphAssumption
<1>2. Len(texts) \in Nat /\ DOMAIN texts = 1 .. Len(texts)
  BY <1>1
<1> DEFINE q == Reconciled(texts)
<1>3. \A i \in 1 .. Len(texts) : texts[i] \in Todos
  BY <1>1
<1>4. q \in [1 .. Len(texts) -> Todo]
  BY <1>2, <1>3 DEF Reconciled, Todo, Statuses
<1>5. q \in Seq(Todo) /\ Len(q) = Len(texts)
  BY <1>2, <1>4, SequenceOf
<1>6. \A i \in 1 .. Len(texts) :
          /\ q[i].text = texts[i]
          /\ q[i].status \in {"done", "pending"}
          /\ q[i].status = "done" => CarriedOver(texts[i])
  BY <1>2 DEF Reconciled
<1>7. DOMAIN q = 1 .. Len(texts)
  BY <1>2 DEF Reconciled
<1>8. InOrder(q)
  BY <1>6, <1>7 DEF InOrder
<1>9. \A text : CarriedOver(text) => text \in evidenced
  <2>1. SUFFICES ASSUME NEW text, NEW i \in DOMAIN plan,
                        plan[i] = [text |-> text, status |-> "done"]
                 PROVE  text \in evidenced
    BY DEF CarriedOver
  <2>2. plan[i].text = text /\ plan[i].status = "done"
    BY <2>1
  <2>3. QED
    BY <2>2 DEF Sound, Backed
<1>10. Backed(q, evidenced)
  BY <1>6, <1>7, <1>9 DEF Backed
<1>11. QED
  BY <1>5, <1>8, <1>10 DEF Sound

-----------------------------------------------------------------------------
(* One tool call *)

LEMMA BoundFacts ==
    /\ MaxReflections \in Nat \ {0} /\ MaxToolTurns \in Nat \ {0}
    /\ MaxAgentTurns \in Nat \ {0} /\ MaxStops \in Nat \ {0}
    /\ MaxRuns \in Nat /\ MaxLost \in Nat
    /\ 0 \in 0 .. MaxStops - 1 /\ 0 \in 0 .. MaxToolTurns /\ 0 \in 0 .. MaxAgentTurns
<1>1. /\ MaxReflections \in Nat \ {0} /\ MaxToolTurns \in Nat \ {0}
      /\ MaxAgentTurns \in Nat \ {0} /\ MaxStops \in Nat \ {0}
  BY SessionGraphAssumption
<1>2. MaxRuns \in Nat /\ MaxLost \in Nat
  BY SessionGraphAssumption
<1>3. QED
  BY <1>1, <1>2

LEMMA TaskType ==
    ASSUME NEW p \in Seq(Todo)
    PROVE  Task(p) \in Todos \cup {"no todo"}
<1>1. CASE HasActive(p)
  <2>1. PICK i \in DOMAIN p : i = CHOOSE k \in DOMAIN p : IsActive(p, k)
    BY <1>1 DEF HasActive
  <2>2. p[i].text \in Todos
    BY TodoFacts
  <2>3. QED
    BY <1>1, <2>1, <2>2 DEF Task
<1>2. CASE ~HasActive(p)
  BY <1>2 DEF Task
<1>3. QED
  BY <1>1, <1>2

LEMMA ActiveTask ==
    ASSUME NEW p \in Seq(Todo), HasActive(p)
    PROVE  LET i == CHOOSE k \in DOMAIN p : IsActive(p, k)
           IN  i \in DOMAIN p /\ IsActive(p, i) /\ Task(p) = p[i].text
BY DEF HasActive, Task

LEMMA CalledFacts ==
    ASSUME NEW e, NEW p \in Passes, Sound(p.plan, e),
           NEW call \in Calls \cup {"none"}, MayCall(p, call)
    PROVE  /\ Called(p, call) \in Passes
           /\ Called(p, call).turns = p.turns
           /\ Called(p, call).step = p.step
           /\ Sound(Called(p, call).plan, e \cup Evidence(p, call))
           /\ Evidence(p, call) \subseteq Todos
<1> DEFINE q == Called(p, call)
<1>1. Task(p.plan) \in Todos \cup {"no todo"}
  BY TaskType DEF Sound
<1>2. MaxStops \in Nat \ {0} /\ 0 \in 0 .. MaxStops - 1
  BY BoundFacts
<1>3. CASE call \notin Completing
  <2>1. Evidence(p, call) = {}
    BY <1>3 DEF Evidence
  <2>2. q \in Passes /\ q.turns = p.turns /\ q.step = p.step /\ q.plan = p.plan
    BY <1>1, <1>2, <1>3 DEF Called, Calls, Completing, Passes
  <2>3. QED
    BY <2>1, <2>2
<1>4. CASE call \in Completing
  <2>1. HasActive(p.plan)
    BY <1>4 DEF MayCall
  <2> DEFINE i == CHOOSE k \in DOMAIN p.plan : IsActive(p.plan, k)
  <2>2. i \in DOMAIN p.plan /\ Task(p.plan) = p.plan[i].text
    BY <2>1, ActiveTask DEF Sound
  <2>3. Evidence(p, call) = {p.plan[i].text} /\ p.plan[i].text \in Todos
    BY <1>4, <2>2, TodoFacts DEF Evidence, Sound
  <2>4. Sound(Advanced(p.plan, i), e \cup Evidence(p, call))
    BY <2>2, <2>3, SoundAdvanced
  <2>5. PICK left \in {p.failed \ {Task(p.plan)}, p.failed \cup {Task(p.plan)}} :
           q = [p EXCEPT !.tried = TRUE, !.stops = 0, !.failed = left,
                         !.plan = Advanced(p.plan, i)]
    BY <1>4 DEF Called, Completing
  <2>6. Advanced(p.plan, i) \in Seq(Todo)
    BY <2>4 DEF Sound
  <2> HIDE DEF i, q
  <2>7. q \in Passes /\ q.turns = p.turns /\ q.step = p.step
        /\ q.plan = Advanced(p.plan, i)
    BY <1>1, <1>2, <2>5, <2>6 DEF Passes
  <2>8. QED
    BY <2>3, <2>4, <2>7 DEF q
<1>5. QED
  BY <1>3, <1>4

-----------------------------------------------------------------------------
(* Every action preserves the invariant *)

LEMMA NoPassFacts ==
    /\ NoPass \in Passes /\ NoTurns \in Turns
    /\ NoPass.plan = <<>> /\ NoPass.step = "model"
<1>1. <<>> \in Seq(Todo)
  OBVIOUS
<1>2. NoTurns \in Turns
  BY BoundFacts DEF NoTurns, Turns
<1>3. QED
  BY <1>1, <1>2, BoundFacts DEF NoPass, Passes

LEMMA NoSummaryType == NoSummary \in Summaries
BY DEF NoSummary, Summaries

LEMMA DefaultFrameType == DefaultFrame \in Frames
BY DEF DefaultFrame, Frames

LEMMA InitInv == Init => Inv
<1> SUFFICES ASSUME Init PROVE Inv
  OBVIOUS
<1>1. TypeOK
  <2>1. message \in Messages /\ plan \in Seq(Todo)
    BY DEF Init, Messages
  <2>2. reflections \in 0 .. MaxReflections /\ run \in 0 .. MaxRuns /\ planRun \in 0 .. run
        /\ lost \in 0 .. MaxLost
    BY BoundFacts DEF Init
  <2>3. QED
    BY <2>1, <2>2, NoPassFacts, NoSummaryType, DefaultFrameType DEF Init, TypeOK
<1>2. ControlInv /\ ConfirmedInv
  BY DEF Init, ControlInv, ConfirmedInv, DefaultFrame, Progressing
<1>3. BudgetInv
  BY NoPassFacts, BoundFacts DEF Init, BudgetInv
<1>4. SoundInv
  BY NoPassFacts, SoundEmpty DEF Init, SoundInv
<1>5. OutcomeInv
  BY DEF Init, OutcomeInv
<1>6. QED
  BY <1>1, <1>2, <1>3, <1>4, <1>5 DEF Inv

LEMMA PostInv == Inv /\ Post => Inv'
<1> SUFFICES ASSUME Inv, Post PROVE Inv'
  OBVIOUS
<1> USE DEF Post, Inv
<1>1. TypeOK'
  <2>1. run' \in 1 .. MaxRuns /\ planRun' \in 0 .. run' /\ reflections' \in 0 .. MaxReflections
    BY BoundFacts DEF TypeOK
  <2>2. engine' \in {"native", "sdk"}
    BY <2>1, SessionGraphAssumption
  <2>3. message' \in Messages
    OBVIOUS
  <2>4. /\ node' = "ingest" /\ turns' \in Turns /\ error' \in BOOLEAN /\ outcome' = "none"
        /\ UNCHANGED <<frame, plan, resume, summary, pass, lost, evidenced, confirmed>>
    BY NoPassFacts DEF history
  <2>5. run' \in 0 .. MaxRuns
    BY <2>1
  <2> HIDE DEF Post
  <2>6. QED
    BY <2>1, <2>2, <2>3, <2>4, <2>5 DEF TypeOK
<1>2. ControlInv' /\ ConfirmedInv'
  BY DEF ControlInv, ConfirmedInv, Progressing, history
<1>3. BudgetInv'
  BY NoPassFacts, BoundFacts DEF BudgetInv, ControlInv
<1>4. SoundInv'
  BY DEF SoundInv, history
<1>5. OutcomeInv'
  BY DEF OutcomeInv
<1>6. QED
  BY <1>1, <1>2, <1>3, <1>4, <1>5

LEMMA IngestInv == Inv /\ Ingest => Inv'
<1> SUFFICES ASSUME Inv, Ingest PROVE Inv'
  OBVIOUS
<1> USE DEF Ingest, Inv
<1>1. TypeOK'
  <2>1. summary' \in Summaries
    BY NoSummaryType DEF TypeOK
  <2>2. frame.awaiting \in BOOLEAN
    BY DEF TypeOK, Frames
  <2>3. <<>> \in Seq(Todo) /\ 0 \in 0 .. run
    BY BoundFacts DEF TypeOK
  <2>4. plan' \in Seq(Todo) /\ planRun' \in 0 .. run'
    BY <2>3 DEF TypeOK
  <2>5. QED
    BY <2>1, <2>2, <2>4, NoPassFacts DEF TypeOK
<1>2. ControlInv' /\ ConfirmedInv'
  BY DEF ControlInv, ConfirmedInv, Progressing
<1>3. BudgetInv'
  BY NoPassFacts, BoundFacts DEF BudgetInv, ControlInv
<1>4. SoundInv'
  BY NoPassFacts, SoundEmpty DEF SoundInv, ControlInv
<1>5. OutcomeInv'
  BY DEF OutcomeInv, ControlInv
<1>6. QED
  BY <1>1, <1>2, <1>3, <1>4, <1>5

LEMMA EnforcedFacts ==
    ASSUME TypeOK, NEW f \in ProposedFrames
    PROVE  /\ Enforced(f) \in Frames
           /\ ~Enforced(f).awaiting
           /\ Enforced(f).risk = "high" /\ ~Enforced(f).clarify
                => Asked /\ message.kind = "confirm"
BY DEF TypeOK, Enforced, ProposedFrames, Frames, Confirmed

LEMMA TaskFrameInv == Inv /\ TaskFrame => Inv'
<1> SUFFICES ASSUME Inv, TaskFrame PROVE Inv'
  OBVIOUS
<1> USE DEF Inv
<1>1. /\ node = "task_frame"
      /\ error' \in BOOLEAN
      /\ message' = [message EXCEPT !.kind = "framed"]
      /\ node' = RouteAfterTaskFrame(frame', error')
      /\ UNCHANGED <<plan, planRun, resume, reflections, turns, summary,
                     pass, run, engine, outcome, lost, evidenced>>
  BY DEF TaskFrame
<1>2. CASE resume
  <2>1. frame' = [frame EXCEPT !.clarify = FALSE, !.awaiting = FALSE] /\ UNCHANGED confirmed
    BY <1>2 DEF TaskFrame
  <2>2. frame' \in Frames /\ ~frame'.awaiting /\ frame'.risk = frame.risk
    BY <2>1 DEF TypeOK, Frames
  <2>3. frame.risk = "high" => confirmed
    BY <1>1, <1>2 DEF ControlInv, ConfirmedInv
  <2>4. node' \in {"finalize", "execute"} /\ (node' = "finalize" => error')
    BY <1>1, <1>2 DEF RouteAfterTaskFrame
  <2>5. TypeOK'
    BY <1>1, <2>1, <2>2, <2>4 DEF TypeOK, Messages
  <2>6. ControlInv' /\ ConfirmedInv'
    BY <1>1, <2>1, <2>2, <2>3, <2>4 DEF ControlInv, ConfirmedInv
  <2>7. BudgetInv' /\ SoundInv' /\ OutcomeInv'
    BY <1>1, <2>4, NoPassFacts DEF BudgetInv, SoundInv, OutcomeInv, ControlInv
  <2>8. QED
    BY <2>5, <2>6, <2>7
<1>3. CASE ~resume
  <2>1. /\ frame' \in Frames /\ ~frame'.awaiting /\ confirmed' \in BOOLEAN
        /\ frame'.risk = "high" /\ ~frame'.clarify => confirmed'
    <3>1. CASE message.skip
      <4>1. frame' = DefaultFrame /\ confirmed' = FALSE
        BY <1>3, <3>1 DEF TaskFrame
      <4>2. DefaultFrame.risk = "low" /\ ~DefaultFrame.awaiting
        BY DEF DefaultFrame
      <4>3. QED
        BY <4>1, <4>2, DefaultFrameType
    <3>2. CASE ~message.skip
      <4>1. PICK f \in ProposedFrames : frame' = Enforced(f)
        BY <1>3, <3>2 DEF TaskFrame
      <4>2. confirmed' = (Asked /\ message.kind = "confirm")
        BY <1>3, <3>2 DEF TaskFrame
      <4>3. QED
        BY <4>1, <4>2, EnforcedFacts
    <3>3. QED
      BY <3>1, <3>2
  <2>2. plan' = <<>>
    BY <1>1, <1>3 DEF ControlInv
  <2>3. /\ node' \in {"finalize", "clarify", "direct_answer", "plan"}
        /\ node' = "finalize" => error'
        /\ node' = "clarify" => frame'.clarify
        /\ node' = "plan" => ~frame'.clarify
    BY <1>1, <1>3, <2>1 DEF RouteAfterTaskFrame
  <2>4. TypeOK'
    BY <1>1, <2>1, <2>3 DEF TypeOK, Messages
  <2>5. ControlInv' /\ ConfirmedInv'
    BY <1>1, <2>1, <2>2, <2>3 DEF ControlInv, ConfirmedInv, Progressing
  <2>6. BudgetInv' /\ SoundInv' /\ OutcomeInv'
    BY <1>1, <2>3, NoPassFacts DEF BudgetInv, SoundInv, OutcomeInv, ControlInv
  <2>7. QED
    BY <2>4, <2>5, <2>6
<1>4. QED
  BY <1>2, <1>3

LEMMA ReplyInv == Inv /\ (Clarify \/ DirectAnswer) => Inv'
<1> SUFFICES ASSUME Inv, Clarify \/ DirectAnswer PROVE Inv'
  OBVIOUS
<1> USE DEF Inv
<1>1. /\ node \in {"clarify", "direct_answer"} /\ node' = "finalize"
      /\ UNCHANGED <<message, frame, plan, planRun, resume, reflections, turns, summary,
                     error, pass, run, engine, outcome, lost, evidenced, confirmed>>
  BY DEF Clarify, DirectAnswer, history
<1>2. frame.clarify \/ plan = <<>>
  BY <1>1 DEF ControlInv
<1>3. TypeOK'
  BY <1>1 DEF TypeOK
<1>4. ControlInv' /\ ConfirmedInv' /\ BudgetInv' /\ SoundInv'
  BY <1>1, NoPassFacts DEF ControlInv, ConfirmedInv, BudgetInv, SoundInv, Progressing
<1>5. OutcomeInv'
  <2>1. NoneOpen(<<>>)
    BY DEF NoneOpen
  <2>2. QED
    BY <1>1, <1>2, <2>1 DEF OutcomeInv, ControlInv
<1>6. QED
  BY <1>3, <1>4, <1>5

LEMMA PlanNodeInv == Inv /\ PlanNode => Inv'
<1> SUFFICES ASSUME Inv, PlanNode PROVE Inv'
  OBVIOUS
<1> USE DEF Inv
<1>1. /\ node = "plan"
      /\ node' = IF frame'.clarify THEN "clarify" ELSE "execute"
      /\ UNCHANGED <<message, resume, reflections, turns, summary, error, pass,
                     run, engine, outcome, lost, evidenced, confirmed>>
  BY DEF PlanNode, history
<1>2. frame' \in Frames /\ frame'.risk = frame.risk /\ frame'.awaiting = frame.awaiting
  BY DEF PlanNode, TypeOK, Frames
<1>3. Sound(plan', evidenced) /\ planRun' \in 0 .. run
  <2>1. Sound(plan, evidenced) /\ planRun \in 0 .. run /\ run \in 0 .. run
    BY BoundFacts DEF SoundInv, TypeOK
  <2>2. CASE UNCHANGED <<plan, planRun>>
    BY <2>1, <2>2
  <2>3. CASE planRun' = run /\ \E texts \in Proposals : plan' = Reconciled(texts)
    BY <2>1, <2>3, SoundReconciled
  <2>4. QED
    BY <2>2, <2>3 DEF PlanNode
<1>4. TypeOK'
  BY <1>1, <1>2, <1>3 DEF TypeOK, Sound
<1>5. ControlInv' /\ ConfirmedInv'
  BY <1>1, <1>2 DEF ControlInv, ConfirmedInv, Progressing
<1>6. BudgetInv' /\ SoundInv' /\ OutcomeInv'
  BY <1>1, <1>3, NoPassFacts DEF BudgetInv, SoundInv, OutcomeInv, ControlInv
<1>7. QED
  BY <1>4, <1>5, <1>6

\* A step of the loop changes the locals of execute only.
LEMMA WithinLoop ==
    ASSUME Inv, node = "executing", UNCHANGED <<node, Inside, lost, confirmed>>,
           pass' \in Passes, Grown(pass.turns, pass'.turns),
           pass'.step = "tools" => engine = "native" /\ pass'.turns.tool < MaxToolTurns,
           evidenced \subseteq evidenced', evidenced' \subseteq Todos,
           Sound(pass'.plan, evidenced')
    PROVE  Inv'
<1>1. UNCHANGED <<node, message, frame, plan, planRun, resume, reflections, turns, summary,
                  error, run, engine, outcome, lost, confirmed>>
  BY DEF Inside
<1>2. TypeOK'
  BY <1>1 DEF TypeOK, Inv
<1>3. ControlInv' /\ ConfirmedInv' /\ OutcomeInv'
  BY <1>1 DEF ControlInv, ConfirmedInv, OutcomeInv, Inv
<1>4. BudgetInv'
  <2>1. turns \in Turns /\ pass.turns \in Turns /\ pass'.turns \in Turns
    BY DEF Inv, TypeOK, Passes
  <2>2. Grown(turns, pass.turns)
    BY DEF Inv, BudgetInv
  <2>3. Grown(turns, pass'.turns)
    BY <2>1, <2>2 DEF Grown, Turns
  <2>4. QED
    BY <1>1, <2>3 DEF BudgetInv, Inv
<1>5. SoundInv'
  BY <1>1, SoundMore DEF SoundInv, Inv
<1>6. QED
  BY <1>2, <1>3, <1>4, <1>5 DEF Inv

\* execute returns: to reflect, or to finalize with a question or an error.
LEMMA ReturnInv ==
    ASSUME Inv, node = "executing",
           NEW p \in Passes, NEW todos, NEW missing \in BOOLEAN, NEW exception \in BOOLEAN,
           Return(p, todos, missing, exception),
           Grown(pass.turns, p.turns), Sound(todos, evidenced'),
           evidenced \subseteq evidenced', evidenced' \subseteq Todos,
           frame' \in Frames, frame'.risk = frame.risk, error' \in BOOLEAN,
           node' \in {"reflect", "finalize"},
           node' = "finalize" => frame'.clarify \/ error'
    PROVE  Inv' /\ Grown(turns, turns')
<1>1. /\ plan' = todos /\ turns' = p.turns /\ pass' = NoPass
      /\ UNCHANGED <<message, planRun, resume, reflections, run, engine, outcome, lost,
                     confirmed>>
  BY DEF Return
<1>2. summary' \in Summaries
  BY DEF Return, Summaries, Passes
<1>3. turns \in Turns /\ pass.turns \in Turns /\ p.turns \in Turns
  BY DEF Inv, TypeOK, Passes
<1>4. Grown(turns, turns')
  BY <1>1, <1>3 DEF Grown, Turns, Inv, BudgetInv
<1>5. TypeOK'
  <2>1. plan' \in Seq(Todo)
    BY <1>1 DEF Sound
  <2>2. QED
    BY <1>1, <1>2, <1>3, <2>1, NoPassFacts DEF TypeOK, Inv
<1>6. ControlInv' /\ ConfirmedInv'
  BY <1>1 DEF ControlInv, ConfirmedInv, Progressing, Inv
<1>7. BudgetInv'
  BY <1>1, NoPassFacts DEF BudgetInv, Inv
<1>8. SoundInv'
  BY <1>1, NoPassFacts, SoundEmpty DEF SoundInv
<1>9. OutcomeInv'
  BY <1>1 DEF OutcomeInv, ControlInv, Inv
<1>10. QED
  BY <1>4, <1>5, <1>6, <1>7, <1>8, <1>9 DEF Inv

LEMMA GrownSame == ASSUME NEW t \in Turns PROVE Grown(t, t)
BY DEF Grown, Turns

\* One more turn, within the budget.
LEMMA CountedFacts ==
    ASSUME NEW t \in Turns
    PROVE  /\ t.tool < MaxToolTurns =>
                 /\ Counted(t, "tool") \in Turns /\ Grown(t, Counted(t, "tool"))
                 /\ Counted(t, "tool").tool = t.tool + 1
           /\ \A spent \in BOOLEAN : Within(t) =>
                 LET u == [Counted(t, "agent") EXCEPT !.tokens = spent]
                 IN  u \in Turns /\ Grown(t, u) /\ u.tool = t.tool
<1>1. t.tool \in 0 .. MaxToolTurns /\ t.agent \in 0 .. MaxAgentTurns /\ t.tokens \in BOOLEAN
      /\ t = [tool |-> t.tool, agent |-> t.agent, tokens |-> t.tokens]
  BY DEF Turns
<1>2. Counted(t, "tool") = [tool |-> t.tool + 1, agent |-> t.agent, tokens |-> t.tokens]
  <2>1. Counted(t, "tool") = [t EXCEPT !.tool = t.tool + 1]
    BY DEF Counted
  <2>2. QED
    BY <2>1 DEF Turns
<1>3. \A spent : [Counted(t, "agent") EXCEPT !.tokens = spent]
                  = [tool |-> t.tool, agent |-> t.agent + 1, tokens |-> spent]
  <2>1. Counted(t, "agent") = [t EXCEPT !.agent = t.agent + 1]
    BY DEF Counted
  <2>2. QED
    BY <2>1 DEF Turns
<1>4. t.tool < MaxToolTurns => t.tool + 1 \in 0 .. MaxToolTurns
  BY <1>1, BoundFacts
<1>5. Within(t) => t.agent + 1 \in 0 .. MaxAgentTurns /\ ~t.tokens
  BY <1>1, BoundFacts DEF Within
<1>6. ASSUME t.tool < MaxToolTurns
      PROVE  /\ Counted(t, "tool") \in Turns /\ Grown(t, Counted(t, "tool"))
             /\ Counted(t, "tool").tool = t.tool + 1
  BY <1>1, <1>2, <1>4, <1>6 DEF Turns, Grown
<1>7. ASSUME NEW spent \in BOOLEAN, Within(t)
      PROVE  LET u == [Counted(t, "agent") EXCEPT !.tokens = spent]
             IN  u \in Turns /\ Grown(t, u) /\ u.tool = t.tool
  <2> DEFINE u == [Counted(t, "agent") EXCEPT !.tokens = spent]
  <2>1. u = [tool |-> t.tool, agent |-> t.agent + 1, tokens |-> spent]
    BY <1>3
  <2> HIDE DEF u
  <2>2. u \in Turns /\ Grown(t, u) /\ u.tool = t.tool
    BY <1>1, <1>5, <1>7, <2>1 DEF Turns, Grown
  <2>3. QED
    BY <2>2 DEF u
<1>8. QED
  BY <1>6, <1>7

\* What the loop holds before a step of it.
LEMMA LoopFacts ==
    ASSUME Inv
    PROVE  /\ pass \in Passes /\ pass.turns \in Turns /\ pass.plan \in Seq(Todo)
           /\ Sound(pass.plan, evidenced) /\ evidenced \subseteq Todos
           /\ frame \in Frames /\ error \in BOOLEAN
BY DEF Inv, TypeOK, Passes, SoundInv

LEMMA StartPassInv == Inv /\ StartPass => Inv'
<1> SUFFICES ASSUME Inv, StartPass PROVE Inv'
  OBVIOUS
<1> USE DEF Inv
<1>1. /\ node = "execute" /\ node' = "executing"
      /\ UNCHANGED <<message, frame, plan, planRun, resume, reflections, turns, summary,
                     error, run, engine, outcome, lost, evidenced, confirmed>>
  BY DEF StartPass, Inside, history
<1>2. Sound(StartedOrRetried(plan), evidenced)
  BY SoundStarted DEF SoundInv
<1>3. /\ pass'.plan = StartedOrRetried(plan) /\ pass'.turns = turns /\ pass'.step = "model"
      /\ pass' \in Passes
  BY <1>2, BoundFacts DEF StartPass, Sound, TypeOK, Passes, Summaries, Budget
<1>4. TypeOK'
  BY <1>1, <1>3 DEF TypeOK
<1>5. ControlInv' /\ ConfirmedInv' /\ OutcomeInv'
  BY <1>1 DEF ControlInv, ConfirmedInv, OutcomeInv, Progressing
<1>6. BudgetInv'
  BY <1>1, <1>3, GrownSame DEF BudgetInv, TypeOK
<1>7. SoundInv'
  BY <1>1, <1>2, <1>3 DEF SoundInv
<1>8. QED
  BY <1>4, <1>5, <1>6, <1>7

LEMMA ModelTurnInv == Inv /\ ModelTurn => Inv'
<1> SUFFICES ASSUME Inv, ModelTurn PROVE Inv'
  OBVIOUS
<1>1. /\ node = "executing" /\ engine = "native" /\ Within(pass.turns)
      /\ UNCHANGED <<node, Inside, lost, confirmed>>
  BY DEF ModelTurn
<1>2. PICK spent \in BOOLEAN, step \in {"stop", "tools"} :
          LET next == [pass EXCEPT !.step = step,
                                   !.turns = [Counted(@, "agent") EXCEPT !.tokens = spent]]
          IN  \/ pass' = next /\ UNCHANGED evidenced
              \/ \E i \in DOMAIN pass.plan :
                    /\ IsActive(pass.plan, i)
                    /\ pass.plan[i].text \in TextTodos
                    /\ pass' = [next EXCEPT !.plan = Advanced(@, i), !.stops = 0]
                    /\ evidenced' = evidenced \cup {pass.plan[i].text}
  BY DEF ModelTurn
<1> DEFINE u == [Counted(pass.turns, "agent") EXCEPT !.tokens = spent]
           next == [pass EXCEPT !.step = step, !.turns = u]
<1>3. u \in Turns /\ Grown(pass.turns, u) /\ u.tool < MaxToolTurns
  BY <1>1, LoopFacts, CountedFacts DEF Within
<1> HIDE DEF u
<1>4. /\ next \in Passes /\ next.turns = u /\ next.step = step /\ next.plan = pass.plan
  BY <1>3, LoopFacts DEF Passes
<1> HIDE DEF next
<1>5. CASE pass' = next /\ UNCHANGED evidenced
  BY <1>1, <1>3, <1>4, <1>5, LoopFacts, WithinLoop
<1>6. ASSUME NEW i \in DOMAIN pass.plan,
             pass' = [next EXCEPT !.plan = Advanced(@, i), !.stops = 0],
             evidenced' = evidenced \cup {pass.plan[i].text}
      PROVE  Inv'
  <2>1. Sound(Advanced(pass.plan, i), evidenced') /\ pass.plan[i].text \in Todos
    BY <1>6, LoopFacts, SoundAdvanced, TodoFacts
  <2>2. Advanced(next.plan, i) \in Seq(Todo)
    BY <1>4, <2>1 DEF Sound
  <2>3. /\ pass' \in Passes /\ pass'.turns = u /\ pass'.step = step
        /\ pass'.plan = Advanced(pass.plan, i)
    BY <1>4, <1>6, <2>2, BoundFacts DEF Passes
  <2>4. QED
    BY <1>1, <1>3, <1>6, <2>1, <2>3, LoopFacts, WithinLoop
<1>7. QED
  BY <1>2, <1>5, <1>6 DEF next, u

LEMMA StopInv == Inv /\ Stop => Inv' /\ Grown(turns, turns')
<1> SUFFICES ASSUME Inv, Stop PROVE Inv' /\ Grown(turns, turns')
  OBVIOUS
<1>1. node = "executing" /\ evidenced' = evidenced
  BY DEF Stop
<1>2. CASE /\ pass' = [pass EXCEPT !.step = "model", !.stops = @ + 1]
           /\ pass.stops + 1 < MaxStops
           /\ UNCHANGED <<node, Inside, lost, confirmed>>
  <2>1. pass.stops + 1 \in 0 .. MaxStops - 1
    <3>1. pass.stops \in 0 .. MaxStops - 1
      BY LoopFacts DEF Passes
    <3>2. QED
      BY <1>2, <3>1, BoundFacts
  <2>2. /\ pass' \in Passes /\ pass'.turns = pass.turns /\ pass'.step = "model"
        /\ pass'.plan = pass.plan
    BY <1>2, <2>1, LoopFacts DEF Passes
  <2>3. Inv'
    BY <1>1, <1>2, <2>2, LoopFacts, GrownSame, WithinLoop
  <2>4. turns' = turns /\ turns \in Turns
    BY <1>2 DEF Inside, Inv, TypeOK
  <2>5. QED
    BY <2>3, <2>4, GrownSame
<1>3. ASSUME NEW blocked \in BOOLEAN,
             Return(pass, IF blocked THEN Failed(pass.plan) ELSE pass.plan, blocked, FALSE),
             node' = "reflect", UNCHANGED <<frame, error>>
      PROVE  Inv' /\ Grown(turns, turns')
  <2> DEFINE todos == IF blocked THEN Failed(pass.plan) ELSE pass.plan
  <2>1. Sound(todos, evidenced')
    BY <1>1, LoopFacts, SoundFailed
  <2> HIDE DEF todos
  <2>2. Return(pass, todos, blocked, FALSE)
    BY <1>3 DEF todos
  <2>3. QED
    BY <1>1, <1>3, <2>1, <2>2, LoopFacts, GrownSame, ReturnInv
<1>4. QED
  BY <1>2, <1>3 DEF Stop

LEMMA ToolsInv == Inv /\ Tools => Inv' /\ Grown(turns, turns')
<1> SUFFICES ASSUME Inv, Tools PROVE Inv' /\ Grown(turns, turns')
  OBVIOUS
<1>1. node = "executing" /\ pass.step = "tools" /\ pass.turns.tool < MaxToolTurns
  BY DEF Tools, Inv, BudgetInv
<1>2. PICK first, second, start, middle, last :
          /\ first \in Calls /\ second \in Calls \cup {"none"}
          /\ start = [pass EXCEPT !.turns = Counted(@, "tool"), !.step = "model"]
          /\ middle = Called(start, first)
          /\ last = Called(middle, second)
          /\ MayCall(start, first)
          /\ MayCall(middle, second)
          /\ evidenced' = evidenced \cup Evidence(start, first) \cup Evidence(middle, second)
          /\ IF last.asked \/ last.rejected
             THEN /\ Return(last, last.plan, FALSE, FALSE)
                  /\ IF last.asked
                     THEN /\ frame' = [frame EXCEPT !.clarify = TRUE, !.awaiting = TRUE]
                          /\ node' = "finalize"
                     ELSE /\ node' = "reflect"
                          /\ UNCHANGED frame
                  /\ UNCHANGED error
             ELSE /\ pass' = last
                  /\ UNCHANGED <<node, Inside, lost, confirmed>>
  BY Zenon DEF Tools
<1>3. /\ start \in Passes /\ start.turns = Counted(pass.turns, "tool")
      /\ start.plan = pass.plan /\ start.step = "model"
      /\ Grown(pass.turns, start.turns)
  BY <1>1, <1>2, LoopFacts, CountedFacts DEF Passes
<1> DEFINE e == evidenced \cup Evidence(start, first)
<1>4. /\ middle \in Passes /\ middle.turns = start.turns /\ middle.step = "model"
      /\ Sound(middle.plan, e) /\ Evidence(start, first) \subseteq Todos
  <2>1. /\ first \in Calls \cup {"none"} /\ MayCall(start, first)
        /\ start \in Passes /\ Sound(start.plan, evidenced)
    BY <1>2, <1>3, LoopFacts
  <2>2. /\ Called(start, first) \in Passes /\ Called(start, first).turns = start.turns
        /\ Called(start, first).step = start.step
        /\ Sound(Called(start, first).plan, evidenced \cup Evidence(start, first))
        /\ Evidence(start, first) \subseteq Todos
    BY <2>1, CalledFacts
  <2>3. QED
    BY <1>2, <1>3, <2>2
<1> HIDE DEF e
<1>5. /\ last \in Passes /\ last.turns = start.turns /\ last.step = "model"
      /\ Sound(last.plan, e \cup Evidence(middle, second))
      /\ Evidence(middle, second) \subseteq Todos
  <2>1. /\ second \in Calls \cup {"none"} /\ MayCall(middle, second)
        /\ middle \in Passes /\ Sound(middle.plan, e)
    BY <1>2, <1>4
  <2>2. /\ Called(middle, second) \in Passes /\ Called(middle, second).turns = middle.turns
        /\ Called(middle, second).step = middle.step
        /\ Sound(Called(middle, second).plan, e \cup Evidence(middle, second))
        /\ Evidence(middle, second) \subseteq Todos
    BY <2>1, CalledFacts
  <2>3. QED
    BY <1>2, <1>4, <2>2
<1>6. /\ Sound(last.plan, evidenced') /\ evidenced \subseteq evidenced'
      /\ evidenced' \subseteq Todos /\ Grown(pass.turns, last.turns)
  BY <1>2, <1>3, <1>4, <1>5, LoopFacts DEF e
<1>7. CASE last.asked \/ last.rejected
  <2>1. /\ Return(last, last.plan, FALSE, FALSE)
        /\ node' \in {"finalize", "reflect"} /\ UNCHANGED error
        /\ \/ node' = "finalize" /\ frame' = [frame EXCEPT !.clarify = TRUE, !.awaiting = TRUE]
           \/ node' = "reflect" /\ frame' = frame
    BY <1>2, <1>7
  <2>2. frame' \in Frames /\ frame'.risk = frame.risk /\ (node' = "finalize" => frame'.clarify)
    BY <2>1, LoopFacts DEF Frames
  <2>3. QED
    BY <1>1, <1>5, <1>6, <2>1, <2>2, LoopFacts, ReturnInv
<1>8. CASE ~(last.asked \/ last.rejected)
  <2>1. pass' = last /\ UNCHANGED <<node, Inside, lost, confirmed>>
    BY <1>2, <1>8
  <2>2. Inv'
    BY <1>1, <1>5, <1>6, <2>1, WithinLoop
  <2>3. QED
    BY <2>1, <2>2, GrownSame DEF Inside, Inv, TypeOK
<1>9. QED
  BY <1>7, <1>8

LEMMA ExhaustedInv == Inv /\ Exhausted => Inv' /\ Grown(turns, turns')
<1> SUFFICES ASSUME Inv, Exhausted PROVE Inv' /\ Grown(turns, turns')
  OBVIOUS
<1>1. /\ node = "executing" /\ node' = "reflect" /\ UNCHANGED <<frame, error, evidenced>>
      /\ Return(pass, Failed(pass.plan), FALSE, FALSE)
  BY DEF Exhausted
<1>2. Sound(Failed(pass.plan), evidenced')
  BY <1>1, LoopFacts, SoundFailed
<1>3. QED
  BY <1>1, <1>2, LoopFacts, GrownSame, ReturnInv

\* A call through the bridge of the SDK.
LEMMA SdkCalledFacts ==
    ASSUME NEW e, NEW p \in Passes, Sound(p.plan, e), p.turns.tool < MaxToolTurns,
           NEW call \in Calls \cup {"none"}, MayCall(p, call)
    PROVE  /\ SdkCalled(p, call) \in Passes
           /\ Grown(p.turns, SdkCalled(p, call).turns)
           /\ SdkCalled(p, call).turns.tool = p.turns.tool + 1
           /\ SdkCalled(p, call).step = p.step
           /\ Sound(SdkCalled(p, call).plan, e \cup Evidence(p, call))
           /\ Evidence(p, call) \subseteq Todos
<1>0. PICK q, c : q = [p EXCEPT !.turns = Counted(@, "tool")] /\ c = Called(q, call)
  OBVIOUS
<1>1. p.turns \in Turns /\ p.stops \in 0 .. MaxStops - 1
  BY DEF Passes
<1>2. /\ q \in Passes /\ q.turns = Counted(p.turns, "tool") /\ q.plan = p.plan
      /\ q.step = p.step
  BY <1>0, <1>1, CountedFacts DEF Passes
<1>3. MayCall(q, call) /\ Evidence(q, call) = Evidence(p, call)
  BY <1>2 DEF MayCall, Evidence
<1>4. SdkCalled(p, call) = [c EXCEPT !.stops = p.stops]
  BY <1>0 DEF SdkCalled
<1>5. /\ c \in Passes /\ c.turns = q.turns /\ c.step = q.step
      /\ Sound(c.plan, e \cup Evidence(p, call)) /\ Evidence(p, call) \subseteq Todos
  <2>1. q \in Passes /\ Sound(q.plan, e) /\ MayCall(q, call)
    BY <1>2, <1>3
  <2>2. /\ Called(q, call) \in Passes /\ Called(q, call).turns = q.turns
        /\ Called(q, call).step = q.step
        /\ Sound(Called(q, call).plan, e \cup Evidence(q, call))
        /\ Evidence(q, call) \subseteq Todos
    BY <2>1, CalledFacts
  <2>3. QED
    BY <1>0, <1>3, <2>2
<1>6. /\ SdkCalled(p, call) \in Passes /\ SdkCalled(p, call).turns = c.turns
      /\ SdkCalled(p, call).step = c.step /\ SdkCalled(p, call).plan = c.plan
  BY <1>1, <1>4, <1>5 DEF Passes
<1>7. QED
  BY <1>1, <1>2, <1>5, <1>6, CountedFacts

\* A turn of the SDK, its two calls named.
LEMMA SdkToolsShape ==
    ASSUME SdkTools
    PROVE  \E first, second, middle, both, last :
              /\ first \in SdkCalls /\ second \in SdkCalls \cup {"none"}
              /\ middle = SdkCalled(pass, first)
              /\ both = [middle EXCEPT !.plan = pass.plan]
              /\ last = SdkCalled(both, second)
              /\ MayCall(pass, first) /\ MayCall(pass, second)
              /\ second # "none" => pass.turns.tool + 1 < MaxToolTurns
              /\ pass' = IF second = "none" THEN middle ELSE last
              /\ evidenced' = evidenced \cup Evidence(pass, first) \cup Evidence(pass, second)
<1>1. PICK first \in SdkCalls, second \in SdkCalls \cup {"none"} :
          LET middle == SdkCalled(pass, first)
              end    == SdkCalled([middle EXCEPT !.plan = pass.plan], second)
          IN  /\ MayCall(pass, first) /\ MayCall(pass, second)
              /\ second # "none" =>
                    /\ pass.turns.tool + 1 < MaxToolTurns
                    /\ "rejected" \notin {first, second}
              /\ pass' = IF second = "none" THEN middle ELSE end
              /\ evidenced' = evidenced \cup Evidence(pass, first) \cup Evidence(pass, second)
  BY Zenon DEF SdkTools
<1> DEFINE middle == SdkCalled(pass, first)
           both   == [middle EXCEPT !.plan = pass.plan]
           last   == SdkCalled(both, second)
<1>2. /\ MayCall(pass, first) /\ MayCall(pass, second)
      /\ second # "none" => pass.turns.tool + 1 < MaxToolTurns
      /\ pass' = IF second = "none" THEN middle ELSE last
      /\ evidenced' = evidenced \cup Evidence(pass, first) \cup Evidence(pass, second)
  BY <1>1, Zenon
<1>3. QED
  <2> HIDE DEF middle, both, last
  <2>1. /\ middle = SdkCalled(pass, first)
        /\ both = [middle EXCEPT !.plan = pass.plan]
        /\ last = SdkCalled(both, second)
    BY DEF middle, both, last
  <2>2. QED
    BY <1>1, <1>2, <2>1, Zenon

LEMMA SdkToolsInv == Inv /\ SdkTools => Inv'
<1> SUFFICES ASSUME Inv, SdkTools PROVE Inv'
  OBVIOUS
<1>1. /\ node = "executing" /\ engine = "sdk" /\ pass.turns.tool < MaxToolTurns
      /\ UNCHANGED <<node, Inside, lost, confirmed>>
  BY DEF SdkTools
<1>2. PICK first, second, middle, both, last :
          /\ first \in SdkCalls /\ second \in SdkCalls \cup {"none"}
          /\ middle = SdkCalled(pass, first)
          /\ both = [middle EXCEPT !.plan = pass.plan]
          /\ last = SdkCalled(both, second)
          /\ MayCall(pass, first) /\ MayCall(pass, second)
          /\ second # "none" => pass.turns.tool + 1 < MaxToolTurns
          /\ pass' = IF second = "none" THEN middle ELSE last
          /\ evidenced' = evidenced \cup Evidence(pass, first) \cup Evidence(pass, second)
  BY SdkToolsShape
<1>3. first \in Calls \cup {"none"} /\ second \in Calls \cup {"none"}
  BY <1>2 DEF SdkCalls
<1>4. pass.step # "tools"
  BY <1>1 DEF Inv, BudgetInv
<1>5. /\ middle \in Passes /\ Grown(pass.turns, middle.turns)
      /\ middle.turns.tool = pass.turns.tool + 1 /\ middle.step = pass.step
      /\ Sound(middle.plan, evidenced \cup Evidence(pass, first))
      /\ Evidence(pass, first) \subseteq Todos
  <2>1. pass \in Passes /\ Sound(pass.plan, evidenced)
    BY <1>1, LoopFacts
  <2>2. /\ SdkCalled(pass, first) \in Passes
        /\ Grown(pass.turns, SdkCalled(pass, first).turns)
        /\ SdkCalled(pass, first).turns.tool = pass.turns.tool + 1
        /\ SdkCalled(pass, first).step = pass.step
        /\ Sound(SdkCalled(pass, first).plan, evidenced \cup Evidence(pass, first))
        /\ Evidence(pass, first) \subseteq Todos
    BY <1>1, <1>2, <1>3, <2>1, SdkCalledFacts
  <2>3. QED
    BY <1>2, <2>2
<1>6. CASE second = "none"
  <2>1. pass' = middle
    BY <1>2, <1>6
  <2>2. evidenced' = evidenced \cup Evidence(pass, first)
    BY <1>2, <1>6 DEF Evidence, Completing
  <2>3. QED
    BY <1>1, <1>4, <1>5, <2>1, <2>2, LoopFacts, WithinLoop
<1>7. CASE second # "none"
  <2>1. /\ both \in Passes /\ both.turns = middle.turns /\ both.step = middle.step
        /\ both.plan = pass.plan
    BY <1>2, <1>5, LoopFacts DEF Passes
  <2>2. MayCall(both, second) /\ Evidence(both, second) = Evidence(pass, second)
    BY <1>2, <2>1 DEF MayCall, Evidence
  <2>3. both.turns.tool < MaxToolTurns
    BY <1>2, <1>5, <1>7, <2>1
  <2>4. Sound(both.plan, evidenced)
    BY <2>1, LoopFacts
  <2>5. /\ last \in Passes /\ Grown(both.turns, last.turns) /\ last.step = both.step
        /\ Sound(last.plan, evidenced \cup Evidence(pass, second))
        /\ Evidence(pass, second) \subseteq Todos
    <3>1. /\ both \in Passes /\ Sound(both.plan, evidenced) /\ both.turns.tool < MaxToolTurns
          /\ second \in Calls \cup {"none"} /\ MayCall(both, second)
      BY <1>3, <2>1, <2>2, <2>3, <2>4
    <3>2. /\ SdkCalled(both, second) \in Passes
          /\ Grown(both.turns, SdkCalled(both, second).turns)
          /\ SdkCalled(both, second).step = both.step
          /\ Sound(SdkCalled(both, second).plan, evidenced \cup Evidence(both, second))
          /\ Evidence(both, second) \subseteq Todos
      BY <3>1, SdkCalledFacts
    <3>3. QED
      BY <1>2, <2>2, <3>2
  <2>6. pass' = last
    BY <1>2, <1>7
  <2>7. Grown(pass.turns, last.turns)
    <3>1. middle.turns \in Turns /\ last.turns \in Turns
      BY <1>5, <2>5 DEF Passes
    <3>2. QED
      BY <1>5, <2>1, <2>5, <3>1, LoopFacts DEF Grown, Turns
  <2>8. Sound(last.plan, evidenced') /\ evidenced' \subseteq Todos /\ evidenced \subseteq evidenced'
    BY <1>2, <1>5, <2>5, LoopFacts, SoundMore
  <2>9. QED
    BY <1>1, <1>4, <1>5, <2>1, <2>5, <2>6, <2>7, <2>8, WithinLoop
<1>8. QED
  BY <1>6, <1>7

\* The turns a query leaves.
LEMMA QueryFacts ==
    ASSUME NEW t \in Turns, NEW u \in QueryTurns(t)
    PROVE  u \in Turns /\ Grown(t, u)
BY BoundFacts DEF QueryTurns, Turns, Grown

LEMMA SdkAnswerInv == Inv /\ SdkAnswer => Inv' /\ Grown(turns, turns')
<1> SUFFICES ASSUME Inv, SdkAnswer PROVE Inv' /\ Grown(turns, turns')
  OBVIOUS
<1>1. node = "executing" /\ engine = "sdk" /\ pass.step # "tools"
  BY DEF SdkAnswer, Inv, BudgetInv
<1> DEFINE Answered(done, todos, next, blocked) ==
              /\ evidenced' = IF done = 0 THEN evidenced
                              ELSE evidenced \cup {pass.plan[done].text}
              /\ IF blocked /\ pass.stops + 1 < MaxStops
                 THEN /\ pass' = [next EXCEPT !.stops = @ + 1]
                      /\ UNCHANGED <<node, Inside, lost, confirmed>>
                 ELSE /\ Return(next, IF blocked THEN Failed(todos) ELSE todos, blocked, FALSE)
                      /\ node' = "reflect"
                      /\ UNCHANGED <<frame, error>>
           Left(done) == IF done = 0 THEN pass.plan ELSE Advanced(pass.plan, done)
           Blocked(undelivered, done) ==
              ~pass.rejected /\ (~AllDone(Left(done)) \/ pass.failed # {} \/ undelivered)
           Then(t, done) == [pass EXCEPT !.turns = t, !.plan = Left(done)]
<1>2. PICK t \in QueryTurns(pass.turns), undelivered \in BOOLEAN,
           done \in {i \in DOMAIN pass.plan : ~pass.rejected /\ IsActive(pass.plan, i)
                                                /\ pass.plan[i].text \in TextTodos}
                    \cup {0} :
          Answered(done, Left(done), Then(t, done), Blocked(undelivered, done))
  BY DEF SdkAnswer
<1> DEFINE todos == Left(done)
           next == Then(t, done)
           blocked == Blocked(undelivered, done)
<1>3. t \in Turns /\ Grown(pass.turns, t)
  BY LoopFacts, QueryFacts
<1>4. Sound(todos, evidenced') /\ evidenced \subseteq evidenced' /\ evidenced' \subseteq Todos
  <2>1. CASE done = 0
    BY <1>2, <2>1, LoopFacts
  <2>2. CASE done # 0
    <3>1. /\ done \in DOMAIN pass.plan /\ todos = Advanced(pass.plan, done)
          /\ evidenced' = evidenced \cup {pass.plan[done].text}
      BY <1>2, <2>2
    <3>2. pass.plan[done].text \in Todos
      BY <3>1, LoopFacts, TodoFacts
    <3>3. QED
      BY <3>1, <3>2, LoopFacts, SoundAdvanced
  <2>3. QED
    BY <2>1, <2>2
<1>5. todos \in Seq(Todo)
  BY <1>4 DEF Sound
<1>6. /\ next \in Passes /\ next.turns = t /\ next.plan = todos /\ next.step = pass.step
      /\ next.stops = pass.stops
  BY <1>2, <1>3, <1>5, LoopFacts DEF Passes
<1>7. CASE blocked /\ pass.stops + 1 < MaxStops
  <2>1. /\ pass' = [next EXCEPT !.stops = next.stops + 1]
        /\ UNCHANGED <<node, Inside, lost, confirmed>>
    BY <1>2, <1>7
  <2>2. next.stops + 1 \in 0 .. MaxStops - 1
    <3>1. pass.stops \in 0 .. MaxStops - 1
      BY LoopFacts DEF Passes
    <3>2. QED
      BY <1>6, <1>7, <3>1, BoundFacts
  <2>3. /\ pass' \in Passes /\ pass'.turns = t /\ pass'.plan = todos
        /\ pass'.step = pass.step
    BY <1>6, <2>1, <2>2 DEF Passes
  <2>4. Inv'
    BY <1>1, <1>3, <1>4, <2>1, <2>3, WithinLoop
  <2>5. QED
    BY <2>1, <2>4, GrownSame DEF Inside, Inv, TypeOK
<1>8. CASE ~(blocked /\ pass.stops + 1 < MaxStops)
  <2>1. /\ blocked \in BOOLEAN /\ node' = "reflect" /\ UNCHANGED <<frame, error>>
    BY <1>2, <1>8
  <2>2. PICK left : /\ left = IF blocked THEN Failed(todos) ELSE todos
                    /\ Return(next, left, blocked, FALSE)
    BY <1>2, <1>8
  <2>3. Sound(left, evidenced')
    BY <1>4, <2>2, SoundFailed
  <2>4. QED
    BY <1>1, <1>3, <1>4, <1>6, <2>1, <2>2, <2>3, LoopFacts, ReturnInv
<1>9. QED
  BY <1>7, <1>8

LEMMA ExecuteRaisesInv == Inv /\ ExecuteRaises => Inv' /\ Grown(turns, turns')
<1> SUFFICES ASSUME Inv, ExecuteRaises PROVE Inv' /\ Grown(turns, turns')
  OBVIOUS
<1>1. node = "executing" /\ UNCHANGED <<frame, evidenced>>
  BY DEF ExecuteRaises
<1> DEFINE P(t) == [pass EXCEPT !.turns = t]
           Left(t) == IF Recoverable(P(t)) THEN P(t).plan ELSE Failed(P(t).plan)
<1>2. PICK t \in CASE engine = "sdk"    -> QueryTurns(pass.turns)
                   [] pass.step = "tools" -> {Counted(pass.turns, "tool")}
                   [] OTHER               -> {pass.turns} :
          /\ Return(P(t), Left(t), FALSE, TRUE)
          /\ error' = ~Recoverable(P(t))
          /\ node' = IF Recoverable(P(t)) THEN "reflect" ELSE "finalize"
  BY DEF ExecuteRaises
<1> DEFINE p == P(t)
           todos == Left(t)
<1>3. t \in Turns /\ Grown(pass.turns, t)
  <2>1. CASE engine = "sdk"
    <3>1. pass.step # "tools"
      BY <2>1 DEF Inv, BudgetInv
    <3>2. t \in QueryTurns(pass.turns)
      BY <2>1, <3>1
    <3>3. QED
      BY <3>2, LoopFacts, QueryFacts
  <2>2. CASE engine # "sdk" /\ pass.step = "tools"
    <3>1. t = Counted(pass.turns, "tool") /\ pass.turns.tool < MaxToolTurns
      BY <2>2 DEF Inv, BudgetInv
    <3>2. QED
      BY <3>1, LoopFacts, CountedFacts
  <2>3. CASE engine # "sdk" /\ pass.step # "tools"
    BY <2>3, LoopFacts, GrownSame
  <2>4. QED
    BY <2>1, <2>2, <2>3
<1>4. p \in Passes /\ p.turns = t /\ p.plan = pass.plan
  BY <1>2, <1>3, LoopFacts DEF Passes
<1>5. Sound(todos, evidenced')
  <2>1. Sound(p.plan, evidenced)
    BY <1>4, LoopFacts
  <2>2. Sound(Failed(p.plan), evidenced)
    BY <2>1, SoundFailed
  <2>3. QED
    BY <1>1, <1>2, <2>1, <2>2
<1>6. /\ error' \in BOOLEAN /\ node' \in {"reflect", "finalize"}
      /\ node' = "finalize" => error'
  BY <1>2
<1>7. QED
  BY <1>1, <1>2, <1>3, <1>4, <1>5, <1>6, LoopFacts, ReturnInv

LEMMA AttemptLostInv == Inv /\ AttemptLost => Inv'
<1> SUFFICES ASSUME Inv, AttemptLost PROVE Inv'
  OBVIOUS
<1> USE DEF Inv
<1>1. /\ node = "executing" /\ node' = "execute" /\ pass' = NoPass
      /\ lost < MaxLost /\ lost' = lost + 1
      /\ UNCHANGED <<message, frame, plan, planRun, resume, reflections, turns, summary,
                     error, run, engine, outcome, evidenced, confirmed>>
  BY DEF AttemptLost, Inside, history
<1>2. TypeOK'
  <2>1. lost' \in 0 .. MaxLost
    BY <1>1, BoundFacts DEF TypeOK
  <2>2. QED
    BY <1>1, <2>1, NoPassFacts DEF TypeOK
<1>3. ControlInv' /\ ConfirmedInv' /\ OutcomeInv'
  BY <1>1 DEF ControlInv, ConfirmedInv, OutcomeInv, Progressing
<1>4. BudgetInv' /\ SoundInv'
  BY <1>1, NoPassFacts, SoundEmpty DEF BudgetInv, SoundInv
<1>5. QED
  BY <1>2, <1>3, <1>4

LEMMA ReflectInv == Inv /\ Reflect => Inv'
<1> SUFFICES ASSUME Inv, Reflect PROVE Inv'
  OBVIOUS
<1> USE DEF Inv
<1>1. /\ node = "reflect"
      /\ UNCHANGED <<message, frame, planRun, resume, turns, summary, error, pass,
                     run, engine, outcome, lost, evidenced, confirmed>>
  BY DEF Reflect, history
<1>2. reflections \in 0 .. MaxReflections /\ reflections < MaxReflections
  BY <1>1 DEF TypeOK, BudgetInv
<1>3. Sound(Closed(plan), evidenced) /\ NoneOpen(Closed(plan))
  BY SoundClosed DEF SoundInv
<1>4. /\ node' \in {"plan", "execute", "finalize"}
      /\ reflections' \in {reflections, reflections + 1}
      /\ plan' \in {plan, Closed(plan)}
      /\ node' # "finalize" => reflections' < MaxReflections
      /\ node' = "finalize" => plan' = Closed(plan) \/ ~Unfinished(plan)
  <2>1. CASE ~Within(turns)
    BY <2>1 DEF Reflect
  <2>2. CASE Within(turns)
    <3>1. /\ reflections' = reflections + 1
          /\ plan' = IF node' = "finalize" /\ Unfinished(plan) THEN Closed(plan) ELSE plan
      BY <2>2 DEF Reflect
    <3>2. PICK answer \in {"finalize", "continue_execute", "replan"},
               gap \in BOOLEAN, high \in BOOLEAN :
               node' = CASE Route(answer, reflections', gap, high) = "replan" -> "plan"
                         [] Route(answer, reflections', gap, high) = "finalize" -> "finalize"
                         [] OTHER -> "execute"
      BY <2>2 DEF Reflect
    <3>3. node' \in {"plan", "execute", "finalize"}
      BY <3>2
    <3>4. reflections' >= MaxReflections
             => Route(answer, reflections', gap, high) = "finalize"
      BY DEF Route
    <3>5. reflections' >= MaxReflections => node' = "finalize"
      BY <3>2, <3>4
    <3>6. node' # "finalize" => reflections' < MaxReflections
      BY <1>2, <3>1, <3>5, BoundFacts
    <3>7. QED
      BY <3>1, <3>3, <3>6
  <2>3. QED
    BY <2>1, <2>2
<1>5. reflections' \in 0 .. MaxReflections
  BY <1>2, <1>4, BoundFacts
<1>6. Sound(plan', evidenced) /\ (node' = "finalize" => NoneOpen(plan'))
  <2>1. ~Unfinished(plan) => NoneOpen(plan)
    BY DEF Unfinished, NoneOpen
  <2>2. QED
    BY <1>3, <1>4, <2>1 DEF SoundInv
<1>7. TypeOK'
  BY <1>1, <1>4, <1>5, <1>6 DEF TypeOK, Sound
<1>8. ControlInv' /\ ConfirmedInv'
  BY <1>1, <1>4 DEF ControlInv, ConfirmedInv, Progressing
<1>9. BudgetInv' /\ SoundInv' /\ OutcomeInv'
  BY <1>1, <1>4, <1>6 DEF BudgetInv, SoundInv, OutcomeInv, ControlInv
<1>10. QED
  BY <1>7, <1>8, <1>9

\* The run is over: Finalize, or Abort.
LEMMA OverInv == Inv /\ (Finalize \/ Abort) => Inv'
<1> SUFFICES ASSUME Inv, Finalize \/ Abort PROVE Inv'
  OBVIOUS
<1> USE DEF Inv
<1>1. /\ node # "end" /\ node' = "end"
      /\ UNCHANGED <<message, frame, plan, planRun, resume, reflections, turns, summary,
                     error, run, engine, lost, evidenced, confirmed>>
      /\ pass' = NoPass
  BY DEF Finalize, Abort, thread, history, ControlInv
<1>2. /\ outcome' \in {"success", "partial", "clarification", "failure", "cancelled"}
      /\ outcome' \in {"success", "partial"} => NoneOpen(plan)
      /\ outcome' = "success" => AllDone(plan)
  <2>1. CASE Finalize
    BY <2>1 DEF Finalize, Outcome, OutcomeInv
  <2>2. CASE Abort
    BY <2>2 DEF Abort
  <2>3. QED
    BY <2>1, <2>2
<1>3. TypeOK'
  BY <1>1, <1>2, NoPassFacts DEF TypeOK
<1>4. ControlInv' /\ ConfirmedInv' /\ OutcomeInv'
  BY <1>1, <1>2 DEF ControlInv, ConfirmedInv, OutcomeInv, Progressing
<1>5. BudgetInv' /\ SoundInv'
  BY <1>1, NoPassFacts, SoundEmpty DEF BudgetInv, SoundInv
<1>6. QED
  BY <1>3, <1>4, <1>5

LEMMA StutterInv == Inv /\ UNCHANGED vars => Inv'
BY DEF vars, thread, history, Inv, TypeOK, ControlInv, ConfirmedInv, BudgetInv, SoundInv,
       OutcomeInv

LEMMA NextInv == Inv /\ [Next]_vars => Inv'
BY PostInv, IngestInv, TaskFrameInv, ReplyInv, PlanNodeInv, StartPassInv, ModelTurnInv,
   StopInv, ToolsInv, ExhaustedInv, ExecuteRaisesInv, SdkToolsInv, SdkAnswerInv,
   ReflectInv, OverInv, AttemptLostInv, StutterInv
   DEF Next, Step

LEMMA Invariance == Spec => []Inv
<1>1. Init => Inv
  BY InitInv
<1>2. Inv /\ [Next]_vars => Inv'
  BY NextInv
<1>3. QED
  BY <1>1, <1>2, PTL DEF Spec

-----------------------------------------------------------------------------
(* The theorems *)

\* Every variable of the graph has its type, whatever the models answer: in
\* particular a run reflects _MAX_REFLECTIONS times at most, and no budget of
\* turns is overdrawn, neither by a loop nor by calls beside each other.
THEOREM GraphTyped == Spec => []TypeOK
<1>1. Inv => TypeOK
  BY DEF Inv
<1>2. QED
  BY <1>1, Invariance, PTL

\* No retry, replan, lost attempt or resumption works on an item of a plan
\* before the ones ahead of it are done (mark_progress and its callers).
THEOREM GraphInOrder == Spec => []OrderedExecution
<1>1. Inv => OrderedExecution
  BY DEF Inv, SoundInv, Sound, OrderedExecution
<1>2. QED
  BY <1>1, Invariance, PTL

\* A run is settled as a success only when evidence completed each of its
\* todos (finalize_node, advance_with_proof, advance_with_response_text).
THEOREM GraphEvidenced == Spec => []SuccessIsEvidenced
<1>1. Inv => SuccessIsEvidenced
  BY DEF Inv, OutcomeInv, SoundInv, Sound, Backed, AllDone, SuccessIsEvidenced
<1>2. QED
  BY <1>1, Invariance, PTL

\* A run that ends without an error or a question leaves no todo open
\* (reflect_node closes what is unfinished on its way to finalize).
THEOREM GraphClosed == Spec => []ClosedTruthfully
<1>1. Inv => ClosedTruthfully
  BY DEF Inv, OutcomeInv, NoneOpen, ClosedTruthfully
<1>2. QED
  BY <1>1, Invariance, PTL

\* No run plans or executes a high-risk task that the user did not confirm
\* (_enforce_high_risk_confirmation), whatever an earlier run left behind.
THEOREM GraphConfirmed == Spec => []HighRiskIsConfirmed
<1>1. Inv => HighRiskIsConfirmed
  BY DEF Inv, ConfirmedInv, Progressing, HighRiskIsConfirmed
<1>2. QED
  BY <1>1, Invariance, PTL

\* Within a run, no pass, exception, reflection, replan or retried attempt gives
\* back a turn or a token that the thread has counted (state.py); what a pass has
\* counted that is lost with its attempt was never there.
THEOREM GraphBudgets == Spec => BudgetsOnlyGrow
<1> DEFINE Monotone == run' = run /\ node # "ingest" => Grown(turns, turns')
<1>1. ASSUME Inv, [Next]_vars PROVE Monotone
  <2>1. turns' = turns => Grown(turns, turns')
    BY <1>1, GrownSame DEF Inv, TypeOK
  <2>2. ASSUME Post PROVE run' # run
    BY <1>1, <2>2 DEF Post, Inv, TypeOK
  <2>3. ASSUME Ingest PROVE node = "ingest"
    BY <2>3 DEF Ingest
  <2>4. ASSUME \/ TaskFrame \/ Clarify \/ DirectAnswer \/ PlanNode \/ StartPass \/ ModelTurn
               \/ SdkTools \/ Reflect \/ Finalize \/ AttemptLost \/ Abort
        PROVE  turns' = turns
    BY <2>4 DEF TaskFrame, Clarify, DirectAnswer, PlanNode, StartPass, ModelTurn, SdkTools,
                Reflect, Finalize, AttemptLost, Abort, Inside, thread
  <2>5. ASSUME Stop \/ Tools \/ Exhausted \/ ExecuteRaises \/ SdkAnswer
        PROVE  Grown(turns, turns')
    BY <1>1, <2>5, StopInv, ToolsInv, ExhaustedInv, ExecuteRaisesInv, SdkAnswerInv
  <2>6. UNCHANGED vars => turns' = turns
    BY DEF vars, thread
  <2>7. QED
    BY <1>1, <2>1, <2>2, <2>3, <2>4, <2>5, <2>6 DEF Next, Step
<1>2. Monotone => (run' = run /\ node # "ingest" =>
                  /\ turns'.tool >= turns.tool /\ turns'.agent >= turns.agent
                  /\ turns.tokens => turns'.tokens)
  BY DEF Grown
<1>3. QED
  BY <1>1, <1>2, Invariance, PTL DEF Spec, BudgetsOnlyGrow

-----------------------------------------------------------------------------
(* Every step of a run leads towards its end *)

\* A step that leaves the node, without a reflection.
Onwards == reflections' = reflections /\ Distance(node') < Distance(node)

\* A step of execute's loop, told by the counters that it uses up.
Looped ==
    /\ node = "executing" /\ node' = "executing"
    /\ reflections' = reflections /\ engine' = engine
    /\ \/ /\ engine = "native"
          /\ \/ pass'.turns.agent = pass.turns.agent + 1
             \/ /\ pass'.turns.agent = pass.turns.agent
                /\ pass.step # "model" /\ pass'.step = "model"
       \/ /\ engine = "sdk"
          /\ \/ pass'.turns.tool > pass.turns.tool /\ pass'.stops = pass.stops
             \/ pass'.turns.tool = pass.turns.tool /\ pass'.stops = pass.stops + 1

LEMMA PassTurns ==
    ASSUME NEW p \in Passes
    PROVE  /\ p.turns \in Turns /\ p.stops \in 0 .. MaxStops - 1
           /\ p.turns.tool \in 0 .. MaxToolTurns /\ p.turns.agent \in 0 .. MaxAgentTurns
<1>1. p.turns \in Turns /\ p.stops \in 0 .. MaxStops - 1
  BY DEF Passes
<1>2. p.turns.tool \in 0 .. MaxToolTurns /\ p.turns.agent \in 0 .. MaxAgentTurns
  BY <1>1 DEF Turns
<1>3. QED
  BY <1>1, <1>2

LEMMA LoopedDescends ==
    ASSUME Inv, Inv', Looped
    PROVE  LoopLeft' \in Nat /\ LoopLeft' < LoopLeft
<1>1. /\ pass.turns.tool \in 0 .. MaxToolTurns /\ pass'.turns.tool \in 0 .. MaxToolTurns
      /\ pass.turns.agent \in 0 .. MaxAgentTurns /\ pass'.turns.agent \in 0 .. MaxAgentTurns
      /\ pass.stops \in 0 .. MaxStops - 1 /\ pass'.stops \in 0 .. MaxStops - 1
  <2>1. pass \in Passes /\ pass' \in Passes
    BY DEF Inv, TypeOK
  <2>2. QED
    BY <2>1, PassTurns
<1>2. MaxToolTurns \in Nat /\ MaxAgentTurns \in Nat /\ MaxStops \in Nat
  BY BoundFacts
<1>3. CASE engine = "native"
  <2> DEFINE rest  == IF pass.step = "model" THEN 0 ELSE 1
             after == IF pass'.step = "model" THEN 0 ELSE 1
  <2>1. /\ LoopLeft = 2 * (MaxAgentTurns - pass.turns.agent) + rest
        /\ LoopLeft' = 2 * (MaxAgentTurns - pass'.turns.agent) + after
    BY <1>3 DEF Looped, LoopLeft
  <2>2. /\ rest \in {0, 1} /\ after \in {0, 1}
        /\ \/ pass'.turns.agent = pass.turns.agent + 1
           \/ pass'.turns.agent = pass.turns.agent /\ rest = 1 /\ after = 0
    BY <1>3 DEF Looped
  <2> HIDE DEF rest, after
  <2>3. QED
    BY <1>1, <1>2, <2>1, <2>2
<1>4. CASE engine = "sdk"
  <2>1. /\ LoopLeft = (MaxToolTurns - pass.turns.tool) + (MaxStops - pass.stops)
        /\ LoopLeft' = (MaxToolTurns - pass'.turns.tool) + (MaxStops - pass'.stops)
    BY <1>4 DEF Looped, LoopLeft
  <2>2. \/ pass'.turns.tool > pass.turns.tool /\ pass'.stops = pass.stops
        \/ pass'.turns.tool = pass.turns.tool /\ pass'.stops = pass.stops + 1
    BY <1>4 DEF Looped
  <2>3. QED
    BY <1>1, <1>2, <2>1, <2>2
<1>5. QED
  BY <1>3, <1>4 DEF Looped

\* The other turns than the one that is counted.
LEMMA CountedApart ==
    ASSUME NEW t \in Turns
    PROVE  /\ Counted(t, "tool").agent = t.agent
           /\ \A spent : [Counted(t, "agent") EXCEPT !.tokens = spent].agent = t.agent + 1
<1>1. Counted(t, "tool") = [t EXCEPT !.tool = t.tool + 1]
  BY DEF Counted
<1>2. Counted(t, "agent") = [t EXCEPT !.agent = t.agent + 1]
  BY DEF Counted
<1>3. QED
  BY <1>1, <1>2 DEF Turns

LEMMA ModelTurnDescends ==
    ASSUME Inv, ModelTurn
    PROVE  Looped
<1>1. /\ node = "executing" /\ engine = "native"
      /\ node' = node /\ reflections' = reflections /\ engine' = engine
  BY DEF ModelTurn, Inside
<1>2. PICK spent, step, next :
         /\ next = [pass EXCEPT !.step = step,
                                !.turns = [Counted(@, "agent") EXCEPT !.tokens = spent]]
         /\ \/ pass' = next
            \/ \E i \in DOMAIN pass.plan :
                  pass' = [next EXCEPT !.plan = Advanced(@, i), !.stops = 0]
  BY DEF ModelTurn
<1>3. next.turns = [Counted(pass.turns, "agent") EXCEPT !.tokens = spent]
  BY <1>2, LoopFacts DEF Passes
<1>4. pass'.turns = next.turns
  BY <1>2, LoopFacts DEF Passes
<1>5. pass'.turns.agent = pass.turns.agent + 1
  BY <1>3, <1>4, LoopFacts, CountedApart
<1>6. QED
  BY <1>1, <1>5 DEF Looped

LEMMA StopDescends ==
    ASSUME Inv, Stop
    PROVE  Looped \/ Onwards
<1>1. /\ node = "executing" /\ pass \in Passes /\ pass.turns \in Turns /\ pass.step = "stop"
      /\ engine \in {"native", "sdk"}
  BY LoopFacts DEF Stop, Inv, TypeOK
<1>2. \/ /\ pass' = [pass EXCEPT !.step = "model", !.stops = @ + 1]
         /\ UNCHANGED <<node, reflections, engine>>
      \/ node' = "reflect" /\ reflections' = reflections
  BY DEF Stop, Return, Inside
<1>3. CASE /\ pass' = [pass EXCEPT !.step = "model", !.stops = @ + 1]
           /\ UNCHANGED <<node, reflections, engine>>
  <2>1. pass'.turns = pass.turns /\ pass'.step = "model" /\ pass'.stops = pass.stops + 1
    BY <1>1, <1>3 DEF Passes
  <2>2. QED
    BY <1>1, <1>3, <2>1 DEF Looped
<1>4. CASE node' = "reflect" /\ reflections' = reflections
  BY <1>1, <1>4 DEF Onwards, Distance
<1>5. QED
  BY <1>2, <1>3, <1>4

LEMMA ToolsDescend ==
    ASSUME Inv, Tools
    PROVE  Looped \/ Onwards
<1>1. /\ node = "executing" /\ engine = "native"
      /\ pass.step = "tools" /\ pass.turns.tool < MaxToolTurns
  BY DEF Tools, Inv, BudgetInv
<1>2. PICK first \in Calls, second \in Calls \cup {"none"} :
          LET begin  == [pass EXCEPT !.turns = Counted(@, "tool"), !.step = "model"]
              middle == Called(begin, first)
              end    == Called(middle, second)
          IN  /\ MayCall(begin, first)
              /\ MayCall(middle, second)
              /\ \/ Return(end, end.plan, FALSE, FALSE) /\ node' \in {"finalize", "reflect"}
                 \/ pass' = end /\ UNCHANGED <<node, Inside>>
  BY Zenon DEF Tools
<1> DEFINE start  == [pass EXCEPT !.turns = Counted(@, "tool"), !.step = "model"]
           middle == Called(start, first)
           last   == Called(middle, second)
<1>3. /\ start \in Passes /\ start.plan = pass.plan /\ start.step = "model"
      /\ start.turns = Counted(pass.turns, "tool")
  BY <1>1, LoopFacts, CountedFacts DEF Passes
<1> HIDE DEF start
<1>4. MayCall(start, first) /\ MayCall(middle, second)
  BY <1>2 DEF start
<1>5. /\ middle \in Passes /\ middle.turns = start.turns /\ middle.step = "model"
      /\ Sound(middle.plan, evidenced \cup Evidence(start, first))
  <2>1. Sound(start.plan, evidenced)
    BY <1>3, LoopFacts
  <2>2. /\ Called(start, first) \in Passes
        /\ Called(start, first).turns = start.turns
        /\ Called(start, first).step = start.step
        /\ Sound(Called(start, first).plan, evidenced \cup Evidence(start, first))
    <3>1. start \in Passes /\ first \in Calls \cup {"none"} /\ MayCall(start, first)
      BY <1>3, <1>4
    <3>2. QED
      BY <2>1, <3>1, CalledFacts
  <2>3. QED
    BY <1>3, <2>2
<1> HIDE DEF middle
<1>6. last.turns = start.turns /\ last.step = "model"
  <2>1. PICK e : Sound(middle.plan, e)
    BY <1>5
  <2>2. /\ second \in Calls \cup {"none"} /\ MayCall(middle, second)
        /\ middle \in Passes
    BY <1>4, <1>5
  <2>3. /\ Called(middle, second).turns = middle.turns
        /\ Called(middle, second).step = middle.step
    BY <2>1, <2>2, CalledFacts
  <2>4. QED
    BY <1>5, <2>3
<1>7. last.turns.agent = pass.turns.agent
  BY <1>3, <1>6, LoopFacts, CountedApart
<1>8. \/ node' \in {"finalize", "reflect"} /\ reflections' = reflections
      \/ pass' = last /\ UNCHANGED <<node, reflections, engine>>
  BY <1>2, Zenon DEF start, middle, Return, Inside
<1> HIDE DEF last
<1>9. CASE node' \in {"finalize", "reflect"} /\ reflections' = reflections
  BY <1>1, <1>9 DEF Onwards, Distance
<1>10. CASE pass' = last /\ UNCHANGED <<node, reflections, engine>>
  BY <1>1, <1>6, <1>7, <1>10 DEF Looped
<1>11. QED
  BY <1>8, <1>9, <1>10

\* A call keeps the count of the answers that delivered nothing.
LEMMA SdkCalledStops ==
    ASSUME NEW e, NEW p \in Passes, Sound(p.plan, e), p.turns.tool < MaxToolTurns,
           NEW call \in Calls \cup {"none"}, MayCall(p, call)
    PROVE  SdkCalled(p, call).stops = p.stops
<1>1. PICK q, c : q = [p EXCEPT !.turns = Counted(@, "tool")] /\ c = Called(q, call)
  OBVIOUS
<1>2. p.turns \in Turns
  BY DEF Passes
<1>3. q \in Passes /\ q.plan = p.plan
  BY <1>1, <1>2, CountedFacts DEF Passes
<1>4. MayCall(q, call) /\ Sound(q.plan, e)
  BY <1>3 DEF MayCall
<1>5. c \in Passes
  BY <1>1, <1>3, <1>4, CalledFacts
<1>6. SdkCalled(p, call) = [c EXCEPT !.stops = p.stops]
  BY <1>1 DEF SdkCalled
<1>7. QED
  BY <1>5, <1>6 DEF Passes

LEMMA SdkToolsDescend ==
    ASSUME Inv, SdkTools
    PROVE  Looped
<1>1. /\ node = "executing" /\ engine = "sdk" /\ pass.turns.tool < MaxToolTurns
      /\ UNCHANGED <<node, reflections, engine>>
  BY DEF SdkTools, Inside
<1>2. PICK first, second, middle, both :
          /\ first \in SdkCalls /\ second \in SdkCalls \cup {"none"}
          /\ middle = SdkCalled(pass, first)
          /\ both = [middle EXCEPT !.plan = pass.plan]
          /\ MayCall(pass, first) /\ MayCall(pass, second)
          /\ second # "none" => pass.turns.tool + 1 < MaxToolTurns
          /\ pass' = IF second = "none" THEN middle ELSE SdkCalled(both, second)
  BY SdkToolsShape
<1>3. first \in Calls \cup {"none"} /\ second \in Calls \cup {"none"}
  BY <1>2 DEF SdkCalls
<1>4. /\ middle \in Passes /\ middle.turns.tool = pass.turns.tool + 1
      /\ middle.stops = pass.stops
  <2>1. pass \in Passes /\ Sound(pass.plan, evidenced)
    BY LoopFacts
  <2>2. /\ SdkCalled(pass, first) \in Passes
        /\ SdkCalled(pass, first).turns.tool = pass.turns.tool + 1
    BY <1>1, <1>2, <1>3, <2>1, SdkCalledFacts
  <2>3. SdkCalled(pass, first).stops = pass.stops
    BY <1>1, <1>2, <1>3, <2>1, SdkCalledStops
  <2>4. QED
    BY <1>2, <2>2, <2>3
<1>5. pass.turns.tool \in Nat
  BY LoopFacts DEF Turns
<1>6. CASE second = "none"
  <2>1. pass'.turns.tool > pass.turns.tool /\ pass'.stops = pass.stops
    BY <1>2, <1>4, <1>5, <1>6
  <2>2. QED
    BY <1>1, <2>1 DEF Looped
<1>7. CASE second # "none"
  <2>1. /\ both \in Passes /\ both.plan = pass.plan /\ both.turns = middle.turns
        /\ both.stops = middle.stops
    BY <1>2, <1>4, LoopFacts DEF Passes
  <2>2. MayCall(both, second) /\ both.turns.tool < MaxToolTurns
    BY <1>2, <1>4, <1>7, <2>1 DEF MayCall
  <2>3. Sound(both.plan, evidenced)
    BY <2>1, LoopFacts
  <2>4. /\ SdkCalled(both, second).turns.tool = both.turns.tool + 1
        /\ SdkCalled(both, second).stops = both.stops
    <3>1. /\ both \in Passes /\ Sound(both.plan, evidenced) /\ both.turns.tool < MaxToolTurns
          /\ second \in Calls \cup {"none"} /\ MayCall(both, second)
      BY <1>3, <2>1, <2>2, <2>3
    <3>2. SdkCalled(both, second).turns.tool = both.turns.tool + 1
      BY <3>1, SdkCalledFacts
    <3>3. SdkCalled(both, second).stops = both.stops
      BY <3>1, SdkCalledStops
    <3>4. QED
      BY <3>2, <3>3
  <2>5. pass' = SdkCalled(both, second)
    BY <1>2, <1>7
  <2>6. pass'.turns.tool > pass.turns.tool /\ pass'.stops = pass.stops
    BY <1>4, <1>5, <2>1, <2>4, <2>5
  <2>7. QED
    BY <1>1, <2>6 DEF Looped
<1>8. QED
  BY <1>6, <1>7

LEMMA SdkAnswerDescends ==
    ASSUME Inv, SdkAnswer
    PROVE  Looped \/ Onwards
<1>1. node = "executing" /\ engine = "sdk" /\ pass \in Passes
  BY LoopFacts DEF SdkAnswer
<1>2. PICK t \in QueryTurns(pass.turns), undelivered \in BOOLEAN,
           done \in {i \in DOMAIN pass.plan : ~pass.rejected /\ IsActive(pass.plan, i)
                                                /\ pass.plan[i].text \in TextTodos}
                    \cup {0} :
          LET todos   == IF done = 0 THEN pass.plan ELSE Advanced(pass.plan, done)
              next    == [pass EXCEPT !.turns = t, !.plan = todos]
              blocked == ~pass.rejected
                         /\ (~AllDone(todos) \/ pass.failed # {} \/ undelivered)
          IN  /\ evidenced' = IF done = 0 THEN evidenced
                              ELSE evidenced \cup {pass.plan[done].text}
              /\ IF blocked /\ pass.stops + 1 < MaxStops
                 THEN /\ pass' = [next EXCEPT !.stops = @ + 1]
                      /\ UNCHANGED <<node, Inside, lost, confirmed>>
                 ELSE /\ Return(next, IF blocked THEN Failed(todos) ELSE todos, blocked, FALSE)
                      /\ node' = "reflect"
                      /\ UNCHANGED <<frame, error>>
  BY Zenon DEF SdkAnswer
<1> DEFINE todos == IF done = 0 THEN pass.plan ELSE Advanced(pass.plan, done)
           next  == [pass EXCEPT !.turns = t, !.plan = todos]
<1> HIDE DEF todos
<1>3. \/ /\ pass' = [next EXCEPT !.stops = @ + 1]
         /\ UNCHANGED <<node, reflections, engine>>
      \/ node' = "reflect" /\ reflections' = reflections
  BY <1>2, Zenon DEF todos, Return, Inside
<1>4. CASE /\ pass' = [next EXCEPT !.stops = @ + 1]
           /\ UNCHANGED <<node, reflections, engine>>
  <2>1. pass'.turns = t /\ pass'.stops = pass.stops + 1
    BY <1>1, <1>4 DEF Passes
  <2>2. t.tool = pass.turns.tool
    BY <1>2 DEF QueryTurns
  <2>3. QED
    BY <1>1, <1>4, <2>1, <2>2 DEF Looped
<1>5. CASE node' = "reflect" /\ reflections' = reflections
  BY <1>1, <1>5 DEF Onwards, Distance
<1>6. QED
  BY <1>3, <1>4, <1>5

\* reflect_node counts a reflection, or hands over to finalize.
LEMMA ReflectDescends ==
    ASSUME Inv, Reflect
    PROVE  \/ reflections < reflections' /\ reflections' <= MaxReflections
           \/ Onwards
<1>1. node = "reflect"
  BY DEF Reflect
<1>2. reflections \in 0 .. MaxReflections /\ reflections < MaxReflections
  BY <1>1 DEF Inv, TypeOK, BudgetInv
<1>3. \/ reflections' = reflections + 1
      \/ reflections' = reflections /\ node' = "finalize"
  BY DEF Reflect
<1>4. QED
  BY <1>1, <1>2, <1>3, BoundFacts DEF Onwards, Distance

\* The steps that lead from a node to one that is nearer to the end.
LEMMA OthersDescend ==
    ASSUME Inv, \/ Ingest \/ TaskFrame \/ Clarify \/ DirectAnswer \/ PlanNode \/ StartPass
                \/ Exhausted \/ ExecuteRaises \/ Finalize \/ Abort
    PROVE  Onwards
<1>1. reflections' = reflections
  BY DEF Ingest, TaskFrame, Clarify, DirectAnswer, PlanNode, StartPass, Exhausted,
         ExecuteRaises, Finalize, Abort, Return, Inside, thread
<1>2. CASE Ingest
  BY <1>1, <1>2 DEF Ingest, Onwards, Distance
<1>3. CASE TaskFrame
  BY <1>1, <1>3 DEF TaskFrame, RouteAfterTaskFrame, Onwards, Distance
<1>4. CASE Clarify \/ DirectAnswer \/ Finalize
  BY <1>1, <1>4 DEF Clarify, DirectAnswer, Finalize, Onwards, Distance
<1>5. CASE PlanNode
  BY <1>1, <1>5 DEF PlanNode, Onwards, Distance
<1>6. CASE StartPass
  BY <1>1, <1>6 DEF StartPass, Onwards, Distance
<1>7. CASE Exhausted
  BY <1>1, <1>7 DEF Exhausted, Onwards, Distance
<1>8. CASE ExecuteRaises
  <2>1. node = "executing" /\ node' \in {"reflect", "finalize"}
    BY <1>8 DEF ExecuteRaises
  <2>2. QED
    BY <1>1, <2>1 DEF Onwards, Distance
<1>9. CASE Abort
  <2>1. node' = "end" /\ node \in {"ingest", "task_frame", "clarify", "direct_answer", "plan",
                                   "execute", "executing", "reflect"}
    BY <1>9 DEF Abort, Inv, TypeOK
  <2>2. QED
    BY <1>1, <2>1 DEF Onwards, Distance
<1>10. QED
  BY <1>2, <1>3, <1>4, <1>5, <1>6, <1>7, <1>8, <1>9

\* Why a run ends (_MAX_REFLECTIONS, the turns of execute_node and the stops):
\* whatever the models answer, a step leads towards the end, or uses up one of
\* the counters, which are bounded.  Only an attempt that dies starts a node
\* over.
THEOREM GraphDescends == Spec => EveryStepDescends
<1> DEFINE Falls ==
              node # "end" /\ lost' = lost =>
                 \/ reflections < reflections' /\ reflections' <= MaxReflections
                 \/ /\ reflections' = reflections
                    /\ \/ Distance(node') < Distance(node)
                       \/ /\ node = "executing" /\ node' = "executing"
                          /\ LoopLeft' \in Nat /\ LoopLeft' < LoopLeft
<1>1. ASSUME Inv, [Next]_vars PROVE Falls \/ UNCHANGED vars
  <2>1. Inv'
    BY <1>1, NextInv
  <2>2. Onwards => Falls
    BY DEF Onwards
  <2>3. Looped => Falls
    BY <1>1, <2>1, LoopedDescends DEF Looped
  <2>4. CASE Post
    BY <2>4 DEF Post
  <2>5. CASE AttemptLost
    BY <1>1, <2>5 DEF AttemptLost, Inv, TypeOK
  <2>6. CASE Reflect
    BY <1>1, <2>2, <2>6, ReflectDescends
  <2>7. CASE ModelTurn \/ Stop \/ Tools \/ SdkTools \/ SdkAnswer
    <3>1. Looped \/ Onwards
      BY <1>1, <2>7, ModelTurnDescends, StopDescends, ToolsDescend, SdkToolsDescend,
         SdkAnswerDescends
    <3> HIDE DEF Falls
    <3>2. QED
      BY <2>2, <2>3, <3>1
  <2>8. CASE \/ Ingest \/ TaskFrame \/ Clarify \/ DirectAnswer \/ PlanNode \/ StartPass
             \/ Exhausted \/ ExecuteRaises \/ Finalize \/ Abort
    <3>1. Onwards
      BY <1>1, <2>8, OthersDescend
    <3> HIDE DEF Falls
    <3>2. QED
      BY <2>2, <3>1
  <2> HIDE DEF Falls
  <2>9. QED
    BY <1>1, <2>4, <2>5, <2>6, <2>7, <2>8 DEF Next, Step
<1>2. QED
  BY <1>1, Invariance, PTL DEF Spec, EveryStepDescends

-----------------------------------------------------------------------------
(* Completed work stays completed *)

\* q is p with other statuses, and what is done in p is done in q.
Keeps(p, q) ==
    /\ SameTodos(p, q)
    /\ \A i \in 1 .. Len(p) : p[i].status = "done" => q[i].status = "done"

LEMMA KeepsSelf ==
    ASSUME NEW p \in Seq(Todo)
    PROVE  Keeps(p, p)
BY DEF Keeps, SameTodos

LEMMA KeepsMore ==
    ASSUME NEW p \in Seq(Todo), NEW q, NEW r, Keeps(p, q), Keeps(q, r)
    PROVE  Keeps(p, r)
BY DEF Keeps, SameTodos

LEMMA KeepsStarted ==
    ASSUME NEW p \in Seq(Todo), NEW from \in SUBSET Statuses, "done" \notin from
    PROVE  Keeps(p, Started(p, from))
<1>1. CASE Started(p, from) = p
  BY <1>1, KeepsSelf
<1>2. ASSUME NEW i \in 1 .. Len(p), NextTodo(p, i, from),
             Started(p, from) = With(p, i, "in_progress")
      PROVE  Keeps(p, Started(p, from))
  <2>1. p[i].status # "done"
    BY <1>2 DEF NextTodo
  <2>2. /\ SameTodos(p, With(p, i, "in_progress"))
        /\ \A j \in 1 .. Len(p) : j # i => With(p, i, "in_progress")[j] = p[j]
    BY WithFacts DEF Statuses
  <2>3. QED
    BY <1>2, <2>1, <2>2 DEF Keeps
<1>3. QED
  BY <1>1, <1>2, StartedFacts

LEMMA KeepsRetried ==
    ASSUME NEW p \in Seq(Todo)
    PROVE  Keeps(p, StartedOrRetried(p))
<1>1. {"pending", "failed"} \in SUBSET Statuses /\ "done" \notin {"pending", "failed"}
  BY DEF Statuses
<1>2. QED
  BY <1>1, KeepsSelf, KeepsStarted DEF StartedOrRetried

LEMMA KeepsAdvanced ==
    ASSUME NEW p \in Seq(Todo), NEW i \in DOMAIN p
    PROVE  Keeps(p, Advanced(p, i))
<1>1. PICK q : q = With(p, i, "done")
  OBVIOUS
<1>2. i \in 1 .. Len(p) /\ "done" \in Statuses
  BY TodoFacts DEF Statuses
<1>3. /\ SameTodos(p, q) /\ q[i].status = "done"
      /\ \A j \in 1 .. Len(p) : j # i => q[j] = p[j]
  BY <1>1, <1>2, WithFacts
<1>4. Keeps(p, q) /\ q \in Seq(Todo)
  BY <1>3 DEF Keeps, SameTodos
<1>5. {"pending"} \in SUBSET Statuses /\ "done" \notin {"pending"}
  BY DEF Statuses
<1>6. Keeps(q, Advanced(p, i))
  BY <1>1, <1>4, <1>5, KeepsStarted DEF Advanced
<1>7. QED
  BY <1>4, <1>6, KeepsMore

LEMMA KeepsFailed ==
    ASSUME NEW p \in Seq(Todo)
    PROVE  Keeps(p, Failed(p))
<1>1. /\ DOMAIN p = 1 .. Len(p) /\ Len(p) \in Nat
      /\ \A i \in 1 .. Len(p) : p[i] \in Todo
  BY TodoFacts
<1> DEFINE q == Failed(p)
<1>2. \A i \in 1 .. Len(p) : /\ [p[i] EXCEPT !.status = "failed"] \in Todo
                              /\ [p[i] EXCEPT !.status = "failed"].text = p[i].text
  BY <1>1 DEF Todo, Statuses
<1>3. \A i \in 1 .. Len(p) :
          q[i] = IF p[i].status = "in_progress" THEN [p[i] EXCEPT !.status = "failed"] ELSE p[i]
  BY <1>1 DEF Failed, IsActive
<1>4. q \in [1 .. Len(p) -> Todo]
  BY <1>1, <1>2 DEF Failed, IsActive
<1>5. q \in Seq(Todo) /\ Len(q) = Len(p)
  BY <1>1, <1>4, SequenceOf
<1> HIDE DEF q
<1>6. QED
  BY <1>2, <1>3, <1>5 DEF Keeps, SameTodos, q

LEMMA KeepsClosed ==
    ASSUME NEW p \in Seq(Todo)
    PROVE  Keeps(p, Closed(p))
<1>1. /\ DOMAIN p = 1 .. Len(p) /\ Len(p) \in Nat
      /\ \A i \in 1 .. Len(p) : p[i] \in Todo
  BY TodoFacts
<1> DEFINE q == Closed(p)
<1>2. \A i \in 1 .. Len(p), s \in {"failed", "skipped"} :
          /\ [p[i] EXCEPT !.status = s] \in Todo
          /\ [p[i] EXCEPT !.status = s].text = p[i].text
  BY <1>1 DEF Todo, Statuses
<1>3. \A i \in 1 .. Len(p) :
            q[i] = IF p[i].status = "in_progress" THEN [p[i] EXCEPT !.status = "failed"]
                   ELSE IF p[i].status = "pending" THEN [p[i] EXCEPT !.status = "skipped"]
                   ELSE p[i]
  BY <1>1 DEF Closed
<1>4. q \in [1 .. Len(p) -> Todo]
  <2>1. \A i \in 1 .. Len(p) : q[i] \in Todo
    BY <1>1, <1>2, <1>3
  <2>2. q = [i \in 1 .. Len(p) |-> q[i]]
    BY <1>1 DEF Closed
  <2>3. QED
    BY <2>1, <2>2
<1>5. q \in Seq(Todo) /\ Len(q) = Len(p)
  BY <1>1, <1>4, SequenceOf
<1> HIDE DEF q
<1>6. QED
  BY <1>2, <1>3, <1>5 DEF Keeps, SameTodos, q

LEMMA KeepsKept ==
    ASSUME NEW p \in Seq(Todo), NEW q, Keeps(p, q)
    PROVE  Kept(p, q)
<1>1. /\ DOMAIN p = 1 .. Len(p) /\ DOMAIN q = 1 .. Len(p)
      /\ \A i \in 1 .. Len(p) : q[i].text = p[i].text
  BY TodoFacts DEF Keeps, SameTodos
<1>2. Texts(p) = Texts(q)
  BY <1>1 DEF Texts
<1>3. \A i \in DOMAIN p : p[i].status = "done" => q[i].status = "done"
  BY <1>1 DEF Keeps
<1>4. QED
  BY <1>2, <1>3 DEF Kept

LEMMA KeepsCalled ==
    ASSUME NEW p \in Passes, NEW call \in Calls \cup {"none"}, MayCall(p, call)
    PROVE  Keeps(p.plan, Called(p, call).plan)
<1>1. p.plan \in Seq(Todo)
  BY DEF Passes
<1>2. CASE call \notin Completing
  <2>1. Called(p, call).plan = p.plan
    BY <1>2 DEF Called, Calls, Completing, Passes
  <2>2. QED
    BY <1>1, <2>1, KeepsSelf
<1>3. CASE call \in Completing
  <2>1. HasActive(p.plan)
    BY <1>3 DEF MayCall
  <2>2. PICK i \in DOMAIN p.plan : i = CHOOSE k \in DOMAIN p.plan : IsActive(p.plan, k)
    BY <2>1 DEF HasActive
  <2>3. PICK left : Called(p, call) =
           [p EXCEPT !.tried = TRUE, !.stops = 0, !.failed = left,
                     !.plan = Advanced(p.plan, i)]
    BY <1>3, <2>2 DEF Called, Completing
  <2>4. Called(p, call).plan = Advanced(p.plan, i)
    BY <2>3 DEF Passes
  <2>5. QED
    BY <1>1, <2>4, KeepsAdvanced
<1>4. QED
  BY <1>2, <1>3

LEMMA KeepsSdkCalled ==
    ASSUME NEW e, NEW p \in Passes, Sound(p.plan, e), p.turns.tool < MaxToolTurns,
           NEW call \in Calls \cup {"none"}, MayCall(p, call)
    PROVE  Keeps(p.plan, SdkCalled(p, call).plan)
<1>1. PICK q, c : q = [p EXCEPT !.turns = Counted(@, "tool")] /\ c = Called(q, call)
  OBVIOUS
<1>2. p.turns \in Turns /\ p.stops \in 0 .. MaxStops - 1
  BY DEF Passes
<1>3. q \in Passes /\ q.plan = p.plan
  BY <1>1, <1>2, CountedFacts DEF Passes
<1>4. MayCall(q, call) /\ Sound(q.plan, e)
  BY <1>3 DEF MayCall
<1>5. c \in Passes /\ Keeps(p.plan, c.plan)
  BY <1>1, <1>3, <1>4, CalledFacts, KeepsCalled
<1>6. SdkCalled(p, call) = [c EXCEPT !.stops = p.stops]
  BY <1>1 DEF SdkCalled
<1>7. SdkCalled(p, call).plan = c.plan
  BY <1>5, <1>6 DEF Passes
<1>8. QED
  BY <1>5, <1>7

\* A step of execute goes on from the plan of its loop, or returns with it.
Worked ==
    /\ node = "executing"
    /\ \/ node' = "executing" /\ plan' = plan /\ Keeps(pass.plan, pass'.plan)
       \/ node' = "reflect" /\ Keeps(pass.plan, plan')
       \/ node' = "finalize" /\ Keeps(pass.plan, plan')

LEMMA ModelTurnWorks ==
    ASSUME Inv, ModelTurn
    PROVE  Worked
<1>1. node = "executing" /\ node' = node /\ plan' = plan
  BY DEF ModelTurn, Inside
<1>2. PICK spent, step, next :
         /\ next = [pass EXCEPT !.step = step,
                                !.turns = [Counted(@, "agent") EXCEPT !.tokens = spent]]
         /\ \/ pass' = next
            \/ \E i \in DOMAIN pass.plan :
                  pass' = [next EXCEPT !.plan = Advanced(@, i), !.stops = 0]
  BY DEF ModelTurn
<1>3. next.plan = pass.plan /\ pass.plan \in Seq(Todo)
  BY <1>2, LoopFacts DEF Passes
<1>4. CASE pass' = next
  BY <1>1, <1>3, <1>4, KeepsSelf DEF Worked
<1>5. ASSUME NEW i \in DOMAIN pass.plan,
             pass' = [next EXCEPT !.plan = Advanced(@, i), !.stops = 0]
      PROVE  Worked
  <2>1. pass'.plan = Advanced(pass.plan, i)
    BY <1>2, <1>3, <1>5, LoopFacts DEF Passes
  <2>2. QED
    BY <1>1, <1>3, <2>1, KeepsAdvanced DEF Worked
<1>6. QED
  BY <1>2, <1>4, <1>5

LEMMA StopWorks ==
    ASSUME Inv, Stop \/ Exhausted
    PROVE  Worked
<1>1. node = "executing" /\ pass \in Passes /\ pass.plan \in Seq(Todo)
  BY LoopFacts DEF Stop, Exhausted
<1>2. \/ /\ pass' = [pass EXCEPT !.step = "model", !.stops = @ + 1]
         /\ UNCHANGED <<node, plan>>
      \/ plan' \in {pass.plan, Failed(pass.plan)} /\ node' = "reflect"
  BY DEF Stop, Exhausted, Return, Inside
<1>3. CASE /\ pass' = [pass EXCEPT !.step = "model", !.stops = @ + 1]
           /\ UNCHANGED <<node, plan>>
  <2>1. pass'.plan = pass.plan
    BY <1>1, <1>3 DEF Passes
  <2>2. QED
    BY <1>1, <1>3, <2>1, KeepsSelf DEF Worked
<1>4. CASE plan' \in {pass.plan, Failed(pass.plan)} /\ node' = "reflect"
  BY <1>1, <1>4, KeepsSelf, KeepsFailed DEF Worked
<1>5. QED
  BY <1>2, <1>3, <1>4

LEMMA ToolsWork ==
    ASSUME Inv, Tools
    PROVE  Worked
<1>1. node = "executing" /\ pass.step = "tools" /\ pass.turns.tool < MaxToolTurns
  BY DEF Tools, Inv, BudgetInv
<1>2. PICK first \in Calls, second \in Calls \cup {"none"} :
          LET begin  == [pass EXCEPT !.turns = Counted(@, "tool"), !.step = "model"]
              middle == Called(begin, first)
              end    == Called(middle, second)
          IN  /\ MayCall(begin, first)
              /\ MayCall(middle, second)
              /\ \/ Return(end, end.plan, FALSE, FALSE) /\ node' \in {"finalize", "reflect"}
                 \/ pass' = end /\ UNCHANGED <<node, Inside>>
  BY Zenon DEF Tools
<1> DEFINE start  == [pass EXCEPT !.turns = Counted(@, "tool"), !.step = "model"]
           middle == Called(start, first)
           last   == Called(middle, second)
<1>3. start \in Passes /\ start.plan = pass.plan
  BY <1>1, LoopFacts, CountedFacts DEF Passes
<1> HIDE DEF start
<1>4. MayCall(start, first) /\ MayCall(middle, second)
  BY <1>2 DEF start
<1>5. middle \in Passes /\ Keeps(pass.plan, middle.plan)
  BY <1>1, <1>3, <1>4, LoopFacts, CalledFacts, KeepsCalled DEF start
<1> HIDE DEF middle
<1>6. Keeps(middle.plan, last.plan)
  BY <1>4, <1>5, KeepsCalled
<1>7. Keeps(pass.plan, last.plan)
  BY <1>5, <1>6, LoopFacts, KeepsMore
<1>8. \/ plan' = last.plan /\ node' \in {"finalize", "reflect"}
      \/ pass' = last /\ UNCHANGED <<node, plan>>
  BY <1>2, Zenon DEF start, middle, Return, Inside
<1> HIDE DEF last
<1>9. QED
  BY <1>1, <1>7, <1>8 DEF Worked

LEMMA SdkToolsWork ==
    ASSUME Inv, SdkTools
    PROVE  Worked
<1>1. node = "executing" /\ pass.turns.tool < MaxToolTurns /\ UNCHANGED <<node, plan>>
  BY DEF SdkTools, Inside
<1>2. PICK first, second, middle, both :
          /\ first \in SdkCalls /\ second \in SdkCalls \cup {"none"}
          /\ middle = SdkCalled(pass, first)
          /\ both = [middle EXCEPT !.plan = pass.plan]
          /\ MayCall(pass, first) /\ MayCall(pass, second)
          /\ second # "none" => pass.turns.tool + 1 < MaxToolTurns
          /\ pass' = IF second = "none" THEN middle ELSE SdkCalled(both, second)
  BY SdkToolsShape
<1>3. first \in Calls \cup {"none"} /\ second \in Calls \cup {"none"}
  BY <1>2 DEF SdkCalls
<1>4. /\ middle \in Passes /\ middle.turns.tool = pass.turns.tool + 1
      /\ Keeps(pass.plan, middle.plan)
  <2>1. pass \in Passes /\ Sound(pass.plan, evidenced)
    BY <1>1, LoopFacts
  <2>2. /\ SdkCalled(pass, first) \in Passes
        /\ SdkCalled(pass, first).turns.tool = pass.turns.tool + 1
    BY <1>1, <1>2, <1>3, <2>1, SdkCalledFacts
  <2>3. Keeps(pass.plan, SdkCalled(pass, first).plan)
    BY <1>1, <1>2, <1>3, <2>1, KeepsSdkCalled
  <2>4. QED
    BY <1>2, <2>2, <2>3
<1>5. CASE second = "none"
  BY <1>1, <1>2, <1>4, <1>5 DEF Worked
<1>6. CASE second # "none"
  <2>1. both \in Passes /\ both.plan = pass.plan /\ both.turns = middle.turns
    BY <1>2, <1>4, LoopFacts DEF Passes
  <2>2. MayCall(both, second) /\ both.turns.tool < MaxToolTurns
    BY <1>2, <1>4, <1>6, <2>1 DEF MayCall
  <2>3. Sound(both.plan, evidenced)
    BY <2>1, LoopFacts
  <2>4. Keeps(both.plan, SdkCalled(both, second).plan)
    BY <1>3, <2>1, <2>2, <2>3, KeepsSdkCalled
  <2>5. QED
    BY <1>1, <1>2, <1>6, <2>1, <2>4 DEF Worked
<1>7. QED
  BY <1>5, <1>6

LEMMA SdkAnswerWorks ==
    ASSUME Inv, SdkAnswer
    PROVE  Worked
<1>1. node = "executing" /\ pass \in Passes /\ pass.plan \in Seq(Todo)
  BY LoopFacts DEF SdkAnswer
<1>2. PICK t \in QueryTurns(pass.turns), undelivered \in BOOLEAN,
           done \in {i \in DOMAIN pass.plan : ~pass.rejected /\ IsActive(pass.plan, i)
                                                /\ pass.plan[i].text \in TextTodos}
                    \cup {0} :
          LET todos   == IF done = 0 THEN pass.plan ELSE Advanced(pass.plan, done)
              next    == [pass EXCEPT !.turns = t, !.plan = todos]
              blocked == ~pass.rejected
                         /\ (~AllDone(todos) \/ pass.failed # {} \/ undelivered)
          IN  /\ evidenced' = IF done = 0 THEN evidenced
                              ELSE evidenced \cup {pass.plan[done].text}
              /\ IF blocked /\ pass.stops + 1 < MaxStops
                 THEN /\ pass' = [next EXCEPT !.stops = @ + 1]
                      /\ UNCHANGED <<node, Inside, lost, confirmed>>
                 ELSE /\ Return(next, IF blocked THEN Failed(todos) ELSE todos, blocked, FALSE)
                      /\ node' = "reflect"
                      /\ UNCHANGED <<frame, error>>
  BY Zenon DEF SdkAnswer
<1> DEFINE todos == IF done = 0 THEN pass.plan ELSE Advanced(pass.plan, done)
           next  == [pass EXCEPT !.turns = t, !.plan = todos]
<1>3. Keeps(pass.plan, todos)
  BY <1>1, <1>2, KeepsSelf, KeepsAdvanced
<1>4. todos \in Seq(Todo)
  BY <1>3 DEF Keeps, SameTodos
<1> HIDE DEF todos
<1>5. \/ pass' = [next EXCEPT !.stops = @ + 1] /\ UNCHANGED <<node, plan>>
      \/ plan' \in {todos, Failed(todos)} /\ node' = "reflect"
  BY <1>2, Zenon DEF todos, Return, Inside
<1>6. CASE pass' = [next EXCEPT !.stops = @ + 1] /\ UNCHANGED <<node, plan>>
  <2>1. pass'.plan = todos
    BY <1>1, <1>2, <1>6 DEF Passes
  <2>2. QED
    BY <1>1, <1>3, <1>6, <2>1 DEF Worked
<1>7. CASE plan' \in {todos, Failed(todos)} /\ node' = "reflect"
  <2>1. Keeps(pass.plan, Failed(todos))
    BY <1>1, <1>3, <1>4, KeepsFailed, KeepsMore
  <2>2. QED
    BY <1>1, <1>3, <1>7, <2>1 DEF Worked
<1>8. QED
  BY <1>5, <1>6, <1>7

LEMMA ExecuteRaisesWorks ==
    ASSUME Inv, ExecuteRaises
    PROVE  Worked
<1>1. node = "executing" /\ pass \in Passes /\ pass.plan \in Seq(Todo)
  BY LoopFacts DEF ExecuteRaises
<1>2. PICK t, p :
         /\ p = [pass EXCEPT !.turns = t]
         /\ plan' = IF Recoverable(p) THEN p.plan ELSE Failed(p.plan)
         /\ node' \in {"reflect", "finalize"}
  BY DEF ExecuteRaises, Return
<1>3. p.plan = pass.plan
  BY <1>1, <1>2 DEF Passes
<1>4. QED
  BY <1>1, <1>2, <1>3, KeepsSelf, KeepsFailed DEF Worked

\* A replan of a plan that the same run made carries over what it has completed.
LEMMA ReconciledKept ==
    ASSUME plan \in Seq(Todo), planRun = run, NEW texts \in Proposals
    PROVE  Kept(plan, Reconciled(texts))
<1> DEFINE q == Reconciled(texts)
<1>1. DOMAIN q = DOMAIN texts
  BY DEF Reconciled
<1>2. \A j \in DOMAIN texts :
         /\ q[j].text = texts[j]
         /\ CarriedOver(texts[j]) => q[j].status = "done"
  BY DEF Reconciled
<1> HIDE DEF q
<1>3. ASSUME NEW i \in DOMAIN plan, NEW j \in DOMAIN q,
             plan[i].status = "done", q[j].text = plan[i].text
      PROVE  q[j].status = "done"
  <2>1. plan[i] \in Todo
    BY TodoFacts
  <2>2. plan[i] = [text |-> texts[j], status |-> "done"]
    BY <1>1, <1>2, <1>3, <2>1 DEF Todo
  <2>3. QED
    BY <1>1, <1>2, <1>3, <2>2 DEF CarriedOver
<1>4. CASE Texts(plan) = Texts(q)
  <2>1. DOMAIN plan = DOMAIN q /\ \A i \in DOMAIN plan : q[i].text = plan[i].text
    <3>1. DOMAIN Texts(plan) = DOMAIN plan /\ DOMAIN Texts(q) = DOMAIN q
      BY DEF Texts
    <3>2. /\ \A i \in DOMAIN plan : Texts(plan)[i] = plan[i].text
          /\ \A i \in DOMAIN q : Texts(q)[i] = q[i].text
      BY DEF Texts
    <3>3. QED
      BY <1>4, <3>1, <3>2
  <2>2. \A i \in DOMAIN plan : plan[i].status = "done" => q[i].status = "done"
    BY <1>3, <2>1
  <2>3. QED
    BY <1>4, <2>2 DEF Kept, q
<1>5. CASE Texts(plan) # Texts(q)
  BY <1>3, <1>5 DEF Kept, q
<1>6. QED
  BY <1>4, <1>5

\* The steps that CompletedWorkIsKept is about.
Keeping ==
    run' = run /\ node # "ingest" /\ (node = "plan" => planRun = run) /\ ~PassLost

LEMMA NextKeeps ==
    ASSUME Inv, [Next]_vars, Keeping
    PROVE  Kept(Current, Current')
<1>1. plan \in Seq(Todo)
  BY DEF Inv, TypeOK
<1>2. /\ Kept(plan, plan)
      /\ node = "executing" => pass.plan \in Seq(Todo) /\ Kept(pass.plan, pass.plan)
  BY <1>1, LoopFacts, KeepsSelf, KeepsKept
<1>3. ASSUME node # "executing", node' # "executing", Kept(plan, plan')
      PROVE  Kept(Current, Current')
  BY <1>3 DEF Current
<1>4. CASE TaskFrame \/ Clarify \/ DirectAnswer \/ Finalize
  <2>1. plan' = plan /\ node # "executing" /\ node' # "executing"
    BY <1>4 DEF TaskFrame, RouteAfterTaskFrame, Clarify, DirectAnswer, Finalize, thread
  <2>2. QED
    BY <1>2, <1>3, <2>1
<1>5. CASE UNCHANGED vars
  <2>1. node' = node /\ plan' = plan /\ pass' = pass
    BY <1>5 DEF vars, thread
  <2>2. QED
    BY <1>2, <2>1 DEF Current
<1>6. CASE Post \/ Ingest
  <2>1. CASE Post
    <3>1. run \in 0 .. MaxRuns /\ run' = run + 1
      BY <2>1 DEF Inv, TypeOK, Post
    <3>2. QED
      BY <3>1 DEF Keeping
  <2>2. CASE Ingest
    BY <2>2 DEF Ingest, Keeping
  <2>3. QED
    BY <1>6, <2>1, <2>2
<1>7. CASE AttemptLost
  BY <1>7 DEF AttemptLost, Keeping, PassLost
<1>8. CASE Abort
  <2>1. node # "executing" /\ node' = "end" /\ plan' = plan
    BY <1>8 DEF Abort, Keeping, PassLost, thread
  <2>2. QED
    BY <1>2, <1>3, <2>1
<1>9. CASE PlanNode
  <2>1. node = "plan" /\ node' # "executing" /\ planRun = run
    BY <1>9 DEF PlanNode, Keeping
  <2>2. CASE plan' = plan
    BY <1>2, <1>3, <2>1, <2>2
  <2>3. ASSUME NEW texts \in Proposals, plan' = Reconciled(texts)
        PROVE  Kept(Current, Current')
    BY <1>1, <1>3, <2>1, <2>3, ReconciledKept
  <2>4. QED
    BY <1>9, <2>2, <2>3 DEF PlanNode
<1>10. CASE StartPass
  <2>1. node = "execute" /\ node' = "executing" /\ pass'.plan = StartedOrRetried(plan)
    BY <1>10 DEF StartPass, Inside
  <2>2. Kept(plan, pass'.plan)
    BY <1>1, <2>1, KeepsRetried, KeepsKept
  <2>3. QED
    BY <2>1, <2>2 DEF Current
<1>11. CASE ModelTurn \/ Stop \/ Tools \/ Exhausted \/ ExecuteRaises \/ SdkTools \/ SdkAnswer
  <2>1. Worked
    BY <1>11, ModelTurnWorks, StopWorks, ToolsWork, SdkToolsWork, SdkAnswerWorks,
       ExecuteRaisesWorks
  <2>2. node = "executing" /\ pass.plan \in Seq(Todo)
    BY <2>1, LoopFacts DEF Worked
  <2>3. CASE node' = "executing" /\ Keeps(pass.plan, pass'.plan)
    BY <2>2, <2>3, KeepsKept DEF Current
  <2>4. CASE node' # "executing" /\ Keeps(pass.plan, plan')
    BY <2>2, <2>4, KeepsKept DEF Current
  <2>5. QED
    BY <2>1, <2>3, <2>4 DEF Worked
<1>12. CASE Reflect
  <2>1. node # "executing" /\ node' # "executing" /\ plan' \in {plan, Closed(plan)}
    BY <1>12 DEF Reflect
  <2>2. Keeps(plan, plan')
    BY <1>1, <2>1, KeepsSelf, KeepsClosed
  <2>3. QED
    BY <1>1, <1>3, <2>1, <2>2, KeepsKept
<1>13. QED
  BY <1>4, <1>5, <1>6, <1>7, <1>8, <1>9, <1>10, <1>11, <1>12 DEF Next, Step

\* A todo that is done stays done as long as the run lasts: in the loop of
\* execute, when the loop returns or fails, in a replan of a plan the run made
\* (_reconcile_completed_todos: "Carry exact completed work and its evidence
\* across a replan") and when reflect closes the plan.  What a lost attempt had
\* done in its pass is lost with it.
THEOREM WorkIsKept == Spec => CompletedWorkIsKept
<1>1. Inv /\ [Next]_vars => (Keeping => Kept(Current, Current'))
  BY NextKeeps
<1>2. Keeping <=> /\ run' = run /\ node # "ingest" /\ (node = "plan" => planRun = run)
                  /\ ~PassLost
  BY DEF Keeping
<1>3. QED
  BY <1>1, <1>2, Invariance, PTL DEF Spec, CompletedWorkIsKept
=============================================================================
