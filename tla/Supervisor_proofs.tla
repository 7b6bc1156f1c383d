--------------------------- MODULE Supervisor_proofs ---------------------------
(***************************************************************************)
(* Proofs about module Supervisor: its safety invariants, for any number   *)
(* of routers and of overlapping requests that change the router.          *)
(*                                                                         *)
(* The invariants are not inductive as they stand.  That one collector     *)
(* runs needs to know who holds the lock and what its holder has done      *)
(* (LockInv); that the last settings win needs the last call in the queue  *)
(* to be the one that carries them (QueueEndsWithSettings); that a thread  *)
(* is awaited needs that a task has one at most (WorkersOfTasks).          *)
(***************************************************************************)
EXTENDS Supervisor, TLAPS

(* What waits for _lifecycle_lock, and what its holder has done. *)
LockInv ==
    /\ \A i, j \in 1..Len(queue) : queue[i] = queue[j] => i = j
    /\ \A k \in Callers :
          calls[k].at \in {"queued", "stopping", "closing"}
              <=> \E i \in 1..Len(queue) : queue[i] = k
    /\ \A k \in Callers : calls[k].at \in {"stopping", "closing"} => Holds(k)
    /\ \A k \in Callers : calls[k].at = "closing" => task = None
    /\ stop => \/ \E k \in Callers : calls[k].at \in {"stopping", "closing"}
               \/ calls[Shutdown].at = "done"

(* What each phase of lifespan allows the callers. *)
PhaseInv ==
    /\ phase = "starting" =>
          /\ queue = <<>> /\ task = None /\ ~stop
          /\ \A k \in Callers : calls[k].at = "idle"
          /\ \A g \in Tasks : tasks[g].at = "absent"
    /\ phase # "stopped" => calls[Shutdown].at = "idle"
    /\ phase = "stopped" =>
          /\ calls[Shutdown].at # "idle"
          /\ \A p \in Patches : calls[p].at \in {"idle", "done"}
    /\ \A p \in Patches : calls[p].at # "idle" => calls[p].wants \in Targets

(* Which tasks there are, and which are being cancelled. *)
TaskInv ==
    /\ OneCollector
    /\ \A g \in Tasks : Live(g) /\ tasks[g].cancelled =>
          \E k \in Callers : calls[k].at = "stopping"
    /\ \A p \in Patches : calls[p].at # "done" => tasks[p].at = "absent"

(* A task has one worker thread at most, which is awaited if the task runs. *)
WorkersOfTasks ==
    /\ \A w \in workers :
          /\ tasks[w.task].at # "absent"
          /\ Live(w.task) => w.from = target
          /\ \A v \in workers : v.task = w.task => v = w
    /\ ThreadsAreAwaited

(* What the connection and the status are worth, by where the task is. *)
StatusInv ==
    /\ api \in {None, target}
    /\ runtime.authenticated => api # None
    /\ \A g \in Tasks :
          /\ tasks[g].at \in {"fetching", "handling", "broadcasting", "polling"} => api = target
          /\ tasks[g].at \in {"handling", "broadcasting", "polling"} => runtime.authenticated
          /\ tasks[g].at \in {"closing", "backoff"} => ~runtime.authenticated
          /\ tasks[g].at \in {"broadcasting", "polling"} => target \in committed
          /\ tasks[g].at = "polling" => runtime.state = "ready"
          /\ tasks[g].at \in {"fetching", "handling", "broadcasting"} =>
                runtime.state = "starting"
    /\ runtime.state = "ready" /\ runtime.authenticated =>
          /\ runtime.active = runtime.configured
          /\ runtime.host = target /\ target \in committed

QueueEndsWithSettings ==
    phase = "serving" /\ queue # <<>> => calls[queue[Len(queue)]].wants = settings

ConfigInv == QueueEndsWithSettings /\ LastConfigWins

IInv == /\ TypeOK /\ LockInv /\ PhaseInv /\ TaskInv
        /\ WorkersOfTasks /\ StatusInv /\ ConfigInv /\ QuietWhenStopped

-----------------------------------------------------------------------------
(* What the helpers that move tasks do to the tasks. *)

LEMMA GotoMoves ==
    ASSUME TypeOK, NEW g \in Tasks, NEW place \in Places, Goto(g, place)
    PROVE  /\ tasks' \in [Tasks -> TaskRows]
           /\ tasks'[g].at = place /\ tasks'[g].cancelled = tasks[g].cancelled
           /\ tasks'[g].delay = tasks[g].delay
           /\ \A h \in Tasks \ {g} : tasks'[h] = tasks[h]
  BY DEF TypeOK, Goto, TaskRows

LEMMA MoveWithDelay ==
    ASSUME TypeOK, NEW g \in Tasks, NEW place \in Places, NEW d \in Nat,
           tasks' = [tasks EXCEPT ![g].at = place, ![g].delay = d]
    PROVE  /\ tasks' \in [Tasks -> TaskRows]
           /\ tasks'[g].at = place /\ tasks'[g].cancelled = tasks[g].cancelled
           /\ tasks'[g].delay = d
           /\ \A h \in Tasks \ {g} : tasks'[h] = tasks[h]
<1>1. tasks \in [Tasks -> TaskRows]
  BY DEF TypeOK
<1>2. tasks' \in [Tasks -> TaskRows]
  BY <1>1 DEF TaskRows
<1>3. \A h \in Tasks \ {g} : tasks'[h] = tasks[h]
  BY <1>1
<1>4. tasks'[g] = [tasks[g] EXCEPT !.at = place, !.delay = d]
  BY <1>1
<1>. QED
  BY <1>1, <1>2, <1>3, <1>4 DEF TaskRows

LEMMA EndMoves ==
    ASSUME TypeOK, NEW g \in Tasks, End(g)
    PROVE  /\ tasks' \in [Tasks -> TaskRows]
           /\ tasks'[g].at = "done" /\ ~tasks'[g].cancelled
           /\ \A h \in Tasks \ {g} : tasks'[h] = tasks[h]
  BY DEF TypeOK, End, TaskRows, Places

LEMMA NewTaskMoves ==
    ASSUME TypeOK, NEW g \in Tasks, NewTask(g)
    PROVE  /\ tasks' \in [Tasks -> TaskRows] /\ task' = g
           /\ tasks'[g].at = "begin" /\ ~tasks'[g].cancelled
           /\ tasks'[g].delay = FirstDelay
           /\ \A h \in Tasks \ {g} : tasks'[h] = tasks[h]
  BY DelayAssumption DEF TypeOK, NewTask, TaskRows, Places

LEMMA CancelMarks ==
    ASSUME TypeOK, NEW g \in Tasks, tasks' = CancelTask(g)
    PROVE  /\ tasks' \in [Tasks -> TaskRows]
           /\ tasks'[g].at = tasks[g].at /\ tasks'[g].cancelled = Live(g)
           /\ tasks'[g].delay = tasks[g].delay
           /\ \A h \in Tasks \ {g} : tasks'[h] = tasks[h]
<1>1. tasks \in [Tasks -> TaskRows] /\ Live(g) \in BOOLEAN
  BY DEF TypeOK, Live
<1>. QED
  BY <1>1 DEF CancelTask, TaskRows

LEMMA FailMoves ==
    ASSUME TypeOK, NEW g \in Tasks, NEW state \in States, Fail(g, state)
    PROVE  /\ tasks' \in [Tasks -> TaskRows]
           /\ tasks'[g].at = "closing" /\ tasks'[g].cancelled = tasks[g].cancelled
           /\ tasks'[g].delay = tasks[g].delay
           /\ \A h \in Tasks \ {g} : tasks'[h] = tasks[h]
           /\ runtime' \in RuntimeRows
           /\ runtime'.state = state /\ ~runtime'.authenticated
<1>1. Goto(g, "closing") /\ "closing" \in Places
  BY DEF Fail, Places
<1>2. runtime \in RuntimeRows
  BY DEF TypeOK
<1>. QED
  BY <1>1, <1>2, GotoMoves DEF Fail, RuntimeRows

(* The queue of the lock, when a call joins it at the end. *)
LEMMA JoinQueue ==
    ASSUME NEW q \in Seq(Callers), NEW k \in Callers
    PROVE  /\ Append(q, k) \in Seq(Callers) /\ Append(q, k) # <<>>
           /\ Len(Append(q, k)) = Len(q) + 1
           /\ Append(q, k)[Len(q) + 1] = k
           /\ \A i \in 1..Len(q) : Append(q, k)[i] = q[i]
           /\ q # <<>> => Head(Append(q, k)) = Head(q)
           /\ q = <<>> => Head(Append(q, k)) = k
  OBVIOUS

(* ... and when its holder leaves it. *)
LEMMA LeaveQueue ==
    ASSUME NEW q \in Seq(Callers), q # <<>>
    PROVE  /\ Tail(q) \in Seq(Callers)
           /\ Len(q) \in Nat \ {0} /\ Len(Tail(q)) = Len(q) - 1
           /\ \A i \in 1..Len(Tail(q)) : Tail(q)[i] = q[i + 1]
           /\ Head(q) = q[1] /\ Head(q) \in Callers
           /\ Tail(q) # <<>> => Tail(q)[Len(Tail(q))] = q[Len(q)]
           /\ Tail(q) = <<>> => Len(q) = 1
<1>1. Len(q) \in Nat \ {0} /\ Head(q) = q[1] /\ Head(q) \in Callers
  OBVIOUS
<1>2. Tail(q) \in Seq(Callers) /\ Len(Tail(q)) = Len(q) - 1
  OBVIOUS
<1>3. \A i \in 1..Len(Tail(q)) : Tail(q)[i] = q[i + 1]
  BY <1>1, <1>2
<1>4. Tail(q) # <<>> => Len(Tail(q)) \in 1..Len(Tail(q))
  BY <1>2
<1>5. Tail(q) = <<>> => Len(q) = 1
  BY <1>1, <1>2
<1>. QED
  BY <1>1, <1>2, <1>3, <1>4, <1>5

-----------------------------------------------------------------------------
(* Initially the invariant holds. *)
LEMMA InitIInv == Init => IInv
<1> SUFFICES ASSUME Init PROVE IInv
  OBVIOUS
<1> USE CallerAssumption, DelayAssumption
<1>1. TypeOK
  <2>1. calls \in [Callers -> CallRows]
    BY DEF Init, CallRows
  <2>2. tasks \in [Tasks -> TaskRows] /\ \A g \in Tasks : ~Live(g)
    BY DEF Init, TaskRows, Places, Live
  <2>3. runtime \in RuntimeRows
    BY DEF Init, RuntimeRows, States
  <2>4. queue \in Seq(Callers) /\ workers \subseteq [task : Tasks, from : Targets]
    BY DEF Init
  <2>5. phase \in {"starting", "serving", "stopped"} /\ task \in Tasks \cup {None}
        /\ settings \in Targets /\ target \in Targets /\ api \in Targets \cup {None}
        /\ stop \in BOOLEAN /\ calm \in BOOLEAN /\ committed \subseteq Targets
    BY DEF Init
  <2>. QED
    BY <2>1, <2>2, <2>3, <2>4, <2>5 DEF TypeOK
<1>2. LockInv /\ PhaseInv
  BY DEF Init, LockInv, PhaseInv, Callers
<1>3. TaskInv
  BY DEF Init, TaskInv, OneCollector, Live, Callers, Tasks
<1>4. WorkersOfTasks /\ StatusInv
  BY DEF Init, WorkersOfTasks, ThreadsAreAwaited, StatusInv
<1>5. ConfigInv /\ QuietWhenStopped
  BY DEF Init, ConfigInv, QueueEndsWithSettings, LastConfigWins, QuietWhenStopped, Callers
<1>. QED
  BY <1>1, <1>2, <1>3, <1>4, <1>5 DEF IInv

(* The steps of a task and of a thread leave the callers and the lock alone. *)
LEMMA TaskStepKeeps ==
    ASSUME NEW g \in Tasks, TaskStep(g)
    PROVE  UNCHANGED <<phase, settings, calls, queue, task, stop, target, calm>>
  BY DEF TaskStep, Begin, Fetched, FetchFailed, Broadcast, BroadcastFailed, PollDue,
         ApiClosed, BackoffOver, Cancelled

LEMMA WorkerStepKeeps ==
    ASSUME NEW w \in workers, WorkerStep(w)
    PROVE  UNCHANGED <<phase, settings, calls, queue, task, stop, target, api, calm>>
  BY DEF WorkerStep, Commit, CommitFailed

-----------------------------------------------------------------------------
(* A step of a task keeps the types. *)
LEMMA TaskStepTypeOK ==
    ASSUME IInv, NEW g \in Tasks, TaskStep(g)
    PROVE  TypeOK'
<1> USE DelayAssumption DEF IInv
<1>0. UNCHANGED <<phase, settings, calls, queue, task, stop, target, calm>>
  BY TaskStepKeeps
<1>1. CASE Begin(g)
  <2>1. CASE stop
    <3>1. End(g) /\ UNCHANGED <<runtime, api, workers, committed>>
      BY <1>1, <2>1 DEF Begin
    <3>. QED
      BY <1>0, <3>1, EndMoves DEF TypeOK, Live
  <2>2. CASE ~stop
    <3>1. Goto(g, "fetching") /\ "fetching" \in Places /\ Live(g)
          /\ UNCHANGED <<workers, committed>>
      BY <1>1, <2>2 DEF Begin, Places, Runs, Live
    <3>2. runtime' \in RuntimeRows
      <4>1. runtime' = [runtime EXCEPT !.state = "starting"] /\ "starting" \in States
        BY <1>1, <2>2 DEF Begin, States
      <4>. QED
        BY <4>1 DEF TypeOK, RuntimeRows
    <3>3. api' \in Targets \cup {None}
      BY <1>1, <2>2 DEF Begin, TypeOK
    <3>. QED
      BY <1>0, <3>1, <3>2, <3>3, GotoMoves DEF TypeOK, Live
  <2>. QED
    BY <2>1, <2>2
<1>2. CASE Fetched(g)
  <2>1. Goto(g, "handling") /\ "handling" \in Places /\ Live(g)
        /\ UNCHANGED <<api, committed>>
    BY <1>2 DEF Fetched, AfterFetch, Places, Runs, Live
  <2>2. runtime' \in RuntimeRows
    BY <1>2 DEF Fetched, TypeOK, RuntimeRows
  <2>3. workers' \subseteq [task : Tasks, from : Targets]
    <3>1. api \in Targets
      BY <1>2, CallerAssumption DEF Fetched, Runs, StatusInv, TypeOK
    <3>. QED
      BY <1>2, <3>1 DEF Fetched, TypeOK
  <2>. QED
    BY <1>0, <2>1, <2>2, <2>3, GotoMoves DEF TypeOK, Live
<1>3. CASE FetchFailed(g) \/ BroadcastFailed(g)
  <2>1. PICK state \in {"stale", "auth_failed"} : Fail(g, state)
    BY <1>3 DEF FetchFailed, BroadcastFailed
  <2>2. Live(g) /\ state \in States /\ UNCHANGED <<api, workers, committed>>
    BY <1>3 DEF FetchFailed, BroadcastFailed, Runs, Live, States
  <2>. QED
    BY <1>0, <2>1, <2>2, FailMoves DEF TypeOK, Live
<1>4. CASE Broadcast(g)
  <2>1. "polling" \in Places /\ FirstDelay \in Nat /\ FirstDelay \in FirstDelay..MaxDelay
        /\ UNCHANGED <<api, workers, committed>>
    BY <1>4 DEF Broadcast, Places
  <2>2. runtime' \in RuntimeRows
    <3>1. "ready" \in States /\ runtime \in RuntimeRows /\ target \in Targets
      BY DEF States, TypeOK
    <3>2. runtime.configured \in Nat
      BY <3>1 DEF RuntimeRows
    <3>. QED
      BY <1>4, <3>1, <3>2 DEF Broadcast, RuntimeRows
  <2>3. tasks' \in [Tasks -> TaskRows]
    BY <1>4, <2>1 DEF Broadcast, TypeOK, TaskRows
  <2>4. tasks'[g].delay = FirstDelay /\ \A h \in Tasks \ {g} : tasks'[h] = tasks[h]
    BY <1>4, <2>1 DEF Broadcast, TypeOK, TaskRows
  <2>. QED
    BY <1>0, <2>1, <2>2, <2>3, <2>4 DEF TypeOK, Live
<1>5. CASE PollDue(g)
  <2>1. Goto(g, "begin") /\ "begin" \in Places /\ Live(g)
        /\ UNCHANGED <<runtime, api, workers, committed>>
    BY <1>5 DEF PollDue, Places, Runs, Live
  <2>. QED
    BY <1>0, <2>1, GotoMoves DEF TypeOK, Live
<1>6. CASE ApiClosed(g)
  <2>1. Goto(g, "backoff") /\ "backoff" \in Places /\ Live(g) /\ api' = None
        /\ UNCHANGED <<runtime, workers, committed>>
    BY <1>6 DEF ApiClosed, Places, Runs, Live
  <2>. QED
    BY <1>0, <2>1, GotoMoves DEF TypeOK, Live
<1>7. CASE BackoffOver(g)
  <2>1. Live(g) /\ "begin" \in Places /\ UNCHANGED <<runtime, api, workers, committed>>
    BY <1>7 DEF BackoffOver, Runs, Live, Places
  <2>2. NextDelay(tasks[g].delay) \in FirstDelay..MaxDelay
        /\ NextDelay(tasks[g].delay) \in Nat
    <3>1. tasks[g].delay \in FirstDelay..MaxDelay
      BY <2>1 DEF TypeOK
    <3>. QED
      BY <3>1 DEF NextDelay
  <2>3. tasks' = [tasks EXCEPT ![g].at = "begin", ![g].delay = NextDelay(tasks[g].delay)]
    BY <1>7 DEF BackoffOver, TypeOK, TaskRows
  <2>4. tasks' \in [Tasks -> TaskRows] /\ tasks'[g].delay = NextDelay(tasks[g].delay)
        /\ \A h \in Tasks \ {g} : tasks'[h] = tasks[h]
    BY <2>1, <2>2, <2>3, MoveWithDelay
  <2>. QED
    BY <1>0, <2>1, <2>2, <2>4 DEF TypeOK, Live
<1>8. CASE Cancelled(g)
  <2>1. End(g) /\ UNCHANGED <<runtime, api, workers, committed>>
    BY <1>8 DEF Cancelled
  <2>. QED
    BY <1>0, <2>1, EndMoves DEF TypeOK, Live
<1>. QED
  BY <1>1, <1>2, <1>3, <1>4, <1>5, <1>6, <1>7, <1>8 DEF TaskStep

(* A thread that ends keeps the types. *)
LEMMA WorkerStepTypeOK ==
    ASSUME IInv, NEW w \in workers, WorkerStep(w)
    PROVE  TypeOK'
<1> USE DEF IInv
<1>0. UNCHANGED <<phase, settings, calls, queue, task, stop, target, api, calm>>
  BY WorkerStepKeeps
<1>1. w.task \in Tasks /\ w.from \in Targets
  BY DEF TypeOK
<1>2. workers' \subseteq [task : Tasks, from : Targets] /\ committed' \subseteq Targets
  BY <1>1 DEF TypeOK, WorkerStep, Commit, CommitFailed
<1>3. CASE ~Runs(w.task, "handling")
  <2>1. UNCHANGED <<tasks, runtime>>
    BY <1>3 DEF WorkerStep, Commit, CommitFailed
  <2>. QED
    BY <1>0, <1>2, <2>1 DEF TypeOK, Live
<1>4. CASE Runs(w.task, "handling") /\ Commit(w)
  <2>1. Goto(w.task, "broadcasting") /\ "broadcasting" \in Places /\ Live(w.task)
        /\ UNCHANGED runtime
    BY <1>4 DEF Commit, Places, Runs, Live
  <2>. QED
    BY <1>0, <1>1, <1>2, <2>1, GotoMoves DEF TypeOK, Live
<1>5. CASE Runs(w.task, "handling") /\ CommitFailed(w)
  <2>1. Fail(w.task, "stale") /\ "stale" \in States /\ Live(w.task)
    BY <1>5 DEF CommitFailed, States, Runs, Live
  <2>. QED
    BY <1>0, <1>1, <1>2, <2>1, FailMoves DEF TypeOK, Live
<1>. QED
  BY <1>3, <1>4, <1>5 DEF WorkerStep

(* The steps of the callers keep the types. *)
LEMMA CallerStepTypeOK ==
    ASSUME IInv,
           \/ Start \/ (\E p \in Patches, t \in Targets : Patch(p, t)) \/ BeginShutdown
           \/ \E k \in Callers : LockStep(k)
    PROVE  TypeOK'
<1> USE DEF IInv
<1>1. CASE Start
  <2>1. CASE UNCHANGED <<tasks, task>>
    BY <1>1, <2>1 DEF Start, TypeOK, Live
  <2>2. CASE NewTask(Startup)
    <3>1. Startup \in Tasks
      BY DEF Tasks
    <3>. QED
      BY <1>1, <2>2, <3>1, NewTaskMoves, DelayAssumption DEF Start, TypeOK, Live
  <2>. QED
    BY <1>1, <2>1, <2>2 DEF Start
<1>2. ASSUME NEW p \in Patches, NEW t \in Targets, Patch(p, t)
      PROVE  TypeOK'
  <2>1. p \in Callers /\ queue \in Seq(Callers)
    BY DEF Callers, TypeOK
  <2>2. Request(t) \in CallRows
    BY DEF Request, CallRows, TypeOK, RuntimeRows
  <2>3. calls' \in [Callers -> CallRows]
    BY <1>2, <2>2 DEF Patch, TypeOK
  <2>4. queue' \in Seq(Callers)
    BY <1>2, <2>1 DEF Patch
  <2>. QED
    BY <1>2, <2>3, <2>4 DEF Patch, TypeOK, Live
<1>3. CASE BeginShutdown
  <2>1. Shutdown \in Callers /\ queue \in Seq(Callers)
    BY DEF Callers, TypeOK
  <2>2. calls' \in [Callers -> CallRows]
    BY <1>3 DEF BeginShutdown, TypeOK, CallRows
  <2>3. queue' \in Seq(Callers)
    BY <1>3, <2>1 DEF BeginShutdown
  <2>. QED
    BY <1>3, <2>2, <2>3 DEF BeginShutdown, TypeOK, Live
<1>4. ASSUME NEW k \in Callers, StopTask(k)
      PROVE  TypeOK'
  <2>1. calls' \in [Callers -> CallRows]
    BY <1>4 DEF StopTask, TypeOK, CallRows
  <2>2. CASE task = None
    BY <1>4, <2>1, <2>2 DEF StopTask, TypeOK, Live
  <2>3. CASE task # None
    <3>1. task \in Tasks /\ tasks' = CancelTask(task)
      BY <1>4, <2>3 DEF StopTask, TypeOK
    <3>. QED
      BY <1>4, <2>1, <3>1, CancelMarks DEF StopTask, TypeOK, Live
  <2>. QED
    BY <2>2, <2>3
<1>5. ASSUME NEW k \in Callers, TaskEnded(k)
      PROVE  TypeOK'
  <2>1. calls' \in [Callers -> CallRows]
    BY <1>5 DEF TaskEnded, TypeOK, CallRows
  <2>. QED
    BY <1>5, <2>1 DEF TaskEnded, TypeOK, Live
<1>6. ASSUME NEW p \in Patches, Reconfigured(p)
      PROVE  TypeOK'
  <2>1. p \in Tasks /\ p \in Callers /\ NewTask(p)
    BY <1>6 DEF Tasks, Callers, Reconfigured
  <2>2. calls' \in [Callers -> CallRows] /\ queue' \in Seq(Callers)
    <3>1. queue \in Seq(Callers) /\ queue # <<>> /\ queue' = Tail(queue)
      BY <1>6 DEF Reconfigured, Holds, TypeOK
    <3>2. queue' \in Seq(Callers)
      BY <3>1, LeaveQueue
    <3>3. calls' \in [Callers -> CallRows]
      BY <1>6, <2>1 DEF Reconfigured, TypeOK, CallRows
    <3>. QED
      BY <3>2, <3>3
  <2>3. calls[p].wants \in Targets /\ calls[p].revision \in Nat
    BY <1>6, <2>1 DEF Reconfigured, PhaseInv, TypeOK, CallRows
  <2>4. runtime' \in RuntimeRows
    BY <1>6, <2>3 DEF Reconfigured, TypeOK, RuntimeRows
  <2>5. UNCHANGED <<phase, settings, workers, committed, calm>>
        /\ target' = calls[p].wants /\ api' = None /\ stop' = FALSE
    BY <1>6 DEF Reconfigured, ResetApi
  <2>6. tasks' \in [Tasks -> TaskRows] /\ task' = p /\ tasks'[p].delay = FirstDelay
        /\ \A h \in Tasks \ {p} : tasks'[h] = tasks[h]
    BY <2>1, NewTaskMoves
  <2>7. \A g \in Tasks : Live(g)' => tasks'[g].delay \in FirstDelay..MaxDelay
    BY <2>6, DelayAssumption DEF TypeOK, Live
  <2>. QED
    BY <2>1, <2>2, <2>3, <2>4, <2>5, <2>6, <2>7 DEF TypeOK
<1>7. CASE Stopped
  <2>1. calls' \in [Callers -> CallRows] /\ queue' \in Seq(Callers)
    <3>1. queue \in Seq(Callers) /\ queue # <<>> /\ queue' = Tail(queue)
      BY <1>7 DEF Stopped, Holds, TypeOK
    <3>2. queue' \in Seq(Callers)
      BY <3>1, LeaveQueue
    <3>3. calls' \in [Callers -> CallRows]
      BY <1>7 DEF Stopped, TypeOK, CallRows
    <3>. QED
      BY <3>2, <3>3
  <2>2. runtime' \in RuntimeRows
    <3>1. "stopped" \in States
      BY DEF States
    <3>. QED
      BY <1>7, <3>1 DEF Stopped, TypeOK, RuntimeRows
  <2>. QED
    BY <1>7, <2>1, <2>2 DEF Stopped, ResetApi, TypeOK, Live
<1>. QED
  BY <1>1, <1>2, <1>3, <1>4, <1>5, <1>6, <1>7 DEF LockStep

(* Every step keeps the types. *)
LEMMA StepTypeOK == IInv /\ [Next]_vars => TypeOK'
<1> SUFFICES ASSUME IInv, [Next]_vars PROVE TypeOK'
  OBVIOUS
<1>1. CASE UNCHANGED vars \/ Weather
  BY <1>1 DEF IInv, TypeOK, Live, vars, taskVars, Weather
<1>. QED
  BY <1>1, TaskStepTypeOK, WorkerStepTypeOK, CallerStepTypeOK DEF Next

-----------------------------------------------------------------------------
(* Every step keeps what is known of the lock. *)
LEMMA StepLock == IInv /\ [Next]_vars => LockInv'
<1> SUFFICES ASSUME IInv, [Next]_vars PROVE LockInv'
  OBVIOUS
<1> USE CallerAssumption DEF IInv
<1>0. queue \in Seq(Callers) /\ calls \in [Callers -> CallRows]
  BY DEF TypeOK
<1>1. CASE UNCHANGED <<calls, queue, task, stop>>
  BY <1>1 DEF LockInv, Holds
<1>2. CASE Start
  <2>1. UNCHANGED <<calls, queue, stop>> /\ \A k \in Callers : calls[k].at = "idle"
    BY <1>2 DEF Start, PhaseInv
  <2>. QED
    BY <2>1 DEF LockInv, Holds
<1>3. ASSUME NEW p \in Callers, calls[p].at = "idle", calls'[p].at = "queued",
             \A k \in Callers \ {p} : calls'[k] = calls[k],
             queue' = Append(queue, p), UNCHANGED <<task, stop>>
      PROVE  LockInv'
  <2>1. \A i \in 1..Len(queue) : queue[i] # p
    BY <1>3 DEF LockInv
  <2>2. Len(queue) \in Nat /\ Len(queue') = Len(queue) + 1 /\ queue'[Len(queue) + 1] = p
        /\ \A i \in 1..Len(queue) : queue'[i] = queue[i]
    BY <1>0, <1>3, JoinQueue
  <2>3. \A i, j \in 1..Len(queue') : queue'[i] = queue'[j] => i = j
    BY <2>1, <2>2 DEF LockInv
  <2>4. \A k \in Callers :
           (\E i \in 1..Len(queue') : queue'[i] = k)
              <=> k = p \/ \E i \in 1..Len(queue) : queue[i] = k
    BY <2>2
  <2>5. \A k \in Callers : Holds(k) => Holds(k)'
    BY <1>0, <1>3, JoinQueue DEF Holds
  <2>6. \A k \in Callers :
           calls'[k].at \in {"queued", "stopping", "closing"}
              <=> \E i \in 1..Len(queue') : queue'[i] = k
    BY <1>3, <2>4 DEF LockInv
  <2>7. \A k \in Callers : calls'[k].at \in {"stopping", "closing"} => Holds(k)'
    BY <1>3, <2>5 DEF LockInv
  <2>8. \A k \in Callers : calls'[k].at = "closing" => task' = None
    BY <1>3 DEF LockInv
  <2>9. stop' => \/ \E k \in Callers : calls'[k].at \in {"stopping", "closing"}
                 \/ calls'[Shutdown].at = "done"
    <3>1. Shutdown \in Callers
      BY DEF Callers
    <3>2. \A k \in Callers : calls[k].at \in {"stopping", "closing", "done"} => calls'[k] = calls[k]
      BY <1>3
    <3>. QED
      BY <1>3, <3>1, <3>2 DEF LockInv
  <2>. QED
    BY <2>3, <2>6, <2>7, <2>8, <2>9 DEF LockInv
<1>4. ASSUME NEW p \in Patches, NEW t \in Targets, Patch(p, t)
      PROVE  LockInv'
  <2>1. p \in Callers
    BY DEF Callers
  <2>2. calls[p].at = "idle" /\ calls'[p].at = "queued"
        /\ \A k \in Callers \ {p} : calls'[k] = calls[k]
    BY <1>0, <1>4, <2>1 DEF Patch, Request
  <2>. QED
    BY <1>3, <1>4, <2>1, <2>2 DEF Patch
<1>5. CASE BeginShutdown
  <2>1. Shutdown \in Callers
    BY DEF Callers
  <2>2. calls[Shutdown].at = "idle" /\ calls'[Shutdown].at = "queued"
        /\ \A k \in Callers \ {Shutdown} : calls'[k] = calls[k]
    BY <1>0, <1>5, <2>1 DEF BeginShutdown, PhaseInv, CallRows
  <2>. QED
    BY <1>3, <1>5, <2>1, <2>2 DEF BeginShutdown
<1>6. ASSUME NEW k \in Callers, StopTask(k) \/ TaskEnded(k)
      PROVE  LockInv'
  <2>1. Holds(k) /\ queue' = queue /\ calls[k].at \in {"queued", "stopping"}
        /\ calls'[k].at \in {"stopping", "closing"}
        /\ \A c \in Callers \ {k} : calls'[c] = calls[c]
    BY <1>0, <1>6 DEF StopTask, TaskEnded, CallRows
  <2>2. \A c \in Callers : calls[c].at \in {"stopping", "closing"} => c = k
    BY <2>1 DEF LockInv, Holds
  <2>3. \A c \in Callers : calls'[c].at = "closing" => task' = None
    BY <1>0, <1>6, <2>1, <2>2 DEF StopTask, TaskEnded, CallRows
  <2>4. \A c \in Callers :
           calls'[c].at \in {"queued", "stopping", "closing"}
              <=> calls[c].at \in {"queued", "stopping", "closing"}
    BY <2>1
  <2>. QED
    BY <2>1, <2>2, <2>3, <2>4 DEF LockInv, Holds
<1>7. ASSUME NEW k \in Callers, Holds(k), calls[k].at = "closing",
             calls'[k].at = "done", \A c \in Callers \ {k} : calls'[c] = calls[c],
             queue' = Tail(queue), stop' => k = Shutdown
      PROVE  LockInv'
  <2>1. queue # <<>> /\ queue[1] = k /\ Len(queue) \in Nat \ {0}
        /\ Len(queue') = Len(queue) - 1
        /\ \A i \in 1..Len(queue') : queue'[i] = queue[i + 1]
    BY <1>0, <1>7, LeaveQueue DEF Holds
  <2>2. \A i, j \in 1..Len(queue') : queue'[i] = queue'[j] => i = j
    <3>1. ASSUME NEW i \in 1..Len(queue'), NEW j \in 1..Len(queue'), queue'[i] = queue'[j]
          PROVE  i = j
      <4>1. i + 1 \in 1..Len(queue) /\ j + 1 \in 1..Len(queue) /\ queue[i + 1] = queue[j + 1]
        BY <2>1, <3>1
      <4>2. i + 1 = j + 1
        BY <4>1 DEF LockInv
      <4>. QED
        BY <4>2
    <3>. QED
      BY <3>1
  <2>3. \A c \in Callers :
           (\E i \in 1..Len(queue') : queue'[i] = c)
              <=> c # k /\ \E i \in 1..Len(queue) : queue[i] = c
    <3>1. ASSUME NEW c \in Callers, NEW i \in 1..Len(queue'), queue'[i] = c
          PROVE  c # k /\ \E j \in 1..Len(queue) : queue[j] = c
      <4>1. i + 1 \in 1..Len(queue) /\ 1 \in 1..Len(queue) /\ queue[i + 1] = c /\ i + 1 # 1
        BY <2>1, <3>1
      <4>. QED
        BY <2>1, <4>1 DEF LockInv
    <3>2. ASSUME NEW c \in Callers, c # k, NEW i \in 1..Len(queue), queue[i] = c
          PROVE  \E j \in 1..Len(queue') : queue'[j] = c
      <4>1. i # 1 /\ i - 1 \in 1..Len(queue') /\ queue'[i - 1] = queue[i]
        BY <2>1, <3>2
      <4>. QED
        BY <3>2, <4>1
    <3>. QED
      BY <3>1, <3>2
  <2>4. \A c \in Callers \ {k} : calls'[c].at \notin {"stopping", "closing"}
    BY <1>7 DEF LockInv, Holds
  <2>. QED
    BY <1>7, <2>2, <2>3, <2>4 DEF LockInv
<1>8. ASSUME NEW p \in Patches, Reconfigured(p)
      PROVE  LockInv'
  <2>1. p \in Callers
    BY DEF Callers
  <2>2. calls'[p].at = "done" /\ \A c \in Callers \ {p} : calls'[c] = calls[c]
    BY <1>0, <1>8, <2>1 DEF Reconfigured, CallRows
  <2>. QED
    BY <1>7, <1>8, <2>1, <2>2 DEF Reconfigured
<1>9. CASE Stopped
  <2>1. Shutdown \in Callers
    BY DEF Callers
  <2>2. calls'[Shutdown].at = "done" /\ \A c \in Callers \ {Shutdown} : calls'[c] = calls[c]
    BY <1>0, <1>9, <2>1 DEF Stopped, CallRows
  <2>. QED
    BY <1>7, <1>9, <2>1, <2>2 DEF Stopped
<1>10. CASE UNCHANGED vars \/ Weather
  BY <1>1, <1>10 DEF vars, taskVars, Weather
<1>11. CASE (\E g \in Tasks : TaskStep(g)) \/ \E w \in workers : WorkerStep(w)
  BY <1>1, <1>11, TaskStepKeeps, WorkerStepKeeps
<1>. QED
  BY <1>2, <1>4, <1>5, <1>6, <1>8, <1>9, <1>10, <1>11 DEF Next, LockStep

-----------------------------------------------------------------------------
(* What a step of a task does to the tasks: only a live task takes one, it   *)
(* ends when it is to stop or is cancelled, and it cancels nobody.           *)
LEMMA TaskStepMoves ==
    ASSUME TypeOK, NEW g \in Tasks, TaskStep(g)
    PROVE  /\ Live(g)
           /\ \A h \in Tasks \ {g} : tasks'[h] = tasks[h]
           /\ tasks'[g].at # "absent"
           /\ tasks'[g].cancelled => tasks[g].cancelled
           /\ Live(g)' \/ stop \/ tasks[g].cancelled
<1>1. CASE Begin(g) /\ stop
  <2>1. End(g) /\ Live(g)
    BY <1>1 DEF Begin, Runs, Live
  <2>. QED
    BY <1>1, <2>1, EndMoves
<1>2. CASE Begin(g) /\ ~stop
  <2>1. Goto(g, "fetching") /\ "fetching" \in Places /\ Live(g)
    BY <1>2 DEF Begin, Runs, Live, Places
  <2>. QED
    BY <2>1, GotoMoves DEF Live
<1>3. CASE Fetched(g)
  <2>1. Goto(g, "handling") /\ "handling" \in Places /\ Live(g)
    BY <1>3 DEF Fetched, AfterFetch, Runs, Live, Places
  <2>. QED
    BY <2>1, GotoMoves DEF Live
<1>4. CASE FetchFailed(g) \/ BroadcastFailed(g)
  <2>1. PICK state \in States : Fail(g, state)
    BY <1>4 DEF FetchFailed, BroadcastFailed, States
  <2>2. Live(g)
    BY <1>4 DEF FetchFailed, BroadcastFailed, Runs, Live
  <2>. QED
    BY <2>1, <2>2, FailMoves DEF Live
<1>5. CASE Broadcast(g)
  <2>1. Live(g)
    BY <1>5 DEF Broadcast, Runs, Live
  <2>2. tasks \in [Tasks -> TaskRows]
    BY DEF TypeOK
  <2>3. tasks'[g].at = "polling" /\ tasks'[g].cancelled = tasks[g].cancelled
        /\ \A h \in Tasks \ {g} : tasks'[h] = tasks[h]
    BY <1>5, <2>2 DEF Broadcast, TaskRows
  <2>. QED
    BY <2>1, <2>3 DEF Live
<1>6. CASE PollDue(g)
  <2>1. Goto(g, "begin") /\ "begin" \in Places /\ Live(g)
    BY <1>6 DEF PollDue, Runs, Live, Places
  <2>. QED
    BY <2>1, GotoMoves DEF Live
<1>7. CASE ApiClosed(g)
  <2>1. Goto(g, "backoff") /\ "backoff" \in Places /\ Live(g)
    BY <1>7 DEF ApiClosed, Runs, Live, Places
  <2>. QED
    BY <2>1, GotoMoves DEF Live
<1>8. CASE BackoffOver(g)
  <2>1. Live(g)
    BY <1>8 DEF BackoffOver, Runs, Live
  <2>2. tasks \in [Tasks -> TaskRows]
    BY DEF TypeOK
  <2>3. tasks'[g].at = "begin" /\ tasks'[g].cancelled = tasks[g].cancelled
        /\ \A h \in Tasks \ {g} : tasks'[h] = tasks[h]
    BY <1>8, <2>2 DEF BackoffOver, TaskRows
  <2>. QED
    BY <2>1, <2>3 DEF Live
<1>9. CASE Cancelled(g)
  <2>1. End(g) /\ Live(g) /\ tasks[g].cancelled
    BY <1>9 DEF Cancelled
  <2>. QED
    BY <2>1, EndMoves
<1>. QED
  BY <1>1, <1>2, <1>3, <1>4, <1>5, <1>6, <1>7, <1>8, <1>9 DEF TaskStep

(* What the end of a thread does to the tasks: the one that awaits it, if    *)
(* any, goes on.                                                             *)
LEMMA WorkerStepMoves ==
    ASSUME TypeOK, NEW w \in workers, WorkerStep(w)
    PROVE  /\ w.task \in Tasks /\ workers' = workers \ {w}
           /\ \A h \in Tasks : /\ tasks'[h].cancelled = tasks[h].cancelled
                               /\ Live(h)' = Live(h)
                               /\ tasks'[h].at = "absent" <=> tasks[h].at = "absent"
           /\ \A h \in Tasks : tasks'[h] # tasks[h] =>
                  /\ h = w.task /\ Runs(h, "handling")
                  /\ \/ Commit(w) /\ tasks'[h].at = "broadcasting"
                     \/ Fail(h, "stale") /\ tasks'[h].at = "closing"
<1>1. w.task \in Tasks /\ workers' = workers \ {w}
  BY DEF TypeOK, WorkerStep, Commit, CommitFailed
<1>2. CASE ~Runs(w.task, "handling")
  <2>1. UNCHANGED tasks
    BY <1>2 DEF WorkerStep, Commit, CommitFailed
  <2>. QED
    BY <1>1, <2>1 DEF Live
<1>3. CASE Runs(w.task, "handling") /\ Commit(w)
  <2>1. Goto(w.task, "broadcasting") /\ "broadcasting" \in Places
    BY <1>3 DEF Commit, Places
  <2>2. tasks'[w.task].at = "broadcasting"
        /\ tasks'[w.task].cancelled = tasks[w.task].cancelled
        /\ \A h \in Tasks \ {w.task} : tasks'[h] = tasks[h]
    BY <1>1, <2>1, GotoMoves
  <2>. QED
    BY <1>1, <1>3, <2>2 DEF Live, Runs
<1>4. CASE Runs(w.task, "handling") /\ CommitFailed(w)
  <2>1. Fail(w.task, "stale") /\ "stale" \in States
    BY <1>4 DEF CommitFailed, States
  <2>2. tasks'[w.task].at = "closing"
        /\ tasks'[w.task].cancelled = tasks[w.task].cancelled
        /\ \A h \in Tasks \ {w.task} : tasks'[h] = tasks[h]
    BY <1>1, <2>1, FailMoves
  <2>. QED
    BY <1>1, <1>4, <2>1, <2>2 DEF Live, Runs
<1>. QED
  BY <1>2, <1>3, <1>4 DEF WorkerStep

(* Every step keeps what the phase allows. *)
LEMMA StepPhase == IInv /\ [Next]_vars => PhaseInv'
<1> SUFFICES ASSUME IInv, [Next]_vars PROVE PhaseInv'
  OBVIOUS
<1> USE CallerAssumption DEF IInv
<1>0. queue \in Seq(Callers) /\ calls \in [Callers -> CallRows]
      /\ Patches \subseteq Callers /\ Shutdown \in Callers /\ Shutdown \notin Patches
  BY DEF TypeOK, Callers
<1>1. CASE UNCHANGED vars \/ Weather
  BY <1>1 DEF PhaseInv, vars, taskVars, Weather
<1>2. ASSUME NEW g \in Tasks, TaskStep(g)
      PROVE  PhaseInv'
  <2>1. phase # "starting"
    BY <1>2, TaskStepMoves DEF PhaseInv, Live
  <2>. QED
    BY <1>2, <2>1, TaskStepKeeps DEF PhaseInv
<1>3. ASSUME NEW w \in workers, WorkerStep(w)
      PROVE  PhaseInv'
  <2>1. \A g \in Tasks : tasks[g].at = "absent" => tasks'[g].at = "absent"
    BY <1>3, WorkerStepMoves
  <2>. QED
    BY <1>3, <2>1, WorkerStepKeeps DEF PhaseInv
<1>4. CASE Start
  BY <1>0, <1>4 DEF Start, PhaseInv
<1>5. ASSUME NEW p \in Patches, NEW t \in Targets, Patch(p, t)
      PROVE  PhaseInv'
  <2>1. calls'[p].wants = t /\ \A k \in Callers \ {p} : calls'[k] = calls[k]
    BY <1>0, <1>5 DEF Patch, Request
  <2>. QED
    BY <1>0, <1>5, <2>1 DEF Patch, PhaseInv
<1>6. CASE BeginShutdown
  <2>1. calls'[Shutdown].at = "queued" /\ \A k \in Patches : calls'[k] = calls[k]
    BY <1>0, <1>6 DEF BeginShutdown, CallRows
  <2>. QED
    BY <1>6, <2>1 DEF BeginShutdown, PhaseInv
<1>7. ASSUME NEW k \in Callers, LockStep(k)
      PROVE  PhaseInv'
  <2>1. /\ calls[k].at \in {"queued", "stopping", "closing"}
        /\ calls'[k].at \in {"stopping", "closing", "done"} /\ calls'[k].wants = calls[k].wants
        /\ \A c \in Callers \ {k} : calls'[c] = calls[c]
        /\ UNCHANGED phase
    BY <1>0, <1>7 DEF LockStep, StopTask, TaskEnded, Reconfigured, Stopped, CallRows
  <2>2. phase = "stopped" => k = Shutdown
    BY <1>0, <2>1 DEF PhaseInv, Callers
  <2>. QED
    BY <1>0, <2>1, <2>2 DEF PhaseInv
<1>. QED
  BY <1>1, <1>2, <1>3, <1>4, <1>5, <1>6, <1>7 DEF Next

(* Every step keeps what is known of the tasks. *)
LEMMA StepTask == IInv /\ [Next]_vars => TaskInv'
<1> SUFFICES ASSUME IInv, [Next]_vars PROVE TaskInv'
  OBVIOUS
<1> USE CallerAssumption DEF IInv
<1>0. calls \in [Callers -> CallRows] /\ Patches \subseteq Callers /\ Patches \subseteq Tasks
      /\ Startup \in Tasks /\ Startup \notin Patches
  BY DEF TypeOK, Callers, Tasks
<1>1. CASE UNCHANGED vars \/ Weather
  BY <1>1 DEF TaskInv, OneCollector, Live, vars, taskVars, Weather
<1>2. ASSUME NEW g \in Tasks, TaskStep(g)
      PROVE  TaskInv'
  <2>1. UNCHANGED <<calls, task>>
    BY <1>2, TaskStepKeeps
  <2>2. Live(g) /\ (tasks'[g].cancelled => tasks[g].cancelled)
        /\ \A h \in Tasks \ {g} : tasks'[h] = tasks[h]
    BY <1>2, TaskStepMoves
  <2>3. g = task /\ \A h \in Tasks \ {g} : ~Live(h)
    BY <2>2 DEF TaskInv, OneCollector
  <2>. QED
    BY <1>0, <2>1, <2>2, <2>3 DEF TaskInv, OneCollector, Live
<1>3. ASSUME NEW w \in workers, WorkerStep(w)
      PROVE  TaskInv'
  <2>1. UNCHANGED <<calls, task>>
    BY <1>3, WorkerStepKeeps
  <2>2. \A h \in Tasks : /\ tasks'[h].cancelled = tasks[h].cancelled
                         /\ Live(h)' = Live(h)
                         /\ tasks'[h].at = "absent" <=> tasks[h].at = "absent"
    BY <1>3, WorkerStepMoves
  <2>. QED
    BY <1>0, <2>1, <2>2 DEF TaskInv, OneCollector
<1>4. CASE Start
  <2>1. UNCHANGED calls /\ \A g \in Tasks : tasks[g].at = "absent"
    BY <1>4 DEF Start, PhaseInv
  <2>2. CASE UNCHANGED <<tasks, task>>
    BY <2>1, <2>2 DEF TaskInv, OneCollector, Live
  <2>3. CASE NewTask(Startup)
    BY <1>0, <2>1, <2>3, NewTaskMoves DEF TaskInv, OneCollector, Live
  <2>. QED
    BY <1>4, <2>2, <2>3 DEF Start
<1>5. ASSUME NEW k \in Callers, calls[k].at = "idle", calls'[k].at = "queued",
             \A c \in Callers \ {k} : calls'[c] = calls[c], UNCHANGED <<tasks, task>>
      PROVE  TaskInv'
  BY <1>0, <1>5 DEF TaskInv, OneCollector, Live
<1>6. ASSUME NEW p \in Patches, NEW t \in Targets, Patch(p, t)
      PROVE  TaskInv'
  <2>1. calls[p].at = "idle" /\ calls'[p].at = "queued"
        /\ \A c \in Callers \ {p} : calls'[c] = calls[c]
    BY <1>0, <1>6 DEF Patch, Request
  <2>. QED
    BY <1>0, <1>5, <1>6, <2>1 DEF Patch
<1>7. CASE BeginShutdown
  <2>1. Shutdown \in Callers
    BY DEF Callers
  <2>2. calls[Shutdown].at = "idle" /\ calls'[Shutdown].at = "queued"
        /\ \A c \in Callers \ {Shutdown} : calls'[c] = calls[c]
    BY <1>0, <1>7, <2>1 DEF BeginShutdown, PhaseInv, CallRows
  <2>. QED
    BY <1>5, <1>7, <2>1, <2>2 DEF BeginShutdown
<1>8. ASSUME NEW k \in Callers, StopTask(k)
      PROVE  TaskInv'
  <2>1. calls[k].at = "queued" /\ calls'[k].at = "stopping" /\ UNCHANGED task
        /\ \A c \in Callers \ {k} : calls'[c] = calls[c]
    BY <1>0, <1>8 DEF StopTask, CallRows
  <2>2. CASE task = None
    BY <1>0, <1>8, <2>1, <2>2 DEF StopTask, TaskInv, OneCollector, Live
  <2>3. CASE task # None
    <3>1. task \in Tasks /\ tasks' = CancelTask(task)
      BY <1>8, <2>3 DEF StopTask, TypeOK
    <3>2. \A h \in Tasks : tasks'[h].at = tasks[h].at
      BY <3>1, CancelMarks
    <3>. QED
      BY <1>0, <2>1, <3>2 DEF TaskInv, OneCollector, Live
  <2>. QED
    BY <2>2, <2>3
<1>9. ASSUME NEW k \in Callers, TaskEnded(k)
      PROVE  TaskInv'
  <2>1. calls[k].at = "stopping" /\ calls'[k].at = "closing" /\ UNCHANGED tasks
        /\ \A c \in Callers \ {k} : calls'[c] = calls[c]
    BY <1>0, <1>9 DEF TaskEnded, CallRows
  <2>2. \A g \in Tasks : ~Live(g)
    BY <1>9 DEF TaskEnded, TaskStopped, TaskInv, OneCollector, Tasks
  <2>. QED
    BY <1>0, <2>1, <2>2 DEF TaskInv, OneCollector, Live
<1>10. ASSUME NEW p \in Patches, Reconfigured(p)
       PROVE  TaskInv'
  <2>1. calls[p].at = "closing" /\ calls'[p].at = "done" /\ NewTask(p)
        /\ \A c \in Callers \ {p} : calls'[c] = calls[c]
    BY <1>0, <1>10 DEF Reconfigured, CallRows
  <2>2. task = None
    BY <1>0, <2>1 DEF LockInv
  <2>3. \A g \in Tasks : ~Live(g)
    BY <2>2 DEF TaskInv, OneCollector, Tasks
  <2>. QED
    BY <1>0, <2>1, <2>3, NewTaskMoves DEF TaskInv, OneCollector, Live
<1>11. CASE Stopped
  <2>1. Shutdown \in Callers /\ Shutdown \notin Patches
    BY DEF Callers
  <2>2. calls[Shutdown].at = "closing" /\ calls'[Shutdown].at = "done" /\ UNCHANGED <<tasks, task>>
        /\ \A c \in Callers \ {Shutdown} : calls'[c] = calls[c]
    BY <1>0, <1>11, <2>1 DEF Stopped, CallRows
  <2>. QED
    BY <1>0, <2>1, <2>2 DEF TaskInv, OneCollector, Live
<1>. QED
  BY <1>1, <1>2, <1>3, <1>4, <1>6, <1>7, <1>8, <1>9, <1>10, <1>11 DEF Next, LockStep

(* Every step keeps what is known of the worker threads. *)
LEMMA StepWorkers == IInv /\ [Next]_vars => WorkersOfTasks'
<1> SUFFICES ASSUME IInv, [Next]_vars PROVE WorkersOfTasks'
  OBVIOUS
<1> USE CallerAssumption DEF IInv
<1>0. /\ Patches \subseteq Callers /\ Patches \subseteq Tasks /\ Startup \in Tasks
      /\ \A w \in workers : w.task \in Tasks
      /\ tasks \in [Tasks -> TaskRows]
  BY DEF TypeOK, Callers, Tasks
<1>1. CASE UNCHANGED <<workers, target, tasks>>
  BY <1>1 DEF WorkersOfTasks, ThreadsAreAwaited, Live
<1>2. ASSUME NEW g \in Tasks, TaskStep(g)
      PROVE  WorkersOfTasks'
  <2>1. UNCHANGED target /\ Live(g) /\ tasks'[g].at # "absent"
        /\ \A h \in Tasks \ {g} : tasks'[h] = tasks[h]
    BY <1>2, TaskStepKeeps, TaskStepMoves
  <2>2. CASE Fetched(g)
    <3>1. Goto(g, "handling") /\ "handling" \in Places
      BY <2>2 DEF Fetched, AfterFetch, Places
    <3>2. tasks'[g].at = "handling"
      BY <3>1, GotoMoves
    <3>3. \A w \in workers : w.task # g
      BY <2>2 DEF Fetched, Runs, Live, WorkersOfTasks, ThreadsAreAwaited
    <3>4. api = target
      BY <2>2 DEF Fetched, Runs, StatusInv
    <3>5. workers' = workers \cup {[task |-> g, from |-> target]}
      BY <2>2, <3>4 DEF Fetched
    <3>. QED
      BY <1>0, <2>1, <3>2, <3>3, <3>5 DEF WorkersOfTasks, ThreadsAreAwaited, Live
  <2>3. CASE ~Fetched(g)
    <3>1. UNCHANGED workers
      BY <1>2, <2>3 DEF TaskStep, Begin, FetchFailed, Broadcast, BroadcastFailed, PollDue,
                        ApiClosed, BackoffOver, Cancelled
    <3>2. (\E w \in workers : w.task = g) => ~Live(g)' \/ tasks'[g].cancelled
      <4>1. SUFFICES ASSUME NEW w \in workers, w.task = g
                     PROVE  ~Live(g)' \/ tasks'[g].cancelled
        OBVIOUS
      <4>2. tasks[g].cancelled \/ tasks[g].at = "handling"
        BY <2>1, <4>1 DEF WorkersOfTasks, ThreadsAreAwaited
      <4>3. CASE tasks[g].cancelled
        <5>1. Cancelled(g)
          BY <1>2, <4>3 DEF TaskStep, Begin, Fetched, FetchFailed, Broadcast, BroadcastFailed,
                            PollDue, ApiClosed, BackoffOver, Runs
        <5>2. End(g)
          BY <5>1 DEF Cancelled
        <5>. QED
          BY <5>2, EndMoves DEF Live
      <4>4. CASE tasks[g].at = "handling" /\ ~tasks[g].cancelled
        BY <1>2, <4>4 DEF TaskStep, Begin, Fetched, FetchFailed, Broadcast, BroadcastFailed,
                          PollDue, ApiClosed, BackoffOver, Cancelled, Runs
      <4>. QED
        BY <4>2, <4>3, <4>4
    <3>. QED
      BY <1>0, <2>1, <3>1, <3>2 DEF WorkersOfTasks, ThreadsAreAwaited, Live
  <2>. QED
    BY <2>2, <2>3
<1>3. ASSUME NEW w \in workers, WorkerStep(w)
      PROVE  WorkersOfTasks'
  <2>1. UNCHANGED target /\ workers' = workers \ {w} /\ w.task \in Tasks
    BY <1>3, WorkerStepKeeps, WorkerStepMoves
  <2>2. \A v \in workers' : v \in workers /\ v.task # w.task
    BY <2>1 DEF WorkersOfTasks
  <2>3. \A h \in Tasks : h # w.task => tasks'[h] = tasks[h]
    BY <1>3, WorkerStepMoves
  <2>. QED
    BY <1>0, <2>1, <2>2, <2>3 DEF WorkersOfTasks, ThreadsAreAwaited, Live
<1>4. ASSUME NEW g \in Tasks, tasks[g].at = "absent", NewTask(g), UNCHANGED workers,
             target' # target => \A h \in Tasks : ~Live(h)
      PROVE  WorkersOfTasks'
  <2>1. \A w \in workers : w.task \in Tasks \ {g}
    BY <1>0, <1>4 DEF WorkersOfTasks
  <2>2. \A h \in Tasks \ {g} : tasks'[h] = tasks[h]
    BY <1>4, NewTaskMoves
  <2>. QED
    BY <1>4, <2>1, <2>2 DEF WorkersOfTasks, ThreadsAreAwaited, Live
<1>5. CASE Start
  <2>1. UNCHANGED <<workers, target>> /\ tasks[Startup].at = "absent"
    BY <1>0, <1>5 DEF Start, PhaseInv
  <2>. QED
    BY <1>0, <1>1, <1>4, <1>5, <2>1 DEF Start
<1>6. ASSUME NEW k \in Callers, StopTask(k)
      PROVE  WorkersOfTasks'
  <2>1. UNCHANGED <<workers, target>>
    BY <1>6 DEF StopTask
  <2>2. CASE task = None
    BY <1>1, <1>6, <2>1, <2>2 DEF StopTask
  <2>3. CASE task # None
    <3>1. task \in Tasks /\ tasks' = CancelTask(task)
      BY <1>6, <2>3 DEF StopTask, TypeOK
    <3>2. /\ tasks'[task].at = tasks[task].at /\ tasks'[task].cancelled = Live(task)
          /\ \A h \in Tasks \ {task} : tasks'[h] = tasks[h]
      BY <3>1, CancelMarks
    <3>. QED
      BY <1>0, <2>1, <3>1, <3>2 DEF WorkersOfTasks, ThreadsAreAwaited, Live
  <2>. QED
    BY <2>2, <2>3
<1>7. ASSUME NEW p \in Patches, Reconfigured(p)
      PROVE  WorkersOfTasks'
  <2>1. calls[p].at = "closing" /\ NewTask(p) /\ UNCHANGED workers
    BY <1>7 DEF Reconfigured
  <2>2. tasks[p].at = "absent" /\ task = None
    BY <1>0, <2>1 DEF TaskInv, LockInv
  <2>3. \A g \in Tasks : ~Live(g)
    BY <2>2 DEF TaskInv, OneCollector, Tasks
  <2>. QED
    BY <1>0, <1>4, <2>1, <2>2, <2>3
<1>8. CASE \/ \E p \in Patches, t \in Targets : Patch(p, t)
           \/ BeginShutdown \/ (\E k \in Callers : TaskEnded(k)) \/ Stopped
           \/ Weather \/ UNCHANGED vars
  BY <1>1, <1>8 DEF Patch, BeginShutdown, TaskEnded, Stopped, Weather, taskVars, vars
<1>. QED
  BY <1>2, <1>3, <1>5, <1>6, <1>7, <1>8 DEF Next, LockStep

-----------------------------------------------------------------------------
(* Every step of a task keeps the connection and the status right. *)
LEMMA TaskStepStatus ==
    ASSUME IInv, NEW g \in Tasks, TaskStep(g)
    PROVE  StatusInv'
<1> USE CallerAssumption DEF IInv
<1>0. UNCHANGED target /\ UNCHANGED committed
  BY TaskStepKeeps DEF TaskStep, Begin, Fetched, FetchFailed, Broadcast, BroadcastFailed,
     PollDue, ApiClosed, BackoffOver, Cancelled
<1>1. \A h \in Tasks \ {g} : tasks'[h].at \in {"absent", "done"}
  <2>1. Live(g) /\ \A h \in Tasks \ {g} : tasks'[h] = tasks[h]
    BY TaskStepMoves
  <2>. QED
    BY <2>1 DEF TaskInv, OneCollector, Live
<1>2. tasks \in [Tasks -> TaskRows] /\ runtime \in RuntimeRows
      /\ target \in Targets /\ target # None
  BY DEF TypeOK
<1>3. ASSUME tasks'[g].at \in {"done", "begin"},
             UNCHANGED <<api, runtime>>
      PROVE  StatusInv'
  BY <1>0, <1>1, <1>3 DEF StatusInv
<1>4. CASE Begin(g)
  <2>1. CASE stop
    <3>1. End(g) /\ UNCHANGED <<api, runtime>>
      BY <1>4, <2>1 DEF Begin
    <3>. QED
      BY <1>3, <3>1, EndMoves
  <2>2. CASE ~stop
    <3>1. Goto(g, "fetching") /\ "fetching" \in Places
          /\ api' = target
      BY <1>4, <2>2 DEF Begin, Places, StatusInv
    <3>2. runtime'.authenticated = runtime.authenticated /\ runtime'.state = "starting"
      BY <1>2, <1>4, <2>2 DEF Begin, RuntimeRows
    <3>3. tasks'[g].at = "fetching"
      BY <3>1, GotoMoves
    <3>. QED
      BY <1>0, <1>1, <1>2, <3>1, <3>2, <3>3 DEF StatusInv
  <2>. QED
    BY <2>1, <2>2
<1>5. CASE Fetched(g)
  <2>1. Goto(g, "handling") /\ "handling" \in Places /\ UNCHANGED api
    BY <1>5 DEF Fetched, AfterFetch, Places
  <2>2. tasks'[g].at = "handling"
    BY <2>1, GotoMoves
  <2>3. runtime'.authenticated /\ runtime'.state = runtime.state
    BY <1>2, <1>5 DEF Fetched, RuntimeRows
  <2>4. api = target /\ runtime.state = "starting"
    BY <1>5 DEF Fetched, Runs, StatusInv
  <2>. QED
    BY <1>0, <1>1, <1>2, <2>1, <2>2, <2>3, <2>4 DEF StatusInv
<1>6. CASE FetchFailed(g) \/ BroadcastFailed(g)
  <2>1. PICK state \in States : Fail(g, state)
    BY <1>6 DEF FetchFailed, BroadcastFailed, States
  <2>2. UNCHANGED api
    BY <1>6 DEF FetchFailed, BroadcastFailed
  <2>3. tasks'[g].at = "closing" /\ ~runtime'.authenticated
    BY <2>1, FailMoves
  <2>. QED
    BY <1>0, <1>1, <2>2, <2>3 DEF StatusInv
<1>7. CASE Broadcast(g)
  <2>1. tasks'[g].at = "polling"
    BY <1>2, <1>7 DEF Broadcast, TaskRows
  <2>2. runtime'.authenticated = runtime.authenticated /\ runtime'.state = "ready"
        /\ runtime'.active = runtime'.configured /\ runtime'.host = target
    BY <1>2, <1>7 DEF Broadcast, RuntimeRows
  <2>3. api = target /\ runtime.authenticated /\ target \in committed
        /\ UNCHANGED <<api, committed>>
    BY <1>7 DEF Broadcast, Runs, StatusInv
  <2>. QED
    BY <1>0, <1>1, <1>2, <2>1, <2>2, <2>3 DEF StatusInv
<1>8. CASE PollDue(g)
  <2>1. Goto(g, "begin") /\ "begin" \in Places /\ UNCHANGED <<api, runtime>>
    BY <1>8 DEF PollDue, Places
  <2>. QED
    BY <1>3, <2>1, GotoMoves
<1>9. CASE ApiClosed(g)
  <2>1. Goto(g, "backoff") /\ "backoff" \in Places /\ api' = None /\ UNCHANGED runtime
    BY <1>9 DEF ApiClosed, Places
  <2>2. tasks'[g].at = "backoff" /\ ~runtime.authenticated
    BY <1>9, <2>1, GotoMoves DEF ApiClosed, Runs, StatusInv
  <2>. QED
    BY <1>0, <1>1, <2>1, <2>2 DEF StatusInv
<1>10. CASE BackoffOver(g)
  <2>1. tasks'[g].at = "begin" /\ UNCHANGED <<api, runtime>>
    BY <1>2, <1>10 DEF BackoffOver, TaskRows
  <2>. QED
    BY <1>3, <2>1
<1>11. CASE Cancelled(g)
  <2>1. End(g) /\ UNCHANGED <<api, runtime>>
    BY <1>11 DEF Cancelled
  <2>. QED
    BY <1>3, <2>1, EndMoves
<1>. QED
  BY <1>4, <1>5, <1>6, <1>7, <1>8, <1>9, <1>10, <1>11 DEF TaskStep

(* The end of a thread keeps the connection and the status right. *)
LEMMA WorkerStepStatus ==
    ASSUME IInv, NEW w \in workers, WorkerStep(w)
    PROVE  StatusInv'
<1> USE DEF IInv
<1>0. UNCHANGED <<target, api>> /\ w.task \in Tasks /\ committed \subseteq committed'
  BY WorkerStepKeeps, WorkerStepMoves DEF WorkerStep, Commit, CommitFailed
<1>1. CASE ~Runs(w.task, "handling")
  <2>1. UNCHANGED <<tasks, runtime>>
    BY <1>1 DEF WorkerStep, Commit, CommitFailed
  <2>. QED
    BY <1>0, <1>1, <2>1 DEF StatusInv
<1>2. CASE Runs(w.task, "handling")
  <2>1. Live(w.task)
    BY <1>2 DEF Runs, Live
  <2>2. \A h \in Tasks \ {w.task} : tasks'[h].at \in {"absent", "done"}
    BY <1>0, <2>1, WorkerStepMoves DEF TaskInv, OneCollector, Live
  <2>3. CASE Commit(w)
    <3>1. Goto(w.task, "broadcasting") /\ "broadcasting" \in Places /\ UNCHANGED runtime
      BY <1>2, <2>3 DEF Commit, Places
    <3>2. tasks'[w.task].at = "broadcasting"
      BY <1>0, <3>1, GotoMoves
    <3>3. target \in committed'
      BY <2>1, <2>3 DEF Commit, WorkersOfTasks
    <3>4. /\ api = target /\ runtime.authenticated /\ (runtime.authenticated => api # None)
          /\ runtime.state = "starting"
      BY <1>0, <1>2 DEF Runs, StatusInv
    <3>. QED
      BY <1>0, <2>2, <3>1, <3>2, <3>3, <3>4 DEF StatusInv
  <2>4. CASE CommitFailed(w)
    <3>1. Fail(w.task, "stale") /\ "stale" \in States
      BY <1>2, <2>4 DEF CommitFailed, States
    <3>2. tasks'[w.task].at = "closing" /\ ~runtime'.authenticated
      BY <1>0, <3>1, FailMoves
    <3>. QED
      BY <1>0, <2>2, <3>2 DEF StatusInv
  <2>. QED
    BY <2>3, <2>4 DEF WorkerStep
<1>. QED
  BY <1>1, <1>2

(* Every step keeps the connection and the status right. *)
LEMMA StepStatus == IInv /\ [Next]_vars => StatusInv'
<1> SUFFICES ASSUME IInv, [Next]_vars PROVE StatusInv'
  OBVIOUS
<1> USE CallerAssumption DEF IInv
<1>0. tasks \in [Tasks -> TaskRows] /\ runtime \in RuntimeRows
      /\ Patches \subseteq Callers /\ Patches \subseteq Tasks
      /\ Shutdown \in Callers /\ Startup \in Tasks
  BY DEF TypeOK, Callers, Tasks
<1>1. ASSUME \A g \in Tasks : tasks'[g].at \in {tasks[g].at, "begin"},
             UNCHANGED <<target, api, runtime, committed>>
      PROVE  StatusInv'
  BY <1>1 DEF StatusInv
<1>2. CASE \/ \E p \in Patches, t \in Targets : Patch(p, t)
           \/ BeginShutdown \/ (\E k \in Callers : TaskEnded(k))
           \/ Weather \/ UNCHANGED vars
  BY <1>1, <1>2 DEF Patch, BeginShutdown, TaskEnded, Weather, taskVars, vars
<1>3. CASE Start
  BY <1>0, <1>1, <1>3, NewTaskMoves DEF Start
<1>4. ASSUME NEW k \in Callers, StopTask(k)
      PROVE  StatusInv'
  <2>1. CASE task = None
    BY <1>1, <1>4, <2>1 DEF StopTask
  <2>2. CASE task # None
    <3>1. task \in Tasks /\ tasks' = CancelTask(task)
      BY <1>4, <2>2 DEF StopTask, TypeOK
    <3>. QED
      BY <1>1, <1>4, <3>1, CancelMarks DEF StopTask
  <2>. QED
    BY <2>1, <2>2
<1>5. ASSUME NEW k \in Callers, calls[k].at = "closing", api' = None, ~runtime'.authenticated,
             UNCHANGED tasks \/ (k \in Patches /\ NewTask(k))
      PROVE  StatusInv'
  <2>1. \A g \in Tasks : tasks[g].at \in {"absent", "done"}
    BY <1>5 DEF LockInv, TaskInv, OneCollector, Live, Tasks
  <2>2. \A g \in Tasks : tasks'[g].at \in {"absent", "done", "begin"}
    BY <1>0, <1>5, <2>1, NewTaskMoves
  <2>. QED
    BY <1>5, <2>2 DEF StatusInv
<1>6. ASSUME NEW p \in Patches, Reconfigured(p)
      PROVE  StatusInv'
  <2>1. calls[p].at = "closing" /\ api' = None /\ NewTask(p)
    BY <1>6 DEF Reconfigured, ResetApi
  <2>2. ~runtime'.authenticated
    BY <1>0, <1>6 DEF Reconfigured, RuntimeRows
  <2>. QED
    BY <1>0, <1>5, <2>1, <2>2
<1>7. CASE Stopped
  <2>1. calls[Shutdown].at = "closing" /\ api' = None /\ UNCHANGED tasks
    BY <1>7 DEF Stopped, ResetApi
  <2>2. ~runtime'.authenticated
    BY <1>0, <1>7 DEF Stopped, RuntimeRows
  <2>. QED
    BY <1>0, <1>5, <2>1, <2>2
<1>. QED
  BY <1>2, <1>3, <1>4, <1>6, <1>7, TaskStepStatus, WorkerStepStatus DEF Next, LockStep

-----------------------------------------------------------------------------
(* Every step keeps the last settings the ones the collector will run with. *)
LEMMA StepConfig == IInv /\ [Next]_vars => ConfigInv'
<1> SUFFICES ASSUME IInv, [Next]_vars PROVE ConfigInv'
  OBVIOUS
<1> USE CallerAssumption DEF IInv
<1>0. /\ calls \in [Callers -> CallRows] /\ queue \in Seq(Callers)
      /\ Patches \subseteq Callers /\ Patches \subseteq Tasks /\ Shutdown \in Callers
  BY DEF TypeOK, Callers, Tasks
<1>1. CASE UNCHANGED vars \/ Weather
  BY <1>1 DEF ConfigInv, QueueEndsWithSettings, LastConfigWins, Live, vars, taskVars, Weather
<1>2. ASSUME UNCHANGED <<phase, settings, calls, queue, target, task>>,
             phase = "serving" /\ queue = <<>> /\ task \in Tasks /\ Live(task) => Live(task)'
      PROVE  ConfigInv'
  <2>1. QueueEndsWithSettings'
    BY <1>2 DEF ConfigInv, QueueEndsWithSettings
  <2>2. task # None => task \in Tasks
    BY DEF TypeOK
  <2>3. LastConfigWins'
    BY <1>2, <2>2 DEF ConfigInv, LastConfigWins, Live
  <2>. QED
    BY <2>1, <2>3 DEF ConfigInv
<1>3. ASSUME NEW g \in Tasks, TaskStep(g)
      PROVE  ConfigInv'
  <2>1. phase = "serving" /\ queue = <<>> =>
            ~stop /\ \A k \in Callers : calls[k].at # "stopping"
    BY <1>0 DEF LockInv, PhaseInv, Holds
  <2>2. Live(g)' \/ stop \/ tasks[g].cancelled
    BY <1>3, TaskStepMoves
  <2>3. g = task /\ Live(g)
    BY <1>3, TaskStepMoves DEF TaskInv, OneCollector
  <2>4. phase = "serving" /\ queue = <<>> => Live(g)'
    BY <2>1, <2>2, <2>3 DEF TaskInv
  <2>5. UNCHANGED <<phase, settings, calls, queue, target, task>>
    BY <1>3, TaskStepKeeps
  <2>6. Live(g)' => Live(task)'
    BY <2>3, <2>5 DEF Live
  <2>. QED
    BY <1>2, <2>4, <2>5, <2>6
<1>4. ASSUME NEW w \in workers, WorkerStep(w)
      PROVE  ConfigInv'
  <2>1. UNCHANGED <<phase, settings, calls, queue, target, task>>
    BY <1>4, WorkerStepKeeps
  <2>2. \A h \in Tasks : Live(h)' = Live(h)
    BY <1>4, WorkerStepMoves
  <2>3. task \in Tasks /\ Live(task) => Live(task)'
    BY <2>1, <2>2 DEF Live
  <2>. QED
    BY <1>2, <2>1, <2>3
<1>5. CASE Start
  <2>1. queue' = <<>> /\ \A k \in Callers : calls'[k].at = "idle"
    BY <1>5 DEF Start, PhaseInv
  <2>. QED
    BY <1>0, <2>1 DEF ConfigInv, QueueEndsWithSettings, LastConfigWins
<1>6. ASSUME NEW p \in Patches, NEW t \in Targets, Patch(p, t)
      PROVE  ConfigInv'
  <2>1. queue' = Append(queue, p) /\ settings' = t /\ p \in Callers
    BY <1>0, <1>6 DEF Patch
  <2>2. queue' # <<>> /\ Len(queue') = Len(queue) + 1 /\ queue'[Len(queue) + 1] = p
    BY <1>0, <2>1, JoinQueue
  <2>3. calls'[p].wants = t
    BY <1>0, <1>6 DEF Patch, Request
  <2>. QED
    BY <2>1, <2>2, <2>3 DEF ConfigInv, QueueEndsWithSettings, LastConfigWins
<1>7. CASE BeginShutdown \/ Stopped
  <2>1. phase' = "stopped"
    BY <1>0, <1>7 DEF BeginShutdown, Stopped, PhaseInv
  <2>. QED
    BY <2>1 DEF ConfigInv, QueueEndsWithSettings, LastConfigWins
<1>8. ASSUME NEW k \in Callers, StopTask(k) \/ TaskEnded(k)
      PROVE  ConfigInv'
  <2>1. UNCHANGED <<phase, settings, queue>> /\ queue # <<>>
    BY <1>8 DEF StopTask, TaskEnded, Holds
  <2>2. PICK place \in {"stopping", "closing"} : calls' = [calls EXCEPT ![k].at = place]
    BY <1>8 DEF StopTask, TaskEnded
  <2>3. \A c \in Callers : calls'[c].wants = calls[c].wants
    BY <1>0, <2>2 DEF CallRows
  <2>4. queue[Len(queue)] \in Callers
    BY <1>0, <2>1
  <2>. QED
    BY <2>1, <2>3, <2>4 DEF ConfigInv, QueueEndsWithSettings, LastConfigWins
<1>9. ASSUME NEW p \in Patches, Reconfigured(p)
      PROVE  ConfigInv'
  <2>1. /\ Holds(p) /\ queue' = Tail(queue) /\ target' = calls[p].wants /\ NewTask(p)
        /\ UNCHANGED <<phase, settings>>
        /\ \A c \in Callers : calls'[c].wants = calls[c].wants
    BY <1>0, <1>9 DEF Reconfigured, CallRows
  <2>2. queue # <<>> /\ queue[1] = p /\ Len(queue) \in Nat \ {0}
        /\ Len(queue') = Len(queue) - 1
        /\ (queue' # <<>> => queue'[Len(queue')] = queue[Len(queue)])
        /\ (queue' = <<>> => Len(queue) = 1)
    BY <1>0, <2>1, LeaveQueue DEF Holds
  <2>3. queue[Len(queue)] \in Callers
    BY <1>0, <2>2
  <2>4. phase = "serving" => calls[queue[Len(queue)]].wants = settings
    BY <2>2 DEF ConfigInv, QueueEndsWithSettings
  <2>5. QueueEndsWithSettings'
    BY <2>1, <2>2, <2>3, <2>4 DEF QueueEndsWithSettings
  <2>6. task' = p /\ tasks'[p].at = "begin" /\ p # None
    BY <1>0, <2>1, NewTaskMoves
  <2>7. phase = "serving" /\ queue' = <<>> => target' = settings
    BY <2>1, <2>2, <2>4
  <2>8. LastConfigWins'
    BY <2>1, <2>6, <2>7 DEF LastConfigWins, Live
  <2>. QED
    BY <2>5, <2>8 DEF ConfigInv
<1>. QED
  BY <1>1, <1>3, <1>4, <1>5, <1>6, <1>7, <1>8, <1>9 DEF Next, LockStep

(* Every step keeps the collector quiet after the shutdown. *)
LEMMA StepQuiet == IInv /\ [Next]_vars => QuietWhenStopped'
<1> SUFFICES ASSUME IInv, [Next]_vars PROVE QuietWhenStopped'
  OBVIOUS
<1> USE CallerAssumption DEF IInv
<1>0. /\ calls \in [Callers -> CallRows] /\ runtime \in RuntimeRows
      /\ Patches \subseteq Callers /\ Shutdown \in Callers /\ Shutdown \notin Patches
  BY DEF TypeOK, Callers
<1>1. CASE UNCHANGED vars \/ Weather
  BY <1>1 DEF QuietWhenStopped, Live, vars, taskVars, Weather
<1>2. ASSUME NEW g \in Tasks, TaskStep(g)
      PROVE  QuietWhenStopped'
  <2>1. Live(g) /\ UNCHANGED calls
    BY <1>2, TaskStepMoves, TaskStepKeeps
  <2>. QED
    BY <2>1 DEF QuietWhenStopped
<1>3. ASSUME NEW w \in workers, WorkerStep(w)
      PROVE  QuietWhenStopped'
  <2>1. UNCHANGED <<calls, api>> /\ w.task \in Tasks /\ \A h \in Tasks : Live(h)' = Live(h)
    BY <1>3, WorkerStepKeeps, WorkerStepMoves
  <2>2. ~Live(w.task) => UNCHANGED runtime
    BY <1>3 DEF WorkerStep, Commit, CommitFailed, Runs, Live
  <2>. QED
    BY <2>1, <2>2 DEF QuietWhenStopped
<1>4. CASE Start \/ BeginShutdown \/ \E p \in Patches, t \in Targets : Patch(p, t)
  <2>1. calls'[Shutdown].at \in {"idle", "queued"}
    BY <1>0, <1>4 DEF Start, BeginShutdown, Patch, PhaseInv, CallRows
  <2>. QED
    BY <2>1 DEF QuietWhenStopped
<1>5. ASSUME NEW p \in Patches, LockStep(p)
      PROVE  QuietWhenStopped'
  <2>1. calls[p].at \in {"queued", "stopping", "closing"} /\ calls'[Shutdown] = calls[Shutdown]
    BY <1>0, <1>5 DEF LockStep, StopTask, TaskEnded, Reconfigured
  <2>2. calls[Shutdown].at = "idle"
    BY <2>1 DEF PhaseInv
  <2>. QED
    BY <2>1, <2>2 DEF QuietWhenStopped
<1>6. CASE StopTask(Shutdown) \/ TaskEnded(Shutdown)
  <2>1. calls'[Shutdown].at # "done"
    BY <1>0, <1>6 DEF StopTask, TaskEnded, CallRows
  <2>. QED
    BY <2>1 DEF QuietWhenStopped
<1>7. CASE Stopped
  <2>1. task = None /\ UNCHANGED tasks /\ api' = None
    BY <1>0, <1>7 DEF Stopped, ResetApi, LockInv
  <2>2. \A g \in Tasks : ~Live(g)'
    BY <2>1 DEF TaskInv, OneCollector, Live, Tasks
  <2>3. ~runtime'.authenticated /\ runtime'.state = "stopped"
    BY <1>0, <1>7 DEF Stopped, RuntimeRows
  <2>. QED
    BY <2>1, <2>2, <2>3 DEF QuietWhenStopped
<1>. QED
  BY <1>0, <1>1, <1>2, <1>3, <1>4, <1>5, <1>6, <1>7 DEF Next, LockStep, Callers

-----------------------------------------------------------------------------
(* The inductive invariant holds in every behaviour. *)
THEOREM Invariance == Spec => []IInv
<1>1. Init => IInv
  BY InitIInv
<1>2. IInv /\ [Next]_vars => IInv'
  BY StepTypeOK, StepLock, StepPhase, StepTask, StepWorkers, StepStatus, StepConfig,
     StepQuiet DEF IInv
<1>. QED
  BY <1>1, <1>2, PTL DEF Spec

(* Type correctness, and the bounds of the wait after a failure             *)
(* (supervisor.py:140-170).                                                 *)
THEOREM TypeCorrect == Spec => []TypeOK
<1>1. IInv => TypeOK
  BY DEF IInv
<1>. QED
  BY <1>1, Invariance, PTL

(* However many reconfigurations overlap, one collector polls at most       *)
(* (supervisor.py:60-97, 197-206).                                          *)
THEOREM NeverTwoCollectors == Spec => []OneCollector
<1>1. IInv => OneCollector
  BY DEF IInv, TaskInv
<1>. QED
  BY <1>1, Invariance, PTL

(* No task talks to a router the collector was configured away from         *)
(* (supervisor.py:181-206).                                                 *)
THEOREM TalksToTarget == Spec => []ApiServesTarget
<1>1. IInv => ApiServesTarget
  BY DEF IInv, StatusInv, ApiServesTarget
<1>. QED
  BY <1>1, Invariance, PTL

(* A status that is ready and authenticated is of the router and revision   *)
(* now configured, whose data the database has; while the collector waits   *)
(* for the next poll it is both (supervisor.py:80-97, 147-159, 212-232).    *)
THEOREM ReadyIsTrue == Spec => []ReadyIsCurrent
<1>1. IInv => ReadyIsCurrent
  BY DEF IInv, StatusInv, Runs, ReadyIsCurrent
<1>. QED
  BY <1>1, Invariance, PTL

(* The collector ends up with the settings of the last PATCH, however many  *)
(* overlap (main.py:1034-1040, supervisor.py:80-97).                        *)
THEOREM LastPatchWins == Spec => []LastConfigWins
<1>1. IInv => LastConfigWins
  BY DEF IInv, ConfigInv
<1>. QED
  BY <1>1, Invariance, PTL

(* A thread that nobody awaits is one of a cancelled task, and the loop     *)
(* never starts a second one beside it (main.py:235-236).                   *)
THEOREM NoStrayThread == Spec => []ThreadsAreAwaited
<1>1. IInv => ThreadsAreAwaited
  BY DEF IInv, WorkersOfTasks
<1>. QED
  BY <1>1, Invariance, PTL

(* After shutdown nothing polls and the status says so                      *)
(* (supervisor.py:67-71).                                                   *)
THEOREM ShutdownIsQuiet == Spec => []QuietWhenStopped
<1>1. IInv => QuietWhenStopped
  BY DEF IInv
<1>. QED
  BY <1>1, Invariance, PTL
=============================================================================
