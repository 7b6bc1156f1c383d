----------------------------- MODULE Supervisor -----------------------------
(***************************************************************************)
(* The collector's life cycle: backend/collector/supervisor.py, with the   *)
(* two callers it has in main.py (patch_config and lifespan) and the       *)
(* on_snapshot handler it awaits (handle_snapshot).                        *)
(*                                                                         *)
(* The event loop runs one coroutine at a time, so an action is what runs  *)
(* between two awaits that may suspend.  The exception is the worker       *)
(* thread of asyncio.to_thread: cancelling the task that awaits it does    *)
(* not stop it.  A task is named by the call that created it.              *)
(*                                                                         *)
(* Abstracted: what a snapshot holds (module Presence), the login inside a *)
(* fetch (module EwebClient), the snapshot ids (_session_id, _sequence),   *)
(* which requests are accepted and saved (module Config), and the wording  *)
(* of errors.  A router target is a host with its password and poll        *)
(* interval.                                                               *)
(***************************************************************************)
EXTENDS Integers, Sequences, FiniteSets

CONSTANTS
    Targets,    \* the routers that can be configured
    Patches,    \* the PATCH /api/config requests that change the router
    Startup,    \* the start-up half of lifespan
    Shutdown,   \* the shut-down half of lifespan
    None,       \* Python's None
    FirstDelay, \* the wait after a failure, in seconds: 3
    MaxDelay    \* what doubling it leads to at most: 60

ASSUME CallerAssumption ==
    /\ Startup \notin Patches
    /\ Shutdown \notin Patches \cup {Startup}
    /\ None \notin Patches \cup Targets \cup {Startup, Shutdown}
    /\ None \notin Nat

ASSUME DelayAssumption ==
    /\ FirstDelay \in Nat \ {0}
    /\ MaxDelay \in Nat
    /\ FirstDelay <= MaxDelay

Callers == Patches \cup {Shutdown}

Tasks == Patches \cup {Startup}

VARIABLES
    phase,      \* of lifespan: starting, serving or stopped
    settings,   \* settings.router_host and its password, as PATCH assigns them
    calls,      \* what each caller asks and how far it has come
    queue,      \* _lifecycle_lock: its holder, then its waiters
    tasks,      \* every task created, and where it is suspended
    task,       \* _task
    stop,       \* _stop.is_set()
    target,     \* host, password and poll_interval of the collector
    api,        \* _api: the target it was built for
    runtime,    \* RouterRuntimeState
    workers,    \* the process_snapshot threads running
    committed,  \* the targets the database holds a snapshot of
    calm        \* the environment fails nothing at present

vars == <<phase, settings, calls, queue, tasks, task, stop, target, api,
          runtime, workers, committed, calm>>

taskVars == <<tasks, task, stop, target, api, runtime, workers, committed>>

-----------------------------------------------------------------------------
Places == {"absent", "begin", "fetching", "handling", "broadcasting",
           "polling", "closing", "backoff", "done"}

States == {"not_configured", "stopped", "starting", "ready", "stale", "auth_failed"}

CallRows == [at : {"idle", "queued", "stopping", "closing", "done"},
             wants : Targets \cup {None}, revision : Nat]

TaskRows == [at : Places, cancelled : BOOLEAN, delay : Nat]

RuntimeRows == [state : States, authenticated : BOOLEAN, configured : Nat,
                active : Nat \cup {None}, host : Targets]

Live(g) == tasks[g].at \notin {"absent", "done"}

(* The task runs on: it is suspended at place and nobody has cancelled it. *)
Runs(g, place) == tasks[g].at = place /\ ~tasks[g].cancelled

Goto(g, place) == tasks' = [tasks EXCEPT ![g].at = place]

Holds(k) == queue # <<>> /\ Head(queue) = k

NewTask(g) ==
    /\ tasks' = [tasks EXCEPT ![g] = [at |-> "begin", cancelled |-> FALSE,
                                      delay |-> FirstDelay]]
    /\ task' = g

(* A coroutine that has ended keeps no locals. *)
End(g) == tasks' = [tasks EXCEPT ![g] = [at |-> "done", cancelled |-> FALSE, delay |-> 0]]

-----------------------------------------------------------------------------
(* _run: one iteration is begin, fetching, handling, broadcasting, polling; *)
(* a failure leads through closing and backoff to the next.                 *)

Fail(g, state) ==
    /\ runtime' = [runtime EXCEPT !.state = state, !.authenticated = FALSE]
    /\ Goto(g, "closing")

(* The loop's head, up to the requests of collect_once. *)
Begin(g) ==
    /\ Runs(g, "begin")
    /\ IF stop
       THEN End(g) /\ UNCHANGED <<runtime, api>>
       ELSE /\ Goto(g, "fetching")
            /\ runtime' = [runtime EXCEPT !.state = "starting"]
            /\ api' = IF api = None THEN target ELSE api
    /\ UNCHANGED <<phase, settings, calls, queue, task, stop, target, workers,
                   committed, calm>>

AfterFetchUnawaited == "broadcasting"

(* on_snapshot is awaited, and first its worker thread. *)
AfterFetch == "handling"

(* The answers are parsed, _mark_authenticated, and the snapshot goes to a  *)
(* worker thread.                                                           *)
Fetched(g) ==
    /\ Runs(g, "fetching")
    /\ Goto(g, AfterFetch)
    /\ runtime' = [runtime EXCEPT !.authenticated = TRUE]
    /\ workers' = workers \cup {[task |-> g, from |-> api]}
    /\ UNCHANGED <<phase, settings, calls, queue, task, stop, target, api,
                   committed, calm>>

FetchFailed(g) ==
    /\ Runs(g, "fetching")
    /\ ~calm
    /\ \E state \in {"stale", "auth_failed"} : Fail(g, state)
    /\ UNCHANGED <<phase, settings, calls, queue, task, stop, target, api,
                   workers, committed, calm>>

(* A thread commits; the task that awaits it goes on to the broadcast, and *)
(* nobody waits for the thread of a cancelled task.                        *)
Commit(w) ==
    /\ w \in workers
    /\ workers' = workers \ {w}
    /\ committed' = committed \cup {w.from}
    /\ IF Runs(w.task, "handling")
       THEN Goto(w.task, "broadcasting")
       ELSE UNCHANGED tasks
    /\ UNCHANGED <<phase, settings, calls, queue, task, stop, target, api,
                   runtime, calm>>

(* A thread raises, and its transaction is rolled back. *)
CommitFailed(w) ==
    /\ w \in workers
    /\ ~calm
    /\ workers' = workers \ {w}
    /\ IF Runs(w.task, "handling")
       THEN Fail(w.task, "stale")
       ELSE UNCHANGED <<tasks, runtime>>
    /\ UNCHANGED <<phase, settings, calls, queue, task, stop, target, api,
                   committed, calm>>

(* handle_snapshot returns: _mark_success. *)
Broadcast(g) ==
    /\ Runs(g, "broadcasting")
    /\ runtime' = [runtime EXCEPT !.state = "ready", !.active = runtime.configured,
                                  !.host = target]
    /\ tasks' = [tasks EXCEPT ![g].at = "polling", ![g].delay = FirstDelay]
    /\ UNCHANGED <<phase, settings, calls, queue, task, stop, target, api,
                   workers, committed, calm>>

(* The broadcast raises after the commit: a query, or the set of sockets    *)
(* changing while it is iterated.                                           *)
BroadcastFailed(g) ==
    /\ Runs(g, "broadcasting")
    /\ ~calm
    /\ Fail(g, "stale")
    /\ UNCHANGED <<phase, settings, calls, queue, task, stop, target, api,
                   workers, committed, calm>>

(* _wait_for_next_poll times out. *)
PollDue(g) ==
    /\ Runs(g, "polling")
    /\ Goto(g, "begin")
    /\ UNCHANGED <<phase, settings, calls, queue, task, stop, target, api,
                   runtime, workers, committed, calm>>

(* _reset_api in the handler of a failure. *)
ApiClosed(g) ==
    /\ Runs(g, "closing")
    /\ Goto(g, "backoff")
    /\ api' = None
    /\ UNCHANGED <<phase, settings, calls, queue, task, stop, target, runtime,
                   workers, committed, calm>>

NextDelayUncapped(delay) == 2 * delay

NextDelay(delay) == IF 2 * delay <= MaxDelay THEN 2 * delay ELSE MaxDelay

BackoffForever(g) == FALSE /\ UNCHANGED vars

(* The wait for the stop event times out. *)
BackoffOver(g) ==
    /\ Runs(g, "backoff")
    /\ tasks' = [tasks EXCEPT ![g].at = "begin", ![g].delay = NextDelay(@)]
    /\ UNCHANGED <<phase, settings, calls, queue, task, stop, target, api,
                   runtime, workers, committed, calm>>

(* CancelledError is raised where the task is suspended; no await of _run   *)
(* is shielded and no handler keeps it.                                     *)
Cancelled(g) ==
    /\ Live(g)
    /\ tasks[g].cancelled
    /\ End(g)
    /\ UNCHANGED <<phase, settings, calls, queue, task, stop, target, api,
                   runtime, workers, committed, calm>>

-----------------------------------------------------------------------------
(* The callers *)

(* lifespan: start() if there is a password and a database, else nothing. *)
Start ==
    /\ phase = "starting"
    /\ phase' = "serving"
    /\ \/ NewTask(Startup)
       \/ UNCHANGED <<tasks, task>>
    /\ UNCHANGED <<settings, calls, queue, stop, target, api, runtime, workers,
                   committed, calm>>

RequestOfOldSettings(t) ==
    [at |-> "queued", wants |-> settings, revision |-> runtime.configured + 1]

(* The arguments reconfigure is called with, and the call waiting. *)
Request(t) == [at |-> "queued", wants |-> t, revision |-> runtime.configured + 1]

(* patch_config from the assignment of settings to the wait for the lock. *)
Patch(p, t) ==
    /\ phase = "serving"
    /\ calls[p].at = "idle"
    /\ settings' = t
    /\ calls' = [calls EXCEPT ![p] = Request(t)]
    /\ queue' = Append(queue, p)
    /\ UNCHANGED <<phase, tasks, task, stop, target, api, runtime, workers,
                   committed, calm>>

(* The server waits for its requests to be answered, then shuts down. *)
BeginShutdown ==
    /\ phase = "serving"
    /\ \A p \in Patches : calls[p].at \in {"idle", "done"}
    /\ phase' = "stopped"
    /\ calls' = [calls EXCEPT ![Shutdown].at = "queued"]
    /\ queue' = Append(queue, Shutdown)
    /\ UNCHANGED <<settings, tasks, task, stop, target, api, runtime, workers,
                   committed, calm>>

(* Task.cancel() *)
CancelTask(g) == [tasks EXCEPT ![g].cancelled = Live(g)]

(* _stop_task up to the await of the task, by the holder of the lock. *)
StopTask(k) ==
    /\ Holds(k)
    /\ calls[k].at = "queued"
    /\ calls' = [calls EXCEPT ![k].at = "stopping"]
    /\ stop' = TRUE
    /\ tasks' = IF task = None THEN tasks ELSE CancelTask(task)
    /\ UNCHANGED <<phase, settings, queue, task, target, api, runtime, workers,
                   committed, calm>>

StoppedUnawaited == TRUE

StoppedIfAny == task # None /\ ~Live(task)

(* What await self._task waits for. *)
TaskStopped == task # None => ~Live(task)

(* _stop_task from there to the await of api.close(). *)
TaskEnded(k) ==
    /\ Holds(k)
    /\ calls[k].at = "stopping"
    /\ TaskStopped
    /\ calls' = [calls EXCEPT ![k].at = "closing"]
    /\ task' = None
    /\ UNCHANGED <<phase, settings, queue, tasks, stop, target, api, runtime,
                   workers, committed, calm>>

KeepApi == api

(* What _reset_api leaves in _api. *)
ResetApi == None

(* The rest of reconfigure, to the release of the lock. *)
Reconfigured(p) ==
    /\ Holds(p)
    /\ calls[p].at = "closing"
    /\ calls' = [calls EXCEPT ![p].at = "done"]
    /\ queue' = Tail(queue)
    /\ api' = ResetApi
    /\ target' = calls[p].wants
    /\ runtime' = [runtime EXCEPT !.authenticated = FALSE,
                                  !.configured = calls[p].revision]
    /\ stop' = FALSE
    /\ NewTask(p)
    /\ UNCHANGED <<phase, settings, workers, committed, calm>>

(* The rest of stop. *)
Stopped ==
    /\ Holds(Shutdown)
    /\ calls[Shutdown].at = "closing"
    /\ calls' = [calls EXCEPT ![Shutdown].at = "done"]
    /\ queue' = Tail(queue)
    /\ api' = ResetApi
    /\ runtime' = [runtime EXCEPT !.authenticated = FALSE, !.state = "stopped"]
    /\ UNCHANGED <<phase, settings, tasks, task, stop, target, workers, committed,
                   calm>>

(* The router, the database or a socket begins or ceases to fail. *)
Weather ==
    /\ calm' = ~calm
    /\ UNCHANGED <<phase, settings, calls, queue, taskVars>>

Init ==
    /\ phase = "starting"
    /\ target \in Targets
    /\ settings = target
    /\ calls = [k \in Callers |-> [at |-> "idle", wants |-> None, revision |-> 0]]
    /\ queue = <<>>
    /\ tasks = [g \in Tasks |-> [at |-> "absent", cancelled |-> FALSE, delay |-> 0]]
    /\ task = None
    /\ stop = FALSE
    /\ api = None
    /\ runtime = [state |-> "not_configured", authenticated |-> FALSE, configured |-> 0,
                  active |-> None, host |-> target]
    /\ workers = {}
    /\ committed = {}
    /\ calm \in BOOLEAN

TaskStep(g) ==
    \/ Begin(g) \/ Fetched(g) \/ FetchFailed(g)
    \/ Broadcast(g) \/ BroadcastFailed(g) \/ PollDue(g)
    \/ ApiClosed(g) \/ BackoffOver(g) \/ Cancelled(g)

WorkerStep(w) == Commit(w) \/ CommitFailed(w)

LockStep(k) ==
    \/ StopTask(k)
    \/ TaskEnded(k)
    \/ k \in Patches /\ Reconfigured(k)
    \/ k = Shutdown /\ Stopped

Next ==
    \/ Start
    \/ \E p \in Patches, t \in Targets : Patch(p, t)
    \/ BeginShutdown
    \/ \E k \in Callers : LockStep(k)
    \/ \E g \in Tasks : TaskStep(g)
    \/ \E w \in workers : WorkerStep(w)
    \/ Weather

Spec == Init /\ [][Next]_vars

(* The loop runs what is ready, requests and threads end (the HTTP client   *)
(* times out after 8 s, a busy database after 15 s), waits time out.        *)
Fairness ==
    /\ \A g \in Tasks : WF_vars(TaskStep(g))
    /\ \A k \in Callers : WF_vars(LockStep(k))
    /\ WF_vars(\E w \in workers : WorkerStep(w))

FairSpec == Spec /\ Fairness

-----------------------------------------------------------------------------
(* Properties *)

(* Type correctness; the wait of a live task stays within its bounds. *)
TypeOK ==
    /\ phase \in {"starting", "serving", "stopped"}
    /\ settings \in Targets /\ target \in Targets /\ api \in Targets \cup {None}
    /\ calls \in [Callers -> CallRows]
    /\ queue \in Seq(Callers)
    /\ tasks \in [Tasks -> TaskRows]
    /\ \A g \in Tasks : Live(g) => tasks[g].delay \in FirstDelay..MaxDelay
    /\ task \in Tasks \cup {None}
    /\ stop \in BOOLEAN /\ calm \in BOOLEAN
    /\ runtime \in RuntimeRows
    /\ workers \subseteq [task : Tasks, from : Targets]
    /\ committed \subseteq Targets

(* However calls are interleaved, one collector task is alive at most, the   *)
(* one _task refers to (supervisor.py:60-97, 197-206).                       *)
OneCollector == \A g \in Tasks : Live(g) => g = task

(* No task ever talks to a router the collector was configured away from,    *)
(* and authenticated is never shown without a connection                     *)
(* (supervisor.py:181-206).                                                  *)
ApiServesTarget ==
    /\ api \in {None, target}
    /\ runtime.authenticated => api # None
    /\ \A g \in Tasks : tasks[g].at \in {"fetching", "handling", "broadcasting"} => api = target

(* A status that is ready and authenticated is, whenever it is served, of    *)
(* the router and the revision now configured, and the database has data of *)
(* that router; it is both while the collector waits for the next poll.      *)
(* Ready alone is not enough: between a reconfiguration and the new task's   *)
(* first step the state is still that of the old router                      *)
(* (supervisor.py:80-97, 147-159, 189-206, 212-232).                         *)
ReadyIsCurrent ==
    /\ runtime.state = "ready" /\ runtime.authenticated =>
          /\ runtime.active = runtime.configured
          /\ api = target /\ runtime.host = target /\ target \in committed
    /\ \A g \in Tasks : Runs(g, "polling") =>
          runtime.state = "ready" /\ runtime.authenticated

(* When all requests are answered the collector runs with the settings in    *)
(* memory: the last PATCH to assign them is the last to get the lock         *)
(* (main.py:1034-1040, supervisor.py:80-97).                                 *)
LastConfigWins ==
    phase = "serving" /\ queue = <<>> /\ (\E p \in Patches : calls[p].at = "done")
        => target = settings /\ task # None /\ Live(task)

(* Only a cancelled task leaves a thread behind that nobody waits for; the   *)
(* loop never starts a second one beside it (supervisor.py:148-159,          *)
(* main.py:235-236).                                                         *)
ThreadsAreAwaited ==
    \A w \in workers :
        Live(w.task) /\ ~tasks[w.task].cancelled => tasks[w.task].at = "handling"

(* After shutdown nothing polls and the status says so (supervisor.py:67-71). *)
QuietWhenStopped ==
    calls[Shutdown].at = "done" =>
        /\ \A g \in Tasks : ~Live(g)
        /\ api = None /\ ~runtime.authenticated /\ runtime.state = "stopped"

(* No deadlock on the life-cycle lock: every reconfiguration and the         *)
(* shutdown get it and finish (supervisor.py:67-97, 197-206).                *)
CallsReturn ==
    \A k \in Callers : (calls[k].at = "queued") ~> (calls[k].at = "done")

(* A collector that is started recovers from any past failure and polls on:  *)
(* once nothing fails any more, iterations begin and succeed again and again *)
(* (supervisor.py:147-170).                                                  *)
Recovers ==
    <>[](calm /\ phase = "serving" /\ task # None)
        => []<>(runtime.state = "starting") /\ []<>(runtime.state = "ready")
=============================================================================
