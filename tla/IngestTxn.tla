----------------------------- MODULE IngestTxn -----------------------------
(***************************************************************************)
(* process_snapshot statement by statement: the transactions of the worker *)
(* threads on SQLite, through a session that does not flush by itself.     *)
(*                                                                         *)
(* A SELECT sees what is committed when it runs, for Python's sqlite3      *)
(* begins a transaction only at the first write.  The first write is the   *)
(* flush that a new session needs, or else the commit; it takes the write  *)
(* lock, which the thread keeps until it commits or rolls back.  A commit  *)
(* writes the columns that differ from what was read and no others.        *)
(*                                                                         *)
(* handle_snapshot awaits its thread, so two threads are at work only when *)
(* a reconfiguration has cancelled the await of one (module Supervisor).   *)
(* A snapshot lists a client once; segments, events, nodes and the cleanup *)
(* are left to module Presence.                                            *)
(***************************************************************************)
EXTENDS Ingest

CONSTANTS
    Threads,  \* the worker threads that run at a time
    None

ASSUME NoneAssumption == None \notin Threads \cup Macs

VARIABLES
    clock,     \* when the last snapshot was collected
    txn,       \* every thread's transaction
    lock,      \* the thread that has the write lock of the database
    shared,    \* history: the threads whose transaction has run beside another
    busy,      \* history: since when threads have been at work without a break
    disturbed  \* history: they once were for longer than the confirmation time
               \* or more than two, or have left a client two open sessions

vars == <<clients, clock, txn, lock, shared, busy, disturbed>>

-----------------------------------------------------------------------------
Places == {"idle", "devices", "session", "flush", "absent", "commit"}

Idle == [at |-> "idle", when |-> 0, macs |-> {}, complete |-> FALSE,
         todo |-> {}, cur |-> None, loaded |-> [m \in Macs |-> Unknown],
         opens |-> {}, gone |-> {}, ended |-> [m \in Macs |-> {}]]

(* loaded: the device rows as read; opens: the clients given a session;     *)
(* gone: the clients found absent; ended: the sessions to close.            *)
Transactions ==
    [at : Places, when : Nat, macs : SUBSET Macs, complete : BOOLEAN,
     todo : SUBSET Macs, cur : Macs \cup {None}, loaded : [Macs -> Row],
     opens : SUBSET Macs, gone : SUBSET Macs,
     ended : [Macs -> SUBSET [id : Nat, open : BOOLEAN]]]

Set(t, x) == txn' = [txn EXCEPT ![t] = x]

Active == {t \in Threads : txn[t].at # "idle"}

MayWriteUnlocked(t) == TRUE

(* The write lock is free, or the thread's own. *)
MayWrite(t) == lock \in {None, t}

(* A device the thread would insert has been inserted by another. *)
Conflict(x) ==
    \E m \in x.macs \ x.todo : ~x.loaded[m].known /\ clients[m].known

(* collect_once: a snapshot of now, handed to a thread. *)
Begin(t, at, macs, complete) ==
    /\ txn[t].at = "idle"
    /\ at > clock
    /\ clock' = at
    /\ Set(t, [Idle EXCEPT !.at = "devices", !.when = at, !.macs = macs,
                           !.complete = complete, !.todo = macs])
    /\ shared' = IF Active = {} THEN shared \ {t} ELSE shared \cup Active \cup {t}
    /\ busy' = IF Active = {} THEN at ELSE busy
    /\ disturbed' = (disturbed \/ at > busy' + Confirmation \/ \E u, v \in Active : u # v)
    /\ UNCHANGED <<clients, lock>>

(* db.get(Device, item.mac), for the next client of the list. *)
ReadDevice(t, m) ==
    LET x == txn[t] IN
    /\ x.at = "devices"
    /\ m \in x.todo
    /\ Set(t, [x EXCEPT !.at = "session", !.cur = m, !.todo = @ \ {m},
                        !.loaded[m] = clients[m]])
    /\ UNCHANGED <<clients, clock, lock, shared, busy, disturbed>>

(* Mutants, here and below: a definition as a plausible bug would write it. *)
OpensAlways(c) == TRUE

(* active_session finds none. *)
Opens(c) == OpenIn(c) = {}

ReadSession(t) ==
    LET x == txn[t] IN
    /\ x.at = "session"
    /\ Set(t, [x EXCEPT !.at = IF Opens(clients[x.cur]) THEN "flush" ELSE "devices"])
    /\ UNCHANGED <<clients, clock, lock, shared, busy, disturbed>>

(* db.flush() after db.add(session): the transaction begins to write. *)
Flush(t) ==
    LET x == txn[t] IN
    /\ x.at = "flush"
    /\ MayWrite(t)
    /\ ~Conflict(x)
    /\ lock' = t
    /\ Set(t, [x EXCEPT !.at = "devices", !.opens = @ \cup {x.cur}])
    /\ UNCHANGED <<clients, clock, shared, busy, disturbed>>

AbsentUnconfirmed(x) ==
    IF x.complete THEN {m \in Macs \ x.macs : clients[m].online} ELSE {}

(* The devices online in the database that the snapshot does not list. *)
AbsentDevices(x) ==
    IF x.complete
    THEN {m \in Macs \ x.macs : clients[m].online /\ x.when > clients[m].seen + Confirmation}
    ELSE {}

ReadAbsent(t) ==
    LET x == txn[t]  absent == AbsentDevices(x) IN
    /\ x.at = "devices"
    /\ x.todo = {}
    /\ Set(t, [x EXCEPT !.at = "absent", !.gone = absent, !.todo = absent])
    /\ UNCHANGED <<clients, clock, lock, shared, busy, disturbed>>

(* active_session(db, device.mac), for the next of them. *)
ReadEnding(t, m) ==
    LET x == txn[t] IN
    /\ x.at = "absent"
    /\ m \in x.todo
    /\ Set(t, [x EXCEPT !.todo = @ \ {m}, !.ended[m] = LatestOpen(clients[m])])
    /\ UNCHANGED <<clients, clock, lock, shared, busy, disturbed>>

AllRead(t) ==
    /\ txn[t].at = "absent"
    /\ txn[t].todo = {}
    /\ Set(t, [txn[t] EXCEPT !.at = "commit"])
    /\ UNCHANGED <<clients, clock, lock, shared, busy, disturbed>>

WrittenOnlineAlways(c, x, m) == TRUE

(* The ORM writes is_online where it differs from what was loaded. *)
WrittenOnline(c, x, m) == x.loaded[m].known /\ x.loaded[m].online => c.online

(* What a client's rows are after the transaction has written its changes, *)
(* of a client that it lists and of one that it sets offline.              *)
WrittenListed(c, x, m) ==
    [IF m \in x.opens THEN WithSession(c) ELSE c
       EXCEPT !.known = TRUE, !.online = WrittenOnline(c, x, m), !.seen = x.when]

WrittenGone(c, ended) == [c EXCEPT !.online = FALSE, !.sessions = Closed(@, ended)]

Written(c, x, m) ==
    IF m \in x.macs THEN WrittenListed(c, x, m)
    ELSE IF m \in x.gone THEN WrittenGone(c, x.ended[m])
    ELSE c

Commit(t) ==
    LET x == txn[t] IN
    /\ x.at = "commit"
    /\ MayWrite(t)
    /\ ~Conflict(x)
    /\ clients' = [m \in Macs |-> Written(clients[m], x, m)]
    /\ disturbed' = (disturbed \/ \E m \in Macs : \E r, s \in OpenIn(clients'[m]) : r # s)
    /\ lock' = None
    /\ Set(t, Idle)
    /\ UNCHANGED <<clock, shared, busy>>

(* A statement raises: a conflict, a wait for the lock of more than 15 s,   *)
(* a disk error.  The transaction is rolled back.                           *)
Abort(t) ==
    /\ txn[t].at # "idle"
    /\ Set(t, Idle)
    /\ lock' = IF lock = t THEN None ELSE lock
    /\ UNCHANGED <<clients, clock, shared, busy, disturbed>>

(* The process ends; the next one finds what was committed. *)
Kill ==
    /\ txn' = [t \in Threads |-> Idle]
    /\ lock' = None
    /\ UNCHANGED <<clients, clock, shared, busy, disturbed>>

TxnInit ==
    /\ Init
    /\ clock = 0
    /\ txn = [t \in Threads |-> Idle]
    /\ lock = None
    /\ shared = {}
    /\ busy = 0 /\ disturbed = FALSE

Step(t) ==
    \/ \E at \in Instants, macs \in SUBSET Macs, complete \in BOOLEAN :
          Begin(t, at, macs, complete)
    \/ \E m \in Macs : ReadDevice(t, m)
    \/ ReadSession(t)
    \/ Flush(t)
    \/ ReadAbsent(t)
    \/ \E m \in Macs : ReadEnding(t, m)
    \/ AllRead(t)
    \/ Commit(t)
    \/ Abort(t)

TxnNext == (\E t \in Threads : Step(t)) \/ Kill

TxnSpec == TxnInit /\ [][TxnNext]_vars

-----------------------------------------------------------------------------
(* Properties *)

(* Type correctness; whoever has the write lock is in a transaction, and a  *)
(* transaction that has flushed a session has the lock.                     *)
TypeOK ==
    /\ clients \in [Macs -> Row]
    /\ clock \in Nat
    /\ txn \in [Threads -> Transactions]
    /\ lock \in Threads \cup {None}
    /\ shared \subseteq Threads /\ busy \in Nat /\ disturbed \in BOOLEAN
    /\ lock # None => txn[lock].at \in {"devices", "session", "flush", "absent", "commit"}
    /\ \A t \in Threads : txn[t].opens # {} => lock = t

(* A thread that runs alone, whatever has been aborted or killed before, and *)
(* in whatever state overlapping threads have left the rows, does with its   *)
(* statements together what Ingest does in one step: every read, the flush   *)
(* between two reads, and the columns left unwritten (service.py:153-427).   *)
Atomic == Init /\ [][Active \cap shared = {} => Next]_clients

(* When two threads overlap, each reading before the other writes, the first *)
(* damage is a second open session, never a missing one: until then a client *)
(* shown online has an open session (service.py:187-283, 372-399).  Beyond   *)
(* that, when they overlap for longer than the confirmation time, or when    *)
(* there is a third, a thread may find a session that another then closes,   *)
(* and set the client online without one; the next snapshot that lists it    *)
(* opens one (Atomic).                                                       *)
OnlineHasSession ==
    ~disturbed => \A m \in Macs : clients[m].online => OpenIn(clients[m]) # {}

(* tests/test_regressions.py:178-183: of a client seen twice there is one    *)
(* open session, whatever thread stored which snapshot.                      *)
SingleSession == \A m \in Macs : \A r, s \in OpenIn(clients[m]) : r = s
=============================================================================
