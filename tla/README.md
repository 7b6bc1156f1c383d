# A formal model of ruijie-router-monitor

TLA+ specifications of the program in `src/`, model-checked with TLC, with
theorems checked by TLAPS. The program polls a Ruijie router for its topology and
its clients, keeps the history of every client in a database (SQLite by default,
PostgreSQL if configured), and shows it on a web page whose API also configures it.

Paths below are relative to `src/backend/` unless they say otherwise.

## 1. Inventory

| Part | Source | State | Operations |
|---|---|---|---|
| Ingestion and history | `service.py`, `db/models.py` | tables of nodes, devices, sessions, roaming segments, events, samples, processed snapshots; the time of the last cleanup | `process_snapshot`, `cleanup_expired_history`, `purge_stale_clients` |
| Collector | `collector/supervisor.py` | task, stop event, life-cycle lock, API client, runtime status, snapshot sequence | `start`, `stop`, `reconfigure`, `_run`, `collect_once`, `discover` |
| Router API client | `collector/eweb_api.py`, `collector/crypto.py` | HTTP client, session with the router | `login`, `fetch_snapshot_payloads`, `close` |
| Parsers | `collector/parsers.py` | none | `parse_topology`, `parse_clients` |
| Configuration | `config.py`, `main.py` | settings in memory, `config.env`, probe tokens | `load`, `save`, discover, PATCH and POST `/api/config`, database test, restart |
| Administrator sessions | `auth.py` | control database: credential, sessions; failed logins in memory | setup, login, logout, change of password, look-up, reset by the command line |
| Database runtime | `db/runtime.py` | engine, session factory, status | `initialize`, `verify_candidate`, column upgrades |
| WebSocket broadcast | `main.py` | set of connections | connect, disconnect, broadcast |
| Analytics | `analytics/` | none | journey timeline, traffic series |
| API of clients and nodes | `main.py` | none of its own | lists, details, star, alias |
| Notifications | `notifier.py` | none | `send_telegram` |
| Command line | `cli.py` | none | reset of the password, migration of a database |
| Frontend | `src/frontend/index.html` | page state | calls the API |

### How they interact

The event loop runs one collector task. An iteration fetches two payloads through
the API client (concurrently), parses them into a snapshot, and awaits
`handle_snapshot`, which runs `process_snapshot` in a **worker thread**
(`asyncio.to_thread`), starts the notifications, and broadcasts the new lists to
the WebSocket connections. Request handlers share the loop (`async def`) or run in
threads (`def`); a PATCH that changes the router saves the file, assigns the
settings, and awaits `reconfigure`, which cancels the task and creates another under
the life-cycle lock. `lifespan` starts and stops the collector.

### What is hard

* *Concurrency.* Cancelling a task does not stop the thread it awaits, so two
  transactions may overlap; concurrent PATCH requests queue for the lock with
  settings they have both assigned; a broadcast awaits while connections come and go.
* *Failure.* A snapshot is one transaction that may be aborted or killed at any
  statement; a save is a temporary file and a rename; the loop backs off and must recover.
* *Ordering.* Snapshots may be stored late or after the clock stepped back;
  in a session without autoflush a query does not see the rows just changed.
* *Boundaries.* Offline is *more than* 60 s unseen, and ends the session 60 s after
  the last observation, not at the snapshot; retention is by star and by age; empty
  and partial answers must not be taken for absence.
* *Rows read in one statement and written in a later one.* A login verifies a slow hash
  while the password changes; a look-up reads the session and the administrator apart.
* *Stale data.* A probe token, an API client, or an expired session used after what
  it was made for has changed.

`PROJECT.json` lists every such hazard at its line, with the properties that cover it.

### What makes each part correct

* History: a client is online exactly when it has one open session with one open
  segment; the segments tile the session; sessions of a client are disjoint; events
  alternate; nothing is deleted early or in part.
* Transactions: the statements together have the effect of one step, or none.
* Collector: one live task; its API client is that of the configured router; "ready"
  is true; the last configuration wins; every reconfiguration returns; failures pass.
* API client: both payloads from one session; one expiry survived; every fetch ends.
* Configuration: only a tested router is polled; a kill leaves a whole file, and a start
  finds the settings that were in force.
* Administrator sessions: a session is had for the current password only, and a changed
  password ends all older sessions, however requests overlap.
* Broadcast: the server forgets no open page; one that stays connected comes to show the
  last snapshot.
* Journey: the items of the timeline tile its window and say what was observed.
* Traffic: no byte is counted twice; no observed interval lacks its sample; the coverage
  of the curve says what its samples say.

## 2. Modules

| Module | Models | Used by |
|---|---|---|
| `Presence` | `process_snapshot` as one action, cleanup and purge, star, alias, restart | `MCPresence`, `Presence_proofs`, `Journey` |
| `Journey` | the timeline of `analytics/journey.py` over `Presence`'s rows | `MCJourney`, `Presence_proofs` |
| `Traffic` | a client's counter, its rate, session bytes and samples, the curve | `MCTraffic`, `Traffic_proofs` |
| `Ingest` | the promise of storing a snapshot: one step (abstract specification) | extended by `IngestTxn` |
| `IngestTxn` | the statements of `process_snapshot` on SQLite, per worker thread; implements `Ingest` | `MCIngestTxn`, `IngestTxn_proofs` |
| `Supervisor` | the collector with its lock, tasks and threads, and its callers | `MCSupervisor`, `Supervisor_proofs` |
| `EwebClient` | one fetch of the supervisor in detail | `MCEwebClient`, `EwebClient_proofs` |
| `Broadcast` | connections, `broadcast`, and the pages that connect | `MCBroadcast`, `Broadcast_proofs` |
| `Config` | settings, file, probe tokens | `MCConfig`, `Config_proofs` |
| `AdminAccess` | what password and sessions promise, one operation a step (abstract specification) | instantiated by `Auth` |
| `Auth` | requests that read, verify and write the control database; implements `AdminAccess` | `MCAuth`, `Auth_proofs` |

The modules meet at named steps rather than in one product, which TLC could not
explore. What `Supervisor` calls a fetch that answers or fails is a run of
`EwebClient`; what it calls the commit of a worker is the `Commit` of `IngestTxn`,
which implements the one-step application of a snapshot that `Presence`
elaborates; `Supervisor`'s property `ThreadsAreAwaited` says when `IngestTxn`
has one thread and when it has two, and why `Traffic` and `Journey` may take
snapshots in order; the `Commit` of `Broadcast` is the same commit again, seen from the
pages; a `Patch` of `Supervisor` is one that `Config` has accepted and saved, in a
request that `Auth` has let in. `Journey` is a composition proper: it extends `Presence`
and reads the rows that module writes.

### Presence

State: the tables `nodes`, `clients` (per MAC: device, sessions, segments, events and
the greatest id given), `aliases` and `processed`; `clock`; `lastCleanup`
(`_last_cleanup_monotonic`); `naming`, the alias requests between their read and their
write. `ProcessSnapshot` is the handler as a whole: nodes (service.py:163-185), listed
clients (`Observe`, 187-370), the cleanup if due (`CleanUp`, 73-150), then the rows
of the offline loop (`ConfirmOffline`, 372-413). That order is the code's effect: the
session does not flush by itself (db/runtime.py:57), so the cleanup's statements read
the database as it was before the offline loop, whose rows are written at the commit.
The cleanup is part of the action, never a step of its own. Snapshots are enumerated
as the parsers can yield them: empty or partial lists (`complete` is false), clients
without a parent, a topology that could not be read, `Others` clients besides those
followed. `MaxSkew` lets `collected_at` lie behind the clock, for late threads and
clock steps; properties that need order are guarded by `InOrder`, the others are not.

Not in it: names, addresses and signal, which no decision reads; counters and traffic
samples (`Traffic`); a MAC listed twice in one answer (see the hazards).

### Journey

`Timeline` is `_build_timeline` over the rows of one client. `Loop` is its loop, a recursive
function over the sessions of the window in the order `OrderBy` puts them in (by date; ids
decide between equal dates, which in order there are none of). `OnlineItems` is
`_session_segments` with its clipping to the window and its filter, `Gap` the offline item
between two sessions, the last lines of `Timeline` the two branches at the end of the
function. The variable `observed` records what every stored snapshot said of the client. It
is the independent reference: `TimelineTellsObservations` compares the picture with the
observations themselves and not with the rows.

That property excuses a client shown offline only where the history may have been deleted. How long
ago that is, is the shorter of the two retentions, though a starred client's history is
kept for `RetentionStarred`: the two are configured independently (config.py:111-112,
main.py:329-330), so the starred one may be the shorter, and a star that was on at some
cleanup has then cost the client history that the normal retention keeps. With `RetentionNormal`
alone in its place the property is false where stars are set.

### Traffic

The client's traffic is `bytes`; the router counts from `base`, which a reset moves to the
present. `Observe` is the part of `process_snapshot` about counters (service.py:187-282),
the sample if due (347-370) and the deletion of old samples (79-89), in the order
of the code: the sample added is not yet flushed when the cleanup looks. `Miss` is a
snapshot without the client. `Rows`, `Points`, `Expected` and `Complete` are
`analytics/traffic.py`. Receiving and sending are alike, so there is one counter.

`Coverage` is the percentage as it is shown, rounded to the nearest of `Steps` (1000: tenths
of a percent): at 0.9995 of the samples it is already 100.0. `CurveIsFaithful` therefore allows a
gap to grow with the curve: at full coverage one sample in a row may be missing, and one more for
every `2 * Steps` intervals, which makes six of 7 days at 60 s (`WidestGap`). The two
retentions are set independently (main.py:329-330, config.py:111-112), so neither is assumed to be the
longer, nor even positive: `SamplesKeepUp` claims a sample only while the shorter one keeps it.

### Ingest and IngestTxn

`Ingest` says in one step what a snapshot does to a client's online flag and
sessions. `IngestTxn` has, per thread, the program counter of `process_snapshot` with
what it has read. Reads see what is committed at that moment, because Python's sqlite3
opens a transaction at the first write only; the flush of a new session takes the write
lock; the commit writes the columns that changed. Two threads that insert the same device
conflict. `Abort` is any exception, `Kill` the end of the process. `MayWrite` has no
step for the 15 s wait: waiting is being disabled, giving up is `Abort`. The model is
of SQLite, the default; PostgreSQL would take row locks instead.

`Atomic` says of every commit of a thread that ran alone that it is a step of `Ingest`,
in whatever state earlier overlaps have left the rows. `OnlineHasSession` is stated until
threads have overlapped for longer than the confirmation time, or three at once, or have
made two open sessions (`disturbed`): beyond that a thread can find a session that another
closes, and set the client online without one, until the next snapshot opens one. That a
third thread is enough for it came out of the proof, when the invariant would not be
inductive: one thread ends the session of a client; a second, which has read it as online
before, opens another and leaves the flag alone; a third, which has found the client absent
before, ends that one as well, while the next snapshot has found it open and sets the flag.

### Supervisor

An action is what the loop runs between two awaits. `queue` is `_lifecycle_lock`
(holder first); `tasks` has each task's place and whether it is cancelled; `workers` the
threads still at work; `runtime` the status that is shown. `Weather` turns failures on
and off: `calm` means that nothing fails at present.

### EwebClient

`session` is the client's, `accepted` the one the router would serve; `Expire` may come
at any time. Both commands read the sid before their first suspension, so `Gather` sends
both at once; the first exception leaves `gather` and the other command is no longer
awaited. The new login is in the `except` clause, so neither its exception nor a second
expiry is retried (`LogsInAgain`). `tally` is a history variable for the properties.

### Broadcast

A step of `Sent` or `SendFailed` is what `broadcast` does from one `send_json` to the next:
it takes another member of the set, ends, or meets Python's size check (`SizeChanged`).
Equal numbers of connections come and gone pass that check, and then the set iterated is not
the one the loop began with. CPython's iterator keeps a place in the set's table and no more: an
addition may lay the table out anew, so the loop may then give a member a second time and leave
out another. `left` is therefore what may still be given: without an addition (`moved`) the members not
yet given, and all of the set after one, with an end at any time. A page asks for its state
(`Bootstrap`), takes the answer over when it comes (`Bootstrapped`), opens a socket and reads it.
`calm` starts when pages and network are left alone.

### AdminAccess and Auth

The endpoints are plain functions, so each request is a thread of its own, and
sqlite3 opens its transaction at the first write. `req` holds what a request has read; a
read, the verification of a password (up to a second of Argon2), and the commit are steps of
their own. `login_lock` guards two separate critical sections: the check of the
limit (`LoginCheck`) and the record of the failure (`LoginWrong`). `Rehash` writes the hash
of the password that was given. `former`, `overlapped` and the `password` of a
session are history variables. The refinement maps `live` of `AdminAccess`
to the password every valid session was had for. `AdminAccess` allows, once two changes
have overlapped and only then, that a former password is accepted or becomes
current again: that is what the code does, since nothing makes the second change look again at
the version it has read.

### Config

Every request reads the settings and saves without an await in between, so `job` holds
the request that is saving while `Flush`, `Replace`, `SaveFails` or `Stop` decide its fate. `temp`
is the temporary file, whole once it is synced (config.py:187-191); the update of the file is the
rename (193). POST assigns to the live settings before it saves, PATCH to a copy; both are
modelled so. `tested` and `verified` record what was tried out.

A start is `Settings.load`, and not the inverse of `save`. What the environment sets goes before
the file (`Read`, config.py:69-74), and a container may be started again in another environment
(`Environments`). `_quote_env` escapes backslashes and quotes, while dotenv expands `${...}` in
double quotes: `Expanded` is what becomes of a password, and what the environment gives is not
expanded (`FilePassword`). `int()` raises at anything that is no integer (`Loadable`,
`StartFails`), which PATCH may have saved, since it looks at no value (`Garbage` in `Days`);
integers are clamped (`Clamp`). `ConfigSurvives` names these three as the exceptions
(`GivenBack`), and claims everything else: between any two steps of a save, after failed saves and
kills, the file is whole and gives back the settings that are in force.

The interval of polling meets what the retention does and the other secrets what the router's
password does, so one of each is modelled. A kill is that of the process: after a loss of
power the rename itself may be lost, because the directory is not synced.

## 3. Runs

| Run | Instance | Shows | States |
|---|---|---|---|
| `presence_roaming` | 1 client (1 other), 2 nodes, 5 ticks, confirmation 2, in order, range 3 | the full history of moves, absences and returns: types, tiling, disjoint sessions, events, times, parents, confirmed ends; the timeline drawn from it tiles its window and tells what was observed | 697,000 |
| `presence_retention` | 1 client, star, alias, `MaxSkew` 1, 5 ticks, cleanup every 2, retention 1/3/2 | presence and wholeness in any order of snapshots; nothing deleted early or in part, under any restart | 967,000 |
| `ingest_threads` | 2 threads, 2 clients, 5 instants | a thread alone implements `Ingest`; with overlap a client online still has an open session, while the overlap is short | 2,000,000 |
| `ingest_duplicate` | 2 threads, 1 client | **violated**: two open sessions (finding 3) | |
| `supervisor_lifecycle` | 2 routers, 2 concurrent PATCHes, shutdown | safety of the life cycle, no deadlock on the lock, recovery | 242,000 |
| `eweb_session` | 3 session ids | one session per pair, one expiry survived, termination | 1,414 |
| `broadcast_pages` | 2 pages, 3 sockets, 1 message on the way, 2 snapshots, 1 answer under way | no open page is forgotten; connected pages catch up once connections settle | 853,000 |
| `auth_sessions` | 3 requests, 2 passwords, 2 tokens, limit 2, version 2 | `Auth` implements `AdminAccess`; acceptance is of a live session; the failures are bounded | 1,017,000 |
| `traffic_counters` | 4 bytes, 6 ticks, intervals 2 and 1, retention 5 and 4, two ranges, coverage in halves | bytes counted once, samples that keep up, a faithful curve | 1,280,000 |
| `config_safety` | 2 hosts, 2 passwords, one of which dotenv expands, a retention in range and one that is no integer, 2 environments, sqlite, 1 token | only tested routers are polled; wherever a save is cut short or fails, the file is whole and a start finds the settings in force, with the exceptions named | 853,000 |
| `config_database` | 2 hosts, 2 passwords, 1 server, 1 token | **violated**: a database is saved unverified (finding 1) | |
| `config_router` | same | **violated**: a router is saved untested by POST (finding 2) | |

Every property of a passing run is paired in `PROJECT.json` with a mutant, an operator
that a plausible bug would have put in the place of a definition, under which the same
run finds the property violated.

### Why the bounds are enough

* Clients do not influence each other (every query is by MAC) except through
  `complete`, which depends on how many are listed; hence one client with `Others`,
  and two where clients' ids or the lists matter. The proofs are for any number.
* Five ticks with a confirmation of 2 contain an arrival, a move, an absence that is
  short enough, one that is not, and a return; with retention 1, 2 and 3 they
  contain expiry by age, by star and of the identity, each with a restart before and after.
  `MaxTime` is the only bound on `Presence`. A range of 3 begins before, in and after a
  session.
* Six ticks with intervals 1 and 2 contain a sample of either star, an expired one and a gap
  longer than the interval; four bytes a reset before, at and after the old value. With coverage
  in halves (`Steps` is 2) a curve of three samples out of four is shown as full, with two in a
  row missing. The starred retention is the shorter, against the defaults; the proofs have either.
* Two threads are the overlap of a cancelled task's with its successor's. A third takes a
  second reconfiguration meanwhile: for it `OnlineHasSession` is not claimed, and the proofs of
  `IngestTxn` are for any number. Five instants are what a client that leaves and comes back
  takes. `Instants` bounds `IngestTxn`.
* Two PATCHes are the least that queue behind each other, with the shutdown a third
  waiter. `MaxDelay` is 5 instead of 60: the wait doubles once and is capped, as 60 caps it.
* Three sockets for two pages are a connection lost, its successor and a bystander while a
  broadcast holds on to the first; two snapshots are an old and a new state. One answer to a
  bootstrap is under way at a time (`MaxAnswers`), and one that is late is still late.
* Three requests are a login or a look-up between the read and the write of a change, and
  the request the change was made in; two passwords and two tokens are the old and the new.
  `MaxVersion` bounds the number of changes, the proofs do not.
* A fetch sees two sessions of the router, so three ids tell any two apart (`Sids`).
* One probe token at a time (`TokenIds`), two addresses and two passwords give every way in which
  a token, a request and the settings can disagree. A retention that is no integer, a password
  that dotenv expands and an environment that fixes two settings are the three ways in which a
  file does not give back what was saved. The database is copied as it is by all of this, so
  `config_safety` has sqlite alone, and spends its states on the rest: PostgreSQL, and the POST
  that fails half-way for it, are in `config_database`, `config_router` and the proofs, as are
  integers out of range, which are clamped, in the first two and the proofs.
* The topologies of `Presence`'s runs always hold the gateway; an empty one (hazard at
  service.py:181) is covered by the theorem `ParentsAreKnown` alone.

Symmetry is used for clients, threads, requests, passwords and tokens, in runs without
liveness. Deadlock is checked
in every run.

### Fairness

`Supervisor`: weak fairness of each task's, each lock holder's and the threads' steps.
The event loop runs what is ready in turn; the HTTP client times out after 8 s and a
busy SQLite after 15 s; waits have a timeout; asyncio's lock is first come, first
served (`queue`). Nothing is assumed of the operator, the router's success or the
database's: `Recovers` speaks only of behaviours in which failures stop for good.
`EwebClient`: weak fairness of the fetch as a whole, for the same timeouts; none of
`Start` and `Expire`, and none in favour of success.

`Broadcast`: weak fairness of the collector's next broadcast, of the sends and of a page
that reads what it is sent; none of an answer to a bootstrap, which may never come. A send to a page that
has gone may succeed any number of times; that the server notices a lost peer otherwise
is not assumed. `PagesCatchUp` speaks of behaviours in which connections settle for good.

### Findings

1. A PATCH, which is what the page saves with, saves a database without verifying it,
   though `src/CHANGES.md:116` says that it is verified again (main.py:967).
2. A POST saves a router without a probe token, though `src/CHANGES.md:74` says that
   saved credentials have all been verified (main.py:920).
3. Overlapping transactions can leave a client two open sessions, of which the offline loop
   ends the newer only (service.py:241): the older is still open when the client has left, and
   is taken for the current one at its return. `src/tests/test_regressions.py:178-183` takes it
   for granted that there is one.

Not a disagreement with a text, but worth knowing: a PATCH saves any retention it is given
(main.py:1015-1018). One that is no integer (1.5, null) makes `int()` raise at the next start
and at every one after it (config.py:111-112), until the file is edited by hand. `config_safety`
reaches it (`StartFails`), and `ConfigSurvives` excepts it.

## 4. Proofs

`Presence_proofs` proves, for any clients, nodes, topologies, retention limits, skew
and time bound, from the assumptions of `Presence` on its constants:

* `TypeCorrect`: `Spec => []TypeOK`
* `PresenceIsSound`: `Spec => []PresenceMatchesHistory`
* `HistoryStaysWhole`: `Spec => []HistoryIsWhole`

The inductive invariant `IInv` is `TypeOK` with `ClientInv` of every client, which is
what the three properties say of one client's rows. None of them is inductive alone: the
offline loop closes the segment with the greatest id of the session with the greatest
id, and that it is *the* open one follows only if ids are keys, if nothing is an orphan,
and if there was one open segment before. The argument follows the code: what the queries
return of a client online (`OnlineRows`), of one offline (`OfflineRows`); a listed client
that was offline, stayed or moved (`ObserveNotOnline`, `ObserveInPlace`, `ObserveMoved`);
the offline loop (`ConfirmPreserves`); the cleanup (`ExpirePreserves`, `NoRowsInv`); all of
them in the order of the transaction (`UpdatePreserves`); then one lemma for a snapshot, one for
a star, and `NextIInv`.

The module goes on from there with what relates a client's rows to their past:

* `SessionsFollow`, `TimesAgree`, `LogsTellStatus`, `ParentsAreKnown`: `Spec => []P` for
  `SessionsDisjoint`, `TimestampsAgree`, `EventsTellStatus`, `ParentsKnown`
* `EndsAreConfirmed`, `HistoryStays`, `ForgetsAsAWhole`: `Spec => P` for the action
  properties `EndsOnlyConfirmed`, `HistoryIsKept`, `ForgottenAsAWhole`, from `IInv` alone
* `RoamingIsWhole`: `Spec => []SegmentsTileSessions`
* `TimelinesTile`, `TimelinesTell`: `JourneySpec => []P` for `TimelineTiles`,
  `TimelineTellsObservations`, for any ranges

The invariant `HInv` adds `TimeInv` (sessions of greater ids began after the end of
those of smaller ids, in order only), `LogInv` (of two events the one of the greater id is not
the older) and `NodesInv`. They are needed because the cleanup deletes by date what the code
elsewhere takes by id: only if dates go with ids is what is deleted a beginning of the
log, so that its last event still tells the status, and the session that
`TimestampsAgree` compares with is still the last. `UpdateCases` splits a snapshot into the four
ways it can go for a client (confirmed offline, purged, observed, observed and
cleaned up); each property has one lemma per way. `TInv` adds to it that the segments of every
session are `Tiled`, the first of them unique without counting, and that the open one was entered no
later than the client was last seen; that makes the segment that ends where the next begins
a real one (`EndedTiles`: one more left, none torn).

The timelines are a recursive function of sorted rows. A property of what it returns would be
an induction over data; in its place stands the well-foundedness of the naturals, which needs no
operator: were there a turn after which the line is not as claimed, there would be a first
(`LeastOf`). In the same way `LoopLines` shows that the function exists and `Ranks` that the rows
before a row number from 0 on without a gap, so that `OrderBy` is the rows by date (`InOrderOfDate`,
`OrderOfRows`). `Tiles` says of items that they lead from one instant to
another; put together, two such sequences are one (`TilesJoin`), and `SessionItems`,
`SessionAdded` and `LineTiles` carry that from the segments of a session over the turn of the loop to its
end, together with `Told`: an item online is part of a segment, an item offline meets no
session. What remains is to relate rows and observations. The invariant `JInv` adds to `TInv`,
for a client and what has been observed of it: a segment starts with an observation and no other node was
observed before it ends (`Placed`); an observation lies in a session that lasts for the
confirmation time after it, unless that is deleted, by age or with its device
(`Accounted`). The steps of `JourneySpec` are steps of `Presence` (`JourneySteps`), and each of
its four ways to treat a client has its lemma again (`ObserveObs`, `ConfirmObs`, `ExpireObs`,
`PurgeObs`).

`IngestTxn_proofs` proves, for any number of threads, clients and instants, `TypeCorrect`
(`TxnSpec => []TypeOK`), `SessionKept` (`TxnSpec => []OnlineHasSession`) and the refinement
`TransactionIsAtomic` (`TxnSpec => Atomic`). The statements of a transaction are far from one
step: between two reads and the write another thread may commit. The invariant has a part for each
case. `SoloInv` says of a transaction that runs alone that what it has read is still so, and of any
two at work that both are marked `shared`; from it the commit of one that is not is a step of
`Ingest`. `Undisturbed`, which holds until `disturbed`, says of two that overlap what either has
read and what has become of it (`Own`), and what one has read of the clients the other is about to set
offline (`Beside`): if it believes such a client online it is still so, if not it opens a session of
its own, which the other does not end. With a third thread `Beside` is not inductive, and TLC finds
the client without a session; hence the clause in `disturbed`.

`Supervisor_proofs` proves every safety invariant of `Supervisor`, for any number of
overlapping requests, any targets and any delays: `TypeCorrect`, `NeverTwoCollectors`,
`TalksToTarget`, `ReadyIsTrue`, `LastPatchWins`, `NoStrayThread`, `ShutdownIsQuiet`. The
inductive invariant has the lock's discipline (`LockInv`: the queue holds each caller once, only
its head has got past the lock, and a caller that is closing has left no task), what each phase
of `lifespan` allows (`PhaseInv`), that a cancelled task has a caller waiting for it
(`TaskInv`), at most one thread per task (`WorkersOfTasks`), what connection and status
are worth at every place of the loop (`StatusInv`), and that the last in the queue
carries the settings in memory (`QueueEndsWithSettings`). The last is why the lock has to be
fair: with another order of waiters `LastConfigWins` would not follow. `ReadyIsTrue` is about the
status whenever it is served: ready and authenticated together are of the router configured
now. Ready alone is not: from a reconfiguration to the first step of the new task the state is
still that of the old router.

`Config_proofs` proves `TypeCorrect`, `OnlyTestedRouters`
(`Spec => []ReconfiguresToTested`) and `ConfigurationKept` (`Spec => []ConfigSurvives`). The
invariant of the second adds `TokensTested`: what a token
stands for has been tested. It is needed because the token outlives the discovery, and
the settings it is compared with may have changed in between. That of the third (`SavesInv`) says of a save
under way what it leaves behind if it is cut short: before the rename the settings are still those of
the file, unless a POST has assigned them already (`posted`), and the temporary file is of the
candidate, whole once flushed (`TempIsOfJob`); after it the file is the candidate's. What a start
makes of the file is the settings exactly if `GivenBack` holds of them (`GivenBackIsLoaded`), for any
expansion of passwords and any environments.

`Auth_proofs` proves, for any number of requests, passwords and tokens, `TypeCorrect`,
`AcceptedLive` (`Spec => AcceptedIsLive`), the refinement `AuthImplements`
(`Spec => Access!Spec`), and from it `SessionsAreCurrent`
(`Spec => []Access!OfCurrentPassword`): unless two changes have overlapped, whoever is let
in has given the password that is current. The invariant says of a request that
has read the administrator's row that the password it verified is current as long as the version
is (`SeenIsCurrent`), and of one that has read a session that the row is still that one or gone
(`HeldTokens`). The first is what makes the version of a new session mean
something; the second is why a look-up may write after it has read. `FailuresStayBounded`
(`Spec => []FailuresBounded`) is for finitely many requests (`RequestsAssumption`): a login that
has passed the check is counted in advance, so that only the check itself can raise the
sum, and only below the limit.

`Traffic_proofs` proves `TypeCorrect`, `CountedOnce`, `SamplesAreKept` and `CurveFaithful`
(`Spec => []CurveIsFaithful`), for any intervals, ranges, retention limits and amounts. The invariant's key is `CounterBegan`: the router's counter is the one
of the last observation or began after it, so what it gains is of bytes transferred
since (`DeltaIsOfNewBytes`). `SamplesStep` puts the cleanup and the new sample together.
`CurveFaithful` is arithmetic on sets of instants: those at least an interval apart are no more
than the whole intervals of their span and one (`SpacedAreFew`, an injection), those that go on by
an interval are as many (`SteadyAreMany`, a surjection), and a gap costs all its intervals but one
(`GapCosts`). `RoundedUp` and `RoundedDown` carry that through the rounding: what is missing from a
curve with a wider gap than `WidestGap` is more than half a step. Where a least or greatest element is needed (`Least`, `Greatest`), it comes from
the well-foundedness of the naturals, which takes no induction over an operator.

`EwebClient_proofs` proves `TypeCorrect`, `OneSession` and `ExpirySurvived`, for any session ids:
commands under way were sent in the session held, and a session that is held but no longer
accepted has been counted, twice after the second login.

`Broadcast_proofs` proves `TypeCorrect` and `OpenPagesStay` (`Spec => []OpenStaysConnected`), for
any pages, finitely many sockets and any numbers of messages and snapshots: what is removed as dead
has failed, and no object is used again while the iteration still refers to it.

Every invariant, action property and refinement that a passing run checks is thus also a theorem.
`QuietWhenStopped` and the types of `Broadcast` are theorems only. Only model-checked: liveness (`CallsReturn`, `Recovers`, `FetchEnds`, `PagesCatchUp`). It
rests on fairness, and so on `ENABLED`, which the provers cannot expand. The provers
see nothing of the three violations either: they are behaviours that TLC exhibits.

## 5. Not modelled

The byte-level encryption and the parsers' field conversions (data, no state); column
upgrades and the statements of `verify_candidate` (only their success or failure matters,
`Config` has it); notifications (sent at most once, recorded nowhere); the migration, one
transaction of the target with the service stopped; stars and names of nodes; averages and
totals that are sums over rows; the frontend but for its connection.

Known limits of the models: `Journey` and `Traffic` take the snapshots in order and a request's
queries as one read; a counter that is missing from an answer becomes 0 in the parser
(parsers.py:160-172), which `Traffic` does not have: it would look like a reset, and the next counter be
counted in full, a second time; whether an answer is complete (supervisor.py:249) is an input of
`Presence`; a POST that changes the router reaches the collector at the next start only, which is in
`Config` and not in `Supervisor`; the CSRF token and the cookie are not in `Auth`; a MAC or a node listed
twice in one answer is in no model.

## 6. Plan

Done, in this order: `Presence` and its proofs, `Supervisor`, `Config` and its proofs,
`Ingest`/`IngestTxn`, `EwebClient`, `AdminAccess`/`Auth` with the refinement proof,
`Broadcast`, `Traffic`, `Journey`, the proofs of `Traffic`, `EwebClient`, `Broadcast`,
`Supervisor` and of `Presence`'s history, those of `IngestTxn` with its refinement, of the tiling
of sessions, the curve, the bound on failed logins and the kept configuration, and those of the
timelines. Next:

1. A MAC listed twice in one answer, as an extension of `Presence`'s snapshots.
2. The four reads of a timeline as steps of their own, between the snapshots of `Presence`.

## Running

    tlc -config PresenceRoaming.cfg MCJourney
    tlapm Presence_proofs.tla
