------------------------------ MODULE Presence ------------------------------
(***************************************************************************)
(* What the database says of every client of the router: the device row,  *)
(* its connection sessions, the roaming segments of every session and the  *)
(* event log, as backend/service.py writes them.                           *)
(*                                                                         *)
(* process_snapshot runs in one transaction, so it is one action here;     *)
(* module IngestTxn splits it.  Rows are kept per client: every query of   *)
(* the code is by MAC, or by a session id that belongs to one.             *)
(* Time is counted in ticks.  A snapshot is named by the instant it was    *)
(* collected at, which stands for the snapshot id "<uuid>:<sequence>":     *)
(* two snapshots have neither in common.                                   *)
(***************************************************************************)
EXTENDS Integers, FiniteSets

CONSTANTS
    Macs,                 \* the clients followed
    Others,               \* up to this many more clients are in a user list
    Nodes,                \* gateways, switches and access points
    Topologies,           \* the sets of nodes a topology answer may list
    Totals,               \* the totals a user list may announce (0: none)
    Touched,              \* the clients an operator may star or name
    NULL,                 \* SQL NULL, and the absence of a row
    OfflineConfirmation,  \* _OFFLINE_CONFIRMATION_SECONDS
    RetentionNormal,      \* settings.retention_days_normal
    RetentionStarred,     \* settings.retention_days_starred
    IdentityRetention,    \* _CLIENT_IDENTITY_RETENTION_DAYS
    CleanupInterval,      \* _CLEANUP_INTERVAL_SECONDS
    Uptime,               \* time.monotonic() when the clock of the model is 0
    MaxSkew,              \* how far collected_at may lie behind the clock
    MaxTime               \* bound of the model on the clock

ASSUME NullAssumption ==
    /\ NULL \notin Nat
    /\ NULL \notin Nodes

ASSUME TopologyAssumption == Topologies \subseteq SUBSET Nodes

ASSUME TotalsAssumption == Totals \subseteq Nat /\ Others \in Nat

ASSUME TouchedAssumption == Touched \subseteq Macs

ASSUME TimeAssumption ==
    /\ OfflineConfirmation \in Nat \ {0}
    /\ RetentionNormal \in Nat
    /\ RetentionStarred \in Nat
    /\ IdentityRetention \in Nat
    /\ CleanupInterval \in Nat
    /\ Uptime \in Nat
    /\ MaxSkew \in Nat
    /\ MaxTime \in Nat

VARIABLES
    clock,        \* wall clock, and (plus Uptime) the monotonic clock
    nodes,        \* the network_nodes table
    clients,      \* the rows of every client
    aliases,      \* the clients with a row in device_aliases
    naming,       \* alias requests that found the device and have not written
    processed,    \* the processed_snapshots table
    lastCleanup   \* _last_cleanup_monotonic

vars == <<clock, nodes, clients, aliases, naming, processed, lastCleanup>>

-----------------------------------------------------------------------------
(* Rows *)

Parents == Nodes \cup {NULL}
Instants == Nat \cup {NULL}

NodeRow == [online : BOOLEAN, lastSeen : Nat, lastOffline : Instants]

DeviceRow == [online : BOOLEAN, parent : Parents, firstSeen : Nat, lastSeen : Nat,
              lastOnline : Nat, lastOffline : Instants, starred : BOOLEAN]

SessionRow == [id : Nat, start : Nat, end : Instants,
               first : Parents, last : Parents]

SegmentRow == [id : Nat, session : Nat, node : Parents,
               entered : Nat, left : Instants]

EventRow == [id : Nat, kind : {"ONLINE", "OFFLINE", "LOCATION_CHANGE"}, at : Nat]

(* lastId: no row of the client has had a greater id. *)
ClientRows == [device : DeviceRow \cup {NULL}, sessions : SUBSET SessionRow,
               segments : SUBSET SegmentRow, events : SUBSET EventRow,
               lastId : Nat]

(* A row of a database is never NULL. *)
ASSUME RowAssumption == NULL \notin NodeRow /\ NULL \notin DeviceRow

NoRows(id) == [device |-> NULL, sessions |-> {}, segments |-> {},
               events |-> {}, lastId |-> id]

(* ORDER BY id DESC LIMIT 1: the newest of the rows, if there is one. *)
Latest(rows) == {r \in rows : \A q \in rows : q.id <= r.id}

OpenSessions(c) == {s \in c.sessions : s.end = NULL}

ActiveSession(c) == Latest(OpenSessions(c))

SegmentsOf(c, s) == {g \in c.segments : g.session = s.id}

OpenSegments(c, s) == {g \in SegmentsOf(c, s) : g.left = NULL}

(* The open segment a query for the active session returns. *)
CurrentSegment(c) == UNION {Latest(OpenSegments(c, s)) : s \in ActiveSession(c)}

(* Mutants, here and below: a definition as a plausible bug would write it. *)
EndSegmentNever(c, at) == c.segments

EndSegmentWhenSeen(c, at) ==
    {IF g \in CurrentSegment(c) THEN [g EXCEPT !.left = c.device.lastSeen] ELSE g :
       g \in c.segments}

EndSegment(c, at) ==
    {IF g \in CurrentSegment(c) THEN [g EXCEPT !.left = at] ELSE g : g \in c.segments}

IsOnline(c) == c.device # NULL /\ c.device.online

-----------------------------------------------------------------------------
(* The handling of one client by one snapshot *)

(* What a snapshot that lists the client under parent means for it. *)
Moved(c, parent) == IsOnline(c) /\ c.device.parent # parent

Opens(c) == OpenSessions(c) = {}

NewIdReused(c) == c.lastId

NewId(c) == c.lastId + 1

(* The session the observation belongs to: the active one, or a new one. *)
SessionId(c) ==
    IF Opens(c) THEN NewId(c) ELSE (CHOOSE s \in ActiveSession(c) : TRUE).id

ObservedDeviceKeepsOnline(c, at, parent) ==
    IF c.device = NULL
    THEN [online |-> TRUE, parent |-> parent, firstSeen |-> at, lastSeen |-> at,
          lastOnline |-> at, lastOffline |-> NULL, starred |-> FALSE]
    ELSE [c.device EXCEPT !.online = TRUE, !.parent = parent, !.lastSeen = at]

ObservedDevice(c, at, parent) ==
    IF c.device = NULL
    THEN [online |-> TRUE, parent |-> parent, firstSeen |-> at, lastSeen |-> at,
          lastOnline |-> at, lastOffline |-> NULL, starred |-> FALSE]
    ELSE [c.device EXCEPT !.online = TRUE, !.parent = parent, !.lastSeen = at,
                          !.lastOnline = IF c.device.online THEN @ ELSE at]

NewSession(c, at, parent) ==
    [id |-> NewId(c), start |-> at, end |-> NULL, first |-> parent, last |-> parent]

ObservedSessionsKeepLast(c, at, parent) ==
    IF Opens(c) THEN c.sessions \cup {NewSession(c, at, parent)} ELSE c.sessions

ObservedSessions(c, at, parent) ==
    IF Opens(c)
    THEN c.sessions \cup {NewSession(c, at, parent)}
    ELSE {IF s \in ActiveSession(c) THEN [s EXCEPT !.last = parent] ELSE s :
            s \in c.sessions}

NewSegment(c, id, at, parent) ==
    [id |-> id, session |-> SessionId(c), node |-> parent, entered |-> at, left |-> NULL]

ObservedSegments(c, at, parent) ==
    (IF Moved(c, parent) THEN EndSegment(c, at) ELSE c.segments)
    \cup (IF Opens(c) THEN {NewSegment(c, NewId(c), at, parent)} ELSE {})
    \cup (IF Moved(c, parent) THEN {NewSegment(c, NewId(c) + 1, at, parent)} ELSE {})

ObservedEventsOfNew(c, parent, now) ==
    c.events
    \cup (IF c.device = NULL THEN {[id |-> NewId(c), kind |-> "ONLINE", at |-> now]}
                             ELSE {})
    \cup (IF Moved(c, parent)
          THEN {[id |-> NewId(c), kind |-> "LOCATION_CHANGE", at |-> now]}
          ELSE {})

ObservedEvents(c, parent, now) ==
    c.events
    \cup (IF ~IsOnline(c) THEN {[id |-> NewId(c), kind |-> "ONLINE", at |-> now]}
                           ELSE {})
    \cup (IF Moved(c, parent)
          THEN {[id |-> NewId(c), kind |-> "LOCATION_CHANGE", at |-> now]}
          ELSE {})

(* The device loop. *)
Observe(c, at, parent, now) ==
    [device |-> ObservedDevice(c, at, parent),
     sessions |-> ObservedSessions(c, at, parent),
     segments |-> ObservedSegments(c, at, parent),
     events |-> ObservedEvents(c, parent, now),
     lastId |-> IF Opens(c) \/ Moved(c, parent) \/ ~IsOnline(c)
                THEN NewId(c) + 1
                ELSE c.lastId]

OfflineAtTooEarly(c) == c.device.lastSeen - OfflineConfirmation

OfflineAt(c) == c.device.lastSeen + OfflineConfirmation

ConfirmedAbsentAtOnce(c, at) == IsOnline(c) /\ at > c.device.lastSeen

ConfirmedAbsentAtBoundary(c, at) == IsOnline(c) /\ at >= OfflineAt(c)

(* The client is online and was last seen more than the confirmation time ago. *)
ConfirmedAbsent(c, at) == IsOnline(c) /\ at > OfflineAt(c)

(* The loop over the devices online that a complete snapshot does not list. *)
ConfirmOffline(c, now) ==
    [device |-> [c.device EXCEPT !.online = FALSE, !.lastOffline = OfflineAt(c)],
     sessions |-> {IF s \in ActiveSession(c) THEN [s EXCEPT !.end = OfflineAt(c)] ELSE s :
                     s \in c.sessions},
     segments |-> EndSegment(c, OfflineAt(c)),
     events |-> c.events \cup {[id |-> NewId(c), kind |-> "OFFLINE", at |-> now]},
     lastId |-> NewId(c)]

Retention(c) ==
    IF c.device # NULL /\ c.device.starred THEN RetentionStarred ELSE RetentionNormal

ExpiredSessionsByStart(c, at) ==
    {s \in c.sessions : s.end # NULL /\ s.start + Retention(c) < at}

ExpiredSessions(c, at) ==
    {s \in c.sessions : s.end # NULL /\ s.end + Retention(c) < at}

ExpireSessionsOnly(c, at) ==
    [c EXCEPT !.events = {e \in @ : ~(e.at + Retention(c) < at)},
              !.sessions = @ \ ExpiredSessions(c, at)]

ExpireRecentEvents(c, at) ==
    LET old == ExpiredSessions(c, at)
    IN  [c EXCEPT !.events = {e \in @ : e.at + Retention(c) < at},
                  !.segments = {g \in @ : \A s \in old : g.session # s.id},
                  !.sessions = @ \ old]

(* cleanup_expired_history on the rows of a client. *)
Expire(c, at) ==
    LET old == ExpiredSessions(c, at)
    IN  [c EXCEPT !.events = {e \in @ : ~(e.at + Retention(c) < at)},
                  !.segments = {g \in @ : \A s \in old : g.session # s.id},
                  !.sessions = @ \ old]

(* purge_stale_clients: the clients it deletes. *)
Stale(c, at) ==
    /\ c.device # NULL
    /\ ~c.device.online
    /\ c.device.lastSeen + IdentityRetention < at
    /\ \/ c.device.lastOffline = NULL
       \/ c.device.lastOffline + IdentityRetention < at

CleanUpDeviceOnly(c, at) ==
    IF Stale(c, at) THEN [Expire(c, at) EXCEPT !.device = NULL] ELSE Expire(c, at)

CleanUp(c, at) == IF Stale(c, at) THEN NoRows(c.lastId) ELSE Expire(c, at)

-----------------------------------------------------------------------------
(* Snapshots *)

(* RuijieCollectorSupervisor._is_complete *)
IsComplete(parsed, total) == parsed # 0 /\ (total = 0 \/ parsed >= total)

(* What collect_once returns now.  A client's parent is a node of the same *)
(* topology answer, or none: ap_map holds nothing else.                    *)
Snapshots ==
    {s \in [at : {t \in 0..clock : t + MaxSkew >= clock},
            nodes : Topologies,
            devices : UNION {[seen -> Parents] : seen \in SUBSET Macs},
            complete : BOOLEAN] :
        /\ \A m \in DOMAIN s.devices : s.devices[m] \in s.nodes \cup {NULL}
        /\ \E others \in 0..Others, total \in Totals :
              s.complete = IsComplete(Cardinality(DOMAIN s.devices) + others, total)}

CleanupDue == clock + Uptime - lastCleanup >= CleanupInterval

UpdateNodeFirstSeen(row, listed, complete, at) ==
    IF listed
    THEN [online |-> TRUE, lastSeen |-> IF row = NULL THEN at ELSE row.lastSeen,
          lastOffline |-> IF row = NULL THEN NULL ELSE row.lastOffline]
    ELSE IF row # NULL /\ row.online /\ complete
    THEN [row EXCEPT !.online = FALSE, !.lastOffline = at]
    ELSE row

(* The network_nodes rows after the topology of the snapshot. *)
UpdateNode(row, listed, complete, at) ==
    IF listed
    THEN [online |-> TRUE, lastSeen |-> at,
          lastOffline |-> IF row = NULL THEN NULL ELSE row.lastOffline]
    ELSE IF row # NULL /\ row.online /\ complete
    THEN [row EXCEPT !.online = FALSE, !.lastOffline = at]
    ELSE row

Observed(c, m, s) ==
    IF m \in DOMAIN s.devices THEN Observe(c, s.at, s.devices[m], clock) ELSE c

(* One client's rows after the whole transaction.  The session does not   *)
(* flush by itself, so the statements of the cleanup see the rows as they  *)
(* were before the offline loop; the offline loop's rows reach the         *)
(* database at the commit.                                                 *)
UpdateClient(c, m, s) ==
    LET seen == Observed(c, m, s)
        kept == IF CleanupDue THEN CleanUp(seen, s.at) ELSE seen
    IN  IF s.complete /\ m \notin DOMAIN s.devices /\ ConfirmedAbsent(c, s.at)
        THEN ConfirmOffline(kept, clock)
        ELSE kept

(* process_snapshot on a snapshot whose id is not in processed_snapshots;  *)
(* it returns without a write on one whose id is.                          *)
ProcessSnapshot(s) ==
    /\ s.at \notin processed
    /\ nodes' = [n \in Nodes |-> UpdateNode(nodes[n], n \in s.nodes, s.complete, s.at)]
    /\ clients' = [m \in Macs |-> UpdateClient(clients[m], m, s)]
    /\ aliases' = IF CleanupDue
                  THEN {m \in aliases : ~Stale(Observed(clients[m], m, s), s.at)}
                  ELSE aliases
    /\ processed' = {s.at} \cup (IF CleanupDue
                                 THEN {t \in processed : t + RetentionNormal >= s.at}
                                 ELSE processed)
    /\ lastCleanup' = IF CleanupDue THEN clock + Uptime ELSE lastCleanup
    /\ UNCHANGED <<clock, naming>>

-----------------------------------------------------------------------------
(* The other writers *)

(* POST /api/clients/{mac}/star *)
StarClient(m, starred) ==
    /\ clients[m].device # NULL
    /\ clients' = [clients EXCEPT ![m].device.starred = starred]
    /\ UNCHANGED <<clock, nodes, aliases, naming, processed, lastCleanup>>

(* POST /api/clients/{mac}/alias finds the device row, and no alias... *)
AliasRead(m) ==
    /\ clients[m].device # NULL
    /\ m \notin aliases
    /\ naming' = naming \cup {m}
    /\ UNCHANGED <<clock, nodes, clients, aliases, processed, lastCleanup>>

(* ... and inserts one, whatever became of the device meanwhile. *)
AliasWrite(m) ==
    /\ m \in naming
    /\ naming' = naming \ {m}
    /\ aliases' = aliases \cup {m}
    /\ UNCHANGED <<clock, nodes, clients, processed, lastCleanup>>

(* The same request with an empty name deletes the row it found. *)
AliasClear(m) ==
    /\ clients[m].device # NULL
    /\ m \in aliases
    /\ aliases' = aliases \ {m}
    /\ UNCHANGED <<clock, nodes, clients, naming, processed, lastCleanup>>

(* The process is restarted: only module globals and requests are lost. *)
Restart ==
    /\ lastCleanup' = 0
    /\ naming' = {}
    /\ UNCHANGED <<clock, nodes, clients, aliases, processed>>

Tick ==
    /\ clock < MaxTime
    /\ clock' = clock + 1
    /\ UNCHANGED <<nodes, clients, aliases, naming, processed, lastCleanup>>

Init ==
    /\ clock = 0
    /\ nodes = [n \in Nodes |-> NULL]
    /\ clients = [m \in Macs |-> NoRows(0)]
    /\ aliases = {}
    /\ naming = {}
    /\ processed = {}
    /\ lastCleanup = 0

(* Everything but the storing of a snapshot. *)
Otherwise ==
    \/ Tick
    \/ \E m \in Touched, starred \in BOOLEAN : StarClient(m, starred)
    \/ \E m \in Touched : AliasRead(m) \/ AliasWrite(m) \/ AliasClear(m)
    \/ Restart

Next == (\E s \in Snapshots : ProcessSnapshot(s)) \/ Otherwise

Spec == Init /\ [][Next]_vars
-----------------------------------------------------------------------------
(* Properties of one client's rows *)

(* A client is online exactly when it has an open session, and then it has  *)
(* one; that session ends at the device's parent.                           *)
OneOpenSession(c) ==
    IF IsOnline(c)
    THEN \E s \in c.sessions : OpenSessions(c) = {s} /\ s.last = c.device.parent
    ELSE OpenSessions(c) = {}

(* An open session has one open segment, at its last node; no other has one. *)
OneOpenSegment(c) ==
    \A s \in c.sessions :
        IF s.end = NULL
        THEN \E g \in c.segments : OpenSegments(c, s) = {g} /\ g.node = s.last
        ELSE OpenSegments(c, s) = {}

(* No segment is without its session, no row without its device. *)
NoOrphanRow(c) ==
    /\ \A g \in c.segments : \E s \in c.sessions : g.session = s.id
    /\ c.device = NULL => c.sessions = {} /\ c.segments = {} /\ c.events = {}

(* An id names one row of its table, and the next id is free. *)
IdsAreKeys(c) ==
    /\ \A r \in c.sessions \cup c.segments \cup c.events : r.id <= c.lastId
    /\ \A s, t \in c.sessions : s.id = t.id => s = t
    /\ \A g, h \in c.segments : g.id = h.id => g = h
    /\ \A e, f \in c.events : e.id = f.id => e = f

-----------------------------------------------------------------------------
(* Properties *)

(* Type correctness: every table holds rows of its type, and nothing is      *)
(* dated or recorded as cleaned up later than now.                           *)
TypeOK ==
    /\ clock \in Nat
    /\ nodes \in [Nodes -> NodeRow \cup {NULL}]
    /\ clients \in [Macs -> ClientRows]
    /\ aliases \subseteq Macs
    /\ naming \subseteq Macs
    /\ processed \subseteq 0..clock
    /\ lastCleanup \in 0..(clock + Uptime)

(* The presence a client is shown with is the one its history tells: online *)
(* exactly when it has an open session, which is then its only one, whose   *)
(* only open segment is at the client's parent node (service.py:241-331 and *)
(* 372-399).  Whatever the order of the snapshots and the clock.            *)
PresenceMatchesHistory ==
    \A m \in Macs : OneOpenSession(clients[m]) /\ OneOpenSegment(clients[m])

(* Cleaning up leaves no segment without its session and no history without *)
(* its device, and two rows never share an id (service.py:100-150).         *)
HistoryIsWhole ==
    \A m \in Macs : NoOrphanRow(clients[m]) /\ IdsAreKeys(clients[m])

(* collected_at never goes back: no clock step, no late transaction. *)
InOrder == MaxSkew = 0

(* The segments of a session tile it: the first starts with the session at  *)
(* its initial parent, every other where and when another ends, the last    *)
(* ends with the session, and a client changes node from one to the next.   *)
TilesSession(c, s) ==
    LET segs == SegmentsOf(c, s)
        Starts(g) == g.entered = s.start /\ g.node = s.first
    IN  /\ Cardinality({g \in segs : Starts(g)}) = 1
        /\ \A g \in segs :
              /\ g.left # NULL => g.entered < g.left
              /\ Starts(g) \/ \E h \in segs : h.left = g.entered /\ h.node # g.node
              /\ g.left = s.end \/ \E h \in segs : h.entered = g.left
        /\ \A g, h \in segs : g.id < h.id => g.left # NULL /\ g.left <= h.entered

(* The roaming history of every session accounts for every instant of it    *)
(* (service.py:262-269, 312-331, 389-399).                                   *)
SegmentsTileSessions ==
    InOrder => \A m \in Macs : \A s \in clients[m].sessions : TilesSession(clients[m], s)

(* A client has at most one session at any instant, and a session lasts at   *)
(* least the confirmation time (service.py:376-388).                         *)
SessionsDisjoint ==
    InOrder =>
        \A m \in Macs : \A s, t \in clients[m].sessions :
            /\ s.id < t.id => s.end # NULL /\ s.end < t.start
            /\ s.end # NULL => s.start + OfflineConfirmation <= s.end

(* The event log alternates: a client comes online only when new or after   *)
(* OFFLINE, nothing else follows OFFLINE, and the newest event agrees with   *)
(* the device row (service.py:285-345, 400-413), also when old events have   *)
(* been deleted.                                                             *)
EventsTellStatus ==
    \A m \in Macs :
        LET log == clients[m].events
            Next2(e, f) == e.id < f.id /\ ~\E x \in log : e.id < x.id /\ x.id < f.id
        IN  /\ \A e \in Latest(log) : (e.kind = "OFFLINE") = ~IsOnline(clients[m])
            /\ \A e, f \in log :
                  Next2(e, f) => ((e.kind = "OFFLINE") = (f.kind = "ONLINE"))

(* "Online since" is the start of the open session; "offline since" is the   *)
(* end of the last one, the confirmation time after the last observation     *)
(* (service.py:199-204, 298-299, 376-388).                                   *)
TimestampsAgree ==
    \A m \in Macs : LET c == clients[m]  d == c.device IN
        /\ IsOnline(c) => \A s \in OpenSessions(c) : s.start = d.lastOnline
        /\ d # NULL /\ ~IsOnline(c) =>
              /\ d.lastOffline = d.lastSeen + OfflineConfirmation
              /\ InOrder => \A s \in Latest(c.sessions) : s.end = d.lastOffline

(* A client's parent is a stored node, seen no earlier than the client; a    *)
(* node is offline only since after it was last seen (service.py:164-185).   *)
ParentsKnown ==
    /\ \A m \in Macs : LET d == clients[m].device IN
          d # NULL /\ d.parent # NULL =>
              /\ nodes[d.parent] # NULL
              /\ InOrder => nodes[d.parent].lastSeen >= d.lastSeen
    /\ InOrder => \A n \in Nodes :
          nodes[n] # NULL /\ ~nodes[n].online => nodes[n].lastOffline > nodes[n].lastSeen

(* A session is ended only for a client unseen for longer than the          *)
(* confirmation time, and ends that time after the last observation         *)
(* (DESIGN.md; service.py:376-388).                                          *)
EndsOnlyConfirmed ==
    [][\A m \in Macs : \A s \in OpenSessions(clients[m]) : \A t \in clients'[m].sessions :
          t.id = s.id /\ t.end # NULL =>
              /\ t.end = clients[m].device.lastSeen + OfflineConfirmation
              /\ t.end < clock
              /\ t.last = s.last]_vars

(* What has ended stays as it is, with its segments, until it is deleted as *)
(* a whole, which no session is before its retention, or its device's, has   *)
(* passed; an open session is never deleted (service.py:100-150).            *)
HistoryIsKept ==
    [][\A m \in Macs : \A s \in clients[m].sessions : LET c == clients[m] d == clients'[m] IN
          IF \E t \in d.sessions : t.id = s.id
          THEN s.end # NULL => s \in d.sessions /\ SegmentsOf(d, s) = SegmentsOf(c, s)
          ELSE /\ s.end # NULL
               /\ SegmentsOf(d, s) = {}
               /\ \/ s.end + Retention(c) < clock
                  \/ c.device.lastSeen + IdentityRetention < clock]_vars

(* A client is forgotten only when offline and unseen for the identity       *)
(* retention, starred or not, and then as a whole, its name included         *)
(* (DESIGN.md:154-163; service.py:125-150).                                  *)
ForgottenAsAWhole ==
    [][\A m \in Macs : clients[m].device # NULL /\ clients'[m].device = NULL =>
          /\ ~clients[m].device.online
          /\ clients[m].device.lastSeen + IdentityRetention < clock
          /\ clients'[m] = NoRows(clients[m].lastId)
          /\ m \notin aliases']_vars
=============================================================================
