------------------------------- MODULE Journey -------------------------------
(***************************************************************************)
(* The timeline of a client: what analytics/journey.py makes of the        *)
(* sessions and segments that module Presence stores, compared with what   *)
(* the collector has observed.                                             *)
(*                                                                         *)
(* The four queries of a request are taken to see one state of the         *)
(* database, which holds between two snapshots.                            *)
(***************************************************************************)
EXTENDS Presence, Sequences

CONSTANT Ranges  \* JOURNEY_RANGES

ASSUME RangesAssumption == Ranges \subseteq Nat

VARIABLE observed  \* history: what the snapshots stored said of every client

journeyVars == <<vars, observed>>

Latter(i, j) == IF i < j THEN j ELSE i

Earlier(i, j) == IF i < j THEN i ELSE j

-----------------------------------------------------------------------------
Item(kind, start, end, node) == [kind |-> kind, start |-> start, end |-> end, node |-> node]

(* since: the range asked for, or the whole life of the client. *)
WindowStart(m, range) == Latter(clock - range, clients[m].device.firstSeen)

(* ORDER BY a date: the rows from the earliest on.  SQL leaves open how rows *)
(* of one date follow each other, here it is by id; in order there are none. *)
OrderBy(date) ==
    LET rows == DOMAIN date
        Before(r) == {t \in rows : date[t] < date[r] \/ (date[t] = date[r] /\ t.id < r.id)}
    IN  [i \in 1..Cardinality(rows) |-> CHOOSE r \in rows : Cardinality(Before(r)) = i - 1]

SessionsSince(c, since) ==
    {s \in c.sessions : s.start <= clock /\ (s.end = NULL \/ s.end >= since)}

SessionEnd(s) == IF s.end = NULL THEN clock ELSE s.end

Left(g, s) == IF g.left = NULL THEN SessionEnd(s) ELSE g.left

OnlineItem(since, start, end, node) ==
    Item("online", Latter(since, start), Earlier(clock, end), node)

(* Mutants, here and below: a definition as a plausible bug would write it. *)
SegmentsSinceEntered(c, s, since) == {g \in SegmentsOf(c, s) : g.entered >= since}

SegmentsSince(c, s, since) == {g \in SegmentsOf(c, s) : Left(g, s) >= since}

(* _session_segments; a session without segments counts as one. *)
OnlineItems(c, s, since) ==
    IF SegmentsOf(c, s) = {}
    THEN <<OnlineItem(since, s.start, SessionEnd(s), IF s.last = NULL THEN s.first ELSE s.last)>>
    ELSE LET segs == OrderBy([g \in SegmentsSince(c, s, since) |-> g.entered])
         IN  [i \in DOMAIN segs |->
                OnlineItem(since, segs[i].entered, Left(segs[i], s), segs[i].node)]

Gap(start, end) == IF start < end THEN <<Item("offline", start, end, NULL)>> ELSE <<>>

(* The body of _build_timeline's loop; end is previous_end. *)
AddSession(c, since, line, s) ==
    LET online == OnlineItems(c, s, since) IN
    IF online = <<>> THEN line
    ELSE [items |-> line.items \o Gap(line.end, online[1].start) \o online,
          end |-> online[Len(online)].end]

(* The loop, over the sessions in their order. *)
Loop(c, since, sessions) ==
    LET line[n \in 0..Len(sessions)] ==
            IF n = 0 THEN [items |-> <<>>, end |-> since]
            ELSE AddSession(c, since, line[n - 1], sessions[n])
    IN  line[Len(sessions)]

(* _build_timeline *)
Timeline(m, range) ==
    LET c == clients[m]
        since == WindowStart(m, range)
        line == Loop(c, since, OrderBy([s \in SessionsSince(c, since) |-> s.start]))
    IN  IF c.device.online THEN line.items
        ELSE IF line.end < clock THEN line.items \o Gap(line.end, clock)
        ELSE IF line.items = <<>> /\ c.device.lastOffline # NULL
        THEN <<Item("offline", Latter(since, c.device.lastOffline), clock, NULL)>>
        ELSE line.items

-----------------------------------------------------------------------------
JourneyInit == Init /\ observed = [m \in Macs |-> {}]

JourneyNext ==
    \/ \E s \in Snapshots :
          /\ ProcessSnapshot(s)
          /\ observed' = [m \in Macs |->
                            IF m \in DOMAIN s.devices
                            THEN observed[m] \cup {[at |-> s.at, node |-> s.devices[m]]}
                            ELSE observed[m]]
    \/ Otherwise /\ UNCHANGED observed

JourneySpec == JourneyInit /\ [][JourneyNext]_journeyVars
-----------------------------------------------------------------------------
(* Properties *)

Known == {m \in Macs : clients[m].device # NULL}

(* The timeline leaves no instant of its window out and counts none twice:  *)
(* every item starts where the one before it ends, the first with the       *)
(* window and the last one ends now, also when the history the window       *)
(* begins in has been deleted (journey.py:100-160).                          *)
TimelineTiles ==
    InOrder => \A m \in Known, range \in Ranges :
        LET items == Timeline(m, range) IN
        /\ items = <<>> => WindowStart(m, range) = clock
        /\ items # <<>> => /\ items[1].start = WindowStart(m, range)
                           /\ items[Len(items)].end = clock
        /\ \A i \in DOMAIN items : items[i].start <= items[i].end
        /\ \A i \in DOMAIN items : i > 1 => items[i].start = items[i - 1].end

(* The observations of m that at is still within the confirmation time of. *)
Confirming(m, at) == {o \in observed[m] : o.at <= at /\ at < o.at + OfflineConfirmation}

LatestBy(m, at) ==
    {o \in observed[m] : o.at <= at /\ \A p \in observed[m] : p.at <= at => p.at <= o.at}

(* Whenever the client was online in its timeline, it is placed where it    *)
(* was last observed; and while it was offline, it had not been observed    *)
(* for the confirmation time, unless that is so long ago that the history   *)
(* is deleted (journey.py:100-177, service.py:241-331, 372-399).             *)
TimelineTellsObservations ==
    InOrder => \A m \in Known, range \in Ranges :
        LET items == Timeline(m, range) IN
        \A i \in DOMAIN items : \A at \in items[i].start..(items[i].end - 1) :
            IF items[i].kind = "online"
            THEN \A o \in LatestBy(m, at) : o.node = items[i].node
            ELSE at + Earlier(RetentionNormal, RetentionStarred) < clock \/ Confirming(m, at) = {}
=============================================================================
