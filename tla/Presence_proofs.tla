-------------------------- MODULE Presence_proofs --------------------------
(***************************************************************************)
(* Proofs about Presence, and about the timelines Journey makes of it, for *)
(* every value of their constants: any number of clients and nodes, any    *)
(* order and delay of snapshots, any retention, any range.                 *)
(*                                                                         *)
(* The invariant is a conjunction over the clients of ClientInv, which     *)
(* says of one client's rows what TypeOK, PresenceMatchesHistory and       *)
(* HistoryIsWhole say of all.  It is inductive: that ids are keys and that *)
(* no row is an orphan is what makes the open segment found for the active *)
(* session the only open one.  On it rest what the steps do to the closed  *)
(* rows (history only grows) and to the times of the segments (tiling).    *)
(*                                                                         *)
(* The second half begins with rows in the order of their dates.  The      *)
(* timeline of such rows is put together turn by turn; that it tells of    *)
(* what was observed follows from ObsInv, which relates the observations   *)
(* to the rows and is preserved by every step.                             *)
(***************************************************************************)
EXTENDS Journey, FiniteSetTheorems, SequenceTheorems, TLAPS

ClientInv(c) ==
    /\ c \in ClientRows
    /\ OneOpenSession(c)
    /\ OneOpenSegment(c)
    /\ NoOrphanRow(c)
    /\ IdsAreKeys(c)

-----------------------------------------------------------------------------
(* What the queries of the code return *)

(* ORDER BY id DESC LIMIT 1 of one row is that row (service.py:31-40). *)
LEMMA LatestOfOne == ASSUME NEW r, r.id \in Nat PROVE Latest({r}) = {r}
  BY DEF Latest

(* An online client: the active session is the open one, and the segment    *)
(* the code would close is the only open one (service.py:313-321, 386-397). *)
LEMMA OnlineRows ==
    ASSUME NEW c, ClientInv(c), IsOnline(c)
    PROVE  \E s \in c.sessions, g \in c.segments :
              /\ OpenSessions(c) = {s}
              /\ ActiveSession(c) = {s}
              /\ s.end = NULL
              /\ s.last = c.device.parent
              /\ CurrentSegment(c) = {g}
              /\ g.left = NULL /\ g.session = s.id /\ g.node = s.last
              /\ \A t \in c.sessions : t.end = NULL => t = s
              /\ \A h \in c.segments : h.left = NULL => h = g
<1>1. PICK s \in c.sessions : OpenSessions(c) = {s} /\ s.last = c.device.parent
  BY DEF ClientInv, OneOpenSession
<1>2. s \in SessionRow /\ s.end = NULL /\ s.id \in Nat
  BY <1>1 DEF ClientInv, ClientRows, OpenSessions, SessionRow
<1>3. ActiveSession(c) = {s}
  BY <1>1, <1>2, LatestOfOne DEF ActiveSession
<1>4. PICK g \in c.segments : OpenSegments(c, s) = {g} /\ g.node = s.last
  BY <1>2 DEF ClientInv, OneOpenSegment
<1>5. g.left = NULL /\ g.session = s.id
  BY <1>4 DEF OpenSegments, SegmentsOf
<1>6. g.id \in Nat
  BY DEF ClientInv, ClientRows, SegmentRow
<1>7. Latest(OpenSegments(c, s)) = {g}
  BY <1>4, <1>6, LatestOfOne
<1>8. CurrentSegment(c) = {g}
  BY <1>3, <1>7 DEF CurrentSegment
<1>9. \A t \in c.sessions : t.end = NULL => t = s
  BY <1>1 DEF OpenSessions
<1>10. ASSUME NEW h \in c.segments, h.left = NULL PROVE h = g
  <2>1. PICK t \in c.sessions : h.session = t.id
    BY DEF ClientInv, NoOrphanRow
  <2>2. h \in OpenSegments(c, t)
    BY <1>10, <2>1 DEF OpenSegments, SegmentsOf
  <2>3. t.end = NULL
    BY <2>2 DEF ClientInv, OneOpenSegment
  <2> QED BY <1>4, <1>9, <2>2, <2>3
<1> QED BY <1>1, <1>2, <1>3, <1>4, <1>5, <1>8, <1>9, <1>10

(* A client that is not online has neither an open session nor an open      *)
(* segment.                                                                  *)
LEMMA OfflineRows ==
    ASSUME NEW c, ClientInv(c), ~IsOnline(c)
    PROVE  /\ OpenSessions(c) = {}
           /\ ActiveSession(c) = {}
           /\ \A s \in c.sessions : s.end # NULL
           /\ \A g \in c.segments : g.left # NULL
<1>1. OpenSessions(c) = {}
  BY DEF ClientInv, OneOpenSession
<1>2. \A s \in c.sessions : s.end # NULL
  BY <1>1 DEF OpenSessions
<1>3. ASSUME NEW g \in c.segments PROVE g.left # NULL
  <2>1. PICK s \in c.sessions : g.session = s.id
    BY DEF ClientInv, NoOrphanRow
  <2>2. OpenSegments(c, s) = {}
    BY <1>2 DEF ClientInv, OneOpenSegment
  <2> QED BY <2>1, <2>2 DEF OpenSegments, SegmentsOf
<1>4. ActiveSession(c) = {}
  BY <1>1 DEF ActiveSession, Latest
<1> QED BY <1>1, <1>2, <1>3, <1>4

(* Closing the only open segment leaves every other row as it is. *)
LEMMA EndedSegments ==
    ASSUME NEW c, ClientInv(c), NEW at \in Nat, NEW g \in c.segments,
           CurrentSegment(c) = {g},
           \A h \in c.segments : h.left = NULL => h = g
    PROVE  /\ EndSegment(c, at) \subseteq SegmentRow
           /\ \A x \in EndSegment(c, at) : x.left # NULL
           /\ \A x \in EndSegment(c, at) :
                 \E h \in c.segments : x.id = h.id /\ x.session = h.session
           /\ \A x, y \in EndSegment(c, at) : x.id = y.id => x = y
<1> DEFINE Image(h) == IF h = g THEN [h EXCEPT !.left = at] ELSE h
<1>1. EndSegment(c, at) = {Image(h) : h \in c.segments}
  BY DEF EndSegment
<1>2. ASSUME NEW h \in c.segments
      PROVE  /\ Image(h) \in SegmentRow
             /\ Image(h).id = h.id /\ Image(h).session = h.session
             /\ Image(h).left # NULL
  <2>1. h \in SegmentRow
    BY DEF ClientInv, ClientRows
  <2>2. CASE h = g
    BY <2>1, <2>2, NullAssumption DEF SegmentRow, Instants
  <2>3. CASE h # g
    BY <2>1, <2>3
  <2> QED BY <2>2, <2>3
<1>3. \A h, k \in c.segments : h.id = k.id => h = k
  BY DEF ClientInv, IdsAreKeys
<1> HIDE DEF Image
<1> QED BY <1>1, <1>2, <1>3
-----------------------------------------------------------------------------
(* The device loop preserves the invariant of a client *)

(* Observing a client that is not online, new or back: one session and its  *)
(* first segment are opened (service.py:241-269, 286-310).                   *)
LEMMA ObserveNotOnline ==
    ASSUME NEW c, ClientInv(c), ~IsOnline(c),
           NEW at \in Nat, NEW parent \in Parents, NEW now \in Nat
    PROVE  ClientInv(Observe(c, at, parent, now))
<1> DEFINE d == Observe(c, at, parent, now)
           ns == [id |-> c.lastId + 1, start |-> at, end |-> NULL,
                  first |-> parent, last |-> parent]
           ng == [id |-> c.lastId + 1, session |-> c.lastId + 1, node |-> parent,
                  entered |-> at, left |-> NULL]
           ne == [id |-> c.lastId + 1, kind |-> "ONLINE", at |-> now]
<1>1. /\ OpenSessions(c) = {}
      /\ \A s \in c.sessions : s.end # NULL
      /\ \A g \in c.segments : g.left # NULL
  BY OfflineRows
<1>2. Opens(c) /\ ~Moved(c, parent)
  BY <1>1 DEF Opens, Moved
<1>3. /\ d.device = ObservedDevice(c, at, parent)
      /\ d.sessions = c.sessions \cup {ns}
      /\ d.segments = c.segments \cup {ng}
      /\ d.events = c.events \cup {ne}
      /\ d.lastId = c.lastId + 2
      /\ d = [device |-> d.device, sessions |-> d.sessions, segments |-> d.segments,
              events |-> d.events, lastId |-> d.lastId]
  BY <1>2 DEF Observe, ObservedSessions, ObservedSegments, ObservedEvents, NewSession,
              NewSegment, NewId, SessionId, ClientInv, ClientRows
<1>4. c.lastId \in Nat
  BY DEF ClientInv, ClientRows
<1>5. d.device \in DeviceRow /\ d.device.online /\ d.device.parent = parent
  <2>1. CASE c.device = NULL
    BY <1>3, <2>1 DEF ObservedDevice, DeviceRow, Instants
  <2>2. CASE c.device # NULL
    <3>1. c.device \in DeviceRow
      BY <2>2 DEF ClientInv, ClientRows
    <3> QED BY <1>3, <2>2, <3>1 DEF ObservedDevice, DeviceRow
  <2> QED BY <2>1, <2>2
<1>6. /\ ns \in SessionRow /\ ng \in SegmentRow /\ ne \in EventRow
      /\ ns.id = c.lastId + 1 /\ ns.end = NULL /\ ns.last = parent
      /\ ng.id = c.lastId + 1 /\ ng.session = c.lastId + 1
      /\ ng.left = NULL /\ ng.node = parent
      /\ ne.id = c.lastId + 1
  BY <1>4 DEF SessionRow, SegmentRow, EventRow, Instants
<1>7. d \in ClientRows
  BY <1>3, <1>4, <1>5, <1>6 DEF ClientInv, ClientRows
<1>8. /\ \A r \in c.sessions \cup c.segments \cup c.events : r.id <= c.lastId /\ r.id \in Nat
      /\ \A s, t \in c.sessions : s.id = t.id => s = t
      /\ \A g, h \in c.segments : g.id = h.id => g = h
      /\ \A e, f \in c.events : e.id = f.id => e = f
  BY DEF ClientInv, ClientRows, IdsAreKeys, SessionRow, SegmentRow, EventRow
<1>9. \A g \in c.segments : \E s \in c.sessions : g.session = s.id
  BY DEF ClientInv, NoOrphanRow
<1> HIDE DEF d, ns, ng, ne
<1>10. IsOnline(d)
  BY <1>5, RowAssumption DEF IsOnline
<1>11. OneOpenSession(d)
  <2>1. OpenSessions(d) = {ns}
    BY <1>1, <1>3, <1>6 DEF OpenSessions
  <2> QED BY <1>3, <1>5, <1>6, <1>10, <2>1 DEF OneOpenSession
<1>12. OneOpenSegment(d)
  <2>1. OpenSegments(d, ns) = {ng}
    BY <1>1, <1>3, <1>6 DEF OpenSegments, SegmentsOf
  <2>2. ASSUME NEW s \in c.sessions PROVE OpenSegments(d, s) = {}
    <3>1. s.id # ng.session
      BY <1>4, <1>6, <1>8
    <3> QED BY <1>1, <1>3, <3>1 DEF OpenSegments, SegmentsOf
  <2> QED BY <1>1, <1>3, <1>6, <2>1, <2>2 DEF OneOpenSegment
<1>13. NoOrphanRow(d)
  BY <1>3, <1>5, <1>6, <1>9, RowAssumption DEF NoOrphanRow
<1>14. IdsAreKeys(d)
  <2>1. \A r \in d.sessions \cup d.segments \cup d.events : r.id <= d.lastId
    <3>1. \A r \in c.sessions \cup c.segments \cup c.events : r.id <= c.lastId + 2
      BY <1>4, <1>8
    <3>2. ns.id <= c.lastId + 2 /\ ng.id <= c.lastId + 2 /\ ne.id <= c.lastId + 2
      BY <1>4, <1>6
    <3> QED BY <1>3, <3>1, <3>2
  <2>2. \A r \in c.sessions \cup c.segments \cup c.events : r.id # c.lastId + 1
    BY <1>4, <1>8
  <2>3. \A s, t \in d.sessions : s.id = t.id => s = t
    BY <1>3, <1>6, <1>8, <2>2
  <2>4. \A s, t \in d.segments : s.id = t.id => s = t
    BY <1>3, <1>6, <1>8, <2>2
  <2>5. \A s, t \in d.events : s.id = t.id => s = t
    BY <1>3, <1>6, <1>8, <2>2
  <2> QED BY <2>1, <2>3, <2>4, <2>5 DEF IdsAreKeys
<1> QED BY <1>7, <1>11, <1>12, <1>13, <1>14 DEF ClientInv, d

(* Observing an online client where it was touches no history row. *)
LEMMA ObserveInPlace ==
    ASSUME NEW c, ClientInv(c), IsOnline(c), NEW at \in Nat, NEW now \in Nat
    PROVE  LET d == Observe(c, at, c.device.parent, now)
           IN  /\ d.sessions = c.sessions
               /\ ClientInv(d)
<1> DEFINE d == Observe(c, at, c.device.parent, now)
<1>1. PICK a \in c.sessions :
        OpenSessions(c) = {a} /\ ActiveSession(c) = {a} /\ a.last = c.device.parent
  BY OnlineRows
<1>2. ~Opens(c) /\ ~Moved(c, c.device.parent)
  BY <1>1 DEF Opens, Moved
<1>3. a \in SessionRow
  BY DEF ClientInv, ClientRows
<1>4. [a EXCEPT !.last = c.device.parent] = a
  BY <1>1, <1>3 DEF SessionRow
<1>5. d.sessions = c.sessions
  <2>1. d.sessions = {IF s \in {a} THEN [s EXCEPT !.last = c.device.parent] ELSE s :
                        s \in c.sessions}
    BY <1>1, <1>2 DEF Observe, ObservedSessions
  <2>2. \A s \in c.sessions :
          (IF s \in {a} THEN [s EXCEPT !.last = c.device.parent] ELSE s) = s
    BY <1>4
  <2> QED BY <2>1, <2>2
<1>6. /\ d.segments = c.segments
      /\ d.events = c.events
      /\ d.lastId = c.lastId
      /\ d.device = [c.device EXCEPT !.lastSeen = at]
      /\ d = [device |-> d.device, sessions |-> d.sessions, segments |-> d.segments,
              events |-> d.events, lastId |-> d.lastId]
  <2>1. c.device \in DeviceRow /\ c.device # NULL /\ c.device.online
    BY DEF IsOnline, ClientInv, ClientRows
  <2>2. d.device = [c.device EXCEPT !.lastSeen = at]
    BY <2>1 DEF Observe, ObservedDevice, DeviceRow
  <2> QED BY <1>2, <2>2 DEF Observe, ObservedSegments, ObservedEvents
<1>7. d.device \in DeviceRow /\ d.device.online /\ d.device.parent = c.device.parent
  BY <1>6 DEF IsOnline, ClientInv, ClientRows, DeviceRow
<1> HIDE DEF d
<1>8. IsOnline(d)
  BY <1>7, RowAssumption DEF IsOnline
<1>9. d \in ClientRows
  BY <1>5, <1>6, <1>7 DEF ClientInv, ClientRows
<1>10. OpenSessions(d) = OpenSessions(c)
  BY <1>5 DEF OpenSessions
<1>11. \A s : OpenSegments(d, s) = OpenSegments(c, s)
  BY <1>6 DEF OpenSegments, SegmentsOf
<1>12. OneOpenSession(d)
  BY <1>5, <1>7, <1>8, <1>10 DEF ClientInv, OneOpenSession
<1>13. OneOpenSegment(d)
  BY <1>5, <1>6, <1>11 DEF ClientInv, OneOpenSegment
<1>14. NoOrphanRow(d)
  BY <1>5, <1>6, <1>7, RowAssumption DEF ClientInv, NoOrphanRow
<1>15. IdsAreKeys(d)
  BY <1>5, <1>6 DEF ClientInv, IdsAreKeys
<1> QED BY <1>5, <1>9, <1>12, <1>13, <1>14, <1>15 DEF ClientInv, d

(* The sessions of a client with b in the place of a. *)
Rewritten(c, a, b) == {IF s = a THEN b ELSE s : s \in c.sessions}

(* Rewriting the one open session of a client keeps the other rows. *)
LEMMA RewrittenSessions ==
    ASSUME NEW c, ClientInv(c), NEW a \in c.sessions, NEW b \in SessionRow,
           b.id = a.id,
           \A t \in c.sessions : t.end = NULL => t = a
    PROVE  /\ Rewritten(c, a, b) \subseteq SessionRow
           /\ b \in Rewritten(c, a, b)
           /\ \A x \in Rewritten(c, a, b) :
                 x = b \/ (x \in c.sessions /\ x # a /\ x.end # NULL)
           /\ \A s \in c.sessions : \E x \in Rewritten(c, a, b) : x.id = s.id
           /\ \A x \in Rewritten(c, a, b) : \E s \in c.sessions : x.id = s.id
           /\ \A x, y \in Rewritten(c, a, b) : x.id = y.id => x = y
<1> DEFINE S == Rewritten(c, a, b)
<1>1. \A s, t \in c.sessions : s.id = t.id => s = t
  BY DEF ClientInv, IdsAreKeys
<1>2. \A x \in S : x = b \/ (x \in c.sessions /\ x # a)
  BY DEF Rewritten
<1>3. \A s \in c.sessions : s # a => s \in S
  BY DEF Rewritten
<1>4. b \in S
  BY DEF Rewritten
<1>5. S \subseteq SessionRow
  BY <1>2 DEF ClientInv, ClientRows
<1> HIDE DEF S
<1>6. \A x, y \in S : x.id = y.id => x = y
  BY <1>1, <1>2
<1>7. \A s \in c.sessions : \E x \in S : x.id = s.id
  BY <1>3, <1>4
<1>8. \A x \in S : \E s \in c.sessions : x.id = s.id
  BY <1>2
<1>9. \A x \in S : x = b \/ (x \in c.sessions /\ x # a /\ x.end # NULL)
  BY <1>2
<1> QED BY <1>4, <1>5, <1>6, <1>7, <1>8, <1>9 DEF S

(* Observing an online client elsewhere closes its segment and opens the     *)
(* next one in the same session (service.py:312-345).                        *)
LEMMA ObserveMoved ==
    ASSUME NEW c, ClientInv(c), IsOnline(c), NEW at \in Nat,
           NEW parent \in Parents, parent # c.device.parent, NEW now \in Nat
    PROVE  ClientInv(Observe(c, at, parent, now))
<1> DEFINE d == Observe(c, at, parent, now)
<1>1. PICK a \in c.sessions, g \in c.segments :
         /\ OpenSessions(c) = {a} /\ ActiveSession(c) = {a}
         /\ a.end = NULL /\ a.last = c.device.parent
         /\ CurrentSegment(c) = {g}
         /\ g.left = NULL /\ g.session = a.id
         /\ \A t \in c.sessions : t.end = NULL => t = a
         /\ \A h \in c.segments : h.left = NULL => h = g
  BY OnlineRows
<1> DEFINE b == [a EXCEPT !.last = parent]
           ng == [id |-> c.lastId + 2, session |-> a.id, node |-> parent,
                  entered |-> at, left |-> NULL]
           ne == [id |-> c.lastId + 1, kind |-> "LOCATION_CHANGE", at |-> now]
<1>2. ~Opens(c) /\ Moved(c, parent)
  BY <1>1 DEF Opens, Moved
<1>3. c.lastId \in Nat
  BY DEF ClientInv, ClientRows
<1>4. SessionId(c) = a.id
  BY <1>1, <1>2 DEF SessionId
<1>5. /\ d.sessions = Rewritten(c, a, b)
      /\ d.segments = EndSegment(c, at) \cup {ng}
      /\ d.events = c.events \cup {ne}
      /\ d.lastId = c.lastId + 2
      /\ d.device = ObservedDevice(c, at, parent)
      /\ d = [device |-> d.device, sessions |-> d.sessions, segments |-> d.segments,
              events |-> d.events, lastId |-> d.lastId]
  <2>1. d.sessions = Rewritten(c, a, b)
    <3>1. d.sessions = {IF s \in {a} THEN [s EXCEPT !.last = parent] ELSE s :
                          s \in c.sessions}
      BY <1>1, <1>2 DEF Observe, ObservedSessions
    <3>2. \A s \in c.sessions : (IF s \in {a} THEN [s EXCEPT !.last = parent] ELSE s)
                              = (IF s = a THEN b ELSE s)
      OBVIOUS
    <3> QED BY <3>1, <3>2 DEF Rewritten
  <2>2. d.segments = EndSegment(c, at) \cup {ng}
    <3>1. NewSegment(c, NewId(c) + 1, at, parent) = ng
      BY <1>3, <1>4 DEF NewSegment, NewId
    <3> QED BY <1>2, <3>1 DEF Observe, ObservedSegments
  <2>3. d.events = c.events \cup {ne} /\ d.lastId = c.lastId + 2
    BY <1>2, <1>3 DEF Observe, ObservedEvents, NewId
  <2> QED BY <2>1, <2>2, <2>3 DEF Observe
<1>6. d.device \in DeviceRow /\ d.device.online /\ d.device.parent = parent
  <2>1. c.device \in DeviceRow /\ c.device # NULL
    BY DEF IsOnline, ClientInv, ClientRows
  <2> QED BY <1>5, <2>1 DEF ObservedDevice, DeviceRow
<1>7. a \in SessionRow
  BY DEF ClientInv, ClientRows
<1>8. b \in SessionRow /\ b.id = a.id /\ b.end = NULL /\ b.last = parent /\ b.id \in Nat
  BY <1>1, <1>7 DEF SessionRow
<1>9. /\ ng \in SegmentRow /\ ne \in EventRow
      /\ ng.id = c.lastId + 2 /\ ng.session = a.id /\ ng.left = NULL /\ ng.node = parent
      /\ ne.id = c.lastId + 1
  BY <1>3, <1>8 DEF SegmentRow, EventRow, Instants
<1> HIDE DEF d, b, ng, ne
<1>10. /\ d.sessions \subseteq SessionRow
       /\ b \in d.sessions
       /\ \A x \in d.sessions : x = b \/ (x \in c.sessions /\ x # a /\ x.end # NULL)
       /\ \A s \in c.sessions : \E x \in d.sessions : x.id = s.id
       /\ \A x \in d.sessions : \E s \in c.sessions : x.id = s.id
       /\ \A x, y \in d.sessions : x.id = y.id => x = y
  BY <1>1, <1>5, <1>8, RewrittenSessions
<1>11. /\ EndSegment(c, at) \subseteq SegmentRow
       /\ \A x \in EndSegment(c, at) : x.left # NULL
       /\ \A x \in EndSegment(c, at) :
             \E h \in c.segments : x.id = h.id /\ x.session = h.session
       /\ \A x, y \in EndSegment(c, at) : x.id = y.id => x = y
  BY <1>1, EndedSegments
<1>12. /\ \A r \in c.sessions \cup c.segments \cup c.events :
             r.id <= c.lastId /\ r.id \in Nat
       /\ \A e, f \in c.events : e.id = f.id => e = f
       /\ \A h \in c.segments : \E s \in c.sessions : h.session = s.id
  BY DEF ClientInv, ClientRows, IdsAreKeys, NoOrphanRow, SessionRow, SegmentRow, EventRow
<1>13. d \in ClientRows
  BY <1>3, <1>5, <1>6, <1>9, <1>10, <1>11 DEF ClientInv, ClientRows
<1>14. IsOnline(d)
  BY <1>6, RowAssumption DEF IsOnline
<1>15. OneOpenSession(d)
  <2>1. OpenSessions(d) = {b}
    BY <1>8, <1>10 DEF OpenSessions
  <2> QED BY <1>6, <1>8, <1>10, <1>14, <2>1 DEF OneOpenSession
<1>16. OneOpenSegment(d)
  <2>1. \A h \in d.segments : h.left = NULL => h = ng
    BY <1>5, <1>11
  <2>2. OpenSegments(d, b) = {ng}
    BY <1>5, <1>8, <1>9, <2>1 DEF OpenSegments, SegmentsOf
  <2>3. ASSUME NEW s \in d.sessions, s # b PROVE OpenSegments(d, s) = {} /\ s.end # NULL
    <3>1. s.id # ng.session
      BY <1>8, <1>9, <1>10, <2>3
    <3> QED BY <1>10, <2>1, <2>3, <3>1 DEF OpenSegments, SegmentsOf
  <2> QED BY <1>5, <1>8, <1>9, <2>2, <2>3 DEF OneOpenSegment
<1>17. NoOrphanRow(d)
  <2>1. ASSUME NEW x \in d.segments PROVE \E s \in d.sessions : x.session = s.id
    <3>1. CASE x = ng
      BY <1>8, <1>9, <1>10, <3>1
    <3>2. CASE x \in EndSegment(c, at)
      BY <1>10, <1>11, <1>12, <3>2
    <3> QED BY <1>5, <3>1, <3>2
  <2> QED BY <1>6, <2>1, RowAssumption DEF NoOrphanRow
<1>18. IdsAreKeys(d)
  <2>1. \A r \in d.sessions : r.id <= c.lastId + 2
    BY <1>3, <1>10, <1>12
  <2>2. \A r \in EndSegment(c, at) : r.id <= c.lastId /\ r.id \in Nat
    BY <1>11, <1>12
  <2>3. \A r \in d.segments : r.id <= c.lastId + 2
    BY <1>3, <1>5, <1>9, <2>2
  <2>4. \A r \in d.events : r.id <= c.lastId + 2
    BY <1>3, <1>5, <1>9, <1>12
  <2>5. \A x, y \in d.segments : x.id = y.id => x = y
    BY <1>3, <1>5, <1>9, <1>11, <2>2
  <2>6. \A x, y \in d.events : x.id = y.id => x = y
    BY <1>3, <1>5, <1>9, <1>12
  <2> QED BY <1>5, <1>10, <2>1, <2>3, <2>4, <2>5, <2>6 DEF IdsAreKeys
<1> QED BY <1>13, <1>15, <1>16, <1>17, <1>18 DEF ClientInv, d

(* The device loop as a whole. *)
LEMMA ObservePreserves ==
    ASSUME NEW c, ClientInv(c), NEW at \in Nat, NEW parent \in Parents, NEW now \in Nat
    PROVE  ClientInv(Observe(c, at, parent, now))
BY ObserveNotOnline, ObserveInPlace, ObserveMoved

-----------------------------------------------------------------------------
(* The offline loop and the cleanup preserve the invariant of a client *)

(* Confirming an online client offline ends its session and its segment      *)
(* (service.py:372-413).                                                     *)
LEMMA ConfirmPreserves ==
    ASSUME NEW c, ClientInv(c), IsOnline(c), NEW now \in Nat
    PROVE  ClientInv(ConfirmOffline(c, now))
<1> DEFINE d == ConfirmOffline(c, now)
           end == OfflineAt(c)
<1>1. PICK a \in c.sessions, g \in c.segments :
         /\ OpenSessions(c) = {a} /\ ActiveSession(c) = {a}
         /\ CurrentSegment(c) = {g}
         /\ \A t \in c.sessions : t.end = NULL => t = a
         /\ \A h \in c.segments : h.left = NULL => h = g
  BY OnlineRows
<1> DEFINE b == [a EXCEPT !.end = end]
           ne == [id |-> c.lastId + 1, kind |-> "OFFLINE", at |-> now]
<1>2. c.lastId \in Nat
  BY DEF ClientInv, ClientRows
<1>3. c.device \in DeviceRow /\ c.device # NULL
  BY DEF IsOnline, ClientInv, ClientRows
<1>4. end \in Nat /\ end # NULL
  BY <1>3, NullAssumption, TimeAssumption DEF OfflineAt, DeviceRow
<1>5. /\ d.sessions = Rewritten(c, a, b)
      /\ d.segments = EndSegment(c, end)
      /\ d.events = c.events \cup {ne}
      /\ d.lastId = c.lastId + 1
      /\ d.device = [c.device EXCEPT !.online = FALSE, !.lastOffline = end]
      /\ d = [device |-> d.device, sessions |-> d.sessions, segments |-> d.segments,
              events |-> d.events, lastId |-> d.lastId]
  <2>1. d.sessions = Rewritten(c, a, b)
    <3>1. d.sessions = {IF s \in {a} THEN [s EXCEPT !.end = end] ELSE s :
                          s \in c.sessions}
      BY <1>1 DEF ConfirmOffline
    <3>2. \A s \in c.sessions : (IF s \in {a} THEN [s EXCEPT !.end = end] ELSE s)
                              = (IF s = a THEN b ELSE s)
      OBVIOUS
    <3> QED BY <3>1, <3>2 DEF Rewritten
  <2> QED BY <2>1 DEF ConfirmOffline, NewId
<1>6. d.device \in DeviceRow /\ ~d.device.online
  BY <1>3, <1>4, <1>5 DEF DeviceRow, Instants
<1>7. a \in SessionRow
  BY DEF ClientInv, ClientRows
<1>8. b \in SessionRow /\ b.id = a.id /\ b.end # NULL /\ b.id \in Nat
  BY <1>4, <1>7 DEF SessionRow, Instants
<1>9. ne \in EventRow /\ ne.id = c.lastId + 1
  BY <1>2 DEF EventRow
<1> HIDE DEF d, b, ne, end
<1>10. /\ d.sessions \subseteq SessionRow
       /\ \A x \in d.sessions : x = b \/ (x \in c.sessions /\ x # a /\ x.end # NULL)
       /\ \A s \in c.sessions : \E x \in d.sessions : x.id = s.id
       /\ \A x \in d.sessions : \E s \in c.sessions : x.id = s.id
       /\ \A x, y \in d.sessions : x.id = y.id => x = y
  BY <1>1, <1>5, <1>8, RewrittenSessions
<1>11. /\ d.segments \subseteq SegmentRow
       /\ \A x \in d.segments : x.left # NULL
       /\ \A x \in d.segments : \E h \in c.segments : x.id = h.id /\ x.session = h.session
       /\ \A x, y \in d.segments : x.id = y.id => x = y
  BY <1>1, <1>4, <1>5, EndedSegments
<1>12. /\ \A r \in c.sessions \cup c.segments \cup c.events :
             r.id <= c.lastId /\ r.id \in Nat
       /\ \A e, f \in c.events : e.id = f.id => e = f
       /\ \A h \in c.segments : \E s \in c.sessions : h.session = s.id
  BY DEF ClientInv, ClientRows, IdsAreKeys, NoOrphanRow, SessionRow, SegmentRow, EventRow
<1>13. d \in ClientRows
  BY <1>2, <1>5, <1>6, <1>9, <1>10, <1>11 DEF ClientInv, ClientRows
<1>14. ~IsOnline(d)
  BY <1>6 DEF IsOnline
<1>15. OneOpenSession(d)
  BY <1>8, <1>10, <1>14 DEF OneOpenSession, OpenSessions
<1>16. OneOpenSegment(d)
  BY <1>8, <1>10, <1>11 DEF OneOpenSegment, OpenSegments, SegmentsOf
<1>17. NoOrphanRow(d)
  <2>1. ASSUME NEW x \in d.segments PROVE \E s \in d.sessions : x.session = s.id
    BY <1>10, <1>11, <1>12
  <2> QED BY <1>6, <2>1, RowAssumption DEF NoOrphanRow
<1>18. IdsAreKeys(d)
  <2>1. \A r \in d.sessions : r.id <= c.lastId + 1
    BY <1>2, <1>10, <1>12
  <2>2. \A r \in d.segments : r.id <= c.lastId + 1
    BY <1>2, <1>11, <1>12
  <2>3. \A r \in d.events : r.id <= c.lastId + 1
    BY <1>2, <1>5, <1>9, <1>12
  <2>4. \A x, y \in d.events : x.id = y.id => x = y
    BY <1>2, <1>5, <1>9, <1>12
  <2> QED BY <1>5, <1>10, <1>11, <2>1, <2>2, <2>3, <2>4 DEF IdsAreKeys
<1> QED BY <1>13, <1>15, <1>16, <1>17, <1>18 DEF ClientInv, d

(* Deleting what has expired takes whole sessions, and no open one           *)
(* (service.py:73-117).                                                      *)
LEMMA ExpirePreserves ==
    ASSUME NEW c, ClientInv(c), NEW at \in Nat
    PROVE  ClientInv(Expire(c, at)) /\ Expire(c, at).device = c.device
<1> DEFINE d == Expire(c, at)
           old == ExpiredSessions(c, at)
<1>1. /\ d.sessions = c.sessions \ old
      /\ d.segments = {g \in c.segments : \A s \in old : g.session # s.id}
      /\ d.events \subseteq c.events
      /\ d.device = c.device
      /\ d.lastId = c.lastId
      /\ d \in ClientRows
  BY DEF Expire, ClientInv, ClientRows
<1>2. old \subseteq c.sessions /\ \A s \in old : s.end # NULL
  BY DEF ExpiredSessions
<1>3. \A s, t \in c.sessions : s.id = t.id => s = t
  BY DEF ClientInv, IdsAreKeys
<1> HIDE DEF d, old
<1>4. IsOnline(d) = IsOnline(c)
  BY <1>1 DEF IsOnline
<1>5. OpenSessions(d) = OpenSessions(c)
  BY <1>1, <1>2 DEF OpenSessions
<1>6. ASSUME NEW s \in d.sessions PROVE OpenSegments(d, s) = OpenSegments(c, s)
  <2>1. s \in c.sessions /\ \A t \in old : t.id # s.id
    BY <1>1, <1>2, <1>3
  <2> QED BY <1>1, <2>1 DEF OpenSegments, SegmentsOf
<1>7. OneOpenSession(d)
  <2>1. CASE IsOnline(c)
    <3>1. PICK s \in c.sessions : OpenSessions(c) = {s} /\ s.last = c.device.parent
      BY <2>1 DEF ClientInv, OneOpenSession
    <3>2. s \in d.sessions
      BY <1>1, <1>2, <3>1 DEF OpenSessions
    <3> QED BY <1>1, <1>4, <1>5, <2>1, <3>1, <3>2 DEF OneOpenSession
  <2>2. CASE ~IsOnline(c)
    BY <1>4, <1>5, <2>2 DEF ClientInv, OneOpenSession
  <2> QED BY <2>1, <2>2
<1>8. OneOpenSegment(d)
  <2>1. ASSUME NEW s \in d.sessions, s.end = NULL
        PROVE \E g \in d.segments : OpenSegments(d, s) = {g} /\ g.node = s.last
    <3>1. PICK g \in c.segments : OpenSegments(c, s) = {g} /\ g.node = s.last
      BY <1>1, <2>1 DEF ClientInv, OneOpenSegment
    <3>2. g \in OpenSegments(d, s)
      BY <1>6, <3>1
    <3>3. g \in d.segments
      BY <3>2 DEF OpenSegments, SegmentsOf
    <3> QED BY <1>6, <3>1, <3>3
  <2>2. ASSUME NEW s \in d.sessions, s.end # NULL PROVE OpenSegments(d, s) = {}
    BY <1>1, <1>6, <2>2 DEF ClientInv, OneOpenSegment
  <2> QED BY <2>1, <2>2 DEF OneOpenSegment
<1>9. NoOrphanRow(d)
  <2>1. ASSUME NEW g \in d.segments PROVE \E s \in d.sessions : g.session = s.id
    BY <1>1 DEF ClientInv, NoOrphanRow
  <2>2. c.device = NULL => d.sessions = {} /\ d.segments = {} /\ d.events = {}
    BY <1>1 DEF ClientInv, NoOrphanRow
  <2> QED BY <1>1, <2>1, <2>2 DEF NoOrphanRow
<1>10. IdsAreKeys(d)
  BY <1>1 DEF ClientInv, IdsAreKeys
<1> QED BY <1>1, <1>7, <1>8, <1>9, <1>10 DEF ClientInv, d

(* A client without rows satisfies the invariant. *)
LEMMA NoRowsInv == ASSUME NEW id \in Nat PROVE ClientInv(NoRows(id))
BY DEF NoRows, ClientInv, ClientRows, OneOpenSession, OneOpenSegment, NoOrphanRow,
       IdsAreKeys, OpenSessions, OpenSegments, SegmentsOf, IsOnline

(* What one snapshot does to one client: the device loop, then the cleanup   *)
(* if it is due, then the offline loop (service.py:153-426).                 *)
LEMMA UpdatePreserves ==
    ASSUME NEW c, ClientInv(c), NEW m \in Macs, NEW s \in Snapshots, clock \in Nat
    PROVE  ClientInv(UpdateClient(c, m, s))
<1>1. /\ s.at \in Nat
      /\ \A k \in DOMAIN s.devices : s.devices[k] \in Parents
  <2>1. s.at \in 0..clock
    BY DEF Snapshots
  <2>2. s.nodes \in Topologies
    BY DEF Snapshots
  <2>3. \A k \in DOMAIN s.devices : s.devices[k] \in s.nodes \cup {NULL}
    BY DEF Snapshots
  <2> QED BY <2>1, <2>2, <2>3, TopologyAssumption DEF Parents
<1> DEFINE seen == Observed(c, m, s)
           kept == IF CleanupDue THEN CleanUp(seen, s.at) ELSE seen
<1>2. ClientInv(seen)
  BY <1>1, ObservePreserves DEF Observed
<1>3. ASSUME NEW x, ClientInv(x)
      PROVE  ClientInv(CleanUp(x, s.at)) /\ (IsOnline(x) => IsOnline(CleanUp(x, s.at)))
  <2>1. x.lastId \in Nat
    BY <1>3 DEF ClientInv, ClientRows
  <2>2. CASE Stale(x, s.at)
    BY <2>1, <2>2, NoRowsInv DEF CleanUp, Stale, IsOnline
  <2>3. CASE ~Stale(x, s.at)
    BY <1>1, <1>3, <2>3, ExpirePreserves DEF CleanUp, IsOnline
  <2> QED BY <2>2, <2>3
<1>4. ClientInv(kept) /\ (IsOnline(seen) => IsOnline(kept))
  BY <1>2, <1>3
<1>5. CASE s.complete /\ m \notin DOMAIN s.devices /\ ConfirmedAbsent(c, s.at)
  <2>1. seen = c /\ IsOnline(c)
    BY <1>5 DEF Observed, ConfirmedAbsent
  <2>2. ClientInv(ConfirmOffline(kept, clock))
    BY <1>4, <2>1, ConfirmPreserves
  <2> QED BY <1>5, <2>2 DEF UpdateClient
<1>6. CASE ~(s.complete /\ m \notin DOMAIN s.devices /\ ConfirmedAbsent(c, s.at))
  BY <1>4, <1>6 DEF UpdateClient
<1> QED BY <1>5, <1>6

-----------------------------------------------------------------------------
(* The inductive invariant of the specification *)

IInv == TypeOK /\ \A m \in Macs : ClientInv(clients[m])

LEMMA InitIInv == Init => IInv
<1> SUFFICES ASSUME Init PROVE IInv
  OBVIOUS
<1>1. \A m \in Macs : clients[m] = NoRows(0)
  BY DEF Init
<1>2. \A m \in Macs : ClientInv(clients[m])
  BY <1>1, NoRowsInv
<1>3. clients \in [Macs -> ClientRows]
  BY <1>2 DEF Init, ClientInv
<1>4. TypeOK
  BY <1>3, TimeAssumption DEF Init, TypeOK
<1> QED BY <1>2, <1>4 DEF IInv

(* The node rows keep their type through a snapshot (service.py:163-185). *)
LEMMA UpdateNodeType ==
    ASSUME NEW row \in NodeRow \cup {NULL}, NEW listed \in BOOLEAN,
           NEW complete \in BOOLEAN, NEW at \in Nat
    PROVE  UpdateNode(row, listed, complete, at) \in NodeRow \cup {NULL}
<1>1. CASE row = NULL
  BY <1>1 DEF UpdateNode, NodeRow, Instants
<1>2. CASE row \in NodeRow
  BY <1>2 DEF UpdateNode, NodeRow, Instants
<1> QED BY <1>1, <1>2

LEMMA SnapshotIInv ==
    ASSUME IInv, NEW s \in Snapshots, ProcessSnapshot(s)
    PROVE  IInv'
<1>1. clock \in Nat /\ clock' = clock
  BY DEF IInv, TypeOK, ProcessSnapshot
<1>2. s.at \in 0..clock /\ s.complete \in BOOLEAN
  BY DEF Snapshots
<1>3. ASSUME NEW m \in Macs PROVE ClientInv(clients'[m])
  <2>1. ClientInv(clients[m])
    BY DEF IInv
  <2>2. clients'[m] = UpdateClient(clients[m], m, s)
    BY DEF ProcessSnapshot
  <2> QED BY <1>1, <2>1, <2>2, UpdatePreserves
<1>4. clients' \in [Macs -> ClientRows]
  BY <1>3 DEF ProcessSnapshot, ClientInv
<1>5. nodes' \in [Nodes -> NodeRow \cup {NULL}]
  <2>1. ASSUME NEW n \in Nodes
        PROVE UpdateNode(nodes[n], n \in s.nodes, s.complete, s.at) \in NodeRow \cup {NULL}
    <3>1. nodes[n] \in NodeRow \cup {NULL}
      BY DEF IInv, TypeOK
    <3>2. s.at \in Nat
      BY <1>1, <1>2
    <3>3. (n \in s.nodes) \in BOOLEAN
      OBVIOUS
    <3> QED BY <1>2, <3>1, <3>2, <3>3, UpdateNodeType
  <2> QED BY <2>1 DEF ProcessSnapshot
<1>6. aliases' \subseteq Macs /\ naming' \subseteq Macs
  BY DEF IInv, TypeOK, ProcessSnapshot
<1>7. processed' \subseteq 0..clock
  BY <1>2 DEF IInv, TypeOK, ProcessSnapshot
<1>8. lastCleanup' \in 0..(clock + Uptime)
  BY <1>1, TimeAssumption DEF IInv, TypeOK, ProcessSnapshot
<1>9. TypeOK'
  BY <1>1, <1>4, <1>5, <1>6, <1>7, <1>8 DEF TypeOK
<1> QED BY <1>3, <1>9 DEF IInv

(* Starring changes no row but the device's, and there nothing the           *)
(* invariant relates to another row (main.py:643-664).                       *)
LEMMA StarIInv ==
    ASSUME IInv, NEW m \in Macs, NEW starred \in BOOLEAN, StarClient(m, starred)
    PROVE  IInv'
<1> DEFINE c == clients[m]
           d == [c EXCEPT !.device.starred = starred]
<1>1. ClientInv(c) /\ c.device \in DeviceRow
  BY DEF IInv, ClientInv, ClientRows, StarClient
<1>2. clients' = [clients EXCEPT ![m] = d]
  BY DEF StarClient
<1>3. /\ d.sessions = c.sessions /\ d.segments = c.segments /\ d.events = c.events
      /\ d.lastId = c.lastId
      /\ d.device = [c.device EXCEPT !.starred = starred]
      /\ d = [device |-> d.device, sessions |-> d.sessions, segments |-> d.segments,
              events |-> d.events, lastId |-> d.lastId]
  BY <1>1 DEF ClientInv, ClientRows
<1>4. /\ d.device \in DeviceRow
      /\ d.device.online = c.device.online /\ d.device.parent = c.device.parent
  BY <1>1, <1>3 DEF DeviceRow
<1>5. ClientInv(d)
  <2> HIDE DEF d
  <2>1. IsOnline(d) = IsOnline(c)
    BY <1>1, <1>4, RowAssumption DEF IsOnline
  <2>2. OpenSessions(d) = OpenSessions(c)
    BY <1>3 DEF OpenSessions
  <2>3. \A s : OpenSegments(d, s) = OpenSegments(c, s)
    BY <1>3 DEF OpenSegments, SegmentsOf
  <2>4. d \in ClientRows
    BY <1>1, <1>3, <1>4 DEF ClientInv, ClientRows
  <2>5. OneOpenSession(d)
    BY <1>1, <1>3, <1>4, <2>1, <2>2 DEF ClientInv, OneOpenSession
  <2>6. OneOpenSegment(d)
    BY <1>1, <1>3, <2>3 DEF ClientInv, OneOpenSegment
  <2>7. NoOrphanRow(d)
    BY <1>1, <1>3, <1>4, RowAssumption DEF ClientInv, NoOrphanRow
  <2>8. IdsAreKeys(d)
    BY <1>1, <1>3 DEF ClientInv, IdsAreKeys
  <2> QED BY <2>4, <2>5, <2>6, <2>7, <2>8 DEF ClientInv
<1> HIDE DEF d
<1>6. ASSUME NEW k \in Macs PROVE ClientInv(clients'[k])
  <2>1. clients'[k] = IF k = m THEN d ELSE clients[k]
    BY <1>2 DEF IInv, TypeOK
  <2> QED BY <1>5, <2>1 DEF IInv
<1>7. TypeOK'
  BY <1>2, <1>5 DEF IInv, TypeOK, StarClient, ClientInv
<1> QED BY <1>6, <1>7 DEF IInv

LEMMA NextIInv == IInv /\ [Next]_vars => IInv'
<1> SUFFICES ASSUME IInv, [Next]_vars PROVE IInv'
  OBVIOUS
<1>1. CASE Tick
  BY <1>1, TimeAssumption DEF IInv, TypeOK, Tick
<1>2. ASSUME NEW s \in Snapshots, ProcessSnapshot(s) PROVE IInv'
  BY <1>2, SnapshotIInv
<1>3. ASSUME NEW m \in Touched, NEW starred \in BOOLEAN, StarClient(m, starred)
      PROVE IInv'
  BY <1>3, StarIInv, TouchedAssumption
<1>4. ASSUME NEW m \in Touched, AliasRead(m) \/ AliasWrite(m) \/ AliasClear(m)
      PROVE IInv'
  BY <1>4, TouchedAssumption DEF IInv, TypeOK, AliasRead, AliasWrite, AliasClear
<1>5. CASE Restart
  BY <1>5, TimeAssumption DEF IInv, TypeOK, Restart
<1>6. CASE UNCHANGED vars
  BY <1>6 DEF IInv, TypeOK, vars
<1> QED BY <1>1, <1>2, <1>3, <1>4, <1>5, <1>6 DEF Next, Otherwise

LEMMA InvariantHolds == Spec => []IInv
BY InitIInv, NextIInv, PTL DEF Spec

(* Every table always holds rows of its type, and nothing is dated in the    *)
(* future (db/models.py, service.py).                                        *)
THEOREM TypeCorrect == Spec => []TypeOK
BY InvariantHolds, PTL DEF IInv

(* However snapshots are ordered, delayed, incomplete or interleaved with    *)
(* restarts and operators, a client is shown online exactly when it has one  *)
(* open session with one open segment at its parent (service.py:153-432).    *)
THEOREM PresenceIsSound == Spec => []PresenceMatchesHistory
<1>1. IInv => PresenceMatchesHistory
  BY DEF IInv, ClientInv, PresenceMatchesHistory
<1> QED BY <1>1, InvariantHolds, PTL

(* No cleanup leaves an orphan row, and ids stay keys (service.py:73-150). *)
THEOREM HistoryStaysWhole == Spec => []HistoryIsWhole
<1>1. IInv => HistoryIsWhole
  BY DEF IInv, ClientInv, HistoryIsWhole
<1> QED BY <1>1, InvariantHolds, PTL

-----------------------------------------------------------------------------
(* From here on, what relates the rows of a client to each other's past: its *)
(* sessions, its event log, its timestamps and its parent nodes.  It rests   *)
(* on IInv, which says what rows a client has now.  Deleting old rows takes  *)
(* the oldest ones, sessions by their end, events by their date; so the      *)
(* invariants add that ends and dates go with ids, of sessions if snapshots  *)
(* are in order (InOrder).                                                   *)

(* When the sessions of a client were, k being the time now. *)
TimeInv(c, k) ==
    /\ IsOnline(c) => \A s \in OpenSessions(c) : s.start = c.device.lastOnline
    /\ c.device # NULL /\ ~IsOnline(c) =>
          c.device.lastOffline = c.device.lastSeen + OfflineConfirmation
    /\ InOrder =>
          /\ c.device # NULL =>
                c.device.lastOnline <= c.device.lastSeen /\ c.device.lastSeen <= k
          /\ \A s \in c.sessions :
                s.end # NULL => s.start + OfflineConfirmation <= s.end /\ s.end < k
          /\ \A s, t \in c.sessions : s.id < t.id => s.end # NULL /\ s.end < t.start
          /\ c.device # NULL /\ ~IsOnline(c) =>
                \A s \in Latest(c.sessions) : s.end = c.device.lastOffline

Adjacent(log, e, f) == e.id < f.id /\ ~\E x \in log : e.id < x.id /\ x.id < f.id

(* What the events of a client say, whether it is online or not. *)
LogInv(log, online, k) ==
    /\ \A e \in log : e.at <= k
    /\ \A e, f \in log : e.id < f.id => e.at <= f.at
    /\ \A e \in Latest(log) : (e.kind = "OFFLINE") = ~online
    /\ \A e, f \in log : Adjacent(log, e, f) => ((e.kind = "OFFLINE") = (f.kind = "ONLINE"))

-----------------------------------------------------------------------------
(* What a snapshot does to the sessions of a client *)

(* Observing a client leaves its sessions when they were; one that was not  *)
(* online gets a session from now on (service.py:241-310).                   *)
LEMMA ObservedRows ==
    ASSUME NEW c, ClientInv(c), NEW at \in Nat, NEW parent \in Parents, NEW now \in Nat
    PROVE  LET d == Observe(c, at, parent, now) IN
           /\ d.device \in DeviceRow /\ d.device.online /\ IsOnline(d)
           /\ d.device.lastSeen = at /\ d.device.parent = parent
           /\ d.device.lastOnline = IF IsOnline(c) THEN c.device.lastOnline ELSE at
           /\ d.device.starred <=> (c.device # NULL /\ c.device.starred)
           /\ IsOnline(c) => \A x \in d.sessions : \E s \in c.sessions :
                                x.id = s.id /\ x.start = s.start /\ x.end = s.end
                                /\ (s.end # NULL => x = s)
           /\ ~IsOnline(c) => \A x \in d.sessions :
                                \/ x \in c.sessions /\ x.end # NULL
                                \/ x.id = c.lastId + 1 /\ x.start = at /\ x.end = NULL
<1> DEFINE d == Observe(c, at, parent, now)
<1>1. d.device = ObservedDevice(c, at, parent) /\ d.sessions = ObservedSessions(c, at, parent)
  BY DEF Observe
<1>2. /\ d.device \in DeviceRow /\ d.device.online /\ d.device.lastSeen = at
      /\ d.device.parent = parent
      /\ d.device.lastOnline = IF IsOnline(c) THEN c.device.lastOnline ELSE at
      /\ d.device.starred <=> (c.device # NULL /\ c.device.starred)
  <2>1. CASE c.device = NULL
    <3>1. d.device = [online |-> TRUE, parent |-> parent, firstSeen |-> at, lastSeen |-> at,
                      lastOnline |-> at, lastOffline |-> NULL, starred |-> FALSE]
      BY <1>1, <2>1 DEF ObservedDevice
    <3>2. d.device \in DeviceRow /\ ~IsOnline(c)
      BY <2>1, <3>1 DEF DeviceRow, Instants, IsOnline
    <3>. QED
      BY <2>1, <3>1, <3>2
  <2>2. CASE c.device # NULL
    <3>1. c.device \in DeviceRow
      BY <2>2 DEF ClientInv, ClientRows
    <3>. QED
      BY <1>1, <2>2, <3>1 DEF ObservedDevice, IsOnline, DeviceRow
  <2>. QED
    BY <2>1, <2>2
<1>3. ASSUME IsOnline(c), NEW x \in d.sessions
      PROVE  \E s \in c.sessions : x.id = s.id /\ x.start = s.start /\ x.end = s.end
                                   /\ (s.end # NULL => x = s)
  <2>1. PICK a \in c.sessions : OpenSessions(c) = {a} /\ ActiveSession(c) = {a} /\ a.end = NULL
    BY <1>3, OnlineRows
  <2>2. a \in SessionRow
    BY DEF ClientInv, ClientRows
  <2>3. PICK s \in c.sessions : x = IF s \in {a} THEN [s EXCEPT !.last = parent] ELSE s
    BY <1>1, <1>3, <2>1 DEF ObservedSessions, Opens
  <2>. QED
    BY <2>1, <2>2, <2>3 DEF SessionRow
<1>4. ASSUME ~IsOnline(c), NEW x \in d.sessions
      PROVE  \/ x \in c.sessions /\ x.end # NULL
             \/ x.id = c.lastId + 1 /\ x.start = at /\ x.end = NULL
  <2>1. OpenSessions(c) = {} /\ \A s \in c.sessions : s.end # NULL
    BY <1>4, OfflineRows
  <2>. QED
    BY <1>1, <1>4, <2>1 DEF ObservedSessions, Opens, NewSession, NewId
<1>5. IsOnline(d)
  BY <1>2, RowAssumption DEF IsOnline
<1>. QED
  BY <1>2, <1>3, <1>4, <1>5

(* Confirming a client offline ends its open session, and no other          *)
(* (service.py:376-399).                                                     *)
LEMMA ConfirmedRows ==
    ASSUME NEW c, ClientInv(c), IsOnline(c), NEW now \in Nat
    PROVE  LET d == ConfirmOffline(c, now) IN
           /\ OfflineAt(c) \in Nat /\ OfflineAt(c) = c.device.lastSeen + OfflineConfirmation
           /\ d.device \in DeviceRow /\ ~d.device.online /\ ~IsOnline(d)
           /\ d.device.lastSeen = c.device.lastSeen /\ d.device.lastOffline = OfflineAt(c)
           /\ d.device.lastOnline = c.device.lastOnline /\ d.device.parent = c.device.parent
           /\ \E a \in c.sessions :
                 /\ OpenSessions(c) = {a}
                 /\ \A x \in d.sessions :
                       \/ /\ x.id = a.id /\ x.start = a.start
                          /\ x.end = OfflineAt(c) /\ x.last = a.last
                       \/ x \in c.sessions /\ x # a /\ x.end # NULL
                 /\ \E x \in d.sessions : x.id = a.id
                 /\ \A s \in c.sessions : s # a => s \in d.sessions
<1> DEFINE d == ConfirmOffline(c, now)
<1>1. c.device \in DeviceRow /\ c.device # NULL
  BY DEF IsOnline, ClientInv, ClientRows
<1>2. OfflineAt(c) \in Nat /\ OfflineAt(c) = c.device.lastSeen + OfflineConfirmation
  BY <1>1, TimeAssumption DEF OfflineAt, DeviceRow
<1>3. d.device = [c.device EXCEPT !.online = FALSE, !.lastOffline = OfflineAt(c)]
      /\ d.sessions = {IF s \in ActiveSession(c) THEN [s EXCEPT !.end = OfflineAt(c)] ELSE s :
                         s \in c.sessions}
  BY DEF ConfirmOffline
<1>4. /\ d.device \in DeviceRow /\ ~d.device.online
      /\ d.device.lastSeen = c.device.lastSeen /\ d.device.lastOffline = OfflineAt(c)
      /\ d.device.lastOnline = c.device.lastOnline /\ d.device.parent = c.device.parent
  BY <1>1, <1>2, <1>3 DEF DeviceRow, Instants
<1>5. PICK a \in c.sessions : OpenSessions(c) = {a} /\ ActiveSession(c) = {a}
                              /\ \A t \in c.sessions : t.end = NULL => t = a
  BY OnlineRows
<1>6. a \in SessionRow
  BY DEF ClientInv, ClientRows
<1> DEFINE Image(s) == IF s \in {a} THEN [s EXCEPT !.end = OfflineAt(c)] ELSE s
<1>7. /\ Image(a).id = a.id /\ Image(a).start = a.start /\ Image(a).last = a.last
      /\ Image(a).end = OfflineAt(c)
      /\ \A s \in c.sessions : s # a => Image(s) = s
  BY <1>6 DEF SessionRow
<1>8. d.sessions = {Image(s) : s \in c.sessions}
  BY <1>3, <1>5
<1>9. ~IsOnline(d)
  BY <1>4 DEF IsOnline
<1> HIDE DEF d, Image
<1>10. \A x \in d.sessions :
          \/ x.id = a.id /\ x.start = a.start /\ x.end = OfflineAt(c) /\ x.last = a.last
          \/ x \in c.sessions /\ x # a /\ x.end # NULL
  BY <1>5, <1>7, <1>8
<1>11. (\E x \in d.sessions : x.id = a.id) /\ \A s \in c.sessions : s # a => s \in d.sessions
  BY <1>7, <1>8
<1>. QED
  BY <1>2, <1>4, <1>5, <1>9, <1>10, <1>11 DEF d

-----------------------------------------------------------------------------
(* Times go with ids *)

(* What is known of the rows of a client, in numbers. *)
LEMMA RowTypes ==
    ASSUME NEW c, ClientInv(c)
    PROVE  /\ c.lastId \in Nat /\ c.device \in DeviceRow \cup {NULL}
           /\ c.device # NULL => c.device.lastSeen \in Nat /\ c.device.lastOnline \in Nat
           /\ \A s \in c.sessions : /\ s.id \in Nat /\ s.start \in Nat /\ s.id <= c.lastId
                                    /\ s.end # NULL => s.end \in Nat
           /\ \A s, t \in c.sessions : s.id = t.id => s = t
           /\ \A e \in c.events : e \in EventRow /\ e.id \in Nat /\ e.at \in Nat /\ e.id <= c.lastId
           /\ \A e, f \in c.events : e.id = f.id => e = f
  BY DEF ClientInv, ClientRows, DeviceRow, SessionRow, EventRow, Instants, IdsAreKeys

(* Observing a client keeps its times. *)
LEMMA ObserveTimes ==
    ASSUME NEW k \in Nat, NEW c, ClientInv(c), TimeInv(c, k),
           NEW at \in Nat, InOrder => at = k, NEW parent \in Parents, NEW now \in Nat
    PROVE  TimeInv(Observe(c, at, parent, now), k)
<1> DEFINE d == Observe(c, at, parent, now)
<1>1. ClientInv(d)
  BY ObservePreserves
<1>2. /\ d.device \in DeviceRow /\ d.device.online /\ IsOnline(d)
      /\ d.device.lastSeen = at
      /\ d.device.lastOnline = IF IsOnline(c) THEN c.device.lastOnline ELSE at
      /\ IsOnline(c) => \A x \in d.sessions : \E s \in c.sessions :
                           x.id = s.id /\ x.start = s.start /\ x.end = s.end
      /\ ~IsOnline(c) => \A x \in d.sessions :
                           \/ x \in c.sessions /\ x.end # NULL
                           \/ x.id = c.lastId + 1 /\ x.start = at /\ x.end = NULL
  BY ObservedRows
<1> SUFFICES TimeInv(d, k)
  OBVIOUS
<1> HIDE DEF d
<1>3. CASE IsOnline(c)
  <2>1. c.device # NULL /\ c.device.lastSeen \in Nat /\ c.device.lastOnline \in Nat
    BY <1>3, RowTypes DEF IsOnline
  <2>2. \A s \in OpenSessions(d) : s.start = d.device.lastOnline
    <3>1. \A s \in OpenSessions(c) : s.start = c.device.lastOnline
      BY <1>3 DEF TimeInv
    <3>. QED
      BY <1>2, <1>3, <3>1 DEF OpenSessions
  <2>3. CASE InOrder
    <3>1. d.device.lastOnline <= d.device.lastSeen /\ d.device.lastSeen <= k
      BY <1>2, <1>3, <2>1, <2>3 DEF TimeInv
    <3>2. \A x \in d.sessions :
             x.end # NULL => x.start + OfflineConfirmation <= x.end /\ x.end < k
      BY <1>2, <1>3, <2>3 DEF TimeInv
    <3>3. \A x, y \in d.sessions : x.id < y.id => x.end # NULL /\ x.end < y.start
      BY <1>2, <1>3, <2>3 DEF TimeInv
    <3>. QED
      BY <1>2, <2>2, <3>1, <3>2, <3>3 DEF TimeInv
  <2>. QED
    BY <1>2, <2>2, <2>3 DEF TimeInv
<1>4. CASE ~IsOnline(c)
  <2>1. \A s \in OpenSessions(d) : s.start = d.device.lastOnline
    BY <1>2, <1>4 DEF OpenSessions
  <2>2. CASE InOrder
    <3>1. d.device.lastOnline <= d.device.lastSeen /\ d.device.lastSeen <= k
      BY <1>2, <1>4, <2>2
    <3>2. \A x \in d.sessions :
             x.end # NULL => x.start + OfflineConfirmation <= x.end /\ x.end < k
      BY <1>2, <1>4, <2>2 DEF TimeInv
    <3>3. ASSUME NEW x \in d.sessions, NEW y \in d.sessions, x.id < y.id
          PROVE  x.end # NULL /\ x.end < y.start
      <4>1. c.lastId \in Nat /\ \A s \in c.sessions : s.id \in Nat /\ s.id <= c.lastId
        BY RowTypes
      <4>2. x \in c.sessions /\ x.end # NULL
        BY <1>2, <1>4, <3>3, <4>1
      <4>3. CASE y \in c.sessions
        BY <2>2, <3>3, <4>2, <4>3 DEF TimeInv
      <4>4. CASE y.start = at
        BY <2>2, <4>2, <4>4 DEF TimeInv
      <4>. QED
        BY <1>2, <1>4, <4>3, <4>4
    <3>. QED
      BY <1>2, <2>1, <3>1, <3>2, <3>3 DEF TimeInv
  <2>. QED
    BY <1>2, <2>1, <2>2 DEF TimeInv
<1>. QED
  BY <1>3, <1>4

(* Confirming a client offline keeps its times. *)
LEMMA ConfirmTimes ==
    ASSUME NEW k \in Nat, NEW c, ClientInv(c), TimeInv(c, k), IsOnline(c),
           OfflineAt(c) < k, NEW now \in Nat
    PROVE  TimeInv(ConfirmOffline(c, now), k)
<1> DEFINE d == ConfirmOffline(c, now)
           end == OfflineAt(c)
<1>1. /\ end \in Nat /\ end = c.device.lastSeen + OfflineConfirmation
      /\ d.device \in DeviceRow /\ ~IsOnline(d)
      /\ d.device.lastSeen = c.device.lastSeen /\ d.device.lastOffline = end
      /\ d.device.lastOnline = c.device.lastOnline
  BY ConfirmedRows
<1>2. PICK a \in c.sessions :
         /\ OpenSessions(c) = {a}
         /\ \A x \in d.sessions :
               \/ x.id = a.id /\ x.start = a.start /\ x.end = end
               \/ x \in c.sessions /\ x # a /\ x.end # NULL
         /\ \E x \in d.sessions : x.id = a.id
  BY ConfirmedRows
<1> SUFFICES TimeInv(d, k)
  OBVIOUS
<1> HIDE DEF d, end
<1>3. c.device # NULL /\ c.device.lastSeen \in Nat /\ c.device.lastOnline \in Nat
  BY RowTypes DEF IsOnline
<1>4. a.end = NULL /\ a.id \in Nat /\ a.start \in Nat /\ a.start = c.device.lastOnline
  BY <1>2, RowTypes DEF OpenSessions, TimeInv
<1>5. CASE InOrder
  <2>1. c.device.lastOnline <= c.device.lastSeen /\ c.device.lastSeen <= k
    BY <1>3, <1>5 DEF TimeInv
  <2>2. ASSUME NEW x \in d.sessions
        PROVE  x.start + OfflineConfirmation <= x.end /\ x.end < k
    <3>1. CASE x.start = a.start /\ x.end = end
      BY <1>1, <1>3, <1>4, <2>1, <3>1, TimeAssumption DEF end
    <3>2. CASE x \in c.sessions /\ x.end # NULL
      BY <1>5, <3>2 DEF TimeInv
    <3>. QED
      BY <1>2, <3>1, <3>2
  <2>3. ASSUME NEW x \in d.sessions, NEW y \in d.sessions, x.id < y.id
        PROVE  x.end # NULL /\ x.end < y.start
    <3>1. x \in c.sessions /\ x.end # NULL
      <4>1. SUFFICES ASSUME x.id = a.id PROVE FALSE
        BY <1>2
      <4>2. y \in c.sessions
        BY <1>2, <1>4, <2>3, <4>1
      <4>. QED
        BY <1>4, <1>5, <2>3, <4>1, <4>2 DEF TimeInv
    <3>2. CASE y.id = a.id /\ y.start = a.start
      BY <1>5, <2>3, <3>1, <3>2 DEF TimeInv
    <3>3. CASE y \in c.sessions
      BY <1>5, <2>3, <3>1, <3>3 DEF TimeInv
    <3>. QED
      BY <1>2, <3>1, <3>2, <3>3
  <2>4. ASSUME NEW x \in Latest(d.sessions)
        PROVE  x.end = d.device.lastOffline
    <3>1. x \in d.sessions /\ a.id <= x.id
      BY <1>2, <2>4 DEF Latest
    <3>2. ~(x \in c.sessions /\ x # a)
      <4>1. SUFFICES ASSUME x \in c.sessions, x # a PROVE FALSE
        OBVIOUS
      <4>2. a.id < x.id
        BY <1>4, <3>1, <4>1, RowTypes
      <4>. QED
        BY <1>4, <1>5, <4>1, <4>2 DEF TimeInv
    <3>. QED
      BY <1>1, <1>2, <3>1, <3>2
  <2>. QED
    BY <1>1, <1>5, <2>1, <2>2, <2>3, <2>4 DEF TimeInv
<1>. QED
  BY <1>1, <1>5 DEF TimeInv

(* Deleting what has expired takes the oldest sessions (service.py:100-117). *)
LEMMA ExpireTimes ==
    ASSUME NEW k \in Nat, NEW c, ClientInv(c), TimeInv(c, k), NEW at \in Nat
    PROVE  TimeInv(Expire(c, at), k)
<1> DEFINE d == Expire(c, at)
<1>1. d.device = c.device /\ d.sessions = c.sessions \ ExpiredSessions(c, at)
  BY DEF Expire, ClientInv, ClientRows
<1> SUFFICES TimeInv(d, k)
  OBVIOUS
<1> HIDE DEF d
<1>2. IsOnline(d) = IsOnline(c)
  BY <1>1 DEF IsOnline
<1>3. Retention(c) \in Nat
  BY TimeAssumption DEF Retention
<1>4. ASSUME InOrder, NEW x \in Latest(d.sessions)
      PROVE  x \in Latest(c.sessions)
  <2>1. SUFFICES ASSUME NEW y \in c.sessions, x.id < y.id PROVE FALSE
    BY <1>1, <1>4, RowTypes DEF Latest
  <2>2. x \in c.sessions /\ x \notin ExpiredSessions(c, at)
    BY <1>1, <1>4 DEF Latest
  <2>3. y \in ExpiredSessions(c, at)
    BY <1>1, <1>4, <2>1, RowTypes DEF Latest
  <2>4. x.end # NULL /\ x.end < y.start
    BY <1>4, <2>1, <2>2 DEF TimeInv
  <2>5. y.end # NULL /\ y.start + OfflineConfirmation <= y.end /\ y.end + Retention(c) < at
    BY <1>4, <2>3 DEF TimeInv, ExpiredSessions
  <2>6. x.end \in Nat /\ y.end \in Nat /\ y.start \in Nat
    BY <2>1, <2>2, <2>4, <2>5, RowTypes
  <2>7. x.end + Retention(c) < at
    BY <1>3, <2>4, <2>5, <2>6, TimeAssumption
  <2>. QED
    BY <2>2, <2>4, <2>7 DEF ExpiredSessions
<1>5. OpenSessions(d) \subseteq OpenSessions(c) /\ d.sessions \subseteq c.sessions
  BY <1>1 DEF OpenSessions
<1>. QED
  BY <1>1, <1>2, <1>4, <1>5 DEF TimeInv

-----------------------------------------------------------------------------
(* The ways a snapshot goes for one client *)

LEMMA SnapshotRanges ==
    ASSUME NEW s \in Snapshots, clock \in Nat
    PROVE  /\ s.at \in Nat /\ s.at <= clock /\ (InOrder => s.at = clock)
           /\ s.nodes \subseteq Nodes /\ s.complete \in BOOLEAN
           /\ \A m \in DOMAIN s.devices :
                 s.devices[m] \in Parents /\ s.devices[m] \in s.nodes \cup {NULL}
<1>1. s.at \in 0..clock /\ s.at + MaxSkew >= clock /\ s.nodes \in Topologies
      /\ s.complete \in BOOLEAN
      /\ \A m \in DOMAIN s.devices : s.devices[m] \in s.nodes \cup {NULL}
  BY DEF Snapshots
<1>. QED
  BY <1>1, TopologyAssumption, TimeAssumption DEF InOrder, Parents

(* A client is confirmed offline, or purged, or else what was observed of it *)
(* is kept, less what has expired.                                           *)
LEMMA UpdateCases ==
    ASSUME NEW c, ClientInv(c), NEW m \in Macs, NEW s \in Snapshots, clock \in Nat
    PROVE  LET d == UpdateClient(c, m, s)
               seen == Observed(c, m, s) IN
           /\ ClientInv(seen)
           /\ \/ /\ IsOnline(c) /\ OfflineAt(c) < s.at /\ seen = c /\ m \notin DOMAIN s.devices
                 /\ \E kept \in {c, Expire(c, s.at)} :
                       /\ ClientInv(kept) /\ IsOnline(kept) /\ kept.device = c.device
                       /\ d = ConfirmOffline(kept, clock)
              \/ CleanupDue /\ Stale(c, s.at) /\ seen = c /\ d = NoRows(c.lastId)
                 /\ m \notin DOMAIN s.devices
              \/ d = seen /\ ~CleanupDue
              \/ d = Expire(seen, s.at) /\ CleanupDue /\ ~Stale(seen, s.at)
<1> DEFINE d == UpdateClient(c, m, s)
           seen == Observed(c, m, s)
           kept == IF CleanupDue THEN CleanUp(seen, s.at) ELSE seen
<1>1. s.at \in Nat /\ clock \in Nat /\ \A k \in DOMAIN s.devices : s.devices[k] \in Parents
  BY SnapshotRanges
<1>2. ClientInv(seen) /\ (m \in DOMAIN s.devices => IsOnline(seen))
      /\ (m \notin DOMAIN s.devices => seen = c)
  BY <1>1, ObservePreserves, ObservedRows DEF Observed
<1>3. d = IF s.complete /\ m \notin DOMAIN s.devices /\ ConfirmedAbsent(c, s.at)
          THEN ConfirmOffline(kept, clock) ELSE kept
  BY DEF UpdateClient
<1>4. IsOnline(seen) => ~Stale(seen, s.at)
  BY DEF IsOnline, Stale
<1>5. kept = IF CleanupDue
             THEN IF Stale(seen, s.at) THEN NoRows(seen.lastId) ELSE Expire(seen, s.at)
             ELSE seen
  BY DEF CleanUp
<1>6. ASSUME NEW x, ClientInv(x)
      PROVE  ClientInv(Expire(x, s.at)) /\ Expire(x, s.at).device = x.device
  BY <1>1, <1>6, ExpirePreserves
<1> HIDE DEF d, seen, kept
<1>7. CASE s.complete /\ m \notin DOMAIN s.devices /\ ConfirmedAbsent(c, s.at)
  <2>1. IsOnline(c) /\ OfflineAt(c) < s.at /\ seen = c
    <3>1. OfflineAt(c) \in Nat
      <4>1. c.device \in DeviceRow
        BY <1>7 DEF ConfirmedAbsent, IsOnline, ClientInv, ClientRows
      <4>. QED
        BY <4>1, TimeAssumption DEF OfflineAt, DeviceRow
    <3>. QED
      BY <1>1, <1>2, <1>7, <3>1 DEF ConfirmedAbsent
  <2>2. kept \in {c, Expire(c, s.at)}
    BY <1>4, <1>5, <2>1
  <2>3. ClientInv(kept) /\ IsOnline(kept) /\ kept.device = c.device
    BY <1>6, <2>1, <2>2 DEF IsOnline
  <2>. QED
    BY <1>2, <1>3, <1>7, <2>1, <2>2, <2>3 DEF d, seen
<1>8. CASE ~(s.complete /\ m \notin DOMAIN s.devices /\ ConfirmedAbsent(c, s.at))
  BY <1>2, <1>3, <1>4, <1>5, <1>8 DEF d, seen
<1>. QED
  BY <1>7, <1>8

(* A snapshot keeps a client's times. *)
LEMMA UpdateTimes ==
    ASSUME NEW c, ClientInv(c), clock \in Nat, TimeInv(c, clock),
           NEW m \in Macs, NEW s \in Snapshots
    PROVE  TimeInv(UpdateClient(c, m, s), clock)
<1> DEFINE d == UpdateClient(c, m, s)
           seen == Observed(c, m, s)
<1>1. s.at \in Nat /\ s.at <= clock /\ (InOrder => s.at = clock)
      /\ \A k \in DOMAIN s.devices : s.devices[k] \in Parents
  BY SnapshotRanges
<1>2. TimeInv(seen, clock)
  BY <1>1, ObserveTimes DEF Observed
<1>3. ASSUME IsOnline(c), OfflineAt(c) < s.at,
             NEW kept \in {c, Expire(c, s.at)}, ClientInv(kept), IsOnline(kept),
             kept.device = c.device, d = ConfirmOffline(kept, clock)
      PROVE  TimeInv(d, clock)
  <2>1. TimeInv(kept, clock)
    BY <1>1, <1>3, ExpireTimes
  <2>2. OfflineAt(kept) \in Nat /\ OfflineAt(kept) = OfflineAt(c)
    BY <1>3, ConfirmedRows DEF OfflineAt
  <2>3. OfflineAt(kept) < clock
    BY <1>1, <1>3, <2>2
  <2>. QED
    BY <1>3, <2>1, <2>3, ConfirmTimes
<1>4. ASSUME NEW id PROVE TimeInv(NoRows(id), clock)
  BY DEF TimeInv, NoRows, IsOnline
<1>5. ClientInv(seen) => TimeInv(Expire(seen, s.at), clock)
  BY <1>1, <1>2, ExpireTimes
<1> HIDE DEF d
<1>. QED
  BY <1>2, <1>3, <1>4, <1>5, UpdateCases DEF d

-----------------------------------------------------------------------------
(* The event log *)

(* A new event that follows from whether the client was online goes on with *)
(* the log.                                                                  *)
LEMMA LogGrows ==
    ASSUME NEW k \in Nat, NEW log \in SUBSET EventRow, NEW was \in BOOLEAN,
           LogInv(log, was, k),
           NEW e \in EventRow, e.at = k, \A x \in log : x.id < e.id,
           NEW is \in BOOLEAN, (e.kind = "OFFLINE") <=> ~is, (e.kind = "ONLINE") <=> ~was
    PROVE  LogInv(log \cup {e}, is, k)
<1> DEFINE new == log \cup {e}
<1>1. \A x \in new : x.id \in Nat /\ x.at \in Nat
  BY DEF EventRow
<1>2. \A x \in log : x.id < e.id /\ ~(e.id <= x.id)
  BY <1>1
<1>3. \A x \in new : x.at <= k
  BY <1>1 DEF LogInv
<1>4. ASSUME NEW x \in new, NEW y \in new, x.id < y.id PROVE x.at <= y.at
  <2>1. x \in log
    BY <1>1, <1>2, <1>4
  <2>. QED
    BY <1>3, <1>4, <2>1 DEF LogInv
<1>5. \A x \in Latest(new) : (x.kind = "OFFLINE") = ~is
  BY <1>2 DEF Latest
<1>6. ASSUME NEW x \in new, NEW y \in new, Adjacent(new, x, y)
      PROVE  (x.kind = "OFFLINE") = (y.kind = "ONLINE")
  <2>1. x \in log
    BY <1>1, <1>2, <1>6 DEF Adjacent
  <2>2. CASE y \in log
    BY <1>6, <2>1, <2>2 DEF Adjacent, LogInv
  <2>3. CASE y = e
    <3>1. \A z \in log : z.id <= x.id
      BY <1>1, <1>2, <1>6, <2>1, <2>3 DEF Adjacent
    <3>2. x \in Latest(log)
      BY <2>1, <3>1 DEF Latest
    <3>. QED
      BY <2>3, <3>2 DEF LogInv
  <2>. QED
    BY <2>2, <2>3
<1>. QED
  BY <1>3, <1>4, <1>5, <1>6 DEF LogInv

(* Deleting the events before a date keeps a log a log.                      *)
LEMMA LogExpires ==
    ASSUME NEW k \in Nat, NEW log \in SUBSET EventRow, NEW is \in BOOLEAN,
           LogInv(log, is, k), \A e, f \in log : e.id = f.id => e = f,
           NEW kept \in SUBSET log,
           \A e \in kept, f \in log : e.at <= f.at => f \in kept
    PROVE  LogInv(kept, is, k)
<1>1. \A x \in log : x.id \in Nat /\ x.at \in Nat
  BY DEF EventRow
<1>2. \A e \in kept, f \in log : e.id < f.id => f \in kept
  BY DEF LogInv
<1>3. \A e \in Latest(kept) : e \in Latest(log)
  <2>1. SUFFICES ASSUME NEW e \in Latest(kept), NEW f \in log PROVE f.id <= e.id
    BY DEF Latest
  <2>2. e \in kept
    BY DEF Latest
  <2>. QED
    BY <1>1, <1>2, <2>2 DEF Latest
<1>4. \A e, f \in kept : Adjacent(kept, e, f) => Adjacent(log, e, f)
  BY <1>2 DEF Adjacent
<1>. QED
  BY <1>3, <1>4 DEF LogInv

(* A log goes on being one as time goes on. *)
LEMMA LogLater ==
    ASSUME NEW k \in Nat, NEW later \in Nat, k <= later,
           NEW log \in SUBSET EventRow, NEW is \in BOOLEAN, LogInv(log, is, k)
    PROVE  LogInv(log, is, later)
<1>1. \A x \in log : x.at \in Nat
  BY DEF EventRow
<1>. QED
  BY <1>1 DEF LogInv

(* Observing a client logs that it came, or that it moved, or nothing        *)
(* (service.py:299-345).                                                     *)
LEMMA ObserveLog ==
    ASSUME clock \in Nat, NEW c, ClientInv(c), LogInv(c.events, IsOnline(c), clock),
           NEW at \in Nat, NEW parent \in Parents
    PROVE  LET d == Observe(c, at, parent, clock) IN LogInv(d.events, IsOnline(d), clock)
<1> DEFINE d == Observe(c, at, parent, clock)
<1>1. c.lastId \in Nat /\ c.events \in SUBSET EventRow /\ \A x \in c.events : x.id < NewId(c)
  BY RowTypes DEF NewId
<1>2. IsOnline(d) /\ IsOnline(d) \in BOOLEAN
  BY ObservedRows DEF IsOnline
<1>3. d.events = ObservedEvents(c, parent, clock)
  BY DEF Observe
<1>4. IsOnline(c) \in BOOLEAN
  BY DEF IsOnline, ClientInv, ClientRows, DeviceRow
<1> HIDE DEF d
<1>5. CASE ~IsOnline(c)
  <2> DEFINE e == [id |-> NewId(c), kind |-> "ONLINE", at |-> clock]
  <2>1. d.events = c.events \cup {e}
    BY <1>3, <1>5 DEF ObservedEvents, Moved
  <2>2. e \in EventRow /\ e.at = clock /\ e.id = NewId(c) /\ e.kind = "ONLINE"
    BY <1>1 DEF EventRow, NewId
  <2> HIDE DEF e
  <2>3. (e.kind = "OFFLINE") <=> ~IsOnline(d)
    BY <1>2, <2>2
  <2>4. (e.kind = "ONLINE") <=> ~IsOnline(c)
    BY <1>5, <2>2
  <2>5. e \in EventRow /\ e.at = clock /\ \A x \in c.events : x.id < e.id
    BY <1>1, <2>2
  <2>6. LogInv(c.events \cup {e}, IsOnline(d), clock)
    BY <1>1, <1>2, <1>4, <2>3, <2>4, <2>5, LogGrows
  <2>. QED
    BY <2>1, <2>6 DEF d
<1>6. CASE Moved(c, parent)
  <2> DEFINE e == [id |-> NewId(c), kind |-> "LOCATION_CHANGE", at |-> clock]
  <2>1. d.events = c.events \cup {e} /\ IsOnline(c)
    BY <1>3, <1>6 DEF ObservedEvents, Moved
  <2>2. e \in EventRow /\ e.at = clock /\ e.id = NewId(c) /\ e.kind = "LOCATION_CHANGE"
    BY <1>1 DEF EventRow, NewId
  <2> HIDE DEF e
  <2>3. (e.kind = "OFFLINE") <=> ~IsOnline(d)
    BY <1>2, <2>2
  <2>4. (e.kind = "ONLINE") <=> ~IsOnline(c)
    BY <2>1, <2>2
  <2>5. LogInv(c.events \cup {e}, IsOnline(d), clock)
    BY <1>1, <1>2, <1>4, <2>2, <2>3, <2>4, LogGrows
  <2>. QED
    BY <2>1, <2>5 DEF d
<1>7. CASE IsOnline(c) /\ ~Moved(c, parent)
  <2>1. d.events = c.events
    BY <1>3, <1>7 DEF ObservedEvents
  <2>2. IsOnline(d) = IsOnline(c)
    BY <1>2, <1>4, <1>7
  <2>. QED
    BY <2>1, <2>2 DEF d
<1>. QED
  BY <1>5, <1>6, <1>7

(* Deleting expired history keeps the newest events (service.py:100-117). *)
LEMMA ExpireLog ==
    ASSUME NEW k \in Nat, NEW c, ClientInv(c), LogInv(c.events, IsOnline(c), k),
           NEW at \in Nat
    PROVE  LET d == Expire(c, at) IN LogInv(d.events, IsOnline(d), k)
<1> DEFINE d == Expire(c, at)
<1>1. d.device = c.device /\ d.events = {e \in c.events : ~(e.at + Retention(c) < at)}
  BY DEF Expire, ClientInv, ClientRows
<1>2. IsOnline(d) = IsOnline(c)
  BY <1>1 DEF IsOnline
<1>3. Retention(c) \in Nat
  BY TimeAssumption DEF Retention
<1>4. c.events \in SUBSET EventRow /\ \A x \in c.events : x.at \in Nat
  BY RowTypes
<1>5. \A e, f \in c.events : e.id = f.id => e = f
  BY RowTypes
<1>6. IsOnline(c) \in BOOLEAN
  BY DEF IsOnline, ClientInv, ClientRows, DeviceRow
<1> HIDE DEF d
<1>7. d.events \in SUBSET c.events
  BY <1>1
<1>8. \A e \in d.events, f \in c.events : e.at <= f.at => f \in d.events
  BY <1>1, <1>3, <1>4
<1>9. LogInv(d.events, IsOnline(c), k)
  BY <1>4, <1>5, <1>6, <1>7, <1>8, LogExpires
<1>. QED
  BY <1>2, <1>9 DEF d

(* Confirming a client offline logs that it went (service.py:400-413). *)
LEMMA ConfirmLog ==
    ASSUME clock \in Nat, NEW c, ClientInv(c), IsOnline(c),
           LogInv(c.events, IsOnline(c), clock)
    PROVE  LET d == ConfirmOffline(c, clock) IN LogInv(d.events, IsOnline(d), clock)
<1> DEFINE d == ConfirmOffline(c, clock)
           e == [id |-> NewId(c), kind |-> "OFFLINE", at |-> clock]
<1>1. c.lastId \in Nat /\ c.events \in SUBSET EventRow /\ \A x \in c.events : x.id < NewId(c)
  BY RowTypes DEF NewId
<1>2. d.events = c.events \cup {e}
  BY DEF ConfirmOffline
<1>3. ~IsOnline(d) /\ IsOnline(d) \in BOOLEAN /\ IsOnline(c) \in BOOLEAN
  BY ConfirmedRows DEF IsOnline, ClientInv, ClientRows, DeviceRow
<1>4. e \in EventRow /\ e.at = clock /\ e.id = NewId(c) /\ e.kind = "OFFLINE"
  BY <1>1 DEF EventRow, NewId
<1> HIDE DEF d, e
<1>5. (e.kind = "OFFLINE") <=> ~IsOnline(d)
  BY <1>3, <1>4
<1>6. (e.kind = "ONLINE") <=> ~IsOnline(c)
  BY <1>4
<1>7. LogInv(c.events \cup {e}, IsOnline(d), clock)
  BY <1>1, <1>3, <1>4, <1>5, <1>6, LogGrows
<1>. QED
  BY <1>2, <1>7 DEF d

(* A snapshot keeps a client's log. *)
LEMMA UpdateLog ==
    ASSUME NEW c, ClientInv(c), clock \in Nat, LogInv(c.events, IsOnline(c), clock),
           NEW m \in Macs, NEW s \in Snapshots
    PROVE  LET d == UpdateClient(c, m, s) IN LogInv(d.events, IsOnline(d), clock)
<1> DEFINE d == UpdateClient(c, m, s)
           seen == Observed(c, m, s)
<1>1. s.at \in Nat /\ \A k \in DOMAIN s.devices : s.devices[k] \in Parents
  BY SnapshotRanges
<1>2. LogInv(seen.events, IsOnline(seen), clock)
  BY <1>1, ObserveLog DEF Observed
<1>3. ASSUME NEW kept \in {c, Expire(c, s.at)}, ClientInv(kept), IsOnline(kept),
             d = ConfirmOffline(kept, clock)
      PROVE  LogInv(d.events, IsOnline(d), clock)
  <2>1. LogInv(kept.events, IsOnline(kept), clock)
    BY <1>1, <1>3, ExpireLog
  <2>. QED
    BY <1>3, <2>1, ConfirmLog
<1>4. ASSUME NEW id PROVE LogInv(NoRows(id).events, IsOnline(NoRows(id)), clock)
  BY DEF LogInv, NoRows, Latest
<1>5. ClientInv(seen) =>
         LogInv(Expire(seen, s.at).events, IsOnline(Expire(seen, s.at)), clock)
  BY <1>1, <1>2, ExpireLog
<1> HIDE DEF d, seen
<1>. QED
  BY <1>2, <1>3, <1>4, <1>5, UpdateCases DEF d, seen

-----------------------------------------------------------------------------
(* The nodes *)

(* What is known of the nodes: none was seen after the newest snapshot. *)
NodesInv ==
    InOrder => \A n \in Nodes : nodes[n] # NULL =>
        /\ nodes[n].lastSeen <= clock
        /\ nodes[n].lastSeen = clock => clock \in processed

HInv == /\ IInv
        /\ \A m \in Macs : /\ TimeInv(clients[m], clock)
                           /\ LogInv(clients[m].events, IsOnline(clients[m]), clock)
        /\ NodesInv
        /\ ParentsKnown

(* Where and when a client was last seen changes only when it is seen. *)
LEMMA UpdateDevice ==
    ASSUME NEW c, ClientInv(c), clock \in Nat, NEW m \in Macs, NEW s \in Snapshots
    PROVE  LET d == UpdateClient(c, m, s) IN d.device # NULL =>
           \/ /\ m \in DOMAIN s.devices /\ d.device.parent = s.devices[m]
              /\ d.device.lastSeen = s.at
           \/ /\ c.device # NULL /\ d.device.parent = c.device.parent
              /\ d.device.lastSeen = c.device.lastSeen
<1> DEFINE d == UpdateClient(c, m, s)
           seen == Observed(c, m, s)
<1>1. s.at \in Nat /\ \A k \in DOMAIN s.devices : s.devices[k] \in Parents
  BY SnapshotRanges
<1>2. m \in DOMAIN s.devices =>
         seen.device.parent = s.devices[m] /\ seen.device.lastSeen = s.at
  BY <1>1, ObservedRows DEF Observed
<1>3. m \notin DOMAIN s.devices => seen = c
  BY DEF Observed
<1>4. ClientInv(seen) => Expire(seen, s.at).device = seen.device
  BY <1>1, ExpirePreserves
<1>5. ASSUME NEW kept, ClientInv(kept), IsOnline(kept), kept.device = c.device,
             d = ConfirmOffline(kept, clock)
      PROVE  c.device # NULL /\ d.device.parent = c.device.parent
             /\ d.device.lastSeen = c.device.lastSeen
  BY <1>5, ConfirmedRows DEF IsOnline
<1>6. NoRows(c.lastId).device = NULL
  BY DEF NoRows
<1> HIDE DEF d, seen
<1>. QED
  BY <1>2, <1>3, <1>4, <1>5, <1>6, UpdateCases DEF d, seen

(* A snapshot keeps the parents known. *)
LEMMA SnapshotParents ==
    ASSUME HInv, NEW s \in Snapshots, ProcessSnapshot(s)
    PROVE  NodesInv' /\ ParentsKnown'
<1>1. clock \in Nat /\ clock' = clock /\ s.at \in processed' /\ s.at \notin processed
  BY DEF HInv, IInv, TypeOK, ProcessSnapshot
<1>2. s.at \in Nat /\ (InOrder => s.at = clock) /\ s.nodes \subseteq Nodes
      /\ \A m \in DOMAIN s.devices : s.devices[m] \in s.nodes \cup {NULL}
  BY <1>1, SnapshotRanges
<1>3. ASSUME NEW n \in Nodes
      PROVE  /\ nodes[n] \in NodeRow \cup {NULL} /\ nodes'[n] \in NodeRow \cup {NULL}
             /\ nodes'[n] = UpdateNode(nodes[n], n \in s.nodes, s.complete, s.at)
  BY SnapshotIInv DEF HInv, IInv, TypeOK, ProcessSnapshot
<1>4. ASSUME NEW n \in s.nodes
      PROVE  nodes'[n] # NULL /\ nodes'[n].online /\ nodes'[n].lastSeen = s.at
  <2>1. nodes'[n] = [online |-> TRUE, lastSeen |-> s.at,
                     lastOffline |-> IF nodes[n] = NULL THEN NULL ELSE nodes[n].lastOffline]
    BY <1>2, <1>3 DEF UpdateNode
  <2>2. nodes'[n] # NULL
    <3>1. (IF nodes[n] = NULL THEN NULL ELSE nodes[n].lastOffline) \in Instants
      BY <1>2, <1>3 DEF NodeRow, Instants
    <3>2. nodes'[n] \in NodeRow
      BY <1>2, <2>1, <3>1 DEF NodeRow
    <3>. QED
      BY <3>2, RowAssumption
  <2>. QED
    BY <2>1, <2>2
<1>5. ASSUME NEW n \in Nodes \ s.nodes, nodes'[n] # NULL \/ nodes[n] # NULL
      PROVE  /\ nodes'[n] # NULL /\ nodes[n] # NULL
             /\ nodes'[n].lastSeen = nodes[n].lastSeen /\ nodes[n].lastSeen \in Nat
             /\ \/ nodes'[n].lastOffline = s.at
                \/ /\ nodes'[n].online = nodes[n].online
                   /\ nodes'[n].lastOffline = nodes[n].lastOffline
  <2>1. CASE nodes[n] # NULL /\ nodes[n].online /\ s.complete
    <3>1. nodes'[n] = [nodes[n] EXCEPT !.online = FALSE, !.lastOffline = s.at]
      BY <1>3, <2>1 DEF UpdateNode
    <3>2. nodes'[n] \in NodeRow
      BY <1>2, <1>3, <2>1, <3>1 DEF NodeRow, Instants
    <3>. QED
      BY <1>3, <2>1, <3>1, <3>2, RowAssumption DEF NodeRow
  <2>2. CASE ~(nodes[n] # NULL /\ nodes[n].online /\ s.complete)
    <3>1. nodes'[n] = nodes[n]
      BY <1>3, <2>2 DEF UpdateNode
    <3>. QED
      BY <1>3, <1>5, <3>1 DEF NodeRow
  <2>. QED
    BY <2>1, <2>2
<1>6. NodesInv'
  <2>1. SUFFICES ASSUME InOrder, NEW n \in Nodes, nodes'[n] # NULL
                 PROVE  nodes'[n].lastSeen <= clock /\ clock \in processed'
    BY <1>1 DEF NodesInv, InOrder
  <2>2. s.at = clock /\ clock \in processed'
    BY <1>1, <1>2, <2>1
  <2>3. CASE n \in s.nodes
    BY <1>1, <1>4, <2>2, <2>3
  <2>4. CASE n \notin s.nodes
    <3>1. nodes[n] # NULL /\ nodes'[n].lastSeen = nodes[n].lastSeen
      BY <1>5, <2>1, <2>4
    <3>. QED
      BY <2>1, <2>2, <3>1 DEF HInv, NodesInv
  <2>. QED
    BY <2>3, <2>4
<1>7. ASSUME NEW m \in Macs, clients'[m].device # NULL, clients'[m].device.parent # NULL
      PROVE  /\ nodes'[clients'[m].device.parent] # NULL
             /\ InOrder => nodes'[clients'[m].device.parent].lastSeen >= clients'[m].device.lastSeen
  <2> DEFINE c == clients[m]
             d == UpdateClient(c, m, s)
  <2>1. clients'[m] = d /\ ClientInv(c)
    BY DEF HInv, IInv, ProcessSnapshot
  <2>2. ClientInv(d)
    BY <1>1, <2>1, UpdatePreserves
  <2>3. \/ /\ m \in DOMAIN s.devices /\ d.device.parent = s.devices[m]
           /\ d.device.lastSeen = s.at
        \/ /\ c.device # NULL /\ d.device.parent = c.device.parent
           /\ d.device.lastSeen = c.device.lastSeen
    BY <1>1, <1>7, <2>1, UpdateDevice
  <2> HIDE DEF c, d
  <2>4. CASE m \in DOMAIN s.devices /\ d.device.parent = s.devices[m] /\ d.device.lastSeen = s.at
    <3>1. d.device.parent \in s.nodes
      BY <1>2, <1>7, <2>1, <2>4
    <3>. QED
      BY <1>2, <1>4, <2>1, <2>4, <3>1
  <2>5. CASE c.device # NULL /\ d.device.parent = c.device.parent
             /\ d.device.lastSeen = c.device.lastSeen
    <3>1. c.device.parent \in Nodes /\ c.device.lastSeen \in Nat
      BY <1>7, <2>1, <2>5 DEF ClientInv, ClientRows, DeviceRow, Parents
    <3>2. nodes[c.device.parent] # NULL
          /\ (InOrder => nodes[c.device.parent].lastSeen >= c.device.lastSeen)
      BY <1>7, <2>1, <2>5 DEF HInv, ParentsKnown, c
    <3>3. InOrder => c.device.lastSeen <= s.at
      BY <1>2, <2>5 DEF HInv, TimeInv, c
    <3>4. CASE c.device.parent \in s.nodes
      BY <1>2, <1>4, <2>1, <2>5, <3>1, <3>3, <3>4
    <3>5. CASE c.device.parent \notin s.nodes
      <4>1. nodes'[c.device.parent] # NULL
            /\ nodes'[c.device.parent].lastSeen = nodes[c.device.parent].lastSeen
        BY <1>5, <3>1, <3>2, <3>5
      <4>. QED
        BY <2>1, <2>5, <3>2, <4>1
    <3>. QED
      BY <3>4, <3>5
  <2>. QED
    BY <2>3, <2>4, <2>5
<1>8. ASSUME InOrder, NEW n \in Nodes, nodes'[n] # NULL, ~nodes'[n].online
      PROVE  nodes'[n].lastOffline > nodes'[n].lastSeen
  <2>0. n \notin s.nodes
    BY <1>8, <1>4
  <2>1. nodes[n] # NULL /\ nodes'[n].lastSeen = nodes[n].lastSeen /\ nodes[n].lastSeen \in Nat
        /\ \/ nodes'[n].lastOffline = s.at
           \/ ~nodes[n].online /\ nodes'[n].lastOffline = nodes[n].lastOffline
    BY <1>8, <1>5, <2>0
  <2>2. CASE nodes'[n].lastOffline = s.at
    <3>1. nodes[n].lastSeen <= clock /\ nodes[n].lastSeen # clock
      BY <1>1, <1>2, <1>8, <2>1 DEF HInv, NodesInv
    <3>. QED
      BY <1>1, <1>2, <1>8, <2>1, <2>2, <3>1
  <2>3. CASE ~nodes[n].online /\ nodes'[n].lastOffline = nodes[n].lastOffline
    BY <1>8, <2>1, <2>3 DEF HInv, ParentsKnown
  <2>. QED
    BY <2>1, <2>2, <2>3
<1>9. ParentsKnown'
  BY <1>7, <1>8 DEF ParentsKnown, InOrder
<1>. QED
  BY <1>6, <1>9

-----------------------------------------------------------------------------
(* The inductive invariant of the specification *)

LEMMA InitHInv == Init => HInv
<1> SUFFICES ASSUME Init PROVE HInv
  OBVIOUS
<1>1. IInv
  BY InitIInv
<1>2. \A m \in Macs : clients[m] = NoRows(0)
  BY DEF Init
<1>3. ASSUME NEW m \in Macs
      PROVE  TimeInv(clients[m], clock) /\ LogInv(clients[m].events, IsOnline(clients[m]), clock)
  BY <1>2 DEF TimeInv, LogInv, NoRows, IsOnline, Latest
<1>4. NodesInv /\ ParentsKnown
  BY <1>2 DEF Init, NodesInv, ParentsKnown, NoRows
<1>. QED
  BY <1>1, <1>3, <1>4 DEF HInv

(* What an operator stars keeps its history (main.py:643-664). *)
LEMMA StarHInv ==
    ASSUME HInv, NEW m \in Macs, NEW starred \in BOOLEAN, StarClient(m, starred)
    PROVE  HInv'
<1>1. IInv' /\ UNCHANGED <<clock, nodes, processed>>
  BY StarIInv DEF HInv, StarClient
<1>2. clients[m] \in ClientRows /\ clients[m].device \in DeviceRow
      /\ clients'[m] = [clients[m] EXCEPT !.device.starred = starred]
      /\ \A k \in Macs \ {m} : clients'[k] = clients[k]
  BY DEF HInv, IInv, ClientInv, ClientRows, StarClient, TypeOK
<1>3. /\ clients'[m].sessions = clients[m].sessions /\ clients'[m].events = clients[m].events
      /\ clients'[m].device = [clients[m].device EXCEPT !.starred = starred]
  BY <1>2 DEF ClientRows
<1>4. /\ clients'[m].device # NULL /\ clients[m].device # NULL
      /\ clients'[m].device.online = clients[m].device.online
      /\ clients'[m].device.parent = clients[m].device.parent
      /\ clients'[m].device.lastSeen = clients[m].device.lastSeen
      /\ clients'[m].device.lastOnline = clients[m].device.lastOnline
      /\ clients'[m].device.lastOffline = clients[m].device.lastOffline
  <2>1. clients'[m].device \in DeviceRow
    BY <1>2, <1>3 DEF DeviceRow
  <2>. QED
    BY <1>2, <1>3, <2>1, RowAssumption DEF DeviceRow
<1>5. IsOnline(clients'[m]) = IsOnline(clients[m])
  BY <1>4 DEF IsOnline
<1>6. ASSUME NEW k \in Macs
      PROVE  /\ TimeInv(clients'[k], clock)
             /\ LogInv(clients'[k].events, IsOnline(clients'[k]), clock)
  <2>1. TimeInv(clients[k], clock) /\ LogInv(clients[k].events, IsOnline(clients[k]), clock)
    BY DEF HInv
  <2>2. CASE k = m
    <3>1. OpenSessions(clients'[m]) = OpenSessions(clients[m])
      BY <1>3 DEF OpenSessions
    <3>2. TimeInv(clients'[m], clock)
      BY <1>3, <1>4, <1>5, <2>1, <2>2, <3>1 DEF TimeInv
    <3>. QED
      BY <1>3, <1>5, <2>1, <2>2, <3>2
  <2>. QED
    BY <1>2, <2>1, <2>2
<1>7. NodesInv'
  BY <1>1 DEF HInv, NodesInv, InOrder
<1>8. ParentsKnown'
  BY <1>1, <1>2, <1>4 DEF HInv, ParentsKnown, InOrder
<1>. QED
  BY <1>1, <1>6, <1>7, <1>8 DEF HInv

LEMMA NextHInv == HInv /\ [Next]_vars => HInv'
<1> SUFFICES ASSUME HInv, [Next]_vars PROVE HInv'
  OBVIOUS
<1>1. IInv /\ IInv' /\ clock \in Nat
  BY NextIInv DEF HInv, IInv, TypeOK
<1>2. ASSUME NEW s \in Snapshots, ProcessSnapshot(s) PROVE HInv'
  <2>1. ASSUME NEW m \in Macs
        PROVE  TimeInv(clients'[m], clock')
               /\ LogInv(clients'[m].events, IsOnline(clients'[m]), clock')
    <3>1. clients'[m] = UpdateClient(clients[m], m, s) /\ clock' = clock
      BY <1>2 DEF ProcessSnapshot
    <3>2. ClientInv(clients[m]) /\ TimeInv(clients[m], clock)
          /\ LogInv(clients[m].events, IsOnline(clients[m]), clock)
      BY DEF HInv, IInv
    <3>. QED
      BY <1>1, <3>1, <3>2, UpdateTimes, UpdateLog
  <2>2. NodesInv' /\ ParentsKnown'
    BY <1>2, SnapshotParents
  <2>. QED
    BY <1>1, <2>1, <2>2 DEF HInv
<1>3. CASE Tick
  <2>1. clock' = clock + 1 /\ UNCHANGED <<clients, nodes, processed>>
    BY <1>3 DEF Tick
  <2>2. ASSUME NEW m \in Macs
        PROVE  TimeInv(clients'[m], clock')
               /\ LogInv(clients'[m].events, IsOnline(clients'[m]), clock')
    <3>1. ClientInv(clients[m]) /\ TimeInv(clients[m], clock)
          /\ LogInv(clients[m].events, IsOnline(clients[m]), clock)
      BY DEF HInv, IInv
    <3>2. TimeInv(clients[m], clock + 1)
      <4>1. /\ clients[m].device # NULL => clients[m].device.lastSeen \in Nat
            /\ \A s \in clients[m].sessions : s.end # NULL => s.end \in Nat
        BY <3>1, RowTypes
      <4>. QED
        BY <1>1, <3>1, <4>1 DEF TimeInv
    <3>3. LogInv(clients[m].events, IsOnline(clients[m]), clock + 1)
      <4>1. clients[m].events \in SUBSET EventRow /\ IsOnline(clients[m]) \in BOOLEAN
        BY <3>1 DEF ClientInv, ClientRows, IsOnline, DeviceRow
      <4>2. clock + 1 \in Nat /\ clock <= clock + 1
        BY <1>1
      <4>. QED
        BY <1>1, <3>1, <4>1, <4>2, LogLater
    <3>. QED
      BY <2>1, <3>2, <3>3
  <2>3. NodesInv'
    <3>1. \A n \in Nodes : nodes[n] # NULL => nodes[n].lastSeen \in Nat
      BY DEF HInv, IInv, TypeOK, NodeRow
    <3>. QED
      BY <1>1, <2>1, <3>1 DEF HInv, NodesInv, InOrder
  <2>4. ParentsKnown'
    BY <2>1 DEF HInv, ParentsKnown, InOrder
  <2>. QED
    BY <1>1, <2>2, <2>3, <2>4 DEF HInv
<1>4. ASSUME NEW m \in Touched, NEW starred \in BOOLEAN, StarClient(m, starred)
      PROVE  HInv'
  BY <1>4, StarHInv, TouchedAssumption
<1>5. CASE \/ \E m \in Touched : AliasRead(m) \/ AliasWrite(m) \/ AliasClear(m)
           \/ Restart \/ UNCHANGED vars
  <2>1. UNCHANGED <<clock, clients, nodes, processed>>
    BY <1>5 DEF AliasRead, AliasWrite, AliasClear, Restart, vars
  <2>. QED
    BY <1>1, <2>1 DEF HInv, NodesInv, ParentsKnown, InOrder
<1>. QED
  BY <1>2, <1>3, <1>4, <1>5 DEF Next, Otherwise

(* The invariant of the history holds in every behaviour. *)
LEMMA HistoryHolds == Spec => []HInv
  BY InitHInv, NextHInv, PTL DEF Spec

(* A client's sessions follow each other and last the confirmation time at  *)
(* least, as long as the clock and the snapshots go forward                 *)
(* (service.py:241-310, 376-388).                                            *)
THEOREM SessionsFollow == Spec => []SessionsDisjoint
<1>1. HInv => SessionsDisjoint
  BY DEF HInv, TimeInv, SessionsDisjoint
<1>. QED
  BY <1>1, HistoryHolds, PTL

(* The device row dates the last change as the sessions do                   *)
(* (service.py:199-204, 298-299, 376-388).                                   *)
THEOREM TimesAgree == Spec => []TimestampsAgree
<1>1. HInv => TimestampsAgree
  BY DEF HInv, TimeInv, TimestampsAgree
<1>. QED
  BY <1>1, HistoryHolds, PTL

(* The event log alternates and ends with what the device row says, also    *)
(* when its old events have been deleted (service.py:100-117, 285-413).     *)
THEOREM LogsTellStatus == Spec => []EventsTellStatus
<1>1. HInv => EventsTellStatus
  BY DEF HInv, LogInv, Adjacent, EventsTellStatus
<1>. QED
  BY <1>1, HistoryHolds, PTL

(* The parent of every client is a stored node (service.py:164-185). *)
THEOREM ParentsAreKnown == Spec => []ParentsKnown
<1>1. HInv => ParentsKnown
  BY DEF HInv
<1>. QED
  BY <1>1, HistoryHolds, PTL

-----------------------------------------------------------------------------
(* What a step does to the history *)

(* An ended session that is not deleted stays as it is, with its segments.   *)
(* The sessions of d with the id of one of c are that session, grown.        *)
Grown(c, d) ==
    \A s \in c.sessions :
        /\ \E t \in d.sessions : t.id = s.id
        /\ s.end # NULL => s \in d.sessions /\ SegmentsOf(d, s) = SegmentsOf(c, s)

(* Closing the open segment of an online client leaves the segments of its   *)
(* ended sessions alone.                                                     *)
LEMMA SegmentsOfEnded ==
    ASSUME NEW c, ClientInv(c), IsOnline(c), NEW at \in Nat
    PROVE  /\ \A s \in c.sessions : s.end # NULL =>
                 {x \in EndSegment(c, at) : x.session = s.id} = SegmentsOf(c, s)
           /\ \A x \in EndSegment(c, at) : \E h \in c.segments : x.session = h.session
<1>1. PICK a \in c.sessions, g \in c.segments :
         /\ a.end = NULL /\ CurrentSegment(c) = {g} /\ g.session = a.id
         /\ \A t \in c.sessions : t.end = NULL => t = a
  BY OnlineRows
<1> DEFINE Image(h) == IF h \in {g} THEN [h EXCEPT !.left = at] ELSE h
<1>2. EndSegment(c, at) = {Image(h) : h \in c.segments}
  BY <1>1 DEF EndSegment
<1>3. \A h \in c.segments : Image(h).session = h.session /\ (h # g => Image(h) = h)
  BY DEF ClientInv, ClientRows, SegmentRow
<1> HIDE DEF Image
<1>4. ASSUME NEW s \in c.sessions, s.end # NULL
      PROVE  {x \in EndSegment(c, at) : x.session = s.id} = SegmentsOf(c, s)
  <2>1. g.session # s.id
    BY <1>1, <1>4, RowTypes
  <2>2. \A h \in c.segments : h.session = s.id => Image(h) = h
    BY <1>3, <2>1
  <2>. QED
    BY <1>2, <1>3, <2>2 DEF SegmentsOf
<1>. QED
  BY <1>2, <1>3, <1>4

(* Observing a client rewrites no ended session (service.py:241-331). *)
LEMMA ObserveGrows ==
    ASSUME NEW c, ClientInv(c), NEW at \in Nat, NEW parent \in Parents, NEW now \in Nat
    PROVE  Grown(c, Observe(c, at, parent, now))
<1> DEFINE d == Observe(c, at, parent, now)
<1>1. d.sessions = ObservedSessions(c, at, parent) /\ d.segments = ObservedSegments(c, at, parent)
  BY DEF Observe
<1> SUFFICES Grown(c, d)
  OBVIOUS
<1> HIDE DEF d
<1>2. CASE IsOnline(c)
  <2>1. PICK a \in c.sessions :
           /\ OpenSessions(c) = {a} /\ ActiveSession(c) = {a} /\ a.end = NULL
           /\ \A t \in c.sessions : t.end = NULL => t = a
    BY <1>2, OnlineRows
  <2>2. ~Opens(c) /\ SessionId(c) = a.id
    BY <2>1 DEF Opens, SessionId
  <2>3. a \in SessionRow
    BY <2>1 DEF ClientInv, ClientRows
  <2>4. d.sessions = {IF s \in {a} THEN [s EXCEPT !.last = parent] ELSE s : s \in c.sessions}
    BY <1>1, <2>1, <2>2 DEF ObservedSessions
  <2>5. [a EXCEPT !.last = parent] \in d.sessions /\ \A s \in c.sessions : s # a => s \in d.sessions
    BY <2>1, <2>4
  <2>6. [a EXCEPT !.last = parent].id = a.id
    BY <2>3 DEF SessionRow
  <2>7. \A s \in c.sessions : \E t \in d.sessions : t.id = s.id
    BY <2>5, <2>6
  <2>8. ASSUME NEW s \in c.sessions, s.end # NULL
        PROVE  s \in d.sessions /\ SegmentsOf(d, s) = SegmentsOf(c, s)
    <3>1. s # a /\ s.id # a.id
      BY <2>1, <2>8, RowTypes
    <3>2. NewSegment(c, NewId(c) + 1, at, parent).session # s.id
      BY <2>2, <3>1 DEF NewSegment
    <3>3. d.segments = IF Moved(c, parent)
                       THEN EndSegment(c, at) \cup {NewSegment(c, NewId(c) + 1, at, parent)}
                       ELSE c.segments
      BY <1>1, <2>2 DEF ObservedSegments
    <3>4. {x \in EndSegment(c, at) : x.session = s.id} = SegmentsOf(c, s)
      BY <1>2, <2>8, SegmentsOfEnded
    <3>. QED
      BY <2>5, <3>1, <3>2, <3>3, <3>4 DEF SegmentsOf
  <2>. QED
    BY <2>7, <2>8 DEF Grown
<1>3. CASE ~IsOnline(c)
  <2>1. Opens(c) /\ ~Moved(c, parent)
    BY <1>3, OfflineRows DEF Opens, Moved
  <2>2. /\ d.sessions = c.sessions \cup {NewSession(c, at, parent)}
        /\ d.segments = c.segments \cup {NewSegment(c, NewId(c), at, parent)}
    BY <1>1, <2>1 DEF ObservedSessions, ObservedSegments
  <2>3. NewSegment(c, NewId(c), at, parent).session = c.lastId + 1
    BY <2>1 DEF NewSegment, SessionId, NewId
  <2>4. \A s \in c.sessions : s.id # c.lastId + 1
    BY RowTypes
  <2>. QED
    BY <2>2, <2>3, <2>4 DEF Grown, SegmentsOf
<1>. QED
  BY <1>2, <1>3

(* Confirming a client offline rewrites no ended session, and leaves every   *)
(* row to its session (service.py:376-399).                                  *)
LEMMA ConfirmGrows ==
    ASSUME NEW c, ClientInv(c), IsOnline(c), NEW now \in Nat
    PROVE  LET d == ConfirmOffline(c, now) IN
           /\ Grown(c, d)
           /\ \A t \in d.sessions : \E s \in c.sessions : t.id = s.id
           /\ \A x \in d.segments : \E h \in c.segments : x.session = h.session
<1> DEFINE d == ConfirmOffline(c, now)
<1>1. d.segments = EndSegment(c, OfflineAt(c))
  BY DEF ConfirmOffline
<1>2. OfflineAt(c) \in Nat
  BY ConfirmedRows
<1>3. PICK a \in c.sessions :
         /\ OpenSessions(c) = {a}
         /\ \A x \in d.sessions : x.id = a.id \/ x \in c.sessions
         /\ \E x \in d.sessions : x.id = a.id
         /\ \A s \in c.sessions : s # a => s \in d.sessions
  BY ConfirmedRows
<1>4. a.end = NULL
  BY <1>3 DEF OpenSessions
<1>5. \A s \in c.sessions : s.end # NULL =>
         {x \in EndSegment(c, OfflineAt(c)) : x.session = s.id} = SegmentsOf(c, s)
  BY <1>2, SegmentsOfEnded
<1>6. \A x \in d.segments : \E h \in c.segments : x.session = h.session
  BY <1>1, <1>2, SegmentsOfEnded
<1> HIDE DEF d
<1>7. \A s \in c.sessions : s.end # NULL => SegmentsOf(d, s) = SegmentsOf(c, s)
  BY <1>1, <1>5 DEF SegmentsOf
<1>8. Grown(c, d)
  BY <1>3, <1>4, <1>7 DEF Grown
<1>. QED
  BY <1>3, <1>6, <1>8 DEF d

(* Deleting what has expired takes sessions with their segments, and leaves  *)
(* the others with theirs (service.py:100-117).                              *)
LEMMA ExpireKeeps ==
    ASSUME NEW c, ClientInv(c), NEW at \in Nat
    PROVE  LET d == Expire(c, at) IN
           \A s \in c.sessions :
              \/ s \in d.sessions /\ SegmentsOf(d, s) = SegmentsOf(c, s)
              \/ /\ s.end # NULL /\ s.end + Retention(c) < at
                 /\ SegmentsOf(d, s) = {}
                 /\ \A t \in d.sessions : t.id # s.id
<1> DEFINE d == Expire(c, at)
           old == ExpiredSessions(c, at)
<1>1. /\ d.sessions = c.sessions \ old
      /\ d.segments = {g \in c.segments : \A s \in old : g.session # s.id}
  BY DEF Expire, ClientInv, ClientRows
<1>2. old = {s \in c.sessions : s.end # NULL /\ s.end + Retention(c) < at}
  BY DEF ExpiredSessions
<1>3. \A s, t \in c.sessions : s.id = t.id => s = t
  BY RowTypes
<1> HIDE DEF d, old
<1>4. ASSUME NEW s \in c.sessions, s \in old
      PROVE  /\ s.end # NULL /\ s.end + Retention(c) < at
             /\ SegmentsOf(d, s) = {}
             /\ \A t \in d.sessions : t.id # s.id
  BY <1>1, <1>2, <1>3, <1>4 DEF SegmentsOf
<1>5. ASSUME NEW s \in c.sessions, s \notin old
      PROVE  s \in d.sessions /\ SegmentsOf(d, s) = SegmentsOf(c, s)
  <2>1. \A t \in old : t.id # s.id
    BY <1>2, <1>3, <1>5
  <2>. QED
    BY <1>1, <1>5, <2>1 DEF SegmentsOf
<1>. QED
  BY <1>4, <1>5 DEF d

(* A snapshot keeps the history of a client but for what has expired. *)
LEMMA UpdateKeeps ==
    ASSUME NEW c, ClientInv(c), NEW m \in Macs, NEW snap \in Snapshots, clock \in Nat,
           NEW s \in c.sessions
    PROVE  LET d == UpdateClient(c, m, snap) IN
           \/ /\ \E t \in d.sessions : t.id = s.id
              /\ s.end # NULL => s \in d.sessions /\ SegmentsOf(d, s) = SegmentsOf(c, s)
           \/ /\ ~\E t \in d.sessions : t.id = s.id
              /\ s.end # NULL /\ SegmentsOf(d, s) = {}
              /\ \/ s.end + Retention(c) < clock
                 \/ c.device.lastSeen + IdentityRetention < clock
<1> DEFINE d == UpdateClient(c, m, snap)
           seen == Observed(c, m, snap)
<1>1. /\ snap.at \in Nat /\ snap.at <= clock
      /\ \A k \in DOMAIN snap.devices : snap.devices[k] \in Parents
  BY SnapshotRanges
<1>2. Grown(c, seen) /\ Retention(seen) = Retention(c)
      /\ \A t \in seen.sessions : t.id = s.id /\ s.end = NULL => t.end = NULL
  <2>1. CASE m \in DOMAIN snap.devices
    <3>1. seen = Observe(c, snap.at, snap.devices[m], clock)
      BY <2>1 DEF Observed
    <3>2. Grown(c, seen)
      BY <1>1, <2>1, <3>1, ObserveGrows
    <3>3. /\ seen.device \in DeviceRow
          /\ seen.device.starred <=> (c.device # NULL /\ c.device.starred)
          /\ IsOnline(c) => \A x \in seen.sessions : \E y \in c.sessions :
                               x.id = y.id /\ x.end = y.end
      BY <1>1, <2>1, <3>1, ObservedRows
    <3>4. Retention(seen) = Retention(c)
      BY <3>3, RowAssumption DEF Retention
    <3>5. s.end = NULL => IsOnline(c)
      BY OfflineRows
    <3>6. \A y \in c.sessions : y.id = s.id => y = s
      BY RowTypes
    <3>. QED
      BY <3>2, <3>3, <3>4, <3>5, <3>6
  <2>2. CASE m \notin DOMAIN snap.devices
    BY <2>2, RowTypes DEF Observed, Grown
  <2>. QED
    BY <2>1, <2>2
<1>3. s.end \in Nat \cup {NULL} /\ Retention(c) \in Nat /\ s.id \in Nat
  BY RowTypes, TimeAssumption DEF Retention
<1> HIDE DEF d, seen
<1>4. ASSUME IsOnline(c), NEW kept \in {c, Expire(c, snap.at)}, ClientInv(kept),
             IsOnline(kept), d = ConfirmOffline(kept, clock)
      PROVE  \/ /\ \E t \in d.sessions : t.id = s.id
                /\ s.end # NULL => s \in d.sessions /\ SegmentsOf(d, s) = SegmentsOf(c, s)
             \/ /\ ~\E t \in d.sessions : t.id = s.id
                /\ s.end # NULL /\ SegmentsOf(d, s) = {} /\ s.end + Retention(c) < clock
  <2>1. /\ Grown(kept, d)
        /\ \A t \in d.sessions : \E y \in kept.sessions : t.id = y.id
        /\ \A x \in d.segments : \E h \in kept.segments : x.session = h.session
    BY <1>4, ConfirmGrows
  <2>2. CASE s \in kept.sessions /\ SegmentsOf(kept, s) = SegmentsOf(c, s)
    BY <2>1, <2>2 DEF Grown
  <2>3. CASE /\ s.end # NULL /\ s.end + Retention(c) < snap.at
             /\ SegmentsOf(kept, s) = {} /\ \A t \in kept.sessions : t.id # s.id
    <3>1. SegmentsOf(d, s) = {}
      BY <2>1, <2>3 DEF SegmentsOf
    <3>2. s.end + Retention(c) < clock
      BY <1>1, <1>3, <2>3
    <3>. QED
      BY <2>1, <2>3, <3>1, <3>2
  <2>. QED
    BY <1>1, <1>4, <2>2, <2>3, ExpireKeeps
<1>5. ASSUME Stale(c, snap.at), d = NoRows(c.lastId)
      PROVE  /\ ~\E t \in d.sessions : t.id = s.id
             /\ s.end # NULL /\ SegmentsOf(d, s) = {}
             /\ c.device.lastSeen + IdentityRetention < clock
  <2>1. s.end # NULL
    BY <1>5, OfflineRows DEF Stale, IsOnline
  <2>2. c.device.lastSeen \in Nat /\ c.device.lastSeen + IdentityRetention < snap.at
    BY <1>5, RowTypes DEF Stale
  <2>. QED
    BY <1>1, <1>5, <2>1, <2>2, TimeAssumption DEF NoRows, SegmentsOf
<1>6. ASSUME d = seen
      PROVE  /\ \E t \in d.sessions : t.id = s.id
             /\ s.end # NULL => s \in d.sessions /\ SegmentsOf(d, s) = SegmentsOf(c, s)
  BY <1>2, <1>6 DEF Grown
<1>7. ASSUME ClientInv(seen), d = Expire(seen, snap.at)
      PROVE  \/ /\ \E t \in d.sessions : t.id = s.id
                /\ s.end # NULL => s \in d.sessions /\ SegmentsOf(d, s) = SegmentsOf(c, s)
             \/ /\ ~\E t \in d.sessions : t.id = s.id
                /\ s.end # NULL /\ SegmentsOf(d, s) = {} /\ s.end + Retention(c) < clock
  <2>1. \A y \in seen.sessions :
           \/ y \in d.sessions /\ SegmentsOf(d, y) = SegmentsOf(seen, y)
           \/ /\ y.end # NULL /\ y.end + Retention(c) < snap.at
              /\ SegmentsOf(d, y) = {}
              /\ \A t \in d.sessions : t.id # y.id
    BY <1>1, <1>2, <1>7, ExpireKeeps
  <2>2. CASE s.end = NULL
    BY <1>2, <2>1, <2>2 DEF Grown
  <2>3. CASE s.end # NULL
    <3>1. s \in seen.sessions /\ SegmentsOf(seen, s) = SegmentsOf(c, s)
      BY <1>2, <2>3 DEF Grown
    <3>2. s.end + Retention(c) < snap.at => s.end + Retention(c) < clock
      BY <1>1, <1>3, <2>3
    <3>. QED
      BY <2>1, <2>3, <3>1, <3>2
  <2>. QED
    BY <2>2, <2>3
<1>. QED
  BY <1>4, <1>5, <1>6, <1>7, UpdateCases DEF d, seen

(* A snapshot ends a session as EndsOnlyConfirmed says. *)
LEMMA UpdateEnds ==
    ASSUME NEW c, ClientInv(c), NEW m \in Macs, NEW snap \in Snapshots, clock \in Nat,
           NEW s \in OpenSessions(c), NEW t \in UpdateClient(c, m, snap).sessions,
           t.id = s.id, t.end # NULL
    PROVE  /\ t.end = c.device.lastSeen + OfflineConfirmation
           /\ t.end < clock
           /\ t.last = s.last
<1> DEFINE d == UpdateClient(c, m, snap)
           seen == Observed(c, m, snap)
<1>1. /\ snap.at \in Nat /\ snap.at <= clock
      /\ \A k \in DOMAIN snap.devices : snap.devices[k] \in Parents
  BY SnapshotRanges
<1>2. s \in c.sessions /\ s.end = NULL /\ IsOnline(c)
  BY OfflineRows DEF OpenSessions
<1>3. \A y \in c.sessions : y.id = s.id => y = s
  BY <1>2, RowTypes
<1>4. t \notin seen.sessions
  <2>1. \A x \in seen.sessions : \E y \in c.sessions : x.id = y.id /\ x.end = y.end
    BY <1>1, <1>2, ObservedRows DEF Observed
  <2>. QED
    BY <1>2, <1>3, <2>1
<1>5. ASSUME OfflineAt(c) < snap.at, NEW kept \in {c, Expire(c, snap.at)},
             ClientInv(kept), IsOnline(kept), kept.device = c.device,
             d = ConfirmOffline(kept, clock)
      PROVE  /\ t.end = c.device.lastSeen + OfflineConfirmation
             /\ t.end < clock /\ t.last = s.last
  <2>1. kept.sessions \subseteq c.sessions
    BY <1>5 DEF Expire, ClientInv, ClientRows
  <2>2. OfflineAt(kept) \in Nat /\ OfflineAt(kept) = c.device.lastSeen + OfflineConfirmation
        /\ OfflineAt(kept) = OfflineAt(c)
    BY <1>5, ConfirmedRows DEF OfflineAt
  <2>3. PICK a \in kept.sessions : \A x \in d.sessions :
           \/ x.id = a.id /\ x.end = OfflineAt(kept) /\ x.last = a.last
           \/ x \in kept.sessions
    BY <1>5, ConfirmedRows
  <2>4. t \in d.sessions /\ t \notin kept.sessions
    BY <1>2, <1>3, <2>1
  <2>. QED
    BY <1>1, <1>3, <1>5, <2>1, <2>2, <2>3, <2>4
<1>6. CASE d = NoRows(c.lastId)
  BY <1>6 DEF NoRows
<1>7. Expire(seen, snap.at).sessions \subseteq seen.sessions \/ ~ClientInv(seen)
  BY DEF Expire, ClientInv, ClientRows
<1> HIDE DEF seen
<1>. QED
  BY <1>4, <1>5, <1>6, <1>7, UpdateCases DEF seen

(* A snapshot forgets a client only if it is stale. *)
LEMMA UpdateForgets ==
    ASSUME NEW c, ClientInv(c), NEW m \in Macs, NEW snap \in Snapshots, clock \in Nat,
           c.device # NULL, UpdateClient(c, m, snap).device = NULL
    PROVE  /\ CleanupDue /\ Observed(c, m, snap) = c /\ Stale(c, snap.at)
           /\ UpdateClient(c, m, snap) = NoRows(c.lastId)
<1> DEFINE d == UpdateClient(c, m, snap)
           seen == Observed(c, m, snap)
<1>1. snap.at \in Nat /\ \A k \in DOMAIN snap.devices : snap.devices[k] \in Parents
  BY SnapshotRanges
<1>2. seen.device # NULL
  BY <1>1, ObservedRows, RowAssumption DEF Observed
<1>3. ASSUME NEW kept, ClientInv(kept), IsOnline(kept)
      PROVE  ConfirmOffline(kept, clock).device # NULL
  BY <1>3, ConfirmedRows, RowAssumption
<1>4. ClientInv(seen) => Expire(seen, snap.at).device # NULL
  BY <1>1, <1>2, ExpirePreserves
<1> HIDE DEF d, seen
<1>5. d.device = NULL
  BY DEF d
<1>. QED
  BY <1>2, <1>3, <1>4, <1>5, UpdateCases DEF d, seen

(* No other step changes a session, a segment or which clients are known. *)
LEMMA OtherwiseKeeps ==
    ASSUME IInv, Otherwise \/ UNCHANGED vars, NEW m \in Macs
    PROVE  /\ clients'[m].sessions = clients[m].sessions
           /\ clients'[m].segments = clients[m].segments
           /\ clients[m].device # NULL => clients'[m].device # NULL
<1>1. ASSUME NEW k \in Touched, NEW starred \in BOOLEAN, StarClient(k, starred)
      PROVE  /\ clients'[m].sessions = clients[m].sessions
             /\ clients'[m].segments = clients[m].segments
             /\ clients[m].device # NULL => clients'[m].device # NULL
  <2>1. clients[m] \in ClientRows /\ clients \in [Macs -> ClientRows]
    BY DEF IInv, TypeOK
  <2>2. clients' = [clients EXCEPT ![k].device.starred = starred]
    BY <1>1 DEF StarClient
  <2>3. clients'[m] = IF k = m THEN [clients[m] EXCEPT !.device.starred = starred] ELSE clients[m]
    BY <2>1, <2>2, TouchedAssumption
  <2>4. clients'[m].device = IF k = m THEN [clients[m].device EXCEPT !.starred = starred]
                                      ELSE clients[m].device
    BY <2>1, <2>3 DEF ClientRows
  <2>5. clients[m].device # NULL => [clients[m].device EXCEPT !.starred = starred] \in DeviceRow
    BY <2>1 DEF ClientRows, DeviceRow
  <2>. QED
    BY <2>1, <2>3, <2>4, <2>5, RowAssumption DEF ClientRows
<1>2. CASE \/ \E k \in Touched : AliasRead(k) \/ AliasWrite(k) \/ AliasClear(k)
           \/ Tick \/ Restart \/ UNCHANGED vars
  <2>1. UNCHANGED clients
    BY <1>2 DEF AliasRead, AliasWrite, AliasClear, Tick, Restart, vars
  <2>. QED
    BY <2>1
<1>. QED
  BY <1>1, <1>2 DEF Otherwise

(* A session is ended only after the confirmation time, as of that time      *)
(* (service.py:376-388).                                                     *)
THEOREM EndsAreConfirmed == Spec => EndsOnlyConfirmed
<1> DEFINE Ends ==
      \A m \in Macs : \A s \in OpenSessions(clients[m]) : \A t \in clients'[m].sessions :
         t.id = s.id /\ t.end # NULL =>
             /\ t.end = clients[m].device.lastSeen + OfflineConfirmation
             /\ t.end < clock
             /\ t.last = s.last
<1>1. IInv /\ [Next]_vars => [Ends]_vars
  <2> SUFFICES ASSUME IInv, [Next]_vars,
                      NEW m \in Macs, NEW s \in OpenSessions(clients[m]),
                      NEW t \in clients'[m].sessions, t.id = s.id, t.end # NULL
               PROVE  /\ t.end = clients[m].device.lastSeen + OfflineConfirmation
                      /\ t.end < clock
                      /\ t.last = s.last
    BY DEF Ends
  <2>1. ClientInv(clients[m]) /\ clock \in Nat
    BY DEF IInv, TypeOK
  <2>2. ASSUME NEW snap \in Snapshots, ProcessSnapshot(snap)
        PROVE  /\ t.end = clients[m].device.lastSeen + OfflineConfirmation
               /\ t.end < clock
               /\ t.last = s.last
    <3>1. clients'[m] = UpdateClient(clients[m], m, snap)
      BY <2>2 DEF ProcessSnapshot
    <3>. QED
      BY <2>1, <3>1, UpdateEnds
  <2>3. ~(Otherwise \/ UNCHANGED vars)
    <3>1. Otherwise \/ UNCHANGED vars => t \in clients[m].sessions
      BY OtherwiseKeeps
    <3>. QED
      BY <2>1, <3>1, RowTypes DEF OpenSessions
  <2>. QED
    BY <2>2, <2>3 DEF Next
<1>. QED
  BY <1>1, InvariantHolds, PTL DEF Spec, EndsOnlyConfirmed

(* What has ended stays, until it has expired and is deleted as a whole      *)
(* (service.py:100-150).                                                     *)
THEOREM HistoryStays == Spec => HistoryIsKept
<1> DEFINE Keeps ==
      \A m \in Macs : \A s \in clients[m].sessions : LET c == clients[m] d == clients'[m] IN
         IF \E t \in d.sessions : t.id = s.id
         THEN s.end # NULL => s \in d.sessions /\ SegmentsOf(d, s) = SegmentsOf(c, s)
         ELSE /\ s.end # NULL
              /\ SegmentsOf(d, s) = {}
              /\ \/ s.end + Retention(c) < clock
                 \/ c.device.lastSeen + IdentityRetention < clock
<1>1. IInv /\ [Next]_vars => [Keeps]_vars
  <2> SUFFICES ASSUME IInv, [Next]_vars, NEW m \in Macs, NEW s \in clients[m].sessions
               PROVE  LET c == clients[m] d == clients'[m] IN
                      \/ /\ \E t \in d.sessions : t.id = s.id
                         /\ s.end # NULL => s \in d.sessions /\ SegmentsOf(d, s) = SegmentsOf(c, s)
                      \/ /\ ~\E t \in d.sessions : t.id = s.id
                         /\ s.end # NULL /\ SegmentsOf(d, s) = {}
                         /\ \/ s.end + Retention(c) < clock
                            \/ c.device.lastSeen + IdentityRetention < clock
    BY DEF Keeps
  <2>1. ClientInv(clients[m]) /\ clock \in Nat
    BY DEF IInv, TypeOK
  <2>2. ASSUME NEW snap \in Snapshots, ProcessSnapshot(snap)
        PROVE  clients'[m] = UpdateClient(clients[m], m, snap)
    BY <2>2 DEF ProcessSnapshot
  <2>3. CASE Otherwise \/ UNCHANGED vars
    BY <2>3, OtherwiseKeeps DEF SegmentsOf
  <2>. QED
    BY <2>1, <2>2, <2>3, UpdateKeeps DEF Next
<1>. QED
  BY <1>1, InvariantHolds, PTL DEF Spec, HistoryIsKept

(* A client is forgotten only when offline and unseen for long, and then     *)
(* with its history and its name (service.py:125-150).                       *)
THEOREM ForgetsAsAWhole == Spec => ForgottenAsAWhole
<1> DEFINE Forgets ==
      \A m \in Macs : clients[m].device # NULL /\ clients'[m].device = NULL =>
         /\ ~clients[m].device.online
         /\ clients[m].device.lastSeen + IdentityRetention < clock
         /\ clients'[m] = NoRows(clients[m].lastId)
         /\ m \notin aliases'
<1>1. IInv /\ [Next]_vars => [Forgets]_vars
  <2> SUFFICES ASSUME IInv, [Next]_vars,
                      NEW m \in Macs, clients[m].device # NULL, clients'[m].device = NULL
               PROVE  /\ ~clients[m].device.online
                      /\ clients[m].device.lastSeen + IdentityRetention < clock
                      /\ clients'[m] = NoRows(clients[m].lastId)
                      /\ m \notin aliases'
    BY DEF Forgets
  <2>1. ClientInv(clients[m]) /\ clock \in Nat /\ clients[m].device.lastSeen \in Nat
    BY RowTypes DEF IInv, TypeOK
  <2>2. PICK snap \in Snapshots : ProcessSnapshot(snap)
    BY OtherwiseKeeps DEF Next
  <2>3. clients'[m] = UpdateClient(clients[m], m, snap)
    BY <2>2 DEF ProcessSnapshot
  <2>4. /\ CleanupDue /\ Observed(clients[m], m, snap) = clients[m]
        /\ Stale(clients[m], snap.at) /\ clients'[m] = NoRows(clients[m].lastId)
    BY <2>1, <2>3, UpdateForgets
  <2>5. ~clients[m].device.online /\ clients[m].device.lastSeen + IdentityRetention < clock
    <3>1. snap.at \in Nat /\ snap.at <= clock
      BY <2>1, SnapshotRanges
    <3>. QED
      BY <2>1, <2>4, <3>1, TimeAssumption DEF Stale
  <2>6. m \notin aliases'
    BY <2>2, <2>4 DEF ProcessSnapshot
  <2>. QED
    BY <2>4, <2>5, <2>6
<1>. QED
  BY <1>1, InvariantHolds, PTL DEF Spec, ForgottenAsAWhole

-----------------------------------------------------------------------------
(* Segments tile the sessions *)

(* TilesSession, of the segments of a session. *)
Tiled(segs, s) ==
    /\ \E q : {g \in segs : g.entered = s.start /\ g.node = s.first} = {q}
    /\ \A g \in segs :
          /\ g.left # NULL => g.entered < g.left
          /\ \/ g.entered = s.start /\ g.node = s.first
             \/ \E h \in segs : h.left = g.entered /\ h.node # g.node
          /\ g.left = s.end \/ \E h \in segs : h.entered = g.left
    /\ \A g, h \in segs : g.id < h.id => g.left # NULL /\ g.left <= h.entered

(* A client's segments tile its sessions; the open one was entered no later *)
(* than the client was last seen.                                            *)
TileInv(c) ==
    /\ \A s \in c.sessions : Tiled(SegmentsOf(c, s), s)
    /\ \A g \in c.segments : g.left = NULL => g.entered <= c.device.lastSeen

(* Segments, g of them left at an instant. *)
Ended(segs, g, at) == {IF h = g THEN [h EXCEPT !.left = at] ELSE h : h \in segs}

(* What then holds of them, E, whether another is entered or none. *)
EndTiled(E, segs, g, s, at) ==
    /\ E \subseteq SegmentRow
    /\ \A x \in E : /\ x.left # NULL /\ x.entered < x.left /\ x.left <= at
                    /\ \/ x.entered = s.start /\ x.node = s.first
                       \/ \E y \in E : y.left = x.entered /\ y.node # x.node
                    /\ x.left = at \/ \E y \in E : y.entered = x.left
                    /\ \E h \in segs : h.id = x.id
    /\ \E x \in E : x.left = at /\ x.node = g.node
    /\ \E q : {x \in E : x.entered = s.start /\ x.node = s.first} = {q}
    /\ \A x, y \in E : x.id < y.id => x.left <= y.entered

LEMMA EndedTiles ==
    ASSUME NEW segs \in SUBSET SegmentRow, NEW g \in segs, g.left = NULL,
           \A h \in segs : h.left = NULL => h = g,
           \A h, j \in segs : h.id = j.id => h = j,
           NEW s, s.end = NULL, Tiled(segs, s), NEW at \in Nat, g.entered < at
    PROVE  EndTiled(Ended(segs, g, at), segs, g, s, at)
<1> DEFINE E == Ended(segs, g, at)
           Image(h) == IF h = g THEN [h EXCEPT !.left = at] ELSE h
<1>1. E = {Image(h) : h \in segs}
  BY DEF Ended
<1>2. \A h \in segs :
         /\ Image(h) \in SegmentRow /\ Image(h).id = h.id /\ Image(h).node = h.node
         /\ Image(h).entered = h.entered
         /\ Image(h).left = IF h = g THEN at ELSE h.left
  BY DEF SegmentRow, Instants
<1>3. \A h \in segs : h.id \in Nat /\ h.entered \in Nat /\ (h.left # NULL => h.left \in Nat)
  BY DEF SegmentRow, Instants
<1> HIDE DEF E, Image
<1>4. at # NULL
  BY NullAssumption
<1>5. \A h \in segs : h # g => h.left \in Nat /\ h.left <= g.entered
  <2>. SUFFICES ASSUME NEW h \in segs, h # g PROVE h.left \in Nat /\ h.left <= g.entered
    OBVIOUS
  <2>1. h.id # g.id /\ ~(g.id < h.id)
    BY DEF Tiled
  <2>2. h.id < g.id
    BY <1>3, <2>1
  <2>. QED
    BY <1>3, <2>2 DEF Tiled
<1>6. ASSUME NEW h \in segs
      PROVE  /\ Image(h).left # NULL /\ Image(h).entered < Image(h).left
             /\ Image(h).left <= at
  <2>1. h # g => h.entered < h.left
    BY DEF Tiled
  <2>. QED
    BY <1>2, <1>3, <1>4, <1>5, <2>1
<1>7. ASSUME NEW h \in segs
      PROVE  \/ Image(h).entered = s.start /\ Image(h).node = s.first
             \/ \E y \in E : y.left = Image(h).entered /\ y.node # Image(h).node
  <2>1. CASE h.entered = s.start /\ h.node = s.first
    BY <1>2, <2>1
  <2>2. CASE \E j \in segs : j.left = h.entered /\ j.node # h.node
    <3>1. PICK j \in segs : j.left = h.entered /\ j.node # h.node
      BY <2>2
    <3>2. j # g
      BY <1>3, <3>1, NullAssumption
    <3>3. Image(j) \in E /\ Image(j).left = j.left
      BY <1>1, <1>2, <3>2
    <3>. QED
      BY <1>2, <3>1, <3>3
  <2>. QED
    BY <2>1, <2>2 DEF Tiled
<1>8. ASSUME NEW h \in segs
      PROVE  Image(h).left = at \/ \E y \in E : y.entered = Image(h).left
  <2>1. CASE h = g
    BY <1>2, <2>1
  <2>2. CASE h # g
    <3>1. PICK j \in segs : j.entered = h.left
      BY <2>2 DEF Tiled
    <3>2. Image(j) \in E /\ Image(j).entered = Image(h).left
      BY <1>1, <1>2, <2>2, <3>1
    <3>. QED
      BY <3>2
  <2>. QED
    BY <2>1, <2>2
<1>9. \E q : {x \in E : x.entered = s.start /\ x.node = s.first} = {q}
  <2>1. PICK q : {h \in segs : h.entered = s.start /\ h.node = s.first} = {q}
    BY DEF Tiled
  <2>2. q \in segs /\ q.entered = s.start /\ q.node = s.first
    BY <2>1
  <2>3. \A h \in segs : h.entered = s.start /\ h.node = s.first => h = q
    BY <2>1
  <2>4. {x \in E : x.entered = s.start /\ x.node = s.first} = {Image(q)}
    BY <1>1, <1>2, <2>2, <2>3
  <2>. QED
    BY <2>4
<1>10. ASSUME NEW h \in segs, NEW j \in segs, Image(h).id < Image(j).id
       PROVE  Image(h).left <= Image(j).entered
  <2>1. h.left # NULL /\ h.left <= j.entered
    BY <1>2, <1>10 DEF Tiled
  <2>. QED
    BY <1>2, <2>1
<1>11. Image(g) \in E /\ Image(g).left = at /\ Image(g).node = g.node
  BY <1>1, <1>2
<1>12. E \subseteq SegmentRow /\ \A x \in E : \E h \in segs : h.id = x.id
  BY <1>1, <1>2
<1>13. ASSUME NEW x \in E
       PROVE  /\ x.left # NULL /\ x.entered < x.left /\ x.left <= at
              /\ \/ x.entered = s.start /\ x.node = s.first
                 \/ \E y \in E : y.left = x.entered /\ y.node # x.node
              /\ x.left = at \/ \E y \in E : y.entered = x.left
  <2>1. PICK h \in segs : x = Image(h)
    BY <1>1
  <2>. QED
    BY <1>6, <1>7, <1>8, <2>1
<1>14. ASSUME NEW x \in E, NEW y \in E, x.id < y.id
       PROVE  x.left <= y.entered
  <2>1. PICK h \in segs, j \in segs : x = Image(h) /\ y = Image(j)
    BY <1>1
  <2>. QED
    BY <1>10, <1>14, <2>1
<1>15. EndTiled(E, segs, g, s, at)
  BY <1>9, <1>11, <1>12, <1>13, <1>14 DEF EndTiled
<1>. QED
  BY <1>15 DEF E

(* The client is confirmed offline: its segment ends with its session. *)
LEMMA TiledToEnd ==
    ASSUME NEW segs \in SUBSET SegmentRow, NEW g \in segs, g.left = NULL,
           \A h \in segs : h.left = NULL => h = g,
           \A h, j \in segs : h.id = j.id => h = j,
           NEW s, s.end = NULL, Tiled(segs, s), NEW at \in Nat, g.entered < at,
           NEW t, t.start = s.start, t.first = s.first, t.end = at
    PROVE  Tiled(Ended(segs, g, at), t)
<1> DEFINE E == Ended(segs, g, at)
<1>1. EndTiled(E, segs, g, s, at)
  BY EndedTiles
<1> HIDE DEF E
<1>2. /\ \A x \in E : /\ x.left # NULL /\ x.entered < x.left
                      /\ \/ x.entered = t.start /\ x.node = t.first
                         \/ \E y \in E : y.left = x.entered /\ y.node # x.node
                      /\ x.left = t.end \/ \E y \in E : y.entered = x.left
      /\ \A x, y \in E : x.id < y.id => x.left <= y.entered
  BY <1>1 DEF EndTiled
<1>3. \E q : {x \in E : x.entered = t.start /\ x.node = t.first} = {q}
  <2>1. {x \in E : x.entered = t.start /\ x.node = t.first}
          = {x \in E : x.entered = s.start /\ x.node = s.first}
    OBVIOUS
  <2>2. \E q : {x \in E : x.entered = s.start /\ x.node = s.first} = {q}
    BY <1>1 DEF EndTiled
  <2>. QED
    BY <2>1, <2>2
<1>4. Tiled(E, t)
  BY <1>2, <1>3 DEF Tiled
<1>. QED
  BY <1>4 DEF E

(* The client has moved: it enters another node as it leaves one. *)
LEMMA TiledToNext ==
    ASSUME NEW segs \in SUBSET SegmentRow, NEW g \in segs, g.left = NULL,
           \A h \in segs : h.left = NULL => h = g,
           \A h, j \in segs : h.id = j.id => h = j,
           NEW s, s.end = NULL, Tiled(segs, s), NEW at \in Nat, g.entered < at,
           NEW t, t.start = s.start, t.first = s.first, t.end = NULL, t.start # at,
           NEW n \in SegmentRow, n.left = NULL, n.entered = at, n.node # g.node,
           \A h \in segs : h.id < n.id
    PROVE  Tiled(Ended(segs, g, at) \cup {n}, t)
<1> DEFINE E == Ended(segs, g, at)
           F == E \cup {n}
<1>0. EndTiled(E, segs, g, s, at)
  BY EndedTiles
<1> HIDE DEF E
<1>1. /\ E \subseteq SegmentRow
      /\ \A x \in E : /\ x.left # NULL /\ x.entered < x.left /\ x.left <= at
                      /\ \/ x.entered = s.start /\ x.node = s.first
                         \/ \E y \in E : y.left = x.entered /\ y.node # x.node
                      /\ x.left = at \/ \E y \in E : y.entered = x.left
                      /\ \E h \in segs : h.id = x.id
      /\ \E x \in E : x.left = at /\ x.node = g.node
      /\ \E q : {x \in E : x.entered = s.start /\ x.node = s.first} = {q}
      /\ \A x, y \in E : x.id < y.id => x.left <= y.entered
  BY <1>0 DEF EndTiled
<1>2. {x \in F : x.entered = t.start /\ x.node = t.first}
        = {x \in E : x.entered = s.start /\ x.node = s.first}
  OBVIOUS
<1>3. \A x \in F : \/ x.entered = t.start /\ x.node = t.first
                   \/ \E y \in F : y.left = x.entered /\ y.node # x.node
  BY <1>1
<1>4. \A x \in F : /\ x.left # NULL => x.entered < x.left
                   /\ x.left = t.end \/ \E y \in F : y.entered = x.left
  BY <1>1
<1>5. ASSUME NEW x \in F, NEW y \in F, x.id < y.id
      PROVE  x.left # NULL /\ x.left <= y.entered
  <2>1. \A z \in F : z.id \in Nat
    BY <1>1 DEF SegmentRow
  <2>2. \A z \in E : z.id < n.id
    BY <1>1
  <2>3. x \in E
    BY <1>5, <2>1, <2>2
  <2>. QED
    BY <1>1, <1>5, <2>3
<1>. QED
  BY <1>1, <1>2, <1>3, <1>4, <1>5 DEF Tiled, E

(* Observing a client, anew, in place or elsewhere, keeps its sessions tiled *)
(* (service.py:241-331).                                                     *)
LEMMA ObserveTiles ==
    ASSUME NEW c, ClientInv(c), TileInv(c), NEW k \in Nat, TimeInv(c, k), InOrder,
           c.device # NULL => c.device.lastSeen < k,
           NEW parent \in Parents, NEW now \in Nat
    PROVE  TileInv(Observe(c, k, parent, now))
<1> DEFINE d == Observe(c, k, parent, now)
<1>1. d.sessions = ObservedSessions(c, k, parent) /\ d.segments = ObservedSegments(c, k, parent)
  BY DEF Observe
<1>2. d.device.lastSeen = k /\ Grown(c, d)
  <2>1. d.device.lastSeen = k
    BY ObservedRows
  <2>2. Grown(c, d)
    BY ObserveGrows
  <2>. QED
    BY <2>1, <2>2
<1>3. c.segments \subseteq SegmentRow /\ c.lastId \in Nat /\ \A g \in c.segments : g.entered \in Nat
  BY DEF ClientInv, ClientRows, SegmentRow
<1> SUFFICES TileInv(d)
  OBVIOUS
<1>4. CASE ~IsOnline(c)
  <2> DEFINE ns == NewSession(c, k, parent)
             sg == NewSegment(c, NewId(c), k, parent)
  <2>1. Opens(c) /\ ~Moved(c, parent)
    BY <1>4, OfflineRows DEF Opens, Moved
  <2>2. d.sessions = c.sessions \cup {ns} /\ d.segments = c.segments \cup {sg}
    BY <1>1, <2>1 DEF ObservedSessions, ObservedSegments
  <2>3. /\ ns.id = c.lastId + 1 /\ ns.start = k /\ ns.end = NULL /\ ns.first = parent
        /\ sg.id = c.lastId + 1 /\ sg.session = c.lastId + 1 /\ sg.entered = k
        /\ sg.left = NULL /\ sg.node = parent
    BY <2>1 DEF NewSession, NewSegment, SessionId, NewId
  <2> HIDE DEF ns, sg, d
  <2>4. \A s \in c.sessions : s.end # NULL /\ s.id < c.lastId + 1
    BY <1>3, <1>4, OfflineRows, RowTypes
  <2>5. \A g \in c.segments : g.session # c.lastId + 1 /\ g.left # NULL
    <3>1. \A g \in c.segments : g.left # NULL
      BY <1>4, OfflineRows
    <3>2. \A g \in c.segments : \E s \in c.sessions : g.session = s.id
      BY DEF ClientInv, NoOrphanRow
    <3>3. \A s \in c.sessions : s.id \in Nat
      BY RowTypes
    <3>. QED
      BY <1>3, <2>4, <3>1, <3>2, <3>3
  <2>6. Tiled(SegmentsOf(d, ns), ns)
    <3>1. SegmentsOf(d, ns) = {sg}
      BY <2>2, <2>3, <2>5 DEF SegmentsOf
    <3>2. {g \in {sg} : g.entered = ns.start /\ g.node = ns.first} = {sg}
      BY <2>3
    <3>3. \A g \in {sg} : /\ g.left = ns.end /\ g.left = NULL
                          /\ g.entered = ns.start /\ g.node = ns.first
      BY <2>3
    <3>4. \A g, h \in {sg} : ~(g.id < h.id)
      BY <1>3, <2>3
    <3>5. Tiled({sg}, ns)
      BY <3>2, <3>3, <3>4 DEF Tiled
    <3>. QED
      BY <3>1, <3>5
  <2>7. \A s \in c.sessions : Tiled(SegmentsOf(d, s), s)
    BY <1>2, <2>4 DEF Grown, TileInv
  <2>8. \A g \in d.segments : g.left = NULL => g.entered <= d.device.lastSeen
    BY <1>2, <2>2, <2>3, <2>5
  <2>. QED
    BY <2>2, <2>6, <2>7, <2>8 DEF TileInv
<1>5. CASE IsOnline(c)
  <2>1. PICK a \in c.sessions, g \in c.segments :
           /\ OpenSessions(c) = {a} /\ ActiveSession(c) = {a}
           /\ a.end = NULL /\ a.last = c.device.parent
           /\ CurrentSegment(c) = {g}
           /\ g.left = NULL /\ g.session = a.id /\ g.node = a.last
           /\ \A t \in c.sessions : t.end = NULL => t = a
           /\ \A h \in c.segments : h.left = NULL => h = g
    BY <1>5, OnlineRows
  <2>2. ~Opens(c) /\ SessionId(c) = a.id
    BY <2>1 DEF Opens, SessionId
  <2>3. g.entered <= c.device.lastSeen /\ c.device.lastSeen < k /\ a.start < k
    <3>1. a.start = c.device.lastOnline /\ c.device.lastOnline <= c.device.lastSeen
      BY <1>5, <2>1 DEF TimeInv, IsOnline
    <3>2. c.device # NULL
      BY <1>5 DEF IsOnline
    <3>. QED
      BY <2>1, <3>1, <3>2, RowTypes DEF TileInv
  <2>4. c.device.lastSeen \in Nat
    BY <1>5, RowTypes DEF IsOnline
  <2>5. CASE parent = c.device.parent
    <3>1. d.sessions = c.sessions
      BY <1>5, <2>5, ObserveInPlace
    <3>2. d.segments = c.segments
      BY <1>1, <2>2, <2>5 DEF ObservedSegments, Moved
    <3> HIDE DEF d
    <3>3. \A h \in d.segments : h.left = NULL => h.entered <= d.device.lastSeen
      BY <1>2, <1>3, <2>1, <2>3, <2>4, <3>2
    <3>. QED
      BY <3>1, <3>2, <3>3 DEF TileInv, SegmentsOf
  <2>6. CASE parent # c.device.parent
    <3> DEFINE b == [a EXCEPT !.last = parent]
               n == NewSegment(c, NewId(c) + 1, k, parent)
               segs == SegmentsOf(c, a)
    <3>1. /\ a \in SessionRow /\ b \in SessionRow /\ b.id = a.id /\ b.start = a.start
          /\ b.first = a.first /\ b.end = NULL
      BY <2>1 DEF ClientInv, ClientRows, SessionRow
    <3>2. d.sessions = Rewritten(c, a, b)
      <4>1. d.sessions = {IF s \in {a} THEN [s EXCEPT !.last = parent] ELSE s : s \in c.sessions}
        BY <1>1, <2>1, <2>2 DEF ObservedSessions
      <4>2. \A s \in c.sessions : (IF s \in {a} THEN [s EXCEPT !.last = parent] ELSE s)
                                = (IF s = a THEN b ELSE s)
        OBVIOUS
      <4>. QED
        BY <4>1, <4>2 DEF Rewritten
    <3>3. d.segments = Ended(c.segments, g, k) \cup {n}
      BY <1>1, <1>5, <2>1, <2>2, <2>6 DEF ObservedSegments, Moved, EndSegment, Ended
    <3>4. /\ n.id = c.lastId + 2 /\ n.session = a.id /\ n.entered = k
          /\ n.left = NULL /\ n.node = parent
      BY <1>3, <2>2 DEF NewSegment, NewId
    <3>5. n \in SegmentRow
      BY <1>3, <3>1, <2>2 DEF NewSegment, NewId, SegmentRow, SessionRow, Instants
    <3> HIDE DEF b, n, d
    <3>6. SegmentsOf(d, b) = Ended(segs, g, k) \cup {n}
      <4>1. \A h \in c.segments : [h EXCEPT !.left = k].session = h.session
        BY <1>3 DEF SegmentRow
      <4>. QED
        BY <3>1, <3>3, <3>4, <4>1 DEF SegmentsOf, Ended
    <3>7. Tiled(SegmentsOf(d, b), b)
      <4>1. /\ segs \in SUBSET SegmentRow /\ g \in segs /\ segs \subseteq c.segments
            /\ Tiled(segs, a)
        BY <1>3, <2>1 DEF SegmentsOf, TileInv
      <4>2. /\ \A h, j \in c.segments : h.id = j.id => h = j
            /\ \A h \in c.segments : h.id \in Nat /\ h.id <= c.lastId
        BY <1>3 DEF ClientInv, IdsAreKeys, SegmentRow
      <4>3. \A h \in segs : h.id < n.id
        BY <1>3, <3>4, <4>1, <4>2
      <4>4. g.entered < k /\ b.start # k /\ n.node # g.node
        BY <1>3, <2>1, <2>3, <2>4, <2>6, <3>1, <3>4 DEF SessionRow
      <4> HIDE DEF segs
      <4>5. Tiled(Ended(segs, g, k) \cup {n}, b)
        BY <2>1, <3>1, <3>4, <3>5, <4>1, <4>2, <4>3, <4>4, TiledToNext
      <4>. QED
        BY <3>6, <4>5 DEF segs
    <3>8. ASSUME NEW x \in d.sessions PROVE Tiled(SegmentsOf(d, x), x)
      <4>1. x = b \/ (x \in c.sessions /\ x.end # NULL)
        BY <2>1, <3>1, <3>2, RewrittenSessions
      <4>2. x \in c.sessions /\ x.end # NULL => Tiled(SegmentsOf(d, x), x)
        BY <1>2 DEF Grown, TileInv
      <4>. QED
        BY <3>7, <4>1, <4>2
    <3>9. \A h \in d.segments : h.left = NULL => h.entered <= d.device.lastSeen
      <4>1. [g EXCEPT !.left = k].left # NULL
        BY <1>3, NullAssumption DEF SegmentRow
      <4>. QED
        <5>1. \A h \in Ended(c.segments, g, k) : h.left # NULL
          BY <2>1, <4>1 DEF Ended
        <5>2. n.entered <= d.device.lastSeen
          BY <1>2, <3>4
        <5> HIDE DEF Ended
        <5>. QED
          BY <3>3, <5>1, <5>2
    <3>. QED
      BY <3>8, <3>9 DEF TileInv
  <2>. QED
    BY <2>5, <2>6
<1>. QED
  BY <1>4, <1>5

(* Confirming a client offline ends its segment as it ends its session       *)
(* (service.py:376-399).                                                     *)
LEMMA ConfirmTiles ==
    ASSUME NEW c, ClientInv(c), TileInv(c), IsOnline(c), NEW now \in Nat
    PROVE  TileInv(ConfirmOffline(c, now))
<1> DEFINE d == ConfirmOffline(c, now)
           at == OfflineAt(c)
<1>1. PICK a \in c.sessions, g \in c.segments :
         /\ ActiveSession(c) = {a} /\ a.end = NULL
         /\ CurrentSegment(c) = {g}
         /\ g.left = NULL /\ g.session = a.id
         /\ \A t \in c.sessions : t.end = NULL => t = a
         /\ \A h \in c.segments : h.left = NULL => h = g
  BY OnlineRows
<1> DEFINE b == [a EXCEPT !.end = at]
           segs == SegmentsOf(c, a)
<1>2. at \in Nat /\ at = c.device.lastSeen + OfflineConfirmation /\ Grown(c, d)
  BY ConfirmedRows, ConfirmGrows
<1>3. /\ a \in SessionRow /\ b \in SessionRow /\ b.id = a.id /\ b.start = a.start
      /\ b.first = a.first /\ b.end = at
  BY <1>2 DEF ClientInv, ClientRows, SessionRow, Instants
<1>4. c.segments \subseteq SegmentRow /\ \A h \in c.segments : h.entered \in Nat
  BY DEF ClientInv, ClientRows, SegmentRow
<1>5. d.sessions = Rewritten(c, a, b) /\ d.segments = Ended(c.segments, g, at)
  <2>1. /\ d.sessions = {IF s \in {a} THEN [s EXCEPT !.end = at] ELSE s : s \in c.sessions}
        /\ d.segments = EndSegment(c, at)
    BY <1>1 DEF ConfirmOffline
  <2>2. \A s \in c.sessions : (IF s \in {a} THEN [s EXCEPT !.end = at] ELSE s)
                            = (IF s = a THEN b ELSE s)
    OBVIOUS
  <2>. QED
    BY <1>1, <2>1, <2>2 DEF Rewritten, EndSegment, Ended
<1>6. g.entered < at
  <2>1. c.device.lastSeen \in Nat
    BY RowTypes DEF IsOnline
  <2>. QED
    BY <1>1, <1>2, <1>4, <2>1, TimeAssumption DEF TileInv
<1> SUFFICES TileInv(d)
  OBVIOUS
<1> HIDE DEF d, at, b
<1>7. SegmentsOf(d, b) = Ended(segs, g, at)
  <2>1. \A h \in c.segments : [h EXCEPT !.left = at].session = h.session
    BY <1>4 DEF SegmentRow
  <2>. QED
    BY <1>3, <1>5, <2>1 DEF SegmentsOf, Ended
<1>8. Tiled(SegmentsOf(d, b), b)
  <2>1. /\ segs \in SUBSET SegmentRow /\ g \in segs /\ segs \subseteq c.segments
        /\ Tiled(segs, a)
    BY <1>1, <1>4 DEF SegmentsOf, TileInv
  <2>2. \A h, j \in c.segments : h.id = j.id => h = j
    BY DEF ClientInv, IdsAreKeys
  <2> HIDE DEF segs
  <2>3. Tiled(Ended(segs, g, at), b)
    BY <1>1, <1>2, <1>3, <1>6, <2>1, <2>2, TiledToEnd
  <2>. QED
    BY <1>7, <2>3 DEF segs
<1>9. ASSUME NEW x \in d.sessions PROVE Tiled(SegmentsOf(d, x), x)
  <2>1. x = b \/ (x \in c.sessions /\ x.end # NULL)
    BY <1>1, <1>3, <1>5, RewrittenSessions
  <2>2. x \in c.sessions /\ x.end # NULL => Tiled(SegmentsOf(d, x), x)
    BY <1>2 DEF Grown, TileInv
  <2>. QED
    BY <1>8, <2>1, <2>2
<1>10. \A h \in d.segments : h.left # NULL
  <2>1. [g EXCEPT !.left = at].left # NULL
    BY <1>2, <1>4, NullAssumption DEF SegmentRow
  <2>. QED
    BY <1>1, <1>5, <2>1 DEF Ended
<1>. QED
  BY <1>9, <1>10 DEF TileInv

(* What expires is deleted by the session. *)
LEMMA ExpireTiles ==
    ASSUME NEW c, ClientInv(c), TileInv(c), NEW at \in Nat
    PROVE  TileInv(Expire(c, at))
<1> DEFINE d == Expire(c, at)
<1>1. d.sessions \subseteq c.sessions /\ d.segments \subseteq c.segments /\ d.device = c.device
  BY DEF Expire, ClientInv, ClientRows
<1>2. \A s \in d.sessions : SegmentsOf(d, s) = SegmentsOf(c, s)
  BY <1>1, ExpireKeeps
<1> SUFFICES TileInv(d)
  OBVIOUS
<1> HIDE DEF d
<1>. QED
  BY <1>1, <1>2 DEF TileInv

LEMMA UpdateTiles ==
    ASSUME NEW c, ClientInv(c), TileInv(c), clock \in Nat, TimeInv(c, clock), InOrder,
           c.device # NULL => c.device.lastSeen < clock,
           NEW m \in Macs, NEW s \in Snapshots
    PROVE  TileInv(UpdateClient(c, m, s))
<1> DEFINE d == UpdateClient(c, m, s)
           seen == Observed(c, m, s)
<1>1. s.at \in Nat /\ s.at = clock /\ \A k \in DOMAIN s.devices : s.devices[k] \in Parents
  BY SnapshotRanges
<1>2. TileInv(seen)
  BY <1>1, ObserveTiles DEF Observed
<1>3. ASSUME NEW kept \in {c, Expire(c, s.at)}, ClientInv(kept), IsOnline(kept),
             d = ConfirmOffline(kept, clock)
      PROVE  TileInv(d)
  BY <1>1, <1>3, ExpireTiles, ConfirmTiles
<1>4. \A id : TileInv(NoRows(id))
  BY DEF TileInv, NoRows
<1>5. ClientInv(seen) => TileInv(Expire(seen, s.at))
  BY <1>1, <1>2, ExpireTiles
<1> HIDE DEF d
<1>. QED
  BY <1>2, <1>3, <1>4, <1>5, UpdateCases DEF d

(* No client was seen by a snapshot collected now, unless it is stored. *)
SeenInv ==
    \A m \in Macs : clients[m].device # NULL =>
        clients[m].device.lastSeen < clock \/ clock \in processed

TInv == HInv /\ (InOrder => SeenInv /\ \A m \in Macs : TileInv(clients[m]))

LEMMA InitTInv == Init => TInv
<1> SUFFICES ASSUME Init PROVE TInv
  OBVIOUS
<1>1. HInv /\ \A m \in Macs : clients[m] = NoRows(0)
  BY InitHInv DEF Init
<1>. QED
  BY <1>1 DEF TInv, SeenInv, TileInv, NoRows

LEMMA NextTInv == TInv /\ [Next]_vars => TInv'
<1> SUFFICES ASSUME TInv, [Next]_vars, InOrder
             PROVE  SeenInv' /\ \A m \in Macs : TileInv(clients'[m])
  BY NextHInv DEF TInv, InOrder, TileInv
<1>1. /\ HInv /\ SeenInv /\ \A m \in Macs : TileInv(clients[m])
      /\ clock \in Nat /\ \A m \in Macs : ClientInv(clients[m]) /\ TimeInv(clients[m], clock)
  BY DEF TInv, HInv, IInv, TypeOK
<1>2. \A m \in Macs : clients[m].device # NULL =>
         clients[m].device.lastSeen \in Nat /\ clients[m].device.lastSeen <= clock
  BY <1>1, RowTypes DEF TimeInv
<1>3. ASSUME NEW s \in Snapshots, ProcessSnapshot(s)
      PROVE  SeenInv' /\ \A m \in Macs : TileInv(clients'[m])
  <2>1. /\ s.at = clock /\ clock \notin processed /\ clock' = clock /\ clock \in processed'
        /\ \A m \in Macs : clients'[m] = UpdateClient(clients[m], m, s)
    BY <1>1, <1>3, SnapshotRanges DEF ProcessSnapshot
  <2>2. \A m \in Macs : clients[m].device # NULL => clients[m].device.lastSeen < clock
    BY <1>1, <2>1 DEF SeenInv
  <2>3. \A m \in Macs : TileInv(clients'[m])
    BY <1>1, <2>1, <2>2, UpdateTiles
  <2>. QED
    BY <2>1, <2>3 DEF SeenInv
<1>4. CASE Tick
  BY <1>1, <1>2, <1>4 DEF Tick, SeenInv
<1>5. ASSUME NEW m \in Macs, NEW starred \in BOOLEAN, StarClient(m, starred)
      PROVE  SeenInv' /\ \A k \in Macs : TileInv(clients'[k])
  <2>1. clients[m] \in ClientRows /\ clients[m].device \in DeviceRow
        /\ clients'[m] = [clients[m] EXCEPT !.device.starred = starred]
        /\ (\A k \in Macs \ {m} : clients'[k] = clients[k])
        /\ clock' = clock /\ processed' = processed
    BY <1>1, <1>5 DEF HInv, IInv, TypeOK, ClientInv, ClientRows, StarClient
  <2>2. /\ clients'[m].sessions = clients[m].sessions
        /\ clients'[m].segments = clients[m].segments
        /\ clients'[m].device.lastSeen = clients[m].device.lastSeen
        /\ clients[m].device # NULL
    BY <1>5, <2>1, RowAssumption DEF ClientRows, DeviceRow, StarClient
  <2>3. TileInv(clients'[m])
    BY <1>1, <2>2 DEF TileInv, SegmentsOf
  <2>4. SeenInv'
    BY <1>1, <2>1, <2>2 DEF SeenInv
  <2>. QED
    BY <1>1, <2>1, <2>3, <2>4
<1>6. CASE \/ \E m \in Touched : AliasRead(m) \/ AliasWrite(m) \/ AliasClear(m)
           \/ Restart \/ UNCHANGED vars
  <2>1. UNCHANGED <<clock, clients, processed>>
    BY <1>6 DEF AliasRead, AliasWrite, AliasClear, Restart, vars
  <2>. QED
    BY <1>1, <2>1 DEF SeenInv
<1>. QED
  BY <1>3, <1>4, <1>5, <1>6, TouchedAssumption DEF Next, Otherwise

(* The roaming history of a session accounts for every instant of it, from   *)
(* its first node to its end, whatever is moved, confirmed offline, expired, *)
(* purged or restarted, as long as the clock and the snapshots go forward    *)
(* (service.py:262-269, 312-331, 389-399).                                   *)
THEOREM RoamingIsWhole == Spec => []SegmentsTileSessions
<1>1. TInv => SegmentsTileSessions
  <2> SUFFICES ASSUME TInv, InOrder, NEW m \in Macs, NEW s \in clients[m].sessions
               PROVE  TilesSession(clients[m], s)
    BY DEF SegmentsTileSessions
  <2>1. Tiled(SegmentsOf(clients[m], s), s)
    BY DEF TInv, TileInv
  <2>2. Cardinality({g \in SegmentsOf(clients[m], s) :
                        g.entered = s.start /\ g.node = s.first}) = 1
    BY <2>1, FS_Singleton DEF Tiled
  <2>. QED
    BY <2>1, <2>2 DEF Tiled, TilesSession
<1>. QED
  BY <1>1, InitTInv, NextTInv, PTL DEF Spec
-----------------------------------------------------------------------------
(* Rows in the order of their dates *)

(* A nonempty set of naturals has a least element. *)
LEMMA LeastOf ==
    ASSUME NEW S \in SUBSET Nat, S # {}
    PROVE  \E m \in S : \A s \in S : m <= s
<1>1. PICK m \in S : \A s \in S : ~(<<s, m>> \in OpToRel(<, Nat))
  BY NatLessThanWellFounded, WFMin
<1>2. \A s \in S : ~(s < m)
  BY <1>1 DEF OpToRel
<1>. QED
  BY <1>2

(* The rows before r, if dates are all different. *)
Before(rows, date, r) == {t \in rows : date[t] < date[r]}

(* Rows of a bounded number of dates, all different, are finitely many; so   *)
(* many are before a row as have another place in the order, from 0 on.      *)
LEMMA Ranks ==
    ASSUME NEW k \in Nat, NEW rows, NEW date \in [rows -> 0..k],
           \A r, t \in rows : date[r] = date[t] => r = t
    PROVE  /\ IsFiniteSet(rows) /\ Cardinality(rows) \in Nat
           /\ \A r \in rows : Cardinality(Before(rows, date, r)) \in 0..(Cardinality(rows) - 1)
           /\ \A r, t \in rows : date[t] < date[r] =>
                 Cardinality(Before(rows, date, t)) < Cardinality(Before(rows, date, r))
           /\ \A i \in 1..Cardinality(rows) : \E r \in rows :
                 Cardinality(Before(rows, date, r)) = i - 1
<1> DEFINE n == Cardinality(rows)
           B(r) == Before(rows, date, r)
<1>1. IsFiniteSet(rows) /\ n \in Nat
  <2>1. date \in Injection(rows, 0..k)
    BY DEF Injection, IsInjective
  <2>2. IsFiniteSet(0..k)
    BY FS_Interval
  <2>. QED
    BY <2>1, <2>2, FS_Injection, FS_CardinalityType
<1>2. ASSUME NEW r \in rows
      PROVE  /\ B(r) \subseteq rows /\ r \notin B(r) /\ IsFiniteSet(B(r))
             /\ Cardinality(B(r)) \in Nat /\ Cardinality(B(r)) < n
  <2>1. B(r) \subseteq rows /\ r \notin B(r)
    BY DEF Before
  <2> HIDE DEF B
  <2>2. IsFiniteSet(B(r)) /\ Cardinality(B(r)) <= n /\ (Cardinality(B(r)) = n => B(r) = rows)
    BY <1>1, <2>1, FS_Subset
  <2>3. Cardinality(B(r)) \in Nat
    BY <2>2, FS_CardinalityType
  <2>. QED
    BY <1>1, <2>1, <2>2, <2>3
<1>3. ASSUME NEW r \in rows, NEW t \in rows, date[t] < date[r]
      PROVE  Cardinality(B(t)) < Cardinality(B(r))
  <2>1. B(t) \subseteq B(r) /\ t \in B(r) /\ t \notin B(t)
    BY <1>3 DEF Before
  <2> HIDE DEF B
  <2>2. /\ Cardinality(B(t)) <= Cardinality(B(r))
        /\ Cardinality(B(t)) = Cardinality(B(r)) => B(t) = B(r)
    BY <1>2, <2>1, FS_Subset
  <2>. QED
    BY <1>2, <2>1, <2>2
<1> DEFINE f == [r \in rows |-> Cardinality(B(r)) + 1]
<1>4. f \in Injection(rows, 1..n)
  <2>1. \A r \in rows : Cardinality(B(r)) + 1 \in 1..n
    BY <1>1, <1>2
  <2>2. \A r, t \in rows : f[r] = f[t] => r = t
    <3> SUFFICES ASSUME NEW r \in rows, NEW t \in rows, f[r] = f[t] PROVE r = t
      BY Zenon
    <3>1. Cardinality(B(r)) = Cardinality(B(t))
      BY <1>2
    <3>2. ~(date[t] < date[r]) /\ ~(date[r] < date[t])
      BY <1>2, <1>3, <3>1
    <3>. QED
      BY <3>2
  <2>. QED
    BY <2>1, <2>2 DEF Injection, IsInjective
<1>5. IsFiniteSet(1..n) /\ Cardinality(1..n) = n
  <2>1. n \in Int /\ 1 \in Int /\ (1 > n => n = 0) /\ n - 1 + 1 = n
    BY <1>1
  <2> HIDE DEF n
  <2>. QED
    BY <2>1, FS_Interval
<1>6. f \in Surjection(rows, 1..n)
  BY <1>4, <1>5, FS_Injection
<1>7. ASSUME NEW i \in 1..n PROVE \E r \in rows : Cardinality(B(r)) = i - 1
  <2>1. PICK r \in rows : f[r] = i
    BY <1>6, <1>7 DEF Surjection
  <2>. QED
    BY <1>2, <2>1
<1>. QED
  BY <1>1, <1>2, <1>3, <1>7

Dated(rows, date, k) ==
    date \in [rows -> 0..k] /\ \A r, t \in rows : date[r] = date[t] => r = t

(* Every place of q has the row of that many before it, if there is one. *)
Ranked(q, rows, date) ==
    /\ \E V : q \in [1..Cardinality(rows) -> V]
    /\ \A i \in 1..Cardinality(rows) :
          (\E r \in rows : Cardinality(Before(rows, date, r)) = i - 1) =>
              q[i] \in rows /\ Cardinality(Before(rows, date, q[i])) = i - 1

(* What ORDER BY makes of them (journey.py:35-48, 88-97). *)
LEMMA InOrderOfDate ==
    ASSUME NEW k \in Nat, NEW rows, NEW date, Dated(rows, date, k), NEW q, Ranked(q, rows, date)
    PROVE  /\ q \in Seq(rows)
           /\ \A i, j \in DOMAIN q : i < j => date[q[i]] < date[q[j]]
           /\ \A r \in rows : \E i \in DOMAIN q : q[i] = r
<1> DEFINE n == Cardinality(rows)
           rank(r) == Cardinality(Before(rows, date, r))
<1>1. /\ n \in Nat
      /\ \A r \in rows : rank(r) \in 0..(n - 1)
      /\ \A r, t \in rows : date[t] < date[r] => rank(t) < rank(r)
      /\ \A i \in 1..n : \E r \in rows : rank(r) = i - 1
      /\ date \in [rows -> 0..k] /\ \A r, t \in rows : date[r] = date[t] => r = t
  BY Ranks DEF Dated
<1>2. /\ \A i \in 1..n : q[i] \in rows /\ rank(q[i]) = i - 1
      /\ \E V : q \in [1..n -> V]
  BY <1>1 DEF Ranked
<1> HIDE DEF rank
<1>3. DOMAIN q = 1..n
  BY <1>2
<1>4. q \in Seq(rows)
  <2>1. q \in [1..n -> rows]
    BY <1>2
  <2>2. Seq(rows) = UNION {[1..j -> rows] : j \in Nat}
    BY SeqDef
  <2>. QED
    BY <1>1, <2>1, <2>2, Zenon
<1>5. ASSUME NEW r \in rows, NEW t \in rows
      PROVE  /\ rank(r) < rank(t) => date[r] < date[t]
             /\ rank(r) = rank(t) => r = t
  <2>1. /\ date[t] < date[r] => rank(t) < rank(r)
        /\ date[r] < date[t] => rank(r) < rank(t)
        /\ date[r] = date[t] => r = t
    BY <1>1
  <2>2. date[r] \in Nat /\ date[t] \in Nat
    BY <1>1
  <2>3. rank(r) \in Int /\ rank(t) \in Int
    BY <1>1
  <2>. QED
    BY <2>1, <2>2, <2>3
<1>6. ASSUME NEW i \in 1..n, NEW j \in 1..n, i < j PROVE date[q[i]] < date[q[j]]
  <2>1. i - 1 < j - 1
    BY <1>1, <1>6
  <2>2. q[i] \in rows /\ q[j] \in rows /\ rank(q[i]) = i - 1 /\ rank(q[j]) = j - 1
    BY <1>2
  <2>. QED
    BY <1>5, <2>1, <2>2
<1>7. ASSUME NEW r \in rows PROVE \E i \in 1..n : q[i] = r
  <2> DEFINE i == rank(r) + 1
  <2>1. i \in 1..n /\ i - 1 = rank(r)
    BY <1>1
  <2> HIDE DEF i
  <2>2. rank(q[i]) = rank(r) /\ q[i] \in rows
    BY <1>2, <2>1
  <2>. QED
    BY <1>5, <2>1, <2>2
<1>. QED
  BY <1>3, <1>4, <1>6, <1>7

(* ORDER BY a date that no two rows share: all rows, from the earliest on.    *)
LEMMA OrderOfRows ==
    ASSUME NEW k \in Nat, NEW rows, NEW date \in [rows -> 0..k],
           \A r \in rows : r.id \in Nat,
           \A r, t \in rows : date[r] = date[t] => r = t,
           NEW q, q = OrderBy(date)
    PROVE  /\ q \in Seq(rows)
           /\ \A i, j \in DOMAIN q : i < j => date[q[i]] < date[q[j]]
           /\ \A r \in rows : \E i \in DOMAIN q : q[i] = r
<1> DEFINE Behind(r) == {t \in rows : \/ date[t] < date[r]
                                      \/ (date[t] = date[r] /\ t.id < r.id)}
<1>1. DOMAIN date = rows
  OBVIOUS
<1>2. q = [i \in 1..Cardinality(rows) |-> CHOOSE r \in rows : Cardinality(Behind(r)) = i - 1]
  BY <1>1 DEF OrderBy
<1>3. ASSUME NEW r \in rows PROVE Behind(r) = Before(rows, date, r)
  <2>1. \A t \in rows : (date[t] < date[r] \/ (date[t] = date[r] /\ t.id < r.id))
                        <=> date[t] < date[r]
    OBVIOUS
  <2>. QED
    BY <2>1 DEF Before
<1> HIDE DEF Behind
<1>4. \A i \in 1..Cardinality(rows) : q[i] = CHOOSE r \in rows : Cardinality(Behind(r)) = i - 1
  BY <1>2
<1>5. \A i \in 1..Cardinality(rows) :
         (\E r \in rows : Cardinality(Before(rows, date, r)) = i - 1) =>
            q[i] \in rows /\ Cardinality(Before(rows, date, q[i])) = i - 1
  BY <1>3, <1>4
<1> DEFINE V == {q[i] : i \in 1..Cardinality(rows)}
<1>6. q \in [1..Cardinality(rows) -> V]
  BY <1>2
<1> HIDE DEF V
<1>7. Dated(rows, date, k) /\ Ranked(q, rows, date)
  BY <1>5, <1>6 DEF Dated, Ranked
<1>. QED
  BY <1>7, InOrderOfDate
-----------------------------------------------------------------------------
(* Timelines put together *)

Items == [kind : {"online", "offline"}, start : Nat, end : Nat, node : Parents]

(* The items tile the time from a to b. *)
Tiles(q, a, b) ==
    /\ q \in Seq(Items)
    /\ a \in Nat /\ b \in Nat /\ a <= b
    /\ q = <<>> => a = b
    /\ q # <<>> => q[1].start = a /\ q[Len(q)].end = b
    /\ \A i \in DOMAIN q : q[i].start <= q[i].end
    /\ \A i \in DOMAIN q : i > 1 => q[i].start = q[i - 1].end

LEMMA NoItemTiles == ASSUME NEW a \in Nat PROVE Tiles(<<>>, a, a)
  BY EmptySeq DEF Tiles

(* The items of r are those of p and of q. *)
MadeOf(r, p, q) ==
    \A i \in DOMAIN r : (\E j \in DOMAIN p : r[i] = p[j]) \/ \E j \in DOMAIN q : r[i] = q[j]

LEMMA TilesJoin ==
    ASSUME NEW p, NEW q, NEW a, NEW b, NEW d, Tiles(p, a, b), Tiles(q, b, d)
    PROVE  /\ Tiles(p \o q, a, d)
           /\ MadeOf(p \o q, p, q)
           /\ p \o q = <<>> => p = <<>> /\ q = <<>>
<1> DEFINE r == p \o q
           m == Len(p)
           n == Len(q)
<1>1. /\ p \in Seq(Items) /\ q \in Seq(Items) /\ a \in Nat /\ b \in Nat /\ d \in Nat
      /\ a <= b /\ b <= d
  BY DEF Tiles
<1>2. m \in Nat /\ n \in Nat /\ DOMAIN p = 1..m /\ DOMAIN q = 1..n
  BY <1>1, LenProperties
<1>3. /\ r \in Seq(Items) /\ Len(r) = m + n
      /\ \A i \in 1..(m + n) : r[i] = IF i <= m THEN p[i] ELSE q[i - m]
  BY <1>1, ConcatProperties
<1>4. DOMAIN r = 1..(m + n)
  BY <1>3, LenProperties
<1>5. (p = <<>> <=> m = 0) /\ (q = <<>> <=> n = 0) /\ (r = <<>> <=> m + n = 0)
  BY <1>1, <1>3, EmptySeq
<1>6. /\ \A i \in 1..m : p[i].start <= p[i].end
      /\ \A i \in 1..m : i > 1 => p[i].start = p[i - 1].end
      /\ \A i \in 1..n : q[i].start <= q[i].end
      /\ \A i \in 1..n : i > 1 => q[i].start = q[i - 1].end
      /\ m = 0 => a = b
      /\ n = 0 => b = d
      /\ m # 0 => p[1].start = a /\ p[m].end = b
      /\ n # 0 => q[1].start = b /\ q[n].end = d
  BY <1>2, <1>5 DEF Tiles
<1> HIDE DEF r, m, n
<1>7. /\ \A i \in 1..m : i \in 1..(m + n) /\ r[i] = p[i]
      /\ \A i \in 1..n : m + i \in 1..(m + n) /\ r[m + i] = q[i]
      /\ \A i \in 1..(m + n) : i \in 1..m \/ (i - m \in 1..n /\ r[i] = q[i - m])
  BY <1>2, <1>3
<1>8. \A i \in 1..(m + n) : r[i].start <= r[i].end
  BY <1>2, <1>6, <1>7
<1>9. ASSUME NEW i \in 1..(m + n), i > 1 PROVE r[i].start = r[i - 1].end
  <2>1. CASE i <= m
    BY <1>2, <1>6, <1>7, <1>9, <2>1
  <2>2. CASE i = m + 1
    <3>1. r[i].start = b /\ 1 \in 1..n /\ m \in 1..m
      BY <1>2, <1>6, <1>7, <1>9, <2>2
    <3>2. r[i - 1] = p[m]
      BY <1>2, <1>7, <2>2, <3>1
    <3>. QED
      BY <1>6, <3>1, <3>2
  <2>3. CASE i > m + 1
    <3>1. i - m \in 1..n /\ i - 1 - m \in 1..n /\ i - m > 1 /\ (i - m) - 1 = (i - 1) - m
      BY <1>2, <2>3
    <3>2. r[i] = q[i - m] /\ r[i - 1] = q[(i - m) - 1]
      BY <1>2, <1>3, <2>3, <3>1
    <3>. QED
      BY <1>6, <3>1, <3>2
  <2>. QED
    BY <1>2, <2>1, <2>2, <2>3
<1>10. ASSUME r # <<>> PROVE r[1].start = a /\ r[m + n].end = d
  <2>1. 1 \in 1..(m + n) /\ m + n \in 1..(m + n)
    BY <1>2, <1>5, <1>10
  <2>2. CASE m = 0
    BY <1>2, <1>3, <1>6, <2>1, <2>2
  <2>3. CASE m # 0 /\ n = 0
    BY <1>2, <1>3, <1>6, <2>1, <2>3
  <2>4. CASE m # 0 /\ n # 0
    BY <1>2, <1>3, <1>6, <2>1, <2>4
  <2>. QED
    BY <2>2, <2>3, <2>4
<1>11. r = <<>> => a = d /\ p = <<>> /\ q = <<>>
  BY <1>2, <1>5, <1>6
<1>12. Tiles(r, a, d)
  BY <1>1, <1>3, <1>4, <1>8, <1>9, <1>10, <1>11 DEF Tiles
<1>13. \A i \in DOMAIN r : (\E j \in DOMAIN p : r[i] = p[j]) \/ \E j \in DOMAIN q : r[i] = q[j]
  BY <1>2, <1>4, <1>7
<1>. QED
  BY <1>11, <1>12, <1>13 DEF r, MadeOf

LEMMA OneTiles ==
    ASSUME NEW x \in Items, x.start <= x.end
    PROVE  Tiles(<<x>>, x.start, x.end) /\ <<x>> # <<>> /\ DOMAIN <<x>> = {1} /\ <<x>>[1] = x
<1>1. <<x>> \in Seq(Items) /\ Len(<<x>>) = 1 /\ <<x>>[1] = x /\ DOMAIN <<x>> = 1..1 /\ <<x>> # <<>>
  OBVIOUS
<1>2. x.start \in Nat /\ x.end \in Nat
  BY DEF Items
<1>. QED
  BY <1>1, <1>2 DEF Tiles

(* An interval without an item of its own, or one of its own. *)
LEMMA GapTiles ==
    ASSUME NEW a \in Nat, NEW b \in Nat, a <= b
    PROVE  /\ Tiles(Gap(a, b), a, b)
           /\ \A i \in DOMAIN Gap(a, b) :
                 Gap(a, b)[i].kind = "offline" /\ Gap(a, b)[i].start = a /\ Gap(a, b)[i].end = b
           /\ a < b => Gap(a, b) # <<>>
           /\ ~(a < b) => Gap(a, b) = <<>>
<1> DEFINE x == Item("offline", a, b, NULL)
<1>1. x \in Items /\ x.start = a /\ x.end = b /\ x.kind = "offline"
  BY DEF Item, Items, Parents
<1>2. CASE a < b
  <2>1. Gap(a, b) = <<x>>
    BY <1>2 DEF Gap
  <2> HIDE DEF x
  <2>. QED
    BY <1>1, <1>2, <2>1, OneTiles
<1>3. CASE ~(a < b)
  <2>1. Gap(a, b) = <<>> /\ a = b /\ DOMAIN <<>> = {}
    BY <1>3 DEF Gap
  <2>. QED
    BY <1>3, <2>1, NoItemTiles
<1>. QED
  BY <1>2, <1>3

(* What the loop has after each session, from what it had before.            *)
LinesOf(c, since, ss, line) ==
    /\ line[0] = [items |-> <<>>, end |-> since]
    /\ \A n \in 1..Len(ss) : line[n] = AddSession(c, since, line[n - 1], ss[n])
    /\ Loop(c, since, ss) = line[Len(ss)]

(* The function of Loop exists (journey.py:112-124).                         *)
LEMMA LoopLines ==
    ASSUME NEW c, NEW since, NEW ss, Len(ss) \in Nat
    PROVE  \E line : LinesOf(c, since, ss, line)
<1> DEFINE first == [items |-> <<>>, end |-> since]
           Turn(l, n) == AddSession(c, since, l, ss[n])
           Fits(f, k) == f = [n \in 0..k |-> IF n = 0 THEN first ELSE Turn(f[n - 1], n)]
           Missing == {k \in Nat : ~\E f : Fits(f, k)}
<1> HIDE DEF Turn, first
<1>1. Missing = {}
  <2>1. SUFFICES ASSUME Missing # {} PROVE FALSE
    OBVIOUS
  <2>2. PICK k \in Missing : \A j \in Missing : k <= j
    BY <2>1, LeastOf
  <2>3. CASE k = 0
    <3>1. Fits([n \in 0..0 |-> first], 0)
      OBVIOUS
    <3>. QED
      BY <2>3, <3>1
  <2>4. CASE k # 0
    <3>1. k - 1 \in Nat /\ k - 1 \notin Missing
      <4>1. k \in Nat
        BY <2>2
      <4> HIDE DEF Missing
      <4>. QED
        BY <2>2, <2>4, <4>1
    <3>2. PICK f : Fits(f, k - 1)
      BY <3>1
    <3> DEFINE g == [n \in 0..k |-> IF n < k THEN f[n] ELSE Turn(f[k - 1], k)]
    <3>3. ASSUME NEW n \in 0..k
          PROVE  g[n] = IF n = 0 THEN first ELSE Turn(g[n - 1], n)
      <4>1. CASE n = 0
        BY <2>4, <3>1, <3>2, <4>1
      <4>2. CASE n # 0 /\ n < k
        <5>1. n \in 0..(k - 1) /\ n - 1 \in 0..k /\ n - 1 < k
          BY <3>1, <4>2
        <5>2. g[n] = f[n] /\ g[n - 1] = f[n - 1]
          BY <4>2, <5>1
        <5>3. f[n] = Turn(f[n - 1], n)
          BY <3>2, <4>2, <5>1
        <5>. QED
          BY <4>2, <5>2, <5>3
      <4>3. CASE n = k
        BY <2>4, <3>1, <4>3
      <4>. QED
        BY <3>1, <4>1, <4>2, <4>3
    <3>4. Fits(g, k)
      BY <3>3
    <3>. QED
      BY <3>4
  <2>. QED
    BY <2>3, <2>4
<1> DEFINE line == CHOOSE f : Fits(f, Len(ss))
<1>2. Fits(line, Len(ss))
  <2>1. \E f : Fits(f, Len(ss))
    BY <1>1
  <2> HIDE DEF Fits
  <2>. QED
    BY <2>1
<1>3. Loop(c, since, ss) = line[Len(ss)]
  BY DEF Loop, Turn, first
<1> HIDE DEF line
<1>4. line[0] = first /\ \A n \in 1..Len(ss) : line[n] = Turn(line[n - 1], n)
  <2>1. 0 \in 0..Len(ss) /\ \A n \in 1..Len(ss) : n \in 0..Len(ss) /\ n # 0
    OBVIOUS
  <2>. QED
    BY <1>2, <2>1
<1>. QED
  BY <1>3, <1>4 DEF Turn, first, LinesOf
-----------------------------------------------------------------------------
(* The items of a session *)

(* What the timeline needs of a client's rows. *)
Sound(c) ==
    /\ ClientInv(c)
    /\ TimeInv(c, clock)
    /\ TileInv(c)
    /\ \A g \in c.segments : g.left # NULL => g.left <= clock

(* The sessions of a client follow each other, all of them up to now. *)
LEMMA SessionTimes ==
    ASSUME InOrder, clock \in Nat, NEW c, Sound(c)
    PROVE  /\ \A s \in c.sessions :
                 /\ s.id \in Nat /\ s.start \in Nat /\ SessionEnd(s) \in Nat
                 /\ s.start <= SessionEnd(s) /\ SessionEnd(s) <= clock
                 /\ s.end # NULL => s.end = SessionEnd(s)
           /\ \A s, t \in c.sessions : s.id = t.id => s = t
           /\ \A s, t \in c.sessions : s.id < t.id =>
                 s.end # NULL /\ SessionEnd(s) < t.start
<1>1. /\ \A s \in c.sessions : s.id \in Nat /\ s.start \in Nat /\ s.end \in Instants
      /\ \A s, t \in c.sessions : s.id = t.id => s = t
  BY DEF Sound, ClientInv, ClientRows, SessionRow, IdsAreKeys
<1>2. /\ \A s \in c.sessions :
           s.end # NULL => s.start + OfflineConfirmation <= s.end /\ s.end < clock
      /\ \A s, t \in c.sessions : s.id < t.id => s.end # NULL /\ s.end < t.start
      /\ IsOnline(c) => \A s \in OpenSessions(c) : s.start = c.device.lastOnline
      /\ c.device # NULL => c.device.lastOnline <= c.device.lastSeen /\ c.device.lastSeen <= clock
  BY DEF Sound, TimeInv
<1>3. ASSUME NEW s \in c.sessions, s.end = NULL PROVE s.start <= clock
  <2>1. s \in OpenSessions(c)
    BY <1>3 DEF OpenSessions
  <2>2. IsOnline(c)
    BY <2>1 DEF Sound, ClientInv, OneOpenSession
  <2>3. c.device \in DeviceRow /\ c.device # NULL
    BY <2>2 DEF IsOnline, Sound, ClientInv, ClientRows
  <2>4. c.device.lastOnline \in Nat /\ c.device.lastSeen \in Nat
    BY <2>3 DEF DeviceRow
  <2>. QED
    BY <1>1, <1>2, <2>1, <2>2, <2>3, <2>4
<1>4. OfflineConfirmation \in Nat
  BY TimeAssumption
<1>. QED
  BY <1>1, <1>2, <1>3, <1>4, NullAssumption DEF SessionEnd, Instants

(* The segments of a session follow each other from its start to its end. *)
LEMMA SegmentTimes ==
    ASSUME InOrder, clock \in Nat, NEW c, Sound(c), NEW s \in c.sessions,
           NEW segs, segs = SegmentsOf(c, s)
    PROVE  /\ segs # {}
           /\ \A g \in segs :
                 /\ g.id \in Nat /\ g.node \in Parents /\ g.entered \in Nat /\ Left(g, s) \in Nat
                 /\ s.start <= g.entered /\ g.entered <= Left(g, s)
                 /\ Left(g, s) <= SessionEnd(s)
                 /\ g.left # NULL => g.left = Left(g, s)
                 /\ g.left = NULL => s.end = NULL
                 /\ g.entered < Left(g, s) \/ g.left = NULL
                 /\ g.left = s.end \/ \E h \in segs : h.entered = g.left
                 /\ g.entered = s.start \/ \E h \in segs : h.left = g.entered
           /\ \A g, h \in segs : g.entered = h.entered => g = h
           /\ \A g, h \in segs : g.entered < h.entered =>
                 g.left # NULL /\ Left(g, s) <= h.entered
           /\ \E h \in segs : h.left = s.end
<1>1. /\ segs \subseteq c.segments
      /\ \A g \in segs : /\ g \in SegmentRow /\ g.id \in Nat /\ g.node \in Parents
                         /\ g.entered \in Nat /\ g.left \in Instants /\ g.session = s.id
      /\ \A g, h \in segs : g.id = h.id => g = h
  BY DEF SegmentsOf, Sound, ClientInv, ClientRows, SegmentRow, IdsAreKeys
<1>2. Tiled(segs, s)
  BY DEF Sound, TileInv
<1>3. /\ segs # {}
      /\ \E g \in segs : g.entered = s.start
      /\ \A g \in segs :
            /\ g.left # NULL => g.entered < g.left
            /\ g.left = s.end \/ \E h \in segs : h.entered = g.left
            /\ g.entered = s.start \/ \E h \in segs : h.left = g.entered
      /\ \A g, h \in segs : g.id < h.id => g.left # NULL /\ g.left <= h.entered
  <2>1. PICK q : {g \in segs : g.entered = s.start /\ g.node = s.first} = {q}
    BY <1>2 DEF Tiled
  <2>2. q \in segs /\ q.entered = s.start
    BY <2>1
  <2>3. \A g \in segs : g.left # NULL => g.entered < g.left
    BY <1>2 DEF Tiled
  <2>4. \A g \in segs : g.left = s.end \/ \E h \in segs : h.entered = g.left
    BY <1>2 DEF Tiled
  <2>5. \A g \in segs : g.entered = s.start \/ \E h \in segs : h.left = g.entered
    BY <1>2 DEF Tiled
  <2>6. \A g, h \in segs : g.id < h.id => g.left # NULL /\ g.left <= h.entered
    BY <1>2 DEF Tiled
  <2>. QED
    BY <2>2, <2>3, <2>4, <2>5, <2>6
<1>4. /\ s.start \in Nat /\ SessionEnd(s) \in Nat /\ SessionEnd(s) <= clock
      /\ s.start <= SessionEnd(s) /\ (s.end # NULL => s.end = SessionEnd(s))
  BY SessionTimes
<1>5. ASSUME NEW g \in segs, g.left = NULL
      PROVE  s.end = NULL /\ g.entered <= clock /\ Left(g, s) = clock
  <2>1. g \in OpenSegments(c, s)
    BY <1>5 DEF OpenSegments
  <2>2. s.end = NULL
    BY <2>1 DEF Sound, ClientInv, OneOpenSegment
  <2>3. c.device # NULL /\ g.entered <= c.device.lastSeen /\ c.device.lastSeen <= clock
    BY <1>1, <1>5 DEF Sound, ClientInv, NoOrphanRow, TileInv, TimeInv
  <2>4. c.device.lastSeen \in Nat
    BY <2>3 DEF Sound, ClientInv, ClientRows, DeviceRow
  <2>. QED
    BY <1>1, <1>5, <2>2, <2>3, <2>4 DEF Left, SessionEnd
<1>6. ASSUME NEW g \in segs
      PROVE  /\ g.left # NULL => g.left = Left(g, s)
             /\ Left(g, s) \in Nat /\ Left(g, s) <= clock
             /\ g.entered <= Left(g, s) /\ (g.entered < Left(g, s) \/ g.left = NULL)
  <2>1. CASE g.left = NULL
    BY <1>1, <1>5, <2>1
  <2>2. CASE g.left # NULL
    <3>1. Left(g, s) = g.left /\ g.left \in Nat
      BY <1>1, <2>2 DEF Left, Instants
    <3>2. g.left <= clock
      BY <1>1, <2>2 DEF Sound
    <3>. QED
      BY <1>1, <1>3, <2>2, <3>1, <3>2
  <2>. QED
    BY <2>1, <2>2
<1>7. ASSUME NEW g \in segs, NEW h \in segs, g.entered < h.entered
      PROVE  g.left # NULL /\ g.left <= h.entered
  <2>1. g.id # h.id
    BY <1>1, <1>7
  <2>2. ~(h.id < g.id)
    BY <1>1, <1>3, <1>6, <1>7
  <2>. QED
    BY <1>1, <1>3, <2>1, <2>2
<1>8. ASSUME NEW g \in segs, NEW h \in segs, g.entered = h.entered PROVE g = h
  <2>1. ~(g.id < h.id) /\ ~(h.id < g.id)
    BY <1>1, <1>3, <1>6, <1>8
  <2>. QED
    BY <1>1, <2>1
<1>9. ASSUME NEW g \in segs PROVE s.start <= g.entered
  <2> DEFINE S == {h.entered : h \in segs}
  <2>1. S \in SUBSET Nat /\ S # {}
    BY <1>1
  <2>2. PICK a \in S : \A b \in S : a <= b
    BY <2>1, LeastOf
  <2>3. PICK h \in segs : a = h.entered
    OBVIOUS
  <2>4. \A j \in segs : a <= j.entered
    BY <2>2
  <2>5. h.entered = s.start
    <3>1. ASSUME NEW j \in segs, j.left = h.entered PROVE FALSE
      <4>1. j.left # NULL /\ j.entered \in Nat /\ h.entered \in Nat
        BY <1>1, <3>1, NullAssumption
      <4>2. j.entered < h.entered
        BY <1>3, <3>1, <4>1
      <4>. QED
        BY <2>3, <2>4, <4>1, <4>2
    <3>. QED
      BY <1>3, <3>1
  <2>. QED
    BY <2>3, <2>4, <2>5
<1>10. PICK z \in segs : z.left = s.end /\ \A j \in segs : j.entered <= z.entered
  <2> DEFINE S == {clock - h.entered : h \in segs}
  <2>1. S \in SUBSET Nat /\ S # {}
    <3>1. \A h \in segs : clock - h.entered \in Nat
      BY <1>1, <1>6
    <3>. QED
      BY <1>3, <3>1
  <2>2. PICK a \in S : \A b \in S : a <= b
    BY <2>1, LeastOf
  <2>3. PICK h \in segs : a = clock - h.entered
    OBVIOUS
  <2>4. \A j \in segs : clock - h.entered <= clock - j.entered
    BY <2>2, <2>3
  <2>5. \A j \in segs : j.entered <= h.entered
    BY <1>1, <2>4
  <2>6. h.left = s.end
    <3>1. ASSUME NEW j \in segs, j.entered = h.left PROVE FALSE
      <4>1. h.left \in Nat /\ h.left # NULL
        BY <1>1, <3>1, NullAssumption
      <4>. QED
        BY <1>1, <1>3, <2>5, <3>1, <4>1
    <3>. QED
      BY <1>3, <3>1
  <2>. QED
    BY <2>5, <2>6
<1>11. ASSUME NEW g \in segs PROVE Left(g, s) <= SessionEnd(s)
  <2>1. Left(z, s) = SessionEnd(s)
    BY <1>4, <1>6, <1>10 DEF Left
  <2>2. CASE g.entered < z.entered
    <3>1. g.left # NULL /\ g.left <= z.entered
      BY <1>7, <2>2
    <3>2. Left(g, s) <= z.entered /\ z.entered <= Left(z, s)
      BY <1>6, <3>1
    <3>. QED
      BY <1>1, <1>4, <1>6, <2>1, <3>2
  <2>3. CASE ~(g.entered < z.entered)
    <3>1. g = z
      BY <1>1, <1>8, <1>10, <2>3
    <3>. QED
      BY <1>4, <2>1, <3>1
  <2>. QED
    BY <2>2, <2>3
<1>12. \A g, h \in segs : g.entered < h.entered => g.left # NULL /\ Left(g, s) <= h.entered
  BY <1>6, <1>7
<1>. QED
  BY <1>1, <1>3, <1>5, <1>6, <1>8, <1>9, <1>10, <1>11, <1>12


(* What a session adds to the timeline: its segments from since on, one      *)
(* after the other, also when those before are deleted (journey.py:35-97).    *)
LEMMA SessionItems ==
    ASSUME InOrder, clock \in Nat, NEW c, Sound(c), NEW since \in Nat, since <= clock,
           NEW s \in SessionsSince(c, since), NEW q, q = OnlineItems(c, s, since)
    PROVE  /\ Tiles(q, Latter(since, s.start), SessionEnd(s))
           /\ q # <<>>
           /\ \A i \in DOMAIN q :
                 /\ q[i].kind = "online" /\ since <= q[i].start /\ q[i].end <= clock
                 /\ \E g \in SegmentsOf(c, s) :
                       /\ q[i].node = g.node
                       /\ g.entered <= q[i].start /\ q[i].end <= Left(g, s)
<1> DEFINE segs == SegmentsOf(c, s)
           F == SegmentsSince(c, s, since)
           p == OrderBy([g \in F |-> g.entered])
           n == Len(p)
<1>1. /\ s \in c.sessions /\ s.start \in Nat /\ s.start <= clock
      /\ SessionEnd(s) \in Nat /\ since <= SessionEnd(s) /\ SessionEnd(s) <= clock
      /\ s.start <= SessionEnd(s) /\ (s.end # NULL => s.end = SessionEnd(s))
  BY SessionTimes DEF SessionsSince, SessionEnd
<1>2. /\ segs # {} /\ F = {g \in segs : Left(g, s) >= since}
      /\ \A g \in segs :
            /\ g.id \in Nat /\ g.node \in Parents /\ g.entered \in Nat /\ Left(g, s) \in Nat
            /\ s.start <= g.entered /\ g.entered <= Left(g, s)
            /\ Left(g, s) <= SessionEnd(s)
            /\ g.left # NULL => g.left = Left(g, s)
            /\ g.left = NULL => s.end = NULL
            /\ g.entered < Left(g, s) \/ g.left = NULL
            /\ g.left = s.end \/ \E h \in segs : h.entered = g.left
            /\ g.entered = s.start \/ \E h \in segs : h.left = g.entered
      /\ \A g, h \in segs : g.entered = h.entered => g = h
      /\ \A g, h \in segs : g.entered < h.entered => g.left # NULL /\ Left(g, s) <= h.entered
      /\ \E h \in segs : h.left = s.end
  BY <1>1, SegmentTimes DEF SegmentsSince
<1> HIDE DEF segs
<1>3. \A g \in segs : g.left = s.end => Left(g, s) = SessionEnd(s)
  BY <1>1, <1>2 DEF Left
<1>4. F # {}
  BY <1>1, <1>2, <1>3
<1>5. /\ p \in Seq(F)
      /\ \A i, j \in DOMAIN p : i < j => p[i].entered < p[j].entered
      /\ \A r \in F : \E i \in DOMAIN p : p[i] = r
  <2>1. F \subseteq segs
    BY <1>2
  <2> HIDE DEF F
  <2>2. \A g \in F : g.id \in Nat /\ g.entered \in 0..clock
    BY <1>1, <1>2, <2>1
  <2>3. \A g, h \in F : g.entered = h.entered => g = h
    BY <1>2, <2>1
  <2> DEFINE date == [g \in F |-> g.entered]
  <2>4. date \in [F -> 0..clock] /\ \A g \in F : date[g] = g.entered
    BY <2>2
  <2>5. p = OrderBy(date)
    OBVIOUS
  <2> HIDE DEF date, p
  <2>6. \A g, h \in F : date[g] = date[h] => g = h
    BY <2>3, <2>4
  <2>7. /\ p \in Seq(F)
        /\ \A i, j \in DOMAIN p : i < j => date[p[i]] < date[p[j]]
        /\ \A r \in F : \E i \in DOMAIN p : p[i] = r
    BY <1>1, <2>2, <2>4, <2>5, <2>6, OrderOfRows
  <2>8. \A i \in DOMAIN p : p[i] \in F
    BY <2>7
  <2>. QED
    BY <2>4, <2>7, <2>8
<1> HIDE DEF p, F
<1>6. n \in Nat /\ DOMAIN p = 1..n /\ n # 0 /\ \A i \in 1..n : p[i] \in F
  BY <1>4, <1>5, LenProperties
<1>7. \A i \in 1..n : p[i] \in segs /\ since <= Left(p[i], s)
  BY <1>2, <1>6
<1> HIDE DEF n
<1>8. ASSUME NEW i \in 1..n, NEW j \in 1..n, p[i].entered < p[j].entered PROVE i < j
  <2>1. /\ j < i => p[j].entered < p[i].entered
        /\ p[i].entered \in Nat /\ p[j].entered \in Nat
    BY <1>2, <1>5, <1>6, <1>7
  <2>. QED
    BY <1>6, <1>8, <2>1
<1>9. Left(p[n], s) = SessionEnd(s)
  <2>1. n \in 1..n
    BY <1>6
  <2>2. ASSUME NEW h \in segs, h.entered = p[n].left PROVE FALSE
    <3>1. p[n].left # NULL /\ p[n].left = Left(p[n], s)
      BY <1>2, <1>7, <2>1, <2>2, NullAssumption
    <3>2. p[n].entered < h.entered /\ since <= Left(h, s)
      BY <1>2, <1>7, <2>1, <2>2, <3>1
    <3>3. PICK j \in 1..n : p[j] = h
      BY <1>2, <1>5, <1>6, <3>2
    <3>4. n < j
      BY <1>8, <2>1, <3>2, <3>3
    <3>. QED
      BY <1>6, <3>3, <3>4
  <2>. QED
    BY <1>2, <1>3, <1>7, <2>1, <2>2
<1>10. Latter(since, p[1].entered) = Latter(since, s.start)
  <2>1. 1 \in 1..n
    BY <1>6
  <2>2. ASSUME NEW h \in segs, h.left = p[1].entered PROVE p[1].entered < since
    <3>1. h.left # NULL /\ h.left = Left(h, s) /\ h.entered < p[1].entered
      BY <1>2, <1>7, <2>1, <2>2, NullAssumption
    <3>2. ASSUME since <= Left(h, s) PROVE FALSE
      <4>1. PICK j \in 1..n : p[j] = h
        BY <1>2, <1>5, <1>6, <3>2
      <4>2. j < 1
        BY <1>8, <2>1, <3>1, <4>1
      <4>. QED
        BY <1>6, <4>1, <4>2
    <3>. QED
      BY <1>2, <1>7, <2>1, <2>2, <3>1, <3>2
  <2>3. p[1].entered = s.start \/ p[1].entered < since
    BY <1>2, <1>7, <2>1, <2>2
  <2>. QED
    BY <1>1, <1>2, <1>7, <2>1, <2>3 DEF Latter
<1>11. ASSUME NEW i \in 1..n, i > 1 PROVE p[i].entered = Left(p[i - 1], s)
  <2>1. i - 1 \in 1..n /\ i - 1 < i
    BY <1>6, <1>11
  <2> DEFINE g == p[i]
             f == p[i - 1]
  <2>2. /\ g \in segs /\ f \in segs /\ f.entered < g.entered /\ since <= Left(f, s)
    BY <1>5, <1>6, <1>7, <2>1
  <2>3. /\ f.left # NULL /\ f.left = Left(f, s) /\ f.left <= g.entered
    BY <1>2, <2>2
  <2>4. f.left # s.end
    <3> SUFFICES ASSUME f.left = s.end PROVE FALSE
      OBVIOUS
    <3>1. s.end # NULL /\ Left(g, s) <= g.entered /\ g.left # NULL
      BY <1>1, <1>2, <2>2, <2>3
    <3>. QED
      BY <1>2, <2>2, <3>1
  <2>5. PICK h \in segs : h.entered = f.left
    BY <1>2, <2>2, <2>4
  <2>6. since <= Left(h, s) /\ f.entered < h.entered /\ h.entered <= g.entered
    BY <1>2, <2>2, <2>3, <2>5
  <2>7. PICK j \in 1..n : p[j] = h
    BY <1>2, <1>5, <1>6, <2>6
  <2>8. i - 1 < j /\ ~(i < j)
    <3>1. i - 1 < j
      BY <1>8, <2>1, <2>6, <2>7
    <3>2. i < j => g.entered < h.entered
      BY <1>5, <1>6, <2>7
    <3>. QED
      BY <1>2, <2>2, <2>6, <3>1, <3>2
  <2>9. j = i
    BY <1>6, <2>1, <2>8
  <2>. QED
    BY <2>3, <2>5, <2>7, <2>9
<1>12. /\ DOMAIN q = 1..n /\ Len(q) = n
       /\ \A i \in 1..n :
             q[i] = OnlineItem(since, p[i].entered, Left(p[i], s), p[i].node)
       /\ q = [i \in 1..n |-> OnlineItem(since, p[i].entered, Left(p[i], s), p[i].node)]
  <2>1. q = [i \in DOMAIN p |-> OnlineItem(since, p[i].entered, Left(p[i], s), p[i].node)]
    BY <1>2 DEF OnlineItems, segs, p, F
  <2>. QED
    BY <1>6, <2>1
<1>13. ASSUME NEW i \in 1..n
       PROVE  /\ q[i] \in Items /\ q[i].kind = "online" /\ q[i].node = p[i].node
              /\ q[i].start = Latter(since, p[i].entered) /\ q[i].end = Left(p[i], s)
              /\ q[i].start <= q[i].end /\ p[i].entered <= q[i].start
              /\ since <= q[i].start /\ q[i].end <= clock
  BY <1>1, <1>2, <1>7, <1>12 DEF OnlineItem, Item, Items, Latter, Earlier
<1>14. q \in Seq(Items)
  BY <1>6, <1>12, <1>13
<1>15. q # <<>>
  BY <1>6, <1>12, <1>14, EmptySeq
<1>16. ASSUME NEW i \in 1..n, i > 1 PROVE q[i].start = q[i - 1].end
  <2>1. i - 1 \in 1..n
    BY <1>6, <1>16
  <2>2. p[i].entered = Left(p[i - 1], s) /\ since <= Left(p[i - 1], s)
    BY <1>7, <1>11, <1>16, <2>1
  <2>3. Left(p[i - 1], s) \in Nat
    BY <1>2, <1>7, <2>1
  <2>. QED
    BY <1>13, <2>1, <2>2, <2>3 DEF Latter
<1>17. q[1].start = Latter(since, s.start) /\ q[n].end = SessionEnd(s)
  BY <1>6, <1>9, <1>10, <1>13
<1>18. /\ Latter(since, s.start) \in Nat /\ Latter(since, s.start) <= SessionEnd(s)
  BY <1>1 DEF Latter
<1>19. Tiles(q, Latter(since, s.start), SessionEnd(s))
  BY <1>1, <1>12, <1>13, <1>14, <1>15, <1>16, <1>17, <1>18 DEF Tiles
<1>20. \A i \in DOMAIN q : \E g \in segs : /\ q[i].node = g.node
                                           /\ g.entered <= q[i].start /\ q[i].end <= Left(g, s)
  <2> SUFFICES ASSUME NEW i \in 1..n
               PROVE  \E g \in segs : /\ q[i].node = g.node
                                      /\ g.entered <= q[i].start /\ q[i].end <= Left(g, s)
    BY <1>12
  <2>1. Left(p[i], s) <= Left(p[i], s) /\ p[i] \in segs
    BY <1>2, <1>7
  <2>. QED
    BY <1>13, <2>1
<1>. QED
  BY <1>12, <1>13, <1>15, <1>19, <1>20 DEF segs


(* An item is a part of the stay in a segment, or meets no session. *)
Told(c, since, x) ==
    /\ since <= x.start /\ x.end <= clock
    /\ IF x.kind = "online"
       THEN \E s \in SessionsSince(c, since) : \E g \in SegmentsOf(c, s) :
               x.node = g.node /\ g.entered <= x.start /\ x.end <= Left(g, s)
       ELSE \A s \in SessionsSince(c, since) : SessionEnd(s) <= x.start \/ x.end <= s.start

(* One turn of the loop: the time up to the session, and the session.         *)
LEMMA SessionAdded ==
    ASSUME InOrder, clock \in Nat, NEW c, Sound(c), NEW since \in Nat, since <= clock,
           NEW s \in SessionsSince(c, since),
           NEW l, Tiles(l.items, since, l.end), l.end <= Latter(since, s.start),
           \A i \in DOMAIN l.items : Told(c, since, l.items[i]),
           \A t \in SessionsSince(c, since) :
              SessionEnd(t) <= l.end \/ Latter(since, s.start) <= t.start
              \/ l.end = Latter(since, s.start),
           NEW d, d = AddSession(c, since, l, s)
    PROVE  /\ Tiles(d.items, since, d.end)
           /\ d.end = SessionEnd(s)
           /\ \A i \in DOMAIN d.items : Told(c, since, d.items[i])
<1> DEFINE q == OnlineItems(c, s, since)
           a == Latter(since, s.start)
           gap == Gap(l.end, a)
           p == l.items \o gap
<1>1. /\ Tiles(q, a, SessionEnd(s)) /\ q # <<>>
      /\ \A i \in DOMAIN q :
            /\ q[i].kind = "online" /\ since <= q[i].start /\ q[i].end <= clock
            /\ \E g \in SegmentsOf(c, s) :
                  q[i].node = g.node /\ g.entered <= q[i].start /\ q[i].end <= Left(g, s)
  BY SessionItems
<1>2. /\ a \in Nat /\ l.end \in Nat /\ l.end <= a /\ since <= l.end
      /\ SessionEnd(s) \in Nat /\ a <= SessionEnd(s) /\ SessionEnd(s) <= clock
  <2>1. SessionEnd(s) <= clock
    BY SessionTimes DEF SessionsSince
  <2>. QED
    BY <1>1, <2>1 DEF Tiles
<1>3. /\ q[1].start = a /\ q[Len(q)].end = SessionEnd(s)
  BY <1>1 DEF Tiles
<1>4. d = [items |-> p \o q, end |-> SessionEnd(s)]
  BY <1>1, <1>3 DEF AddSession
<1> HIDE DEF q, a
<1>5. /\ Tiles(gap, l.end, a)
      /\ \A i \in DOMAIN gap : gap[i].kind = "offline" /\ gap[i].start = l.end /\ gap[i].end = a
      /\ ~(l.end < a) => gap = <<>>
  BY <1>2, GapTiles
<1>6. \A i \in DOMAIN gap : Told(c, since, gap[i])
  <2>1. CASE l.end < a
    <3>1. \A t \in SessionsSince(c, since) : SessionEnd(t) <= l.end \/ a <= t.start
      BY <1>2, <2>1 DEF a
    <3>. QED
      BY <1>2, <1>5, <3>1 DEF Told
  <2>2. CASE ~(l.end < a)
    <3>1. gap = <<>> /\ DOMAIN <<>> = {}
      BY <1>5, <2>2
    <3> HIDE DEF gap
    <3>. QED
      BY <3>1
  <2>. QED
    BY <2>1, <2>2
<1>7. \A i \in DOMAIN q : Told(c, since, q[i])
  BY <1>1 DEF Told
<1> HIDE DEF gap
<1>8. /\ Tiles(p, since, a)
      /\ MadeOf(p, l.items, gap)
  BY <1>5, TilesJoin
<1>9. \A i \in DOMAIN p : Told(c, since, p[i])
  BY <1>6, <1>8 DEF MadeOf
<1> HIDE DEF p
<1>10. /\ Tiles(p \o q, since, SessionEnd(s))
       /\ MadeOf(p \o q, p, q)
  <2>1. Tiles(p, since, a) /\ Tiles(q, a, SessionEnd(s))
    BY <1>1, <1>8
  <2>. QED
    BY <2>1, TilesJoin
<1>11. \A i \in DOMAIN (p \o q) : Told(c, since, (p \o q)[i])
  BY <1>7, <1>9, <1>10 DEF MadeOf
<1>. QED
  BY <1>4, <1>10, <1>11

(* What the loop has made of the sessions when it ends.                       *)
LEMMA LineTiles ==
    ASSUME InOrder, clock \in Nat, NEW c, Sound(c), NEW since \in Nat, since <= clock
    PROVE  LET l == Loop(c, since, OrderBy([s \in SessionsSince(c, since) |-> s.start]))
           IN  /\ Tiles(l.items, since, l.end)
               /\ l.end <= clock
               /\ \A i \in DOMAIN l.items : Told(c, since, l.items[i])
               /\ \A s \in SessionsSince(c, since) : SessionEnd(s) <= l.end
<1> DEFINE S == SessionsSince(c, since)
           p == OrderBy([s \in S |-> s.start])
           n == Len(p)
           l == Loop(c, since, p)
<1>1. /\ \A s \in S : /\ s.id \in Nat /\ s.start \in Nat /\ SessionEnd(s) \in Nat
                      /\ s.start <= clock /\ since <= SessionEnd(s)
                      /\ s.start <= SessionEnd(s) /\ SessionEnd(s) <= clock
      /\ \A s, t \in S : s.id = t.id => s = t
      /\ \A s, t \in S : s.id < t.id => SessionEnd(s) < t.start
  BY SessionTimes DEF SessionsSince, SessionEnd
<1>2. l = Loop(c, since, p)
  OBVIOUS
<1> HIDE DEF S, l
<1>3. ASSUME NEW s \in S, NEW t \in S
      PROVE  /\ s.start = t.start => s = t
             /\ s.start < t.start => SessionEnd(s) < t.start
  <2>1. /\ s.id < t.id => SessionEnd(s) < t.start
        /\ t.id < s.id => SessionEnd(t) < s.start
        /\ s.id = t.id => s = t
    BY <1>1
  <2>2. /\ s.id \in Nat /\ t.id \in Nat /\ s.start \in Nat /\ t.start \in Nat
        /\ SessionEnd(s) \in Nat /\ SessionEnd(t) \in Nat
        /\ s.start <= SessionEnd(s) /\ t.start <= SessionEnd(t)
    BY <1>1
  <2>. QED
    BY <2>1, <2>2
<1>4. /\ p \in Seq(S)
      /\ \A i, j \in DOMAIN p : i < j => p[i].start < p[j].start
      /\ \A s \in S : \E i \in DOMAIN p : p[i] = s
  <2>1. \A s \in S : s.id \in Nat /\ s.start \in 0..clock
    BY <1>1
  <2>2. \A s, t \in S : s.start = t.start => s = t
    BY <1>3
  <2> DEFINE date == [s \in S |-> s.start]
  <2>3. date \in [S -> 0..clock] /\ \A s \in S : date[s] = s.start
    BY <2>1
  <2>4. p = OrderBy(date)
    OBVIOUS
  <2> HIDE DEF date, p
  <2>5. \A s, t \in S : date[s] = date[t] => s = t
    BY <2>2, <2>3
  <2>6. /\ p \in Seq(S)
        /\ \A i, j \in DOMAIN p : i < j => date[p[i]] < date[p[j]]
        /\ \A s \in S : \E i \in DOMAIN p : p[i] = s
    BY <2>1, <2>3, <2>4, <2>5, OrderOfRows
  <2>7. \A i \in DOMAIN p : p[i] \in S
    BY <2>6
  <2>. QED
    BY <2>3, <2>6, <2>7
<1> HIDE DEF p
<1>5. n \in Nat /\ DOMAIN p = 1..n /\ \A i \in 1..n : p[i] \in S
  BY <1>4, LenProperties
<1>6. PICK line : /\ line[0] = [items |-> <<>>, end |-> since]
                  /\ \A k \in 1..n : line[k] = AddSession(c, since, line[k - 1], p[k])
                  /\ l = line[n]
  <2>1. Len(p) \in Nat
    BY <1>5
  <2>2. \E line : LinesOf(c, since, p, line)
    BY <2>1, LoopLines
  <2>. QED
    BY <1>2, <2>2 DEF LinesOf
<1> HIDE DEF n
<1>7. \A i, j \in 1..n : i < j => /\ SessionEnd(p[i]) < p[j].start
                                  /\ SessionEnd(p[i]) <= SessionEnd(p[j])
                                  /\ p[i].start <= p[j].start
  <2> SUFFICES ASSUME NEW i \in 1..n, NEW j \in 1..n, i < j
               PROVE  /\ SessionEnd(p[i]) < p[j].start
                      /\ SessionEnd(p[i]) <= SessionEnd(p[j])
                      /\ p[i].start <= p[j].start
    OBVIOUS
  <2>1. p[i].start < p[j].start /\ p[i] \in S /\ p[j] \in S
    BY <1>4, <1>5
  <2>. QED
    BY <1>1, <1>3, <2>1
<1> DEFINE Done(k) == /\ Tiles(line[k].items, since, line[k].end)
                      /\ line[k].end = IF k = 0 THEN since ELSE SessionEnd(p[k])
                      /\ \A i \in DOMAIN line[k].items : Told(c, since, line[k].items[i])
           Undone == {k \in 0..n : ~Done(k)}
<1>8. Done(0)
  <2>1. line[0].items = <<>> /\ line[0].end = since /\ DOMAIN <<>> = {}
    BY <1>6
  <2>2. Tiles(<<>>, since, since)
    BY NoItemTiles
  <2>. QED
    BY <2>1, <2>2
<1>9. ASSUME NEW k \in 1..n, Done(k - 1) PROVE Done(k)
  <2> DEFINE m == line[k - 1]
             a == Latter(since, p[k].start)
  <2>1. /\ Tiles(m.items, since, m.end)
        /\ m.end = IF k = 1 THEN since ELSE SessionEnd(p[k - 1])
        /\ \A i \in DOMAIN m.items : Told(c, since, m.items[i])
        /\ line[k] = AddSession(c, since, m, p[k])
    BY <1>5, <1>6, <1>9
  <2> HIDE DEF Done, m
  <2>2. p[k] \in S /\ p[k].start \in Nat
    BY <1>1, <1>5
  <2>3. k # 1 => k - 1 \in 1..n /\ k - 1 < k
    BY <1>5
  <2>4. m.end <= a /\ since <= m.end
    <3>1. CASE k = 1
      BY <2>1, <2>2, <3>1 DEF Latter
    <3>2. CASE k # 1
      <4>1. p[k - 1] \in S /\ SessionEnd(p[k - 1]) < p[k].start
        BY <1>5, <1>7, <2>3, <3>2
      <4>. QED
        BY <1>1, <2>1, <2>2, <3>2, <4>1 DEF Latter
    <3>. QED
      BY <3>1, <3>2
  <2>5. ASSUME NEW t \in S PROVE SessionEnd(t) <= m.end \/ a <= t.start \/ m.end = a
    <3>1. PICK j \in 1..n : p[j] = t
      BY <1>4, <1>5
    <3>2. CASE j < k
      <4>1. k # 1 /\ k - 1 \in 1..n /\ (j < k - 1 \/ j = k - 1)
        BY <1>5, <2>3, <3>2
      <4>2. SessionEnd(p[j]) <= SessionEnd(p[k - 1])
        BY <1>1, <1>5, <1>7, <4>1
      <4>. QED
        BY <2>1, <3>1, <4>1, <4>2
    <3>3. CASE ~(j < k)
      <4>1. p[k].start <= t.start /\ t.start \in Nat
        BY <1>1, <1>5, <1>7, <2>2, <3>1, <3>3
      <4>2. CASE p[k].start < since
        BY <2>2, <2>4, <4>2, <2>1 DEF Latter, Tiles
      <4>3. CASE ~(p[k].start < since)
        BY <2>2, <4>1, <4>3 DEF Latter
      <4>. QED
        BY <4>2, <4>3
    <3>. QED
      BY <3>2, <3>3
  <2> HIDE DEF a
  <2>6. /\ Tiles(line[k].items, since, line[k].end) /\ line[k].end = SessionEnd(p[k])
        /\ \A i \in DOMAIN line[k].items : Told(c, since, line[k].items[i])
    BY <2>1, <2>2, <2>4, <2>5, SessionAdded DEF a, S
  <2>. QED
    BY <2>6 DEF Done
<1> HIDE DEF Done
<1>10. Done(n)
  <2> SUFFICES ASSUME Undone # {} PROVE FALSE
    BY <1>5
  <2>1. Undone \in SUBSET Nat
    BY <1>5
  <2>2. PICK k \in Undone : \A j \in Undone : k <= j
    BY <2>1, LeastOf
  <2>3. k \in 0..n /\ k # 0 /\ ~Done(k)
    BY <1>8, <2>2
  <2>4. k \in 1..n /\ k - 1 \in 0..n /\ k - 1 < k
    BY <1>5, <2>3
  <2>5. k - 1 \notin Undone
    BY <2>1, <2>2, <2>4
  <2>. QED
    BY <1>9, <2>3, <2>4, <2>5
<1>11. /\ Tiles(l.items, since, l.end)
       /\ l.end = IF n = 0 THEN since ELSE SessionEnd(p[n])
       /\ \A i \in DOMAIN l.items : Told(c, since, l.items[i])
  BY <1>6, <1>10 DEF Done
<1>12. l.end <= clock
  BY <1>1, <1>5, <1>11
<1>13. ASSUME NEW s \in S PROVE SessionEnd(s) <= l.end
  <2>1. PICK j \in 1..n : p[j] = s
    BY <1>4, <1>5
  <2>2. n # 0 /\ n \in 1..n /\ (j < n \/ j = n)
    BY <1>5
  <2>. QED
    BY <1>1, <1>5, <1>7, <1>11, <2>1, <2>2
<1>. QED
  BY <1>11, <1>12, <1>13 DEF l, p, S
-----------------------------------------------------------------------------
(* What the rows say of the observations *)

(* A device was new, and is offline, no later than now. *)
DeviceTimes(c, k) ==
    c.device # NULL => /\ c.device.firstSeen <= k
                       /\ ~IsOnline(c) => c.device.lastOffline <= k

(* A segment starts with an observation, and none tells of another node      *)
(* before it ends.                                                            *)
Placed(c, O, k) ==
    \A g \in c.segments :
        /\ g.left # NULL => g.left <= k
        /\ \E o \in O : o.at = g.entered
        /\ \A o \in O : g.entered <= o.at /\ (g.left = NULL \/ o.at < g.left) => o.node = g.node

(* An observation lies in a session that lasts for the confirmation time     *)
(* after it, or the session is deleted, with its device or without.          *)
Accounted(c, O, k) ==
    \A o \in O :
        \/ \E s \in c.sessions :
              s.start <= o.at /\ (s.end = NULL \/ o.at + OfflineConfirmation <= s.end)
        \/ o.at + OfflineConfirmation + Earlier(RetentionNormal, RetentionStarred) < k
        \/ IF c.device = NULL THEN o.at + OfflineConfirmation < k
           ELSE o.at + OfflineConfirmation <= c.device.firstSeen

ObsInv(c, O, k) ==
    /\ O \subseteq [at : Nat, node : Parents]
    /\ \A o \in O : IF c.device = NULL THEN o.at < k ELSE o.at <= c.device.lastSeen
    /\ DeviceTimes(c, k)
    /\ Placed(c, O, k)
    /\ Accounted(c, O, k)

JInv == TInv /\ (InOrder => \A m \in Macs : ObsInv(clients[m], observed[m], clock))

(* The timeline tiles its window, and every item is told by the history.     *)
LEMMA TimelineItems ==
    ASSUME JInv, InOrder, NEW m \in Known, NEW range \in Ranges
    PROVE  LET since == WindowStart(m, range)
               q == Timeline(m, range)
           IN  /\ Tiles(q, since, clock)
               /\ \A i \in DOMAIN q : Told(clients[m], since, q[i])
               /\ since \in Nat /\ clients[m].device.firstSeen <= since /\ Sound(clients[m])
<1> DEFINE c == clients[m]
           since == WindowStart(m, range)
           sessions == SessionsSince(c, since)
           l == Loop(c, since, OrderBy([s \in sessions |-> s.start]))
           q == Timeline(m, range)
<1>1. /\ clock \in Nat /\ m \in Macs /\ c.device \in DeviceRow /\ c.device # NULL
      /\ ClientInv(c) /\ TimeInv(c, clock) /\ TileInv(c) /\ ObsInv(c, observed[m], clock)
  BY RowTypes DEF Known, JInv, TInv, HInv, IInv, TypeOK
<1>2. Sound(c)
  BY <1>1 DEF Sound, ObsInv, Placed
<1>3. since \in Nat /\ since <= clock /\ c.device.firstSeen <= since
  BY <1>1, RangesAssumption DEF ObsInv, DeviceTimes, DeviceRow, WindowStart, Latter
<1>4. /\ Tiles(l.items, since, l.end) /\ l.end <= clock
      /\ \A i \in DOMAIN l.items : Told(c, since, l.items[i])
      /\ \A s \in sessions : SessionEnd(s) <= l.end
  BY <1>1, <1>2, <1>3, LineTiles
<1>5. l.end \in Nat /\ since <= l.end
  BY <1>4 DEF Tiles
<1>6. q = IF c.device.online THEN l.items
          ELSE IF l.end < clock THEN l.items \o Gap(l.end, clock)
          ELSE IF l.items = <<>> /\ c.device.lastOffline # NULL
          THEN <<Item("offline", Latter(since, c.device.lastOffline), clock, NULL)>>
          ELSE l.items
  BY DEF Timeline
<1> HIDE DEF l, q, since
<1>7. CASE c.device.online
  <2>1. PICK s \in c.sessions : s.end = NULL
    BY <1>1, <1>7 DEF IsOnline, ClientInv, OneOpenSession, OpenSessions
  <2>2. s \in sessions /\ SessionEnd(s) = clock
    BY <1>1, <1>2, <2>1, SessionTimes DEF SessionsSince, SessionEnd
  <2>3. l.end = clock
    BY <1>1, <1>4, <1>5, <2>2
  <2>. QED
    BY <1>2, <1>3, <1>4, <1>6, <1>7, <2>3 DEF q, since
<1>8. CASE ~c.device.online /\ l.end < clock
  <2> DEFINE gap == Gap(l.end, clock)
  <2>1. /\ Tiles(gap, l.end, clock)
        /\ \A i \in DOMAIN gap :
              gap[i].kind = "offline" /\ gap[i].start = l.end /\ gap[i].end = clock
    BY <1>1, <1>4, <1>5, GapTiles
  <2>2. \A i \in DOMAIN gap : Told(c, since, gap[i])
    BY <1>1, <1>4, <1>5, <2>1 DEF Told
  <2>3. q = l.items \o gap
    BY <1>6, <1>8
  <2> HIDE DEF gap
  <2>4. Tiles(l.items \o gap, since, clock) /\ MadeOf(l.items \o gap, l.items, gap)
    BY <1>4, <2>1, TilesJoin
  <2>5. \A i \in DOMAIN (l.items \o gap) : Told(c, since, (l.items \o gap)[i])
    BY <1>4, <2>2, <2>4 DEF MadeOf
  <2>. QED
    BY <1>2, <1>3, <2>3, <2>4, <2>5 DEF q, since
<1>9. CASE ~c.device.online /\ ~(l.end < clock)
  <2>1. l.end = clock
    BY <1>1, <1>4, <1>5, <1>9
  <2>2. CASE l.items # <<>>
    BY <1>2, <1>3, <1>4, <1>6, <1>9, <2>1, <2>2 DEF q, since
  <2>3. CASE l.items = <<>>
    <3> DEFINE x == Item("offline", clock, clock, NULL)
    <3>1. since = clock
      BY <1>4, <2>1, <2>3 DEF Tiles
    <3>2. c.device.lastOffline \in Nat /\ c.device.lastOffline <= clock
      <4>1. ~IsOnline(c)
        BY <1>9 DEF IsOnline
      <4>2. c.device.lastSeen \in Nat
        BY <1>1, RowTypes
      <4>. QED
        BY <1>1, <4>1, <4>2, TimeAssumption DEF ObsInv, DeviceTimes, TimeInv
    <3>3. q = <<x>>
      <4>1. Latter(since, c.device.lastOffline) = clock
        BY <1>1, <3>1, <3>2 DEF Latter
      <4>. QED
        BY <1>6, <1>9, <2>3, <3>2, <4>1, NullAssumption
    <3>4. x \in Items /\ x.start = clock /\ x.end = clock /\ x.kind = "offline"
      BY <1>1 DEF Item, Items, Parents
    <3> HIDE DEF x
    <3>5. Tiles(<<x>>, clock, clock) /\ DOMAIN <<x>> = {1} /\ <<x>>[1] = x
      BY <1>1, <3>4, OneTiles
    <3>6. Told(c, since, x)
      BY <1>1, <1>3, <1>4, <2>1, <3>1, <3>4 DEF Told
    <3>. QED
      BY <1>2, <1>3, <3>1, <3>3, <3>5, <3>6 DEF q, since
  <2>. QED
    BY <2>2, <2>3
<1>. QED
  BY <1>7, <1>8, <1>9

LEMMA JInvTiles == JInv => TimelineTiles
<1> SUFFICES ASSUME JInv, InOrder, NEW m \in Known, NEW range \in Ranges
             PROVE  LET items == Timeline(m, range) IN
                    /\ items = <<>> => WindowStart(m, range) = clock
                    /\ items # <<>> => /\ items[1].start = WindowStart(m, range)
                                       /\ items[Len(items)].end = clock
                    /\ \A i \in DOMAIN items : items[i].start <= items[i].end
                    /\ \A i \in DOMAIN items : i > 1 => items[i].start = items[i - 1].end
  BY DEF TimelineTiles
<1>1. Tiles(Timeline(m, range), WindowStart(m, range), clock)
  BY TimelineItems
<1>. QED
  BY <1>1 DEF Tiles

(* An item that tells of a stay agrees with the last observation before any  *)
(* instant of it, and one that tells of none has no observation that is      *)
(* still to be confirmed.                                                    *)
LEMMA JInvTells == JInv => TimelineTellsObservations
<1> SUFFICES ASSUME JInv, InOrder, NEW m \in Known, NEW range \in Ranges,
                    NEW i \in DOMAIN Timeline(m, range),
                    NEW at \in Timeline(m, range)[i].start..(Timeline(m, range)[i].end - 1)
             PROVE  IF Timeline(m, range)[i].kind = "online"
                    THEN \A o \in LatestBy(m, at) : o.node = Timeline(m, range)[i].node
                    ELSE \/ at + Earlier(RetentionNormal, RetentionStarred) < clock
                         \/ Confirming(m, at) = {}
  BY DEF TimelineTellsObservations
<1> DEFINE c == clients[m]
           O == observed[m]
           since == WindowStart(m, range)
           q == Timeline(m, range)
           x == q[i]
           least == Earlier(RetentionNormal, RetentionStarred)
<1>1. /\ Tiles(q, since, clock) /\ Told(c, since, x)
      /\ since \in Nat /\ c.device.firstSeen <= since /\ Sound(c)
  BY TimelineItems
<1>2. /\ clock \in Nat /\ m \in Macs /\ c.device \in DeviceRow /\ c.device # NULL
      /\ ObsInv(c, O, clock)
  BY RowTypes DEF Known, JInv, TInv, HInv, IInv, TypeOK
<1> HIDE DEF q
<1>3. x \in Items
  <2>1. q \in Seq(Items)
    BY <1>1 DEF Tiles
  <2>. QED
    BY <2>1 DEF q
<1> HIDE DEF x
<1>4. /\ x.start \in Nat /\ x.end \in Nat /\ at \in Nat /\ x.start <= at /\ at < x.end
      /\ since <= x.start /\ x.end <= clock
  <2>1. at \in x.start..(x.end - 1)
    BY DEF x, q
  <2>2. x.start \in Nat /\ x.end \in Nat
    BY <1>3 DEF Items
  <2>. QED
    BY <1>1, <2>1, <2>2 DEF Told
<1>5. /\ \A o \in O : o.at \in Nat
      /\ \A s \in c.sessions : s.start \in Nat /\ s.end \in Instants
      /\ c.device.firstSeen \in Nat /\ least \in Nat /\ OfflineConfirmation \in Nat
  BY <1>1, <1>2, TimeAssumption DEF ObsInv, Sound, ClientInv, ClientRows, SessionRow,
                                    DeviceRow, Earlier
<1>6. ASSUME x.kind = "online", NEW o \in LatestBy(m, at) PROVE o.node = x.node
  <2>1. PICK s \in SessionsSince(c, since) : \E g \in SegmentsOf(c, s) :
           x.node = g.node /\ g.entered <= x.start /\ x.end <= Left(g, s)
    BY <1>1, <1>6 DEF Told
  <2>2. PICK g \in SegmentsOf(c, s) :
           x.node = g.node /\ g.entered <= x.start /\ x.end <= Left(g, s)
    BY <2>1
  <2>3. /\ g \in c.segments /\ g.entered \in Nat /\ Left(g, s) \in Nat
        /\ g.left # NULL => g.left = Left(g, s)
    <3>1. g \in c.segments
      BY DEF SegmentsOf
    <3>2. s \in c.sessions
      BY DEF SessionsSince
    <3>. QED
      BY <1>1, <1>2, <3>1, <3>2, SegmentTimes
  <2>4. PICK p \in O : p.at = g.entered
    BY <1>2, <2>3 DEF ObsInv, Placed
  <2>5. o \in O /\ o.at <= at /\ p.at <= o.at
    BY <1>4, <1>5, <2>2, <2>3, <2>4 DEF LatestBy
  <2>6. g.left = NULL \/ o.at < g.left
    BY <1>4, <1>5, <2>2, <2>3, <2>5
  <2>. QED
    BY <1>2, <2>2, <2>3, <2>4, <2>5, <2>6 DEF ObsInv, Placed
<1>7. ASSUME x.kind # "online", ~(at + least < clock), NEW o \in Confirming(m, at) PROVE FALSE
  <2>1. o \in O /\ o.at \in Nat /\ o.at <= at /\ at < o.at + OfflineConfirmation
    BY <1>5 DEF Confirming
  <2>2. ASSUME NEW s \in c.sessions, s.start <= o.at,
               s.end = NULL \/ o.at + OfflineConfirmation <= s.end
        PROVE  FALSE
    <3>1. /\ s.start <= clock /\ SessionEnd(s) \in Nat
          /\ at < SessionEnd(s) /\ (s.end = NULL \/ s.end >= since)
      BY <1>1, <1>2, <1>4, <1>5, <2>1, <2>2 DEF SessionEnd, Instants
    <3>2. s \in SessionsSince(c, since)
      BY <3>1 DEF SessionsSince
    <3>3. SessionEnd(s) <= x.start \/ x.end <= s.start
      BY <1>1, <1>7, <3>2 DEF Told
    <3>. QED
      BY <1>4, <1>5, <2>1, <2>2, <3>1, <3>3
  <2>3. \/ o.at + OfflineConfirmation + least < clock
        \/ o.at + OfflineConfirmation <= c.device.firstSeen
    BY <1>2, <2>1, <2>2 DEF ObsInv, Accounted
  <2> HIDE DEF least
  <2>. QED
    BY <1>1, <1>2, <1>4, <1>5, <1>7, <2>1, <2>3
<1>. QED
  BY <1>6, <1>7 DEF x, q
-----------------------------------------------------------------------------
(* The steps preserve what the rows say of the observations *)

LEMMA ObsTypes ==
    ASSUME NEW k \in Nat, NEW c, ClientInv(c), NEW O, ObsInv(c, O, k)
    PROVE  /\ \A o \in O : o.at \in Nat
           /\ \A g \in c.segments : g.entered \in Nat /\ g.left \in Instants
           /\ \A s \in c.sessions : s.start \in Nat /\ s.end \in Instants
           /\ c.device # NULL => /\ c.device \in DeviceRow /\ c.device.firstSeen \in Nat
                                 /\ c.device.lastSeen \in Nat
           /\ OfflineConfirmation \in Nat
           /\ Earlier(RetentionNormal, RetentionStarred) \in Nat
           /\ Earlier(RetentionNormal, RetentionStarred) <= Retention(c)
           /\ Retention(c) \in Nat
  BY TimeAssumption DEF ObsInv, ClientInv, ClientRows, SessionRow, SegmentRow, DeviceRow,
                        Earlier, Retention

(* An observation now is told by the segment and the session it falls in    *)
(* (service.py:241-331).                                                      *)
LEMMA ObserveObs ==
    ASSUME NEW k \in Nat, NEW c, ClientInv(c), TimeInv(c, k), InOrder,
           c.device # NULL => c.device.lastSeen < k, NEW O, ObsInv(c, O, k),
           NEW parent \in Parents, NEW now \in Nat
    PROVE  ObsInv(Observe(c, k, parent, now), O \cup {[at |-> k, node |-> parent]}, k)
<1> DEFINE d == Observe(c, k, parent, now)
           new == [at |-> k, node |-> parent]
           P == O \cup {new}
<1>1. /\ d.device \in DeviceRow /\ IsOnline(d) /\ d.device.lastSeen = k
      /\ IsOnline(c) => \A x \in d.sessions : \E s \in c.sessions :
                           x.id = s.id /\ x.start = s.start /\ x.end = s.end
      /\ Grown(c, d) /\ ClientInv(d) /\ TimeInv(d, k)
  <2>1. /\ d.device \in DeviceRow /\ IsOnline(d) /\ d.device.lastSeen = k
        /\ IsOnline(c) => \A x \in d.sessions : \E s \in c.sessions :
                             x.id = s.id /\ x.start = s.start /\ x.end = s.end
    BY ObservedRows
  <2>2. Grown(c, d)
    BY ObserveGrows
  <2>3. ClientInv(d)
    BY ObservePreserves
  <2>4. TimeInv(d, k)
    BY ObserveTimes
  <2> HIDE DEF d
  <2>. QED
    BY <2>1, <2>2, <2>3, <2>4
<1>2. /\ d.device # NULL
      /\ d.device.firstSeen = IF c.device = NULL THEN k ELSE c.device.firstSeen
  <2>1. d.device = ObservedDevice(c, k, parent)
    BY DEF Observe
  <2>2. c.device # NULL => c.device \in DeviceRow
    BY DEF ClientInv, ClientRows
  <2>3. d.device # NULL
    BY <1>1, RowAssumption
  <2>4. CASE c.device = NULL
    BY <2>1, <2>3, <2>4 DEF ObservedDevice
  <2>5. CASE c.device # NULL
    BY <2>1, <2>2, <2>3, <2>5 DEF ObservedDevice, DeviceRow
  <2>. QED
    BY <2>4, <2>5
<1>3. /\ \A o \in O : o.at \in Nat /\ o.at < k
      /\ \A g \in c.segments : g \in SegmentRow /\ g.entered \in Nat /\ g.left \in Instants
      /\ c.device # NULL => c.device.firstSeen \in Nat
      /\ OfflineConfirmation \in Nat
  BY ObsTypes DEF ObsInv, ClientInv, ClientRows
<1>4. new.at = k /\ new.node = parent /\ new \in [at : Nat, node : Parents]
  OBVIOUS
<1>5. \A g \in c.segments : /\ g.left # NULL => g.left <= k
                            /\ \E o \in O : o.at = g.entered
                            /\ \A o \in O :
                                  g.entered <= o.at /\ (g.left = NULL \/ o.at < g.left) =>
                                     o.node = g.node
  BY DEF ObsInv, Placed
<1>6. d.segments = ObservedSegments(c, k, parent)
  BY DEF Observe
<1> HIDE DEF d, new
<1> DEFINE Fits(g) == /\ g.left # NULL => g.left <= k
                      /\ \E o \in P : o.at = g.entered
                      /\ \A o \in P : g.entered <= o.at /\ (g.left = NULL \/ o.at < g.left) =>
                                         o.node = g.node
<1>7. ASSUME NEW g \in c.segments, g.left # NULL \/ g.node = parent PROVE Fits(g)
  BY <1>3, <1>4, <1>5, <1>7 DEF Instants
<1>8. ASSUME NEW n, n.entered = k, n.left = NULL, n.node = parent PROVE Fits(n)
  BY <1>3, <1>4, <1>8
<1>9. Placed(d, P, k)
  <2> SUFFICES ASSUME NEW g \in d.segments PROVE Fits(g)
    BY DEF Placed
  <2> HIDE DEF Fits
  <2>1. CASE ~IsOnline(c)
    <3> DEFINE n == NewSegment(c, NewId(c), k, parent)
    <3>1. Opens(c) /\ ~Moved(c, parent) /\ \A h \in c.segments : h.left # NULL
      BY <2>1, OfflineRows DEF Opens, Moved
    <3>2. d.segments = c.segments \cup {n}
      BY <1>6, <3>1 DEF ObservedSegments
    <3>3. n.entered = k /\ n.left = NULL /\ n.node = parent
      BY DEF NewSegment
    <3> HIDE DEF n
    <3>. QED
      BY <1>7, <1>8, <3>1, <3>2, <3>3
  <2>2. CASE IsOnline(c)
    <3>1. PICK a \in c.sessions, h \in c.segments :
             /\ OpenSessions(c) = {a} /\ a.last = c.device.parent
             /\ CurrentSegment(c) = {h}
             /\ h.left = NULL /\ h.node = a.last
             /\ \A j \in c.segments : j.left = NULL => j = h
      BY <2>2, OnlineRows
    <3>2. ~Opens(c)
      BY <3>1 DEF Opens
    <3>3. CASE parent = c.device.parent
      <4>1. d.segments = c.segments
        BY <1>6, <3>2, <3>3 DEF ObservedSegments, Moved
      <4>. QED
        BY <1>7, <3>1, <3>3, <4>1
    <3>4. CASE parent # c.device.parent
      <4> DEFINE n == NewSegment(c, NewId(c) + 1, k, parent)
                 e == [h EXCEPT !.left = k]
      <4>1. d.segments = Ended(c.segments, h, k) \cup {n}
        BY <1>6, <2>2, <3>1, <3>2, <3>4 DEF ObservedSegments, Moved, EndSegment, Ended
      <4>2. n.entered = k /\ n.left = NULL /\ n.node = parent
        BY DEF NewSegment
      <4>3. e.left = k /\ e.entered = h.entered /\ e.node = h.node
        BY <1>3 DEF SegmentRow
      <4>4. Ended(c.segments, h, k) \subseteq c.segments \cup {e}
        BY DEF Ended
      <4>5. \A j \in Ended(c.segments, h, k) : j.left # NULL
        <5>1. e.left # NULL
          BY <4>3, NullAssumption
        <5>. QED
          BY <3>1, <5>1 DEF Ended
      <4> HIDE DEF n, e
      <4>6. Fits(e)
        BY <1>3, <1>4, <1>5, <3>1, <4>3, NullAssumption DEF Fits
      <4>. QED
        BY <1>7, <1>8, <4>1, <4>2, <4>4, <4>5, <4>6
    <3>. QED
      BY <3>3, <3>4
  <2>. QED
    BY <2>1, <2>2
<1>10. Accounted(d, P, k)
  <2> DEFINE Lies(e, o) == \E s \in e.sessions :
                 s.start <= o.at /\ (s.end = NULL \/ o.at + OfflineConfirmation <= s.end)
  <2>1. ASSUME NEW o \in O, Lies(c, o) PROVE Lies(d, o)
    <3>1. PICK s \in c.sessions :
             s.start <= o.at /\ (s.end = NULL \/ o.at + OfflineConfirmation <= s.end)
      BY <2>1
    <3>2. CASE s.end # NULL
      BY <1>1, <3>1, <3>2 DEF Grown
    <3>3. CASE s.end = NULL
      <4>1. IsOnline(c)
        BY <3>3 DEF ClientInv, OneOpenSession, OpenSessions
      <4>2. PICK x \in d.sessions : x.id = s.id
        BY <1>1 DEF Grown
      <4>3. PICK t \in c.sessions : x.id = t.id /\ x.start = t.start /\ x.end = t.end
        BY <1>1, <4>1
      <4>4. t = s
        BY <4>2, <4>3 DEF ClientInv, IdsAreKeys
      <4>. QED
        BY <3>1, <3>3, <4>3, <4>4
    <3>. QED
      BY <3>2, <3>3
  <2>2. Lies(d, new)
    <3>1. PICK s \in d.sessions : OpenSessions(d) = {s}
      BY <1>1 DEF ClientInv, OneOpenSession
    <3>2. s.end = NULL /\ s.start = d.device.lastOnline
      BY <1>1, <3>1 DEF TimeInv, OpenSessions
    <3>3. d.device.lastOnline <= k
      BY <1>1, <1>2 DEF TimeInv
    <3>. QED
      BY <1>4, <3>2, <3>3
  <2>3. ASSUME NEW o \in O
        PROVE  \/ Lies(c, o)
               \/ o.at + OfflineConfirmation + Earlier(RetentionNormal, RetentionStarred) < k
               \/ o.at + OfflineConfirmation <= d.device.firstSeen
    BY <1>2, <1>3 DEF ObsInv, Accounted
  <2>. QED
    BY <1>2, <2>1, <2>2, <2>3 DEF Accounted
<1>11. \A o \in P : o.at <= k
  BY <1>3, <1>4
<1>12. P \subseteq [at : Nat, node : Parents]
  BY <1>4 DEF ObsInv
<1>13. DeviceTimes(d, k)
  BY <1>1, <1>2 DEF DeviceTimes, ObsInv
<1>14. ObsInv(d, P, k)
  BY <1>1, <1>2, <1>9, <1>10, <1>11, <1>12, <1>13 DEF ObsInv
<1>. QED
  BY <1>14 DEF d, new


(* Confirming a client offline ends the session and the segment the          *)
(* confirmation time after the last observation (service.py:376-399).        *)
LEMMA ConfirmObs ==
    ASSUME NEW k \in Nat, NEW c, ClientInv(c), IsOnline(c), OfflineAt(c) <= k,
           NEW O, ObsInv(c, O, k), NEW now \in Nat
    PROVE  ObsInv(ConfirmOffline(c, now), O, k)
<1> DEFINE d == ConfirmOffline(c, now)
           at == OfflineAt(c)
<1>1. /\ at \in Nat /\ at = c.device.lastSeen + OfflineConfirmation
      /\ d.device \in DeviceRow /\ ~IsOnline(d) /\ d.device.lastOffline = at
      /\ d.device.lastSeen = c.device.lastSeen
  BY ConfirmedRows
<1>2. PICK a \in c.sessions :
         /\ OpenSessions(c) = {a}
         /\ \A x \in d.sessions : \/ x.id = a.id /\ x.start = a.start /\ x.end = at
                                  \/ x \in c.sessions /\ x # a
         /\ \E x \in d.sessions : x.id = a.id
         /\ \A s \in c.sessions : s # a => s \in d.sessions
  BY ConfirmedRows
<1>3. c.device # NULL /\ d.device # NULL /\ d.device.firstSeen = c.device.firstSeen
  <2>1. c.device \in DeviceRow /\ c.device # NULL
    BY DEF IsOnline, ClientInv, ClientRows
  <2>2. d.device.firstSeen = c.device.firstSeen
    BY <2>1 DEF ConfirmOffline, DeviceRow
  <2>. QED
    BY <1>1, <2>1, <2>2, RowAssumption
<1>4. /\ \A o \in O : o.at \in Nat /\ o.at <= c.device.lastSeen
      /\ \A g \in c.segments : g \in SegmentRow /\ g.entered \in Nat /\ g.left \in Instants
      /\ c.device.lastSeen \in Nat /\ OfflineConfirmation \in Nat
      /\ \A s, t \in c.sessions : s.id = t.id => s = t
  BY <1>3, ObsTypes DEF ObsInv, ClientInv, ClientRows, IdsAreKeys
<1>5. d.segments = EndSegment(c, at)
  BY DEF ConfirmOffline
<1> HIDE DEF d, at
<1>6. Placed(d, O, k)
  <2>1. PICK h \in c.segments : CurrentSegment(c) = {h} /\ h.left = NULL
    BY OnlineRows
  <2> DEFINE e == [h EXCEPT !.left = at]
  <2>2. e.left = at /\ e.entered = h.entered /\ e.node = h.node
    BY <1>4 DEF SegmentRow
  <2>3. d.segments \subseteq c.segments \cup {e}
    BY <1>5, <2>1 DEF EndSegment
  <2> HIDE DEF e
  <2>. QED
    BY <1>1, <2>1, <2>2, <2>3, NullAssumption DEF ObsInv, Placed, at
<1>7. Accounted(d, O, k)
  <2> SUFFICES ASSUME NEW o \in O
               PROVE  \/ \E s \in d.sessions :
                            /\ s.start <= o.at
                            /\ s.end = NULL \/ o.at + OfflineConfirmation <= s.end
                      \/ o.at + OfflineConfirmation
                            + Earlier(RetentionNormal, RetentionStarred) < k
                      \/ o.at + OfflineConfirmation <= d.device.firstSeen
    BY <1>3 DEF Accounted
  <2>1. ASSUME NEW s \in c.sessions, s.start <= o.at,
               s.end = NULL \/ o.at + OfflineConfirmation <= s.end
        PROVE  \E t \in d.sessions : /\ t.start <= o.at
                                     /\ t.end = NULL \/ o.at + OfflineConfirmation <= t.end
    <3>1. CASE s # a
      BY <1>2, <2>1, <3>1
    <3>2. CASE s = a
      <4>1. PICK x \in d.sessions : x.id = a.id
        BY <1>2
      <4>2. x.start = a.start /\ x.end = at
        BY <1>2, <1>4, <4>1
      <4>3. o.at + OfflineConfirmation <= at
        BY <1>1, <1>4
      <4>. QED
        BY <2>1, <3>2, <4>2, <4>3
    <3>. QED
      BY <3>1, <3>2
  <2>. QED
    BY <1>3, <2>1 DEF ObsInv, Accounted
<1>8. ObsInv(d, O, k)
  BY <1>1, <1>3, <1>4, <1>6, <1>7 DEF ObsInv, DeviceTimes, at
<1>. QED
  BY <1>8 DEF d

(* A session is deleted only when the retention has passed since its end     *)
(* (service.py:100-124).                                                      *)
LEMMA ExpireObs ==
    ASSUME NEW k \in Nat, NEW c, ClientInv(c), NEW O, ObsInv(c, O, k)
    PROVE  ObsInv(Expire(c, k), O, k)
<1> DEFINE d == Expire(c, k)
           least == Earlier(RetentionNormal, RetentionStarred)
<1>1. d.device = c.device /\ d.segments \subseteq c.segments
  BY DEF Expire, ClientInv, ClientRows
<1>2. \A s \in c.sessions : s \in d.sessions \/ (s.end # NULL /\ s.end + Retention(c) < k)
  BY ExpireKeeps
<1>3. /\ \A o \in O : o.at \in Nat
      /\ \A s \in c.sessions : s.end # NULL => s.end \in Nat
      /\ OfflineConfirmation \in Nat /\ least \in Nat /\ Retention(c) \in Nat
      /\ least <= Retention(c)
  BY ObsTypes DEF Instants
<1> HIDE DEF d, least
<1>4. Placed(d, O, k)
  BY <1>1 DEF ObsInv, Placed
<1>5. Accounted(d, O, k)
  <2>1. ASSUME NEW o \in O, NEW s \in c.sessions, s.start <= o.at,
               s.end = NULL \/ o.at + OfflineConfirmation <= s.end, s \notin d.sessions
        PROVE  o.at + OfflineConfirmation + least < k
    BY <1>2, <1>3, <2>1
  <2>. QED
    BY <1>1, <2>1 DEF ObsInv, Accounted, least
<1>6. DeviceTimes(d, k)
  BY <1>1 DEF ObsInv, DeviceTimes, IsOnline
<1>7. ObsInv(d, O, k)
  BY <1>1, <1>4, <1>5, <1>6 DEF ObsInv
<1>. QED
  BY <1>7 DEF d

(* A client is forgotten when its last session is over (service.py:125-150). *)
LEMMA PurgeObs ==
    ASSUME NEW k \in Nat, NEW c, ClientInv(c), TimeInv(c, k), Stale(c, k),
           NEW O, ObsInv(c, O, k), NEW id
    PROVE  ObsInv(NoRows(id), O, k)
<1>1. /\ c.device # NULL /\ ~IsOnline(c)
      /\ c.device.lastOffline = NULL \/ c.device.lastOffline + IdentityRetention < k
  BY DEF Stale, IsOnline
<1>2. /\ \A o \in O : o.at \in Nat /\ o.at <= c.device.lastSeen
      /\ c.device.lastSeen \in Nat /\ OfflineConfirmation \in Nat \ {0}
      /\ IdentityRetention \in Nat
  BY <1>1, ObsTypes, TimeAssumption DEF ObsInv
<1>3. c.device.lastOffline = c.device.lastSeen + OfflineConfirmation
  BY <1>1 DEF TimeInv
<1>4. c.device.lastSeen + OfflineConfirmation < k
  BY <1>1, <1>2, <1>3, NullAssumption
<1>5. \A o \in O : o.at < k /\ o.at + OfflineConfirmation < k
  BY <1>2, <1>4
<1>6. NoRows(id).device = NULL /\ NoRows(id).segments = {}
  BY DEF NoRows
<1>. QED
  BY <1>5, <1>6 DEF ObsInv, DeviceTimes, Placed, Accounted

(* The whole handling of a client by a snapshot. *)
LEMMA UpdateObs ==
    ASSUME NEW c, ClientInv(c), clock \in Nat, TimeInv(c, clock), InOrder,
           c.device # NULL => c.device.lastSeen < clock,
           NEW m \in Macs, NEW s \in Snapshots, NEW O, ObsInv(c, O, clock),
           NEW P, P = IF m \in DOMAIN s.devices
                      THEN O \cup {[at |-> s.at, node |-> s.devices[m]]} ELSE O
    PROVE  ObsInv(UpdateClient(c, m, s), P, clock)
<1> DEFINE d == UpdateClient(c, m, s)
           seen == Observed(c, m, s)
<1>1. s.at \in Nat /\ s.at = clock /\ \A k \in DOMAIN s.devices : s.devices[k] \in Parents
  BY SnapshotRanges
<1>2. ClientInv(seen) /\ ObsInv(seen, P, clock)
  <2>1. ClientInv(seen)
    BY UpdateCases
  <2>2. CASE m \in DOMAIN s.devices
    <3>1. seen = Observe(c, clock, s.devices[m], clock) /\ s.devices[m] \in Parents
          /\ P = O \cup {[at |-> clock, node |-> s.devices[m]]}
      BY <1>1, <2>2 DEF Observed
    <3> HIDE DEF seen
    <3>2. ObsInv(Observe(c, clock, s.devices[m], clock),
                 O \cup {[at |-> clock, node |-> s.devices[m]]}, clock)
      BY <3>1, ObserveObs
    <3>. QED
      BY <2>1, <3>1, <3>2
  <2>3. CASE m \notin DOMAIN s.devices
    BY <2>1, <2>3 DEF Observed
  <2>. QED
    BY <2>2, <2>3
<1>3. ASSUME NEW kept \in {c, Expire(c, s.at)}, ClientInv(kept), IsOnline(kept),
             kept.device = c.device, OfflineAt(c) < s.at, seen = c,
             d = ConfirmOffline(kept, clock)
      PROVE  ObsInv(d, P, clock)
  <2>1. ObsInv(kept, P, clock)
    BY <1>1, <1>2, <1>3, ExpireObs
  <2>2. OfflineAt(kept) = OfflineAt(c) /\ OfflineAt(kept) \in Nat
    BY <1>3, ConfirmedRows DEF OfflineAt
  <2>3. OfflineAt(kept) <= clock
    BY <1>1, <1>3, <2>2
  <2> HIDE DEF d, seen
  <2>. QED
    BY <1>3, <2>1, <2>3, ConfirmObs
<1>4. ASSUME Stale(c, s.at), seen = c PROVE \A id : ObsInv(NoRows(id), P, clock)
  BY <1>1, <1>2, <1>4, PurgeObs
<1>5. ObsInv(Expire(seen, s.at), P, clock)
  BY <1>1, <1>2, ExpireObs
<1> HIDE DEF d
<1>. QED
  BY <1>2, <1>3, <1>4, <1>5, UpdateCases DEF d

(* As time passes, and when a client is starred, the rows tell the same.     *)
LEMMA LaterObs ==
    ASSUME NEW k \in Nat, NEW later \in Nat, k <= later, NEW c, ClientInv(c),
           TimeInv(c, k), NEW O, ObsInv(c, O, k),
           NEW d, ClientInv(d), d.sessions = c.sessions, d.segments = c.segments,
           IsOnline(d) <=> IsOnline(c),
           IF c.device = NULL THEN d.device = NULL
           ELSE /\ d.device # NULL /\ d.device.firstSeen = c.device.firstSeen
                /\ d.device.lastSeen = c.device.lastSeen
                /\ d.device.lastOffline = c.device.lastOffline
    PROVE  ObsInv(d, O, later)
<1> DEFINE least == Earlier(RetentionNormal, RetentionStarred)
<1>1. /\ \A o \in O : o.at \in Nat
      /\ \A g \in c.segments : g.left \in Instants
      /\ c.device # NULL => c.device.firstSeen \in Nat /\ c.device.lastSeen \in Nat
      /\ OfflineConfirmation \in Nat /\ least \in Nat
  BY ObsTypes
<1>2. Placed(d, O, later)
  BY <1>1 DEF ObsInv, Placed, Instants
<1>3. Accounted(d, O, later)
  <2> HIDE DEF least
  <2>1. \A o \in O : /\ o.at + OfflineConfirmation + least < k =>
                           o.at + OfflineConfirmation + least < later
                     /\ o.at + OfflineConfirmation < k => o.at + OfflineConfirmation < later
    BY <1>1
  <2>. QED
    BY <2>1 DEF ObsInv, Accounted, least
<1>4. DeviceTimes(d, later)
  <2>1. c.device # NULL /\ ~IsOnline(c) =>
           c.device.lastOffline = c.device.lastSeen + OfflineConfirmation
    BY DEF TimeInv
  <2>. QED
    BY <1>1, <2>1 DEF ObsInv, DeviceTimes
<1>. QED
  BY <1>1, <1>2, <1>3, <1>4 DEF ObsInv

-----------------------------------------------------------------------------
(* The journey *)

(* Recording what was observed changes no step of Presence. *)
LEMMA JourneySteps == [JourneyNext]_journeyVars => [Next]_vars
  BY DEF JourneyNext, Next, journeyVars

LEMMA InitJInv == JourneyInit => JInv
<1> SUFFICES ASSUME JourneyInit, NEW m \in Macs PROVE TInv /\ ObsInv(clients[m], observed[m], clock)
  BY InitTInv DEF JInv, JourneyInit
<1>1. TInv /\ clients[m] = NoRows(0) /\ observed[m] = {}
  BY InitTInv DEF JourneyInit, Init
<1>. QED
  BY <1>1 DEF ObsInv, DeviceTimes, Placed, Accounted, NoRows

LEMMA NextJInv == JInv /\ [JourneyNext]_journeyVars => JInv'
<1> SUFFICES ASSUME JInv, [JourneyNext]_journeyVars, InOrder, NEW m \in Macs
             PROVE  ObsInv(clients'[m], observed'[m], clock')
  <2>1. JInv /\ [JourneyNext]_journeyVars => TInv'
    BY JourneySteps, NextTInv DEF JInv
  <2>. QED
    BY <2>1 DEF JInv, InOrder, ObsInv, DeviceTimes, Placed, Accounted, IsOnline
<1> DEFINE c == clients[m]
           O == observed[m]
<1>1. /\ clock \in Nat /\ ClientInv(c) /\ TimeInv(c, clock) /\ ObsInv(c, O, clock)
      /\ SeenInv /\ processed \subseteq 0..clock
  BY DEF JInv, TInv, HInv, IInv, TypeOK
<1>2. ClientInv(clients'[m]) /\ clock' \in Nat
  <2>1. TInv'
    BY JourneySteps, NextTInv DEF JInv
  <2>. QED
    BY <2>1 DEF TInv, HInv, IInv, TypeOK, ClientInv
<1> DEFINE Same == /\ clients'[m].sessions = c.sessions /\ clients'[m].segments = c.segments
                   /\ IsOnline(clients'[m]) <=> IsOnline(c)
                   /\ IF c.device = NULL THEN clients'[m].device = NULL
                      ELSE /\ clients'[m].device # NULL
                           /\ clients'[m].device.firstSeen = c.device.firstSeen
                           /\ clients'[m].device.lastSeen = c.device.lastSeen
                           /\ clients'[m].device.lastOffline = c.device.lastOffline
<1>3. ASSUME Same, observed' = observed, clock' = clock \/ clock' = clock + 1
      PROVE  ObsInv(clients'[m], observed'[m], clock')
  <2>1. clock <= clock'
    BY <1>1, <1>3
  <2>. QED
    BY <1>1, <1>2, <1>3, <2>1, LaterObs
<1>4. ASSUME NEW s \in Snapshots, ProcessSnapshot(s),
             observed' = [k \in Macs |->
                            IF k \in DOMAIN s.devices
                            THEN observed[k] \cup {[at |-> s.at, node |-> s.devices[k]]}
                            ELSE observed[k]]
      PROVE  ObsInv(clients'[m], observed'[m], clock')
  <2>1. /\ s.at = clock /\ clock \notin processed /\ clock' = clock
        /\ clients'[m] = UpdateClient(c, m, s)
    BY <1>1, <1>4, SnapshotRanges DEF ProcessSnapshot
  <2>2. c.device # NULL => c.device.lastSeen < clock
    BY <1>1, <2>1 DEF SeenInv
  <2>3. observed'[m] = IF m \in DOMAIN s.devices
                       THEN O \cup {[at |-> s.at, node |-> s.devices[m]]} ELSE O
    BY <1>4
  <2>4. ObsInv(UpdateClient(c, m, s), observed'[m], clock)
    BY <1>1, <2>2, <2>3, UpdateObs
  <2>. QED
    BY <2>1, <2>4
<1>5. CASE Tick /\ UNCHANGED observed
  BY <1>3, <1>5 DEF Tick
<1>6. ASSUME NEW k \in Macs, NEW starred \in BOOLEAN, StarClient(k, starred), observed' = observed
      PROVE  ObsInv(clients'[m], observed'[m], clock')
  <2>1. CASE m # k
    BY <1>3, <1>6, <2>1 DEF StarClient, JInv, TInv, HInv, IInv, TypeOK
  <2>2. CASE m = k
    <3>1. c \in ClientRows /\ c.device \in DeviceRow /\ c.device # NULL
          /\ clients'[m] = [c EXCEPT !.device.starred = starred]
      BY <1>1, <1>6, <2>2 DEF JInv, TInv, HInv, IInv, TypeOK, ClientInv, ClientRows, StarClient
    <3>2. /\ clients'[m].sessions = c.sessions /\ clients'[m].segments = c.segments
          /\ clients'[m].device = [c.device EXCEPT !.starred = starred]
      BY <3>1 DEF ClientRows
    <3>3. /\ clients'[m].device \in DeviceRow
          /\ clients'[m].device.firstSeen = c.device.firstSeen
          /\ clients'[m].device.lastSeen = c.device.lastSeen
          /\ clients'[m].device.lastOffline = c.device.lastOffline
          /\ clients'[m].device.online = c.device.online
      BY <3>1, <3>2 DEF DeviceRow
    <3>4. Same
      BY <3>1, <3>2, <3>3, RowAssumption DEF IsOnline
    <3>. QED
      BY <1>3, <1>6, <3>4 DEF StarClient
  <2>. QED
    BY <2>1, <2>2
<1>7. CASE /\ \/ \E k \in Touched : AliasRead(k) \/ AliasWrite(k) \/ AliasClear(k)
              \/ Restart \/ UNCHANGED vars
           /\ UNCHANGED observed
  <2>1. UNCHANGED <<clock, clients>>
    BY <1>7 DEF AliasRead, AliasWrite, AliasClear, Restart, vars
  <2>. QED
    BY <1>3, <1>7, <2>1
<1> HIDE DEF Same
<1>. QED
  BY <1>4, <1>5, <1>6, <1>7, TouchedAssumption DEF JourneyNext, Otherwise, journeyVars

LEMMA JourneyHolds == JourneySpec => []JInv
  BY InitJInv, NextJInv, PTL DEF JourneySpec

(* A timeline leaves no instant of its window out and counts none twice,     *)
(* whatever has been moved, confirmed offline, expired, purged or starred,    *)
(* for every range asked for, as long as the clock and the snapshots go       *)
(* forward (journey.py:100-160).                                              *)
THEOREM TimelinesTile == JourneySpec => []TimelineTiles
  BY JourneyHolds, JInvTiles, PTL

(* A timeline has the client where it was last observed while it says        *)
(* online, and says offline only when it had not been observed for the        *)
(* confirmation time, unless the history is that old that the shorter of      *)
(* the two retentions has deleted it (journey.py:100-177,                     *)
(* service.py:241-331, 372-399).                                              *)
THEOREM TimelinesTell == JourneySpec => []TimelineTellsObservations
  BY JourneyHolds, JInvTells, PTL
=============================================================================
