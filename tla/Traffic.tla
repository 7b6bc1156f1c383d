------------------------------- MODULE Traffic -------------------------------
(***************************************************************************)
(* What process_snapshot makes of a client's traffic counter, and what the *)
(* traffic curve is drawn from: the rate of the device, the bytes of its   *)
(* session and the samples (backend/service.py, analytics/traffic.py).     *)
(*                                                                         *)
(* The router counts the bytes of a client from a moment of its own        *)
(* choosing: the counter begins anew when the client associates again or   *)
(* the router restarts.  Received and sent bytes are handled alike, so     *)
(* there is one counter here, of one client.  A snapshot is handled when   *)
(* it is collected: one collector runs at a time (module Supervisor).      *)
(***************************************************************************)
EXTENDS Integers, FiniteSets, FiniteSetsExt

CONSTANTS
    NULL,
    Interval,             \* 60 s between two samples of a client
    StarredInterval,      \* 10 s if it is starred
    LongestGap,           \* 300 s: no rate is computed over more
    OfflineConfirmation,  \* _OFFLINE_CONFIRMATION_SECONDS
    RetentionNormal,      \* settings.retention_days_normal
    RetentionStarred,     \* settings.retention_days_starred
    Ranges,               \* TRAFFIC_RANGES: durations and bucket_seconds
    Steps,                \* 1000: coverage is shown in tenths of a percent
    MaxBytes,             \* bounds of the model: what the client transfers,
    MaxTime               \* and the clock

ASSUME NullAssumption == NULL \notin Int

ASSUME IntervalAssumption ==
    /\ StarredInterval \in Nat \ {0}
    /\ Interval \in Nat /\ StarredInterval <= Interval
    /\ RetentionNormal \in Int /\ RetentionStarred \in Int
    /\ LongestGap \in Nat /\ OfflineConfirmation \in Nat \ {0}
    /\ MaxBytes \in Nat /\ MaxTime \in Nat

ASSUME RangeAssumption ==
    /\ Ranges \subseteq [duration : Nat \ {0}, bucket : Nat \ {0}]
    /\ \A r \in Ranges : r.duration % r.bucket = 0
    /\ Steps \in Nat \ {0}

VARIABLES
    clock,
    bytes,      \* history: what the client has transferred in all
    base,       \* and had transferred when the router began to count
    observed,   \* history: those two at the client's last observation
    device,     \* the device row
    session,    \* its open session
    samples     \* client_traffic_samples: the instants sampled at

vars == <<clock, bytes, base, observed, device, session, samples>>

-----------------------------------------------------------------------------
(* last: bytes at the observation before the last one. *)
Observation == [bytes : Nat, base : Nat, last : Nat]

(* rate: the bytes it was computed from, 0 if the router gave it or nobody. *)
DeviceRow == [online : BOOLEAN, starred : BOOLEAN, seen : Nat, counter : Nat, rate : Nat]

(* last: last_rx_counter; from, base: history, of its first observation. *)
SessionRow == [last : Nat, bytes : Nat, from : Nat, base : Nat]

ASSUME RowAssumption == NULL \notin DeviceRow /\ NULL \notin SessionRow

(* counter_delta: a counter that has gone back has begun anew. *)
CounterDelta(current, previous) == IF current < previous THEN 0 ELSE current - previous

SampleInterval(d) == IF d.starred THEN StarredInterval ELSE Interval

Retention(d) == IF d # NULL /\ d.starred THEN RetentionStarred ELSE RetentionNormal

(* What the router says the client has transferred. *)
Counter == bytes - base

(* The router's rate, or that of the counter since the last observation. *)
Rate(given) ==
    IF ~given /\ device # NULL /\ device.seen < clock /\ clock - device.seen <= LongestGap
    THEN CounterDelta(Counter, device.counter)
    ELSE 0

(* Mutants, here and below: a definition as a plausible bug would write it. *)
ObservedDeviceKeepsStatus(given) ==
    [online |-> device = NULL \/ device.online,
     starred |-> device # NULL /\ device.starred,
     seen |-> clock, counter |-> Counter, rate |-> Rate(given)]

ObservedDevice(given) ==
    [online |-> TRUE, starred |-> device # NULL /\ device.starred,
     seen |-> clock, counter |-> Counter, rate |-> Rate(given)]

ObservedSessionKeepsLast ==
    IF session = NULL
    THEN [last |-> Counter, bytes |-> 0, from |-> bytes, base |-> base]
    ELSE [session EXCEPT !.bytes = @ + CounterDelta(Counter, session.last)]

(* A new session starts at the counter as it is. *)
ObservedSession ==
    IF session = NULL
    THEN [last |-> Counter, bytes |-> 0, from |-> bytes, base |-> base]
    ELSE [session EXCEPT !.bytes = @ + CounterDelta(Counter, session.last),
                         !.last = Counter]

SampleDueOfDevice(d) == device = NULL \/ clock - device.seen >= SampleInterval(d)

(* The newest sample is an interval old. *)
SampleDue(d) == \A a \in samples : clock - a >= SampleInterval(d)

(* Those cleanup_expired_history deletes; the new one is not yet flushed. *)
ExpiredSamples == {a \in samples : a + Retention(device) < clock}

(* The row is online and was last seen more than the confirmation time ago. *)
ConfirmedAbsent ==
    /\ device # NULL /\ device.online
    /\ clock > device.seen + OfflineConfirmation

-----------------------------------------------------------------------------
Transfer ==
    /\ bytes < MaxBytes
    /\ bytes' = bytes + 1
    /\ UNCHANGED <<clock, base, observed, device, session, samples>>

ResetCounter ==
    /\ base # bytes
    /\ base' = bytes
    /\ UNCHANGED <<clock, bytes, observed, device, session, samples>>

(* The statement of process_snapshot before the last, if it is due. *)
CleanUp(cleanup, new) ==
    samples' = (samples \ IF cleanup THEN ExpiredSamples ELSE {}) \cup new

(* process_snapshot of a snapshot that lists the client. *)
Observe(given, cleanup) ==
    /\ device' = ObservedDevice(given)
    /\ session' = ObservedSession
    /\ observed' = [bytes |-> bytes, base |-> base,
                    last |-> IF device = NULL THEN bytes ELSE observed.bytes]
    /\ CleanUp(cleanup, IF SampleDue(ObservedDevice(given)) THEN {clock} ELSE {})
    /\ UNCHANGED <<clock, bytes, base>>

(* process_snapshot of one that does not. *)
Miss(complete, cleanup) ==
    /\ IF complete /\ ConfirmedAbsent
       THEN /\ device' = [device EXCEPT !.online = FALSE, !.rate = 0]
            /\ session' = NULL
       ELSE UNCHANGED <<device, session>>
    /\ CleanUp(cleanup, {})
    /\ UNCHANGED <<clock, bytes, base, observed>>

StarClient ==
    /\ device # NULL
    /\ device' = [device EXCEPT !.starred = ~@]
    /\ UNCHANGED <<clock, bytes, base, observed, session, samples>>

Tick ==
    /\ clock < MaxTime
    /\ clock' = clock + 1
    /\ UNCHANGED <<bytes, base, observed, device, session, samples>>

Init ==
    /\ clock = 0
    /\ bytes = 0 /\ base = 0
    /\ observed = [bytes |-> 0, base |-> 0, last |-> 0]
    /\ device = NULL /\ session = NULL
    /\ samples = {}

Next ==
    \/ Tick \/ Transfer \/ ResetCounter \/ StarClient
    \/ \E given, cleanup \in BOOLEAN : Observe(given, cleanup)
    \/ \E complete, cleanup \in BOOLEAN : Miss(complete, cleanup)

Spec == Init /\ [][Next]_vars
-----------------------------------------------------------------------------
(* traffic_analytics *)

Rows(r) == {a \in samples : a >= clock - r.duration}

(* The points of the curve: the instants their buckets begin at. *)
Points(r) == {a - (a % r.bucket) : a \in Rows(r)}

ExpectedUnstarred(r) ==
    LET rows == Rows(r)
        seen == Min({r.duration, Max({Interval, Max(rows) - Min(rows) + Interval})})
    IN  Max({1, seen \div Interval})

(* The samples there should be from the first one on. *)
Expected(r) ==
    LET rows == Rows(r)
        i == SampleInterval(device)
        seen == Min({r.duration, Max({i, Max(rows) - Min(rows) + i})})
    IN  Max({1, seen \div i})

(* coverage_percent in steps, rounded to the nearest.                       *)
Coverage(r) ==
    LET covered == Min({Cardinality(Rows(r)), Expected(r)})
    IN  (2 * Steps * covered + Expected(r)) \div (2 * Expected(r))

(* It is shown as 100.0. *)
Complete(r) == Coverage(r) = Steps
-----------------------------------------------------------------------------
(* Properties *)

(* Type correctness; a client is online with its session. *)
TypeOK ==
    /\ clock \in Nat /\ bytes \in Nat /\ base \in 0..bytes
    /\ observed \in Observation
    /\ device \in DeviceRow \cup {NULL}
    /\ session \in SessionRow \cup {NULL}
    /\ samples \subseteq 0..clock
    /\ (session # NULL) = (device # NULL /\ device.online)

(* Whatever resets and gaps there are, no byte is counted twice: a session  *)
(* counts no more than the client has transferred since its first           *)
(* observation, and all of it when the router's counter went on; the rate   *)
(* is of bytes transferred since the last observation (service.py:25-28,    *)
(* 206-233, 271-278).                                                        *)
TrafficCountedOnce ==
    /\ session # NULL =>
          /\ session.bytes <= observed.bytes - session.from
          /\ session.base = observed.base => session.bytes = observed.bytes - session.from
    /\ device # NULL => device.rate <= observed.bytes - observed.last

(* Samples are never closer than the shorter interval, and the client's last *)
(* observation is within the longer one of a sample, whenever it is starred *)
(* or not and the old samples are deleted, while that sample is not older   *)
(* than what is kept of any client; either retention may be the shorter     *)
(* (service.py:79-89, 347-370; config.py:111-112).                           *)
SamplesKeepUp ==
    /\ \A a, b \in samples : a < b => b - a >= StarredInterval
    /\ device # NULL /\ device.seen - Interval + Min({RetentionNormal, RetentionStarred}) >= clock =>
          \E a \in samples : a > device.seen - Interval

(* Where coverage is full, the samples missing in a row are at most one, and *)
(* one more for every 2 * Steps intervals of the curve: that is rounded off. *)
WidestGap(rows, i) == 3 + ((Max(rows) - Min(rows)) \div i) \div (2 * Steps)

(* The curve has no more points than its range has buckets and one; samples  *)
(* at every interval are full coverage, and full coverage means that nowhere *)
(* more samples in a row are missing than one and what the rounding to a     *)
(* tenth of a percent hides: two over 2000 samples, six over 7 days of 60 s  *)
(* (analytics/traffic.py:48-93, 104-123).                                    *)
CurveIsFaithful ==
    \A r \in Ranges : LET rows == Rows(r)  i == SampleInterval(device) IN
        /\ Cardinality(Points(r)) <= (r.duration \div r.bucket) + 1
        /\ rows # {} /\ (\A a, b \in rows : a < b => b - a >= i) =>
              /\ (\A a \in rows : a = Max(rows) \/ a + i \in rows) => Complete(r)
              /\ Complete(r) =>
                    \A a \in rows : a = Max(rows)
                        \/ \E b \in rows : a < b /\ b < a + WidestGap(rows, i) * i
=============================================================================
