---------------------------- MODULE Traffic_proofs ----------------------------
(***************************************************************************)
(* Proofs about module Traffic, for any intervals, ranges, retention limits *)
(* and amounts of traffic: types, no byte counted twice, samples that keep *)
(* up, and a curve that is faithful to them.                               *)
(*                                                                         *)
(* What makes a reset harmless is that the router's counter, if it is not  *)
(* the one of the last observation, began after it (CounterBegan): what it *)
(* shows then is part of what was transferred since.                       *)
(***************************************************************************)
EXTENDS Traffic, FiniteSetTheorems, WellFoundedInduction, TLAPS

(* The router's counter is that of the last observation, or began after it. *)
CounterBegan ==
    /\ observed.bytes <= bytes
    /\ observed.base <= observed.bytes /\ observed.last <= observed.bytes
    /\ base = observed.base \/ observed.bytes <= base

(* What the rows hold of the last observation. *)
RowsTellObserved ==
    /\ device # NULL => device.counter = observed.bytes - observed.base
    /\ session # NULL =>
          /\ session.last = observed.bytes - observed.base
          /\ session.from <= observed.bytes
          /\ session.base <= observed.base

IInv == TypeOK /\ CounterBegan /\ RowsTellObserved /\ TrafficCountedOnce /\ SamplesKeepUp

(* The parameters and the rows. *)
LEMMA Parameters ==
    /\ StarredInterval \in Nat /\ StarredInterval > 0 /\ Interval \in Nat
    /\ StarredInterval <= Interval
    /\ RetentionNormal \in Int /\ RetentionStarred \in Int
BY IntervalAssumption

LEMMA MinOfTwo ==
    ASSUME NEW a \in Int, NEW b \in Int
    PROVE  Min({a, b}) = IF a <= b THEN a ELSE b
<1>1. Min({a, b}) \in {a, b} /\ \A y \in {a, b} : Min({a, b}) =< y
  <2>1. \E x \in {a, b} : \A y \in {a, b} : x =< y
    OBVIOUS
  <2>. QED
    BY <2>1, Zenon DEF Min
<1>. QED
  BY <1>1

(* What is kept of any client, starred or not. *)
Kept == Min({RetentionNormal, RetentionStarred})

LEMMA KeptOfAny == Kept \in Int /\ Kept <= RetentionNormal /\ Kept <= RetentionStarred
<1>1. Kept = IF RetentionNormal <= RetentionStarred THEN RetentionNormal ELSE RetentionStarred
  BY Parameters, MinOfTwo DEF Kept
<1>. QED
  BY <1>1, Parameters

-----------------------------------------------------------------------------
(* What a counter gains since an observation is of bytes transferred since: *)
(* all of them if it is the same counter, some of them if it began anew.    *)
LEMMA DeltaIsOfNewBytes ==
    ASSUME TypeOK, CounterBegan
    PROVE  /\ Counter \in Nat
           /\ CounterDelta(Counter, observed.bytes - observed.base) \in Nat
           /\ CounterDelta(Counter, observed.bytes - observed.base) <= bytes - observed.bytes
           /\ base = observed.base =>
                 CounterDelta(Counter, observed.bytes - observed.base) = bytes - observed.bytes
           /\ observed.base <= base
BY DEF TypeOK, CounterBegan, Counter, CounterDelta, Observation

LEMMA InitIInv == Init => IInv
BY NullAssumption DEF Init, IInv, TypeOK, CounterBegan, RowsTellObserved,
   TrafficCountedOnce, SamplesKeepUp, Observation

(* The samples that a snapshot adds and a cleanup deletes. *)
LEMMA SamplesStep ==
    ASSUME TypeOK, TypeOK', SamplesKeepUp, UNCHANGED clock, NEW cleanup \in BOOLEAN,
           NEW new, CleanUp(cleanup, new),
           \/ /\ new = {}
              /\ device' # NULL => device # NULL /\ device'.seen = device.seen
           \/ /\ new = IF SampleDue(device') THEN {clock} ELSE {}
              /\ device' # NULL /\ device'.seen = clock
    PROVE  SamplesKeepUp'
<1> USE Parameters, KeptOfAny
<1>1. /\ clock \in Nat /\ samples \subseteq 0..clock
      /\ samples' \subseteq samples \cup new
      /\ \A a \in samples : a + Kept >= clock => a \in samples'
      /\ new \subseteq samples'
  BY DEF TypeOK, CleanUp, ExpiredSamples, Retention
<1>2. CASE /\ new = {}
           /\ device' # NULL => device # NULL /\ device'.seen = device.seen
  <2>1. \A a, b \in samples' : a < b => b - a >= StarredInterval
    BY <1>1, <1>2 DEF SamplesKeepUp
  <2>2. ASSUME device' # NULL, device'.seen - Interval + Kept >= clock
        PROVE  \E a \in samples' : a > device'.seen - Interval
    <3>1. PICK a \in samples : a > device.seen - Interval
      BY <1>2, <2>2 DEF SamplesKeepUp, Kept
    <3>2. device.seen \in Nat
      BY <1>2, <2>2 DEF TypeOK, DeviceRow
    <3>. QED
      BY <1>1, <1>2, <2>2, <3>1, <3>2
  <2>. QED
    BY <2>1, <2>2 DEF SamplesKeepUp, Kept
<1>3. CASE /\ new = IF SampleDue(device') THEN {clock} ELSE {}
           /\ device' # NULL /\ device'.seen = clock
  <2>1. SampleInterval(device') \in {Interval, StarredInterval}
    BY DEF SampleInterval
  <2>2. \A a, b \in samples' : a < b => b - a >= StarredInterval
    <3> SUFFICES ASSUME NEW a \in samples', NEW b \in samples', a < b
                 PROVE  b - a >= StarredInterval
      OBVIOUS
    <3>1. a \in 0..clock /\ b \in 0..clock
      BY <1>1, <1>3
    <3>2. CASE a \in samples /\ b \in samples
      BY <3>2 DEF SamplesKeepUp
    <3>3. CASE b \in new /\ a \in samples
      BY <1>3, <2>1, <3>1, <3>3 DEF SampleDue
    <3>4. CASE a \in new
      BY <1>3, <3>1, <3>4
    <3>. QED
      BY <1>1, <3>2, <3>3, <3>4
  <2>3. ASSUME clock - Interval + Kept >= clock
        PROVE  \E a \in samples' : a > clock - Interval
    <3>1. CASE SampleDue(device')
      BY <1>1, <1>3, <3>1
    <3>2. CASE ~SampleDue(device')
      <4>1. PICK a \in samples : ~(clock - a >= SampleInterval(device'))
        BY <3>2 DEF SampleDue
      <4>. QED
        BY <1>1, <2>1, <2>3, <4>1
    <3>. QED
      BY <3>1, <3>2
  <2>. QED
    BY <1>3, <2>2, <2>3 DEF SamplesKeepUp, Kept
<1>. QED
  BY <1>2, <1>3

(* A snapshot that lists the client. *)
LEMMA ObserveStep ==
    ASSUME IInv, NEW given \in BOOLEAN, NEW cleanup \in BOOLEAN, Observe(given, cleanup)
    PROVE  IInv'
<1> USE NullAssumption, RowAssumption
<1>1. /\ TypeOK /\ CounterBegan /\ RowsTellObserved /\ TrafficCountedOnce /\ SamplesKeepUp
      /\ clock \in Nat /\ bytes \in Nat /\ base \in Nat /\ base <= bytes
      /\ observed \in Observation
      /\ Counter \in Nat /\ Counter = bytes - base
  BY DEF IInv, TypeOK, Counter
<1>2. observed' = [bytes |-> bytes, base |-> base,
                   last |-> IF device = NULL THEN bytes ELSE observed.bytes]
      /\ UNCHANGED <<clock, bytes, base>>
  BY DEF Observe
<1>3. /\ observed'.bytes = bytes /\ observed'.base = base
      /\ observed'.last = IF device = NULL THEN bytes ELSE observed.bytes
      /\ observed.bytes \in Nat /\ observed.bytes <= bytes
      /\ observed.base \in Nat /\ observed.base <= base
  BY <1>1, <1>2, DeltaIsOfNewBytes DEF Observation, CounterBegan
<1>4. Rate(given) \in Nat /\ Rate(given) <= bytes - observed'.last
  <2>1. CASE device = NULL
    BY <1>1, <1>3, <2>1 DEF Rate
  <2>2. CASE device # NULL
    <3>1. device.counter = observed.bytes - observed.base
      BY <1>1, <2>2 DEF RowsTellObserved
    <3>. QED
      BY <1>1, <1>3, <2>2, <3>1, DeltaIsOfNewBytes DEF Rate
  <2>. QED
    BY <2>1, <2>2
<1>5. /\ device' \in DeviceRow /\ device' # NULL /\ device'.online
      /\ device'.seen = clock /\ device'.counter = bytes - base
      /\ device'.rate = Rate(given)
  <2>1. PICK online \in BOOLEAN, starred \in BOOLEAN :
          /\ online
          /\ device' = [online |-> online, starred |-> starred, seen |-> clock,
                        counter |-> Counter, rate |-> Rate(given)]
    BY Zenon DEF Observe, ObservedDevice
  <2>2. device' \in DeviceRow
    BY <1>1, <1>4, <2>1, Zenon DEF DeviceRow
  <2>. QED
    BY <1>1, <2>1, <2>2
<1>6. /\ session' \in SessionRow /\ session' # NULL
      /\ session'.last = bytes - base
      /\ session'.from <= bytes /\ session'.base <= base
      /\ session'.bytes <= bytes - session'.from
      /\ session'.base = base => session'.bytes = bytes - session'.from
  <2>1. CASE session = NULL
    BY <1>1, <2>1 DEF Observe, ObservedSession, SessionRow
  <2>2. CASE session # NULL
    <3> DEFINE delta == CounterDelta(Counter, session.last)
    <3>1. /\ session \in SessionRow
          /\ session.last = observed.bytes - observed.base
          /\ session.from <= observed.bytes /\ session.base <= observed.base
          /\ session.bytes <= observed.bytes - session.from
          /\ session.base = observed.base => session.bytes = observed.bytes - session.from
      BY <1>1, <2>2 DEF TypeOK, RowsTellObserved, TrafficCountedOnce
    <3>2. /\ session.last \in Nat /\ session.bytes \in Nat
          /\ session.from \in Nat /\ session.base \in Nat
      BY <3>1 DEF SessionRow
    <3>3. /\ delta \in Nat /\ delta <= bytes - observed.bytes
          /\ base = observed.base => delta = bytes - observed.bytes
      BY <1>1, <3>1, DeltaIsOfNewBytes
    <3>4. session' = [last |-> Counter, bytes |-> session.bytes + delta,
                      from |-> session.from, base |-> session.base]
      BY <2>2, <3>1 DEF Observe, ObservedSession, SessionRow
    <3>5. session' \in SessionRow
      BY <1>1, <3>2, <3>3, <3>4 DEF SessionRow
    <3> HIDE DEF delta
    <3>. QED
      BY <1>1, <1>3, <3>1, <3>2, <3>3, <3>4, <3>5
  <2>. QED
    BY <2>1, <2>2
<1>7. samples' \subseteq 0..clock
  <2>1. CleanUp(cleanup, IF SampleDue(ObservedDevice(given)) THEN {clock} ELSE {})
    BY DEF Observe
  <2>2. samples \subseteq 0..clock /\ {clock} \subseteq 0..clock
    BY <1>1 DEF TypeOK
  <2>3. samples' \subseteq samples \cup {clock}
    BY <2>1, Zenon DEF CleanUp
  <2>. QED
    BY <2>2, <2>3
<1>8. TypeOK'
  <2>1. observed' \in Observation
    BY <1>1, <1>2, <1>3 DEF Observation
  <2>. QED
    BY <1>1, <1>2, <1>5, <1>6, <1>7, <2>1 DEF TypeOK
<1>9. CounterBegan' /\ RowsTellObserved'
  BY <1>1, <1>2, <1>3, <1>5, <1>6 DEF CounterBegan, RowsTellObserved
<1>10. TrafficCountedOnce'
  BY <1>1, <1>3, <1>4, <1>5, <1>6 DEF TrafficCountedOnce
<1>11. SamplesKeepUp'
  <2>1. CleanUp(cleanup, IF SampleDue(device') THEN {clock} ELSE {})
    BY DEF Observe
  <2>. QED
    BY <1>1, <1>2, <1>5, <1>8, <2>1, SamplesStep
<1>. QED
  BY <1>8, <1>9, <1>10, <1>11 DEF IInv

(* A snapshot that does not. *)
LEMMA MissStep ==
    ASSUME IInv, NEW complete \in BOOLEAN, NEW cleanup \in BOOLEAN, Miss(complete, cleanup)
    PROVE  IInv'
<1> USE NullAssumption, RowAssumption
<1>1. /\ TypeOK /\ CounterBegan /\ RowsTellObserved /\ TrafficCountedOnce /\ SamplesKeepUp
      /\ UNCHANGED <<clock, bytes, base, observed>> /\ CleanUp(cleanup, {})
  BY DEF IInv, Miss
<1>2. samples' \subseteq 0..clock
  BY <1>1 DEF TypeOK, CleanUp
<1>3. CASE complete /\ ConfirmedAbsent
  <2>1. device \in DeviceRow /\ device # NULL /\ observed \in Observation
    BY <1>1, <1>3 DEF TypeOK, ConfirmedAbsent
  <2>2. device' = [online |-> FALSE, starred |-> device.starred, seen |-> device.seen,
                   counter |-> device.counter, rate |-> 0] /\ session' = NULL
    BY <1>3, <2>1 DEF Miss, DeviceRow
  <2>3. device' \in DeviceRow /\ device' # NULL
    <3>1. PICK online \in BOOLEAN, starred \in BOOLEAN :
            device' = [online |-> online, starred |-> starred, seen |-> device.seen,
                       counter |-> device.counter, rate |-> 0]
      BY <2>1, <2>2 DEF DeviceRow
    <3>. QED
      BY <2>1, <3>1 DEF DeviceRow
  <2>4. TypeOK'
    BY <1>1, <1>2, <2>2, <2>3 DEF TypeOK
  <2>5. CounterBegan' /\ RowsTellObserved' /\ TrafficCountedOnce'
    BY <1>1, <2>1, <2>2 DEF CounterBegan, RowsTellObserved, TrafficCountedOnce, Observation
  <2>6. SamplesKeepUp'
    BY <1>1, <2>1, <2>2, <2>4, SamplesStep
  <2>. QED
    BY <2>4, <2>5, <2>6 DEF IInv
<1>4. CASE ~(complete /\ ConfirmedAbsent)
  <2>1. UNCHANGED <<device, session>>
    BY <1>4 DEF Miss
  <2>2. TypeOK'
    BY <1>1, <1>2, <2>1 DEF TypeOK
  <2>3. CounterBegan' /\ RowsTellObserved' /\ TrafficCountedOnce'
    BY <1>1, <2>1 DEF CounterBegan, RowsTellObserved, TrafficCountedOnce
  <2>4. SamplesKeepUp'
    BY <1>1, <2>1, <2>2, SamplesStep
  <2>. QED
    BY <2>2, <2>3, <2>4 DEF IInv
<1>. QED
  BY <1>3, <1>4

LEMMA StepIInv == IInv /\ [Next]_vars => IInv'
<1> SUFFICES ASSUME IInv, [Next]_vars PROVE IInv'
  OBVIOUS
<1> USE NullAssumption, Parameters
<1>1. CASE UNCHANGED vars
  BY <1>1 DEF vars, IInv, TypeOK, CounterBegan, RowsTellObserved, TrafficCountedOnce,
              SamplesKeepUp
<1>2. CASE Tick
  <2>1. TypeOK' /\ CounterBegan' /\ RowsTellObserved' /\ TrafficCountedOnce'
    BY <1>2 DEF Tick, IInv, TypeOK, CounterBegan, RowsTellObserved, TrafficCountedOnce
  <2>2. ASSUME device # NULL, device.seen - Interval + Kept >= clock'
        PROVE  \E a \in samples : a > device.seen - Interval
    <3>1. device.seen \in Nat /\ clock \in Nat /\ clock' = clock + 1
      BY <1>2, <2>2 DEF Tick, IInv, TypeOK, DeviceRow
    <3>2. device.seen - Interval + Kept >= clock
      BY <2>2, <3>1, KeptOfAny
    <3>. QED
      BY <2>2, <3>2 DEF IInv, SamplesKeepUp, Kept
  <2>3. SamplesKeepUp'
    BY <1>2, <2>2 DEF Tick, IInv, SamplesKeepUp, Kept
  <2>. QED
    BY <2>1, <2>3 DEF IInv
<1>3. CASE Transfer
  BY <1>3 DEF Transfer, IInv, TypeOK, CounterBegan, RowsTellObserved, TrafficCountedOnce,
              SamplesKeepUp, Observation
<1>4. CASE ResetCounter
  BY <1>4 DEF ResetCounter, IInv, TypeOK, CounterBegan, RowsTellObserved,
              TrafficCountedOnce, SamplesKeepUp, Observation
<1>5. CASE StarClient
  <2>1. device \in DeviceRow /\ device # NULL
    BY <1>5 DEF StarClient, IInv, TypeOK
  <2>2. device' = [online |-> device.online, starred |-> ~device.starred,
                   seen |-> device.seen, counter |-> device.counter, rate |-> device.rate]
    BY <1>5, <2>1 DEF StarClient, DeviceRow
  <2>3. device' \in DeviceRow /\ device' # NULL
    <3>1. PICK starred \in BOOLEAN :
            device' = [online |-> device.online, starred |-> starred, seen |-> device.seen,
                       counter |-> device.counter, rate |-> device.rate]
      BY <2>2, Zenon
    <3>. QED
      BY <2>1, <3>1, RowAssumption DEF DeviceRow
  <2>. QED
    BY <1>5, <2>1, <2>2, <2>3 DEF StarClient, IInv, TypeOK, CounterBegan, RowsTellObserved,
              TrafficCountedOnce, SamplesKeepUp
<1>. QED
  BY <1>1, <1>2, <1>3, <1>4, <1>5, ObserveStep, MissStep DEF Next

LEMMA Invariance == Spec => []IInv
BY InitIInv, StepIInv, PTL DEF Spec

-----------------------------------------------------------------------------
(* The curve: lemmas on numbers *)

LEMMA Division ==
    ASSUME NEW x \in Nat, NEW i \in Nat \ {0}
    PROVE  /\ x \div i \in Nat
           /\ i * (x \div i) <= x /\ x < i * (x \div i) + i
           /\ (x + i) \div i = (x \div i) + 1
OBVIOUS

LEMMA DivisionIsMonotone ==
    ASSUME NEW x \in Nat, NEW y \in Nat, NEW i \in Nat \ {0}, x <= y
    PROVE  x \div i <= y \div i
OBVIOUS

LEMMA Multiples ==
    ASSUME NEW x \in Int, NEW y \in Int, NEW i \in Nat \ {0}
    PROVE  /\ i * x \in Int
           /\ i * (x + 1) = i * x + i
           /\ i * (x + y) = i * x + i * y
           /\ x <= y => i * x <= i * y
           /\ i * x < i * y => x < y
<1>1. i * x \in Int /\ i * (x + 1) = i * x + i /\ i * (x + y) = i * x + i * y
  OBVIOUS
<1>2. x <= y => i * x <= i * y
  OBVIOUS
<1>3. y <= x => i * y <= i * x
  OBVIOUS
<1>. QED
  BY <1>1, <1>2, <1>3

(* A number of whole intervals adds as many. *)
LEMMA DivisionOfSum ==
    ASSUME NEW x \in Nat, NEW g \in Nat, NEW i \in Nat \ {0}
    PROVE  (x + g * i) \div i = (x \div i) + g
<1> DEFINE X == x \div i
           z == x + g * i
           Z == z \div i
<1>1. X \in Nat /\ i * X <= x /\ x < i * X + i
  BY Division
<1>2. z \in Nat
  <2>1. g * i \in Nat
    OBVIOUS
  <2>. QED
    BY <2>1
<1>3. Z \in Nat /\ i * Z <= z /\ z < i * Z + i
  <2> HIDE DEF z
  <2>. QED
    BY <1>2, Division
<1>4. z = x + i * g /\ i * g \in Nat
  OBVIOUS
<1> HIDE DEF X, Z, z
<1>5. /\ i * (X + g) = i * X + i * g /\ i * (Z + 1) = i * Z + i
      /\ i * ((X + g) + 1) = i * (X + g) + i
      /\ i * X \in Int /\ i * Z \in Int /\ i * (X + g) \in Int
  BY <1>1, <1>3, Multiples
<1>6. X + g < Z + 1
  <2>1. i * (X + g) < i * (Z + 1)
    BY <1>1, <1>3, <1>4, <1>5
  <2>. QED
    BY <1>1, <1>3, <2>1, Multiples
<1>7. Z < (X + g) + 1
  <2>1. i * Z < i * ((X + g) + 1)
    BY <1>1, <1>3, <1>4, <1>5
  <2>2. Z \in Int /\ (X + g) + 1 \in Int
    BY <1>1, <1>3
  <2>. QED
    BY <2>1, <2>2, Multiples
<1>. QED
  BY <1>1, <1>3, <1>6, <1>7 DEF X, Z, z

(* A share of e is rounded up to the whole exactly if it lacks no more than  *)
(* half a step.                                                              *)
LEMMA RoundedUp ==
    ASSUME NEW c \in Nat, NEW e \in Nat \ {0}, c <= e
    PROVE  (2 * Steps * c + e) \div (2 * e) = Steps <=> 2 * Steps * e <= 2 * Steps * c + e
<1> DEFINE d == 2 * e
           x == 2 * Steps * c + e
           q == x \div d
<1>1. Steps \in Nat \ {0}
  BY RangeAssumption
<1>2. d \in Nat \ {0} /\ d * Steps = 2 * Steps * e
  <2>1. d \in Nat \ {0}
    OBVIOUS
  <2>2. d * Steps = 2 * Steps * e
    BY <1>1
  <2>. QED
    BY <2>1, <2>2
<1>3. x \in Nat /\ x < d * Steps + d
  <2>1. 2 * Steps \in Nat \ {0}
    BY <1>1
  <2>2. (2 * Steps) * c \in Nat /\ (2 * Steps) * c <= (2 * Steps) * e
    BY <2>1, Multiples
  <2>3. d > e
    OBVIOUS
  <2>4. x = (2 * Steps) * c + e /\ (2 * Steps) * e = d * Steps
    BY <1>2
  <2> HIDE DEF d, x
  <2>. QED
    BY <1>1, <1>2, <2>2, <2>3, <2>4
<1>4. q \in Nat /\ d * q <= x /\ x < d * q + d
  <2> HIDE DEF x, d
  <2>. QED
    BY <1>2, <1>3, Division
<1> HIDE DEF q, x, d
<1>5. /\ d * (q + 1) = d * q + d /\ d * (Steps + 1) = d * Steps + d
      /\ d * q \in Int /\ d * Steps \in Int
  BY <1>1, <1>2, <1>4, Multiples
<1>6. q < Steps + 1
  <2>1. d * q < d * (Steps + 1)
    BY <1>1, <1>2, <1>3, <1>4, <1>5
  <2>. QED
    BY <1>1, <1>2, <1>4, <2>1, Multiples
<1>7. d * Steps <= x => Steps < q + 1
  <2>1. d * Steps <= x => d * Steps < d * (q + 1)
    BY <1>1, <1>2, <1>3, <1>4, <1>5
  <2>. QED
    BY <1>1, <1>2, <1>4, <2>1, Multiples
<1>8. q = Steps <=> d * Steps <= x
  BY <1>1, <1>4, <1>6, <1>7
<1>. QED
  BY <1>2, <1>8 DEF q, x, d

(* Too few of n or more: what is missing is more than half a step.           *)
LEMMA RoundedDown ==
    ASSUME NEW c \in Nat, NEW n \in Nat, NEW e \in Nat \ {0}, n <= e,
           c + 1 + (n \div (2 * Steps)) <= n
    PROVE  2 * Steps * c + e < 2 * Steps * e
<1> DEFINE t == 2 * Steps
           q == n \div t
<1>1. t \in Nat \ {0} /\ t > 1
  BY RangeAssumption
<1> HIDE DEF t
<1>2. q \in Nat /\ n < t * q + t
  BY <1>1, Division
<1> HIDE DEF q
<1>3. t * ((c + 1) + q) <= t * n /\ t * ((c + 1) + q) = t * (c + 1) + t * q
      /\ t * (c + 1) = t * c + t
      /\ t * c \in Int /\ t * q \in Int /\ t * n \in Int
  <2>1. (c + 1) + q <= n /\ (c + 1) + q \in Int /\ c + 1 \in Int /\ t \in Nat \ {0}
    BY <1>1, <1>2 DEF q, t
  <2>2. t * ((c + 1) + q) <= t * n
    BY <2>1, Multiples
  <2>3. t * ((c + 1) + q) = t * (c + 1) + t * q
    BY <1>2, <2>1, Multiples
  <2>4. t * (c + 1) = t * c + t /\ t * c \in Int /\ t * q \in Int /\ t * n \in Int
    BY <1>2, <2>1, Multiples
  <2>. QED
    BY <2>2, <2>3, <2>4
<1>4. t * c + n < t * n
  BY <1>1, <1>2, <1>3
<1>5. t * n + (e - n) <= t * e
  <2>1. /\ t * e \in Int /\ t * (n + (e - n)) = t * n + t * (e - n)
        /\ n + (e - n) = e /\ e - n \in Nat
    <3>1. e - n \in Nat /\ n + (e - n) = e
      OBVIOUS
    <3>. QED
      BY <1>1, <3>1, Multiples
  <2>2. e - n <= t * (e - n)
    <3>1. e - n \in Nat
      BY <2>1
    <3> DEFINE u == e - n
    <3> HIDE DEF u
    <3>2. u \in Nat => u <= t * u
      BY <1>1
    <3>. QED
      BY <3>1, <3>2 DEF u
  <2>. QED
    BY <1>1, <1>3, <2>1, <2>2
<1>6. t * c + e < t * e
  <2>1. t * e \in Int
    BY <1>1
  <2>. QED
    BY <1>3, <1>4, <1>5, <2>1
<1>. QED
  BY <1>6 DEF t

(* The parts of a span hold no more whole intervals than the span. *)
LEMMA DivisionOfParts ==
    ASSUME NEW x \in Nat, NEW y \in Nat, NEW i \in Nat \ {0}
    PROVE  (x \div i) + (y \div i) <= (x + y) \div i
<1> DEFINE X == x \div i
           Y == y \div i
           Z == (x + y) \div i
<1>1. /\ X \in Nat /\ i * X <= x
      /\ Y \in Nat /\ i * Y <= y
      /\ Z \in Nat /\ x + y < i * Z + i
  <2>1. X \in Nat /\ i * X <= x
    BY Division
  <2>2. Y \in Nat /\ i * Y <= y
    BY Division
  <2>3. Z \in Nat /\ x + y < i * Z + i
    <3>1. x + y \in Nat
      OBVIOUS
    <3>. QED
      BY <3>1, Division
  <2> HIDE DEF X, Y, Z
  <2>. QED
    BY <2>1, <2>2, <2>3
<1> HIDE DEF X, Y, Z
<1>2. /\ i * X \in Int /\ i * Y \in Int /\ i * Z \in Int
      /\ i * (X + Y) = i * X + i * Y /\ i * (Z + 1) = i * Z + i
  BY <1>1, Multiples
<1>3. i * (X + Y) < i * (Z + 1)
  BY <1>1, <1>2
<1>4. X + Y < Z + 1
  BY <1>1, <1>3, Multiples
<1>. QED
  BY <1>1, <1>4 DEF X, Y, Z

-----------------------------------------------------------------------------
(* The curve: lemmas on sets of instants *)

LEMMA Least ==
    ASSUME NEW S \in SUBSET Nat, S # {}
    PROVE  \E m \in S : \A s \in S : m <= s
<1>1. PICK m \in S : \A s \in S : ~(<<s, m>> \in OpToRel(<, Nat))
  BY NatLessThanWellFounded, WFMin
<1>2. \A s \in S : ~(s < m)
  BY <1>1 DEF OpToRel
<1>. QED
  BY <1>2

LEMMA Greatest ==
    ASSUME NEW n \in Nat, NEW S \in SUBSET (0..n), S # {}
    PROVE  \E m \in S : \A s \in S : s <= m
<1> DEFINE T == {n - s : s \in S}
<1>1. T \in SUBSET Nat /\ T # {}
  <2>1. \A s \in S : n - s \in Nat
    OBVIOUS
  <2>2. T # {}
    OBVIOUS
  <2>. QED
    BY <2>1, <2>2
<1>2. PICK t \in T : \A u \in T : t <= u
  BY <1>1, Least
<1>3. PICK m \in S : t = n - m
  OBVIOUS
<1>4. \A s \in S : n - m <= n - s
  BY <1>2, <1>3
<1>. QED
  BY <1>4

LEMMA Extremes ==
    ASSUME NEW n \in Nat, NEW S \in SUBSET (0..n), S # {}
    PROVE  /\ Min(S) \in S /\ \A s \in S : Min(S) <= s
           /\ Max(S) \in S /\ \A s \in S : s <= Max(S)
<1>1. \E m \in S : \A s \in S : m <= s
  BY Least
<1>2. \E m \in S : \A s \in S : m >= s
  BY Greatest
<1>3. Min(S) \in S /\ \A s \in S : Min(S) =< s
  BY <1>1, Zenon DEF Min
<1>4. Max(S) \in S /\ \A s \in S : Max(S) >= s
  BY <1>2, Zenon DEF Max
<1>. QED
  BY <1>3, <1>4

LEMMA MaxOfTwo ==
    ASSUME NEW a \in Nat, NEW b \in Nat
    PROVE  Max({a, b}) = IF b <= a THEN a ELSE b
<1>1. Max({a, b}) \in {a, b} /\ \A y \in {a, b} : Max({a, b}) >= y
  <2>1. \E x \in {a, b} : \A y \in {a, b} : x >= y
    OBVIOUS
  <2>. QED
    BY <2>1, Zenon DEF Max
<1>. QED
  BY <1>1

(* Instants an interval apart *)
Spaced(S, i) == \A a, b \in S : a < b => b - a >= i

(* They are no more than the whole intervals between their bounds and one: *)
(* each is in one of its own.                                              *)
LEMMA SpacedAreFew ==
    ASSUME NEW lo \in Int, NEW hi \in Int, lo <= hi, NEW i \in Nat \ {0},
           NEW S, S \subseteq lo..hi, Spaced(S, i)
    PROVE  IsFiniteSet(S) /\ Cardinality(S) <= ((hi - lo) \div i) + 1
<1> DEFINE n == (hi - lo) \div i
           f == [a \in S |-> (a - lo) \div i]
<1>1. n \in Nat
  <2>1. hi - lo \in Nat
    OBVIOUS
  <2>. QED
    BY <2>1, Division
<1>2. f \in [S -> 0..n]
  <2>1. ASSUME NEW a \in S PROVE (a - lo) \div i \in 0..n
    <3>1. a - lo \in Nat /\ hi - lo \in Nat /\ a - lo <= hi - lo
      OBVIOUS
    <3>2. (a - lo) \div i \in Nat
      BY <3>1, Division
    <3>3. (a - lo) \div i <= n
      BY <3>1, DivisionIsMonotone
    <3>. QED
      BY <1>1, <3>2, <3>3
  <2>. QED
    BY <2>1
<1>3. ASSUME NEW a \in S, NEW b \in S, a < b PROVE f[a] # f[b]
  <2>1. /\ a - lo \in Nat /\ b - lo \in Nat /\ (a - lo) + i \in Nat
        /\ (a - lo) + i <= b - lo
    BY <1>3 DEF Spaced
  <2>2. ((a - lo) + i) \div i = ((a - lo) \div i) + 1
    BY <2>1, Division
  <2>3. ((a - lo) + i) \div i <= (b - lo) \div i
    BY <2>1, DivisionIsMonotone
  <2>4. (a - lo) \div i \in Nat /\ (b - lo) \div i \in Nat
    BY <2>1, Division
  <2>. QED
    BY <2>2, <2>3, <2>4
<1>4. \A a, b \in S : f[a] = f[b] => a = b
  <2> SUFFICES ASSUME NEW a \in S, NEW b \in S, f[a] = f[b] PROVE a = b
    BY Zenon
  <2>1. ~(a < b) /\ ~(b < a)
    BY <1>3
  <2>. QED
    BY <2>1
<1>5. f \in Injection(S, 0..n)
  BY <1>2, <1>4 DEF Injection, IsInjective
<1>6. IsFiniteSet(0..n) /\ Cardinality(0..n) = n + 1
  <2>1. 0 \in Int /\ n \in Int /\ ~(0 > n) /\ n - 0 + 1 = n + 1
    BY <1>1
  <2> HIDE DEF n
  <2>. QED
    BY <2>1, FS_Interval
<1>7. IsFiniteSet(S) /\ Cardinality(S) <= Cardinality(0..n)
  BY <1>5, <1>6, FS_Injection
<1>. QED
  BY <1>6, <1>7

(* Instants that go on by an interval up to the last are that many: the     *)
(* last of them in the first j + 1 intervals is in the one numbered j.       *)
LEMMA SteadyAreMany ==
    ASSUME NEW n \in Nat, NEW S \in SUBSET (0..n), S # {}, NEW i \in Nat \ {0},
           \A a \in S : a = Max(S) \/ a + i \in S
    PROVE  Cardinality(S) >= ((Max(S) - Min(S)) \div i) + 1
<1> DEFINE lo == Min(S)
           hi == Max(S)
           k == (hi - lo) \div i
           f == [a \in S |-> (a - lo) \div i]
<1>0. /\ lo \in S /\ \A s \in S : lo <= s
      /\ hi \in S /\ \A s \in S : s <= hi
  BY Extremes
<1>9. \A a \in S : a = hi \/ a + i \in S
  OBVIOUS
<1> HIDE DEF lo, hi
<1>1. /\ lo \in S /\ hi \in S /\ lo \in Nat /\ hi \in Nat
      /\ \A a \in S : a \in Nat /\ lo <= a /\ a <= hi /\ a - lo \in Nat
  BY <1>0
<1>2. k \in Nat
  BY <1>1, Division
<1>3. f \in [S -> 0..k]
  <2>1. ASSUME NEW a \in S PROVE (a - lo) \div i \in 0..k
    <3>1. a - lo \in Nat /\ hi - lo \in Nat /\ a - lo <= hi - lo
      BY <1>1
    <3>2. (a - lo) \div i \in Nat
      BY <3>1, Division
    <3>3. (a - lo) \div i <= k
      BY <3>1, DivisionIsMonotone
    <3>. QED
      BY <1>2, <3>2, <3>3
  <2>. QED
    BY <2>1
<1>4. ASSUME NEW j \in 0..k PROVE \E a \in S : f[a] = j
  <2> DEFINE T == {a \in S : f[a] <= j}
  <2>1. f[lo] = 0
    BY <1>1
  <2>2. T \in SUBSET (0..n) /\ T # {}
    <3>1. lo \in S /\ 0 <= j
      BY <1>1, <1>2
    <3> HIDE DEF f
    <3>2. lo \in T
      BY <2>1, <3>1
    <3>. QED
      BY <3>2
  <2>3. PICK a \in T : \A b \in T : b <= a
    BY <2>2, Greatest
  <2>4. CASE a = hi
    BY <1>1, <1>2, <2>3, <2>4
  <2>5. CASE a + i \in S
    <3>1. f[a + i] = f[a] + 1
      <4>1. (a + i) - lo = (a - lo) + i
        BY <1>1, <2>3
      <4>. QED
        BY <1>1, <2>3, <2>5, <4>1, Division
    <3>2. ~(a + i <= a)
      BY <1>1, <2>3
    <3>3. ~(f[a + i] <= j)
      BY <2>3, <2>5, <3>2
    <3>. QED
      BY <1>3, <2>3, <3>1, <3>3
  <2>. QED
    BY <1>9, <2>3, <2>4, <2>5
<1>5. f \in Surjection(S, 0..k)
  BY <1>3, <1>4 DEF Surjection
<1>6. IsFiniteSet(S)
  <2>1. IsFiniteSet(0..n)
    BY FS_Interval
  <2>. QED
    BY <2>1, FS_Subset
<1>7. Cardinality(0..k) <= Cardinality(S)
  BY <1>5, <1>6, FS_Surjection
<1>8. Cardinality(0..k) = k + 1
  BY <1>2, FS_Interval
<1>10. Cardinality(S) \in Nat
  BY <1>6, FS_CardinalityType
<1>. QED
  BY <1>2, <1>7, <1>8, <1>10 DEF lo, hi

(* A gap costs all of its intervals but one: those on either side of it are *)
(* no more than their own intervals and one.                                 *)
LEMMA GapCosts ==
    ASSUME NEW n \in Nat, NEW S \in SUBSET (0..n), S # {}, NEW i \in Nat \ {0}, NEW g \in Nat,
           Spaced(S, i),
           NEW a \in S, a # Max(S), \A b \in S : a < b => b >= a + g * i
    PROVE  Cardinality(S) + g <= ((Max(S) - Min(S)) \div i) + 2
<1> DEFINE lo == Min(S)
           hi == Max(S)
           A == {b \in S : b <= a}
           B == {b \in S : a < b}
<1>0. /\ lo \in S /\ \A s \in S : lo <= s
      /\ hi \in S /\ \A s \in S : s <= hi
      /\ a # hi
  BY Extremes
<1> HIDE DEF lo, hi
<1>14. g * i \in Nat
  OBVIOUS
<1>1. /\ lo \in Nat /\ hi \in S /\ hi \in Nat /\ a \in Nat
      /\ \A b \in S : b \in Nat /\ lo <= b /\ b <= hi
  BY <1>0
<1>2. a < hi
  BY <1>0, <1>1
<1>3. a + g * i <= hi /\ lo <= a
  BY <1>1, <1>2
<1>4. IsFiniteSet(A) /\ Cardinality(A) <= ((a - lo) \div i) + 1
  <2>1. A \subseteq lo..a
    <3>1. ASSUME NEW b \in A PROVE b \in lo..a
      <4>1. b \in S /\ b <= a
        OBVIOUS
      <4>. QED
        BY <1>1, <4>1
    <3> HIDE DEF A
    <3>. QED
      BY <3>1
  <2>2. Spaced(A, i)
    BY DEF Spaced
  <2>3. lo \in Int /\ a \in Int /\ lo <= a
    BY <1>1, <1>3
  <2> HIDE DEF A
  <2>. QED
    BY <2>1, <2>2, <2>3, SpacedAreFew
<1>5. IsFiniteSet(B) /\ Cardinality(B) <= ((hi - (a + g * i)) \div i) + 1
  <2> DEFINE c == a + g * i
  <2>1. c \in Int /\ hi \in Int /\ c <= hi
    BY <1>1, <1>3
  <2>4. B \subseteq c..hi
    <3>1. ASSUME NEW b \in B PROVE b \in c..hi
      <4>1. b \in S /\ a < b
        OBVIOUS
      <4>2. b >= c
        BY <4>1
      <4>. QED
        BY <1>1, <2>1, <4>1, <4>2
    <3> HIDE DEF B, c
    <3>. QED
      BY <3>1
  <2>2. Spaced(B, i)
    BY DEF Spaced
  <2> HIDE DEF B, c
  <2>3. IsFiniteSet(B) /\ Cardinality(B) <= ((hi - c) \div i) + 1
    BY <2>1, <2>2, <2>4, SpacedAreFew
  <2>. QED
    BY <2>3 DEF c
<1>6. S = A \cup B /\ A \cap B = {}
  <2>1. ASSUME NEW b \in S PROVE (b <= a) = ~(a < b)
    BY <1>1
  <2>. QED
    BY <2>1
<1>7. Cardinality(S) = Cardinality(A) + Cardinality(B)
  <2>1. Cardinality(A \cap B) = 0
    BY <1>6, FS_EmptySet
  <2>2. Cardinality(A) \in Nat /\ Cardinality(B) \in Nat
    BY <1>4, <1>5, FS_CardinalityType
  <2>. QED
    <3> HIDE DEF A, B
    <3>1. Cardinality(A \cup B) = Cardinality(A) + Cardinality(B) - Cardinality(A \cap B)
      BY <1>4, <1>5, FS_Union
    <3>. QED
      BY <1>6, <2>1, <2>2, <3>1
<1> DEFINE x == a - lo
           y == hi - (a + g * i)
<1>13. x \in Nat /\ y \in Nat /\ x + y \in Nat
  BY <1>1, <1>3
<1>8. /\ x \in Nat /\ y \in Nat
      /\ x \div i \in Nat /\ y \div i \in Nat
      /\ (x \div i) + (y \div i) <= (x + y) \div i
  <2> HIDE DEF x, y
  <2>. QED
    BY <1>13, Division, DivisionOfParts
<1>9. (hi - lo) \div i = ((x + y) \div i) + g
  <2>1. x + y \in Nat /\ hi - lo = (x + y) + g * i
    BY <1>1, <1>8, <1>14
  <2> HIDE DEF x, y, lo, hi
  <2>2. ((x + y) + g * i) \div i = ((x + y) \div i) + g
    BY <2>1, DivisionOfSum
  <2>. QED
    BY <2>1, <2>2
<1>10. Cardinality(A) \in Nat /\ Cardinality(B) \in Nat /\ (x + y) \div i \in Nat
  <2>1. Cardinality(A) \in Nat /\ Cardinality(B) \in Nat
    BY <1>4, <1>5, FS_CardinalityType
  <2> HIDE DEF x, y
  <2>. QED
    BY <1>13, <2>1, Division
<1> HIDE DEF x, y
<1>11. Cardinality(A) <= (x \div i) + 1 /\ Cardinality(B) <= (y \div i) + 1
  BY <1>4, <1>5 DEF x, y
<1> HIDE DEF A, B
<1>12. Cardinality(S) + g <= ((hi - lo) \div i) + 2
  BY <1>7, <1>8, <1>9, <1>10, <1>11
<1>. QED
  BY <1>12 DEF lo, hi
-----------------------------------------------------------------------------
(* The curve itself: CurveIsFaithful follows from the types. *)

LEMMA RowsAreInstants ==
    ASSUME TypeOK, NEW r \in Ranges
    PROVE  /\ r.duration \in Nat \ {0} /\ r.bucket \in Nat \ {0}
           /\ clock \in Nat
           /\ Rows(r) \subseteq 0..clock
           /\ \A a \in Rows(r) : a >= clock - r.duration
           /\ SampleInterval(device) \in Nat \ {0}
<1>1. /\ r \in [duration : Nat \ {0}, bucket : Nat \ {0}]
      /\ StarredInterval \in Nat \ {0} /\ Interval \in Nat \ {0}
  BY RangeAssumption, Parameters
<1>. QED
  BY <1>1 DEF TypeOK, Rows, SampleInterval

(* A point is a whole number of buckets, and no more than the range and one *)
(* bucket old.                                                               *)
LEMMA PointsAreFew ==
    ASSUME TypeOK, NEW r \in Ranges
    PROVE  Cardinality(Points(r)) <= (r.duration \div r.bucket) + 1
<1> DEFINE b == r.bucket
           D == r.duration
           m == D \div b
           q == clock \div b
<1>1. b \in Nat \ {0} /\ D \in Nat /\ clock \in Nat
  BY RowsAreInstants
<1>2. D % b = 0
  BY RangeAssumption
<1>3. \A a \in Rows(r) : a \in 0..clock /\ a >= clock - D
  BY RowsAreInstants
<1>4. Points(r) = {a - (a % b) : a \in Rows(r)}
  BY DEF Points
<1> HIDE DEF b, D
<1>5. m \in Nat /\ D = b * m
  BY <1>1, <1>2
<1>6. q \in Nat /\ b * q <= clock
  BY <1>1, Division
<1> HIDE DEF m, q
<1>7. b * (q - m) \in Int /\ b * q \in Int /\ b * q = b * (q - m) + b * m
  <2>1. q - m \in Int /\ m \in Int /\ (q - m) + m = q
    BY <1>5, <1>6
  <2>. QED
    BY <1>1, <2>1, Multiples
<1>8. ASSUME NEW p \in Points(r)
      PROVE  \E k \in Nat : p = b * k /\ q - m <= k /\ k <= q
  <2>1. PICK a \in Rows(r) : p = a - (a % b)
    BY <1>4
  <2>2. a \in Nat /\ a <= clock /\ a >= clock - D
    BY <1>1, <1>3
  <2> DEFINE k == a \div b
  <2>3. p = b * k
    BY <1>1, <2>1, <2>2
  <2>4. k \in Nat /\ a < b * k + b
    BY <1>1, <2>2, Division
  <2>5. k <= q
    BY <1>1, <2>2, DivisionIsMonotone DEF q
  <2> HIDE DEF k
  <2>6. q - m <= k
    <3>1. /\ b * k \in Int /\ b * (k + 1) = b * k + b
      BY <1>1, <2>4, Multiples
    <3>2. b * (q - m) < b * (k + 1)
      BY <1>1, <1>5, <1>6, <1>7, <2>2, <2>4, <3>1
    <3>3. q - m < k + 1
      <4>1. q - m \in Int /\ k + 1 \in Int
        BY <1>5, <1>6, <2>4
      <4>. QED
        BY <1>1, <3>2, <4>1, Multiples
    <3>. QED
      BY <1>5, <1>6, <2>4, <3>3
  <2>. QED
    BY <2>3, <2>4, <2>5, <2>6
<1> DEFINE lo == b * (q - m)
           hi == b * q
<1>9. lo \in Int /\ hi \in Int /\ lo <= hi /\ hi - lo = D
  BY <1>1, <1>5, <1>7
<1>10. Points(r) \subseteq lo..hi
  <2>1. ASSUME NEW p \in Points(r) PROVE p \in lo..hi
    <3>1. PICK k \in Nat : p = b * k /\ q - m <= k /\ k <= q
      BY <1>8
    <3>2. k \in Int /\ q - m \in Int /\ q \in Int
      BY <1>5, <1>6
    <3>3. b * k \in Int /\ b * (q - m) <= b * k /\ b * k <= b * q
      BY <1>1, <3>1, <3>2, Multiples
    <3>. QED
      BY <1>7, <3>1, <3>3
  <2> HIDE DEF lo, hi
  <2>. QED
    BY <2>1
<1>11. Spaced(Points(r), b)
  <2>1. ASSUME NEW p \in Points(r), NEW s \in Points(r), p < s PROVE s - p >= b
    <3>1. PICK k \in Nat : p = b * k
      BY <1>8
    <3>2. PICK j \in Nat : s = b * j
      BY <1>8
    <3>3. k < j
      BY <1>1, <2>1, <3>1, <3>2, Multiples
    <3>4. b * (k + 1) = b * k + b /\ b * k \in Int /\ b * j \in Int
      BY <1>1, Multiples
    <3>5. b * (k + 1) <= b * j
      <4>1. k + 1 \in Int /\ j \in Int /\ k + 1 <= j
        BY <3>3
      <4>. QED
        BY <1>1, <4>1, Multiples
    <3>. QED
      BY <1>1, <3>1, <3>2, <3>4, <3>5
  <2>. QED
    BY <2>1 DEF Spaced
<1> HIDE DEF lo, hi
<1>12. Cardinality(Points(r)) <= ((hi - lo) \div b) + 1
  BY <1>1, <1>9, <1>10, <1>11, SpacedAreFew
<1>. QED
  BY <1>9, <1>12 DEF b, D

(* What is expected is of the span from the first sample to the last. *)
LEMMA ExpectedOfSpan ==
    ASSUME TypeOK, NEW r \in Ranges, Rows(r) # {}
    PROVE  LET i == SampleInterval(device)
               n == (Max(Rows(r)) - Min(Rows(r))) \div i
           IN  n \in Nat /\ Expected(r) \in Nat \ {0} /\ n <= Expected(r) /\ Expected(r) <= n + 1
<1> DEFINE i == SampleInterval(device)
           D == r.duration
           s == Max(Rows(r)) - Min(Rows(r))
           n == s \div i
<1>1. i \in Nat \ {0} /\ D \in Nat \ {0} /\ clock \in Nat /\ Rows(r) \subseteq 0..clock
  BY RowsAreInstants
<1>2. s \in Nat /\ s <= D
  <2>1. /\ Min(Rows(r)) \in Rows(r) /\ Max(Rows(r)) \in Rows(r)
        /\ Min(Rows(r)) <= Max(Rows(r))
    BY <1>1, Extremes
  <2>2. Min(Rows(r)) >= clock - D
    BY <2>1, RowsAreInstants
  <2>. QED
    BY <1>1, <2>1, <2>2
<1>3. Expected(r) = Max({1, Min({D, Max({i, s + i})}) \div i})
  BY DEF Expected
<1> HIDE DEF i, D, s
<1>4. n \in Nat
  BY <1>1, <1>2, Division
<1>5. Max({i, s + i}) = s + i
  BY <1>1, <1>2, MaxOfTwo
<1> DEFINE u == Min({D, s + i})
<1>6. u \in Nat /\ s <= u /\ u <= s + i
  <2>1. u = IF D <= s + i THEN D ELSE s + i
    BY <1>1, <1>2, MinOfTwo
  <2> HIDE DEF u
  <2>. QED
    BY <1>1, <1>2, <2>1
<1> HIDE DEF u
<1>7. u \div i \in Nat /\ n <= u \div i /\ u \div i <= n + 1
  <2>1. u \div i \in Nat
    BY <1>1, <1>6, Division
  <2>2. n <= u \div i
    BY <1>1, <1>2, <1>6, DivisionIsMonotone
  <2>3. s + i \in Nat /\ (s + i) \div i = n + 1
    <3> HIDE DEF n
    <3>1. s + i \in Nat
      BY <1>1, <1>2
    <3>2. (s + i) \div i = (s \div i) + 1
      BY <1>1, <1>2, Division
    <3>. QED
      BY <3>1, <3>2 DEF n
  <2>4. u \div i <= (s + i) \div i
    BY <1>1, <1>6, <2>3, DivisionIsMonotone
  <2>. QED
    BY <2>1, <2>2, <2>3, <2>4
<1>8. Expected(r) = Max({1, u \div i})
  BY <1>3, <1>5 DEF u
<1> DEFINE v == u \div i
<1>9. v \in Nat /\ n <= v /\ v <= n + 1
  BY <1>7
<1> HIDE DEF n, v
<1>10. Max({1, v}) = IF v <= 1 THEN 1 ELSE v
  BY <1>9, MaxOfTwo
<1>11. Expected(r) \in Nat \ {0} /\ n <= Expected(r) /\ Expected(r) <= n + 1
  BY <1>4, <1>8, <1>9, <1>10 DEF v
<1>. QED
  BY <1>4, <1>11 DEF n, s, i

LEMMA FullCoverage ==
    ASSUME TypeOK, NEW r \in Ranges, Rows(r) # {}
    PROVE  LET n == Cardinality(Rows(r))  e == Expected(r) IN
           /\ n \in Nat /\ e \in Nat \ {0}
           /\ n >= e => Complete(r)
           /\ n < e => (Complete(r) <=> 2 * Steps * e <= 2 * Steps * n + e)
<1> DEFINE n == Cardinality(Rows(r))
           e == Expected(r)
           c == Min({n, e})
<1>1. e \in Nat \ {0}
  BY ExpectedOfSpan
<1>2. n \in Nat
  <2>1. Rows(r) \subseteq 0..clock /\ IsFiniteSet(0..clock)
    BY RowsAreInstants, FS_Interval
  <2>. QED
    BY <2>1, FS_Subset, FS_CardinalityType
<1>3. Complete(r) <=> (2 * Steps * c + e) \div (2 * e) = Steps
  BY DEF Complete, Coverage
<1> HIDE DEF n, e
<1>4. c = IF n <= e THEN n ELSE e
  BY <1>1, <1>2, MinOfTwo
<1> HIDE DEF c
<1>5. c \in Nat /\ c <= e
  BY <1>1, <1>2, <1>4
<1>6. Complete(r) <=> 2 * Steps * e <= 2 * Steps * c + e
  BY <1>1, <1>3, <1>5, RoundedUp
<1>7. n >= e => Complete(r)
  <2>1. n >= e => c = e
    BY <1>1, <1>2, <1>4
  <2>2. 2 * Steps * e \in Int
    BY <1>1, RangeAssumption
  <2>3. 2 * Steps * e <= 2 * Steps * e + e
    BY <1>1, <2>2
  <2>. QED
    BY <1>6, <2>1, <2>3
<1>8. n < e => c = n
  BY <1>1, <1>2, <1>4
<1>. QED
  BY <1>1, <1>2, <1>6, <1>7, <1>8 DEF n, e

LEMMA CurveFromTypes ==
    ASSUME TypeOK
    PROVE  CurveIsFaithful
<1> SUFFICES ASSUME NEW r \in Ranges
             PROVE  LET rows == Rows(r)  i == SampleInterval(device) IN
                    rows # {} /\ (\A a, b \in rows : a < b => b - a >= i) =>
                      /\ (\A a \in rows : a = Max(rows) \/ a + i \in rows) => Complete(r)
                      /\ Complete(r) =>
                            \A a \in rows : a = Max(rows)
                                \/ \E b \in rows : a < b /\ b < a + WidestGap(rows, i) * i
  BY PointsAreFew DEF CurveIsFaithful
<1> DEFINE rows == Rows(r)
           i == SampleInterval(device)
           n == (Max(rows) - Min(rows)) \div i
           g == WidestGap(rows, i)
<1> SUFFICES ASSUME rows # {}, \A a, b \in rows : a < b => b - a >= i
             PROVE  /\ (\A a \in rows : a = Max(rows) \/ a + i \in rows) => Complete(r)
                    /\ Complete(r) =>
                         \A a \in rows : a = Max(rows) \/ \E b \in rows : a < b /\ b < a + g * i
  OBVIOUS
<1>1. i \in Nat \ {0} /\ clock \in Nat /\ rows \in SUBSET (0..clock)
  BY RowsAreInstants
<1>2. n \in Nat /\ Expected(r) \in Nat \ {0} /\ n <= Expected(r) /\ Expected(r) <= n + 1
  BY ExpectedOfSpan
<1>3. /\ Cardinality(rows) \in Nat
      /\ Cardinality(rows) >= Expected(r) => Complete(r)
      /\ Cardinality(rows) < Expected(r) =>
            (Complete(r) <=> 2 * Steps * Expected(r) <= 2 * Steps * Cardinality(rows) + Expected(r))
  BY FullCoverage
<1>4. Spaced(rows, i)
  BY DEF Spaced
<1>5. g = 3 + (n \div (2 * Steps)) /\ n \div (2 * Steps) \in Nat
  <2>1. g = 3 + (n \div (2 * Steps))
    BY DEF WidestGap
  <2>2. 2 * Steps \in Nat \ {0}
    BY RangeAssumption
  <2> HIDE DEF g, n
  <2>. QED
    BY <1>2, <2>1, <2>2, Division
<1> HIDE DEF rows, i, n, g
<1>6. ASSUME \A a \in rows : a = Max(rows) \/ a + i \in rows
      PROVE  Complete(r)
  <2>1. Cardinality(rows) >= n + 1
    BY <1>1, <1>6, SteadyAreMany DEF n
  <2>. QED
    BY <1>2, <1>3, <2>1
<1>7. ASSUME Complete(r), NEW a \in rows, a # Max(rows)
      PROVE  \E b \in rows : a < b /\ b < a + g * i
  <2>1. g \in Nat /\ g * i \in Nat
    BY <1>1, <1>5
  <2> SUFFICES ASSUME \A b \in rows : a < b => b >= a + g * i
               PROVE  FALSE
    BY <1>1, <2>1
  <2>2. Cardinality(rows) + g <= n + 2
    BY <1>1, <1>4, <1>7, <2>1, GapCosts DEF n
  <2>3. /\ Cardinality(rows) + 1 + (n \div (2 * Steps)) <= n
        /\ Cardinality(rows) < Expected(r)
    BY <1>2, <1>3, <1>5, <2>2
  <2>4. 2 * Steps * Cardinality(rows) + Expected(r) < 2 * Steps * Expected(r)
    BY <1>2, <1>3, <2>3, RoundedDown
  <2>5. 2 * Steps * Cardinality(rows) \in Int /\ 2 * Steps * Expected(r) \in Int
    BY <1>2, <1>3, RangeAssumption
  <2>. QED
    BY <1>2, <1>3, <1>7, <2>3, <2>4, <2>5
<1>. QED
  BY <1>6, <1>7

-----------------------------------------------------------------------------
(* Type correctness; a client is online with its session. *)
THEOREM TypeCorrect == Spec => []TypeOK
BY Invariance, PTL DEF IInv

(* No byte is counted twice, however the router's counter is reset and      *)
(* however long the client is away (service.py:25-28, 206-233, 271-278).     *)
THEOREM CountedOnce == Spec => []TrafficCountedOnce
BY Invariance, PTL DEF IInv

(* Samples are never closer than the shorter interval, and the last          *)
(* observation is within the longer one of a sample while that is not older *)
(* than both retentions keep, whichever is the shorter and whenever the     *)
(* client is starred (service.py:79-89, 347-370).                            *)
THEOREM SamplesAreKept == Spec => []SamplesKeepUp
BY Invariance, PTL DEF IInv

(* The curve has no more points than its range has buckets and one; samples  *)
(* at every interval are full coverage, and where coverage is shown as full  *)
(* no more samples in a row are missing than one and what the rounding hides *)
(* (analytics/traffic.py:48-93, 104-123).                                    *)
THEOREM CurveFaithful == Spec => []CurveIsFaithful
BY TypeCorrect, CurveFromTypes, PTL
=============================================================================
