-------------------------- MODULE IngestTxn_proofs --------------------------
(***************************************************************************)
(* Proofs about module IngestTxn: a transaction that runs alone does what  *)
(* Ingest does in one step, and two that overlap leave no client online    *)
(* without a session, for any clients, threads and instants.               *)
(*                                                                         *)
(* The invariant has a part for each.  Solo says that what a transaction   *)
(* that runs alone has read is still so.  Undisturbed says what two may    *)
(* have read of a client that one of them is about to set offline.         *)
(***************************************************************************)
EXTENDS IngestTxn, TLAPS

(* The clients listed whose device row has been read, and of those the ones *)
(* whose session has been looked for as well.                               *)
Loaded(x) == x.macs \ x.todo

Handled(x) == {m \in Loaded(x) : x.at \in {"session", "flush"} => m # x.cur}

(* The transaction has read that the client is online. *)
Deemed(x, m) == x.loaded[m].known /\ x.loaded[m].online

(* How far a transaction is. *)
Shape(x) ==
    /\ x.at = "idle" => x = Idle
    /\ x.at # "idle" => x.when \in Instants
    /\ x.at \in {"devices", "session", "flush"} => x.gone = {} /\ x.todo \subseteq x.macs
    /\ x.at \in {"session", "flush"} => x.cur \in Loaded(x)
    /\ x.at \in {"absent", "commit"} => x.gone \cap x.macs = {} /\ x.todo \subseteq x.gone
    /\ x.at = "commit" => x.todo = {}
    /\ x.opens \subseteq Handled(x)

(* What a transaction has read is so. *)
Solo(x) ==
    /\ \A m \in Loaded(x) : x.loaded[m] = clients[m]
    /\ \A m \in Handled(x) : m \in x.opens <=> Opens(clients[m])
    /\ x.at = "flush" => Opens(clients[x.cur])
    /\ x.at \in {"absent", "commit"} =>
          /\ x.gone = AbsentDevices(x)
          /\ \A m \in x.gone \ x.todo : x.ended[m] = LatestOpen(clients[m])

SoloInv ==
    /\ \A t, u \in Active : t # u => t \in shared
    /\ \A t \in Active \ shared : Solo(txn[t])

(* What a transaction that overlaps with one other has read, and what has   *)
(* become of it.                                                             *)
Own(x) ==
    /\ x.at # "idle" => busy <= x.when /\ x.when <= busy + Confirmation
    /\ \A m \in Loaded(x) : ~Deemed(x, m) /\ clients[m].online => busy <= clients[m].seen
    /\ \A m \in Handled(x) : ~Deemed(x, m) /\ m \notin x.opens => ~Opens(clients[m])
    /\ \A m \in x.gone :
          /\ ~clients[m].online => Opens(clients[m])
          /\ m \notin x.todo /\ clients[m].online /\ clients[m].seen < busy =>
                x.ended[m] = OpenIn(clients[m])

(* What x has read of the clients that y will set offline. *)
Beside(x, y) ==
    \A m \in y.gone :
        /\ m \in Loaded(x) =>
              IF Deemed(x, m) THEN clients[m].online
              ELSE Opens(clients[m]) /\ (m \in Handled(x) => m \in x.opens)
        /\ m \in x.gone /\ clients[m].online => clients[m].seen < busy

RowsInv ==
    \A m \in Macs : LET c == clients[m] IN
        /\ c.online => c.known /\ ~Opens(c)
        /\ \A r, s \in OpenIn(c) : r = s

Undisturbed ==
    /\ \A t, u, v \in Active : t = u \/ u = v \/ t = v
    /\ RowsInv
    /\ \A t \in Threads : Own(txn[t])
    /\ \A t, u \in Threads : t # u => Beside(txn[t], txn[u])

IInv ==
    /\ TypeOK
    /\ busy <= clock
    /\ \A t \in Threads : Shape(txn[t])
    /\ SoloInv
    /\ ~disturbed => Undisturbed

-----------------------------------------------------------------------------
(* Types *)

LEMMA IdleType == Idle \in Transactions
<1>1. Unknown \in Row
  BY DEF Unknown, Row
<1>. QED
  BY <1>1 DEF Idle, Transactions, Places

LEMMA OpensType ==
    ASSUME NEW c \in Row
    PROVE  OpenIn(c) \in SUBSET [id : Nat, open : BOOLEAN]
           /\ LatestOpen(c) \in SUBSET [id : Nat, open : BOOLEAN]
  BY DEF Row, OpenIn, LatestOpen

(* A thread that reads, flushes or goes on keeps the types, if its           *)
(* transaction does; having opened a session means having the lock.          *)
LEMMA LocalTypeOK ==
    ASSUME TypeOK, NEW t \in Threads, NEW x \in Transactions, Set(t, x),
           x.at # "idle",
           UNCHANGED <<clients, clock, shared, busy, disturbed>>,
           \/ UNCHANGED lock /\ x.opens = txn[t].opens
           \/ lock' = t /\ MayWrite(t)
    PROVE  TypeOK'
<1>1. txn' \in [Threads -> Transactions] /\ txn'[t] = x
      /\ \A u \in Threads \ {t} : txn'[u] = txn[u]
  BY DEF Set, TypeOK
<1>2. lock' \in Threads \cup {None}
  BY DEF TypeOK
<1>3. x.at \in {"devices", "session", "flush", "absent", "commit"}
  BY DEF Transactions, Places
<1>4. lock' # None => txn'[lock'].at \in {"devices", "session", "flush", "absent", "commit"}
  BY <1>1, <1>2, <1>3 DEF TypeOK
<1>5. ASSUME NEW u \in Threads, txn'[u].opens # {} PROVE lock' = u
  BY <1>1, <1>5, NoneAssumption DEF TypeOK, MayWrite
<1>. QED
  BY <1>1, <1>2, <1>4, <1>5 DEF TypeOK

(* A thread that ends leaves the lock free, if it was its own. *)
LEMMA EndTypeOK ==
    ASSUME TypeOK, NEW t \in Threads, Set(t, Idle),
           clients' \in [Macs -> Row], UNCHANGED <<clock, shared, busy>>, disturbed' \in BOOLEAN,
           lock' = (IF lock = t THEN None ELSE lock)
    PROVE  TypeOK'
<1>1. txn' \in [Threads -> Transactions] /\ txn'[t] = Idle
      /\ \A u \in Threads \ {t} : txn'[u] = txn[u]
  BY IdleType DEF Set, TypeOK
<1>2. Idle.opens = {}
  BY DEF Idle
<1>. QED
  BY <1>1, <1>2, NoneAssumption DEF TypeOK

-----------------------------------------------------------------------------
(* The steps that only read, or go on *)

(* A step that changes no row keeps the invariant if it keeps what its       *)
(* transaction knows, alone and beside another.                              *)
LEMMA LocalIInv ==
    ASSUME IInv, NEW t \in Threads, NEW x \in Transactions, Set(t, x),
           txn[t].at # "idle", x.at # "idle",
           UNCHANGED <<clients, clock, shared, busy, disturbed>>,
           \/ UNCHANGED lock /\ x.opens = txn[t].opens
           \/ lock' = t /\ MayWrite(t),
           Shape(x),
           t \notin shared => Solo(x),
           ~disturbed => /\ Own(x)
                         /\ \A u \in Threads \ {t} : Beside(x, txn[u]) /\ Beside(txn[u], x)
    PROVE  IInv'
<1>1. /\ txn'[t] = x /\ \A u \in Threads \ {t} : txn'[u] = txn[u]
      /\ clients' = clients /\ busy' = busy /\ clock' = clock
      /\ shared' = shared /\ disturbed' = disturbed
  BY DEF Set, IInv, TypeOK
<1>2. TypeOK'
  BY LocalTypeOK DEF IInv
<1>3. Active' = Active
  BY <1>1 DEF Active
<1>4. \A u \in Threads : Shape(txn'[u])
  BY <1>1 DEF IInv
<1>5. SoloInv'
  <2>1. \A u, v \in Active' : u # v => u \in shared'
    BY <1>1, <1>3 DEF IInv, SoloInv
  <2>2. ASSUME NEW u \in (Active \ shared)' PROVE Solo(txn[u])'
    <3>1. u \in Active \ shared /\ u \in Threads
      BY <1>1, <1>3, <2>2 DEF Active
    <3>2. Solo(txn'[u])
      BY <1>1, <3>1 DEF IInv, SoloInv
    <3>. QED
      BY <1>1, <3>2 DEF Solo, AbsentDevices
  <2>. QED
    BY <2>1, <2>2 DEF SoloInv
<1>6. ASSUME ~disturbed' PROVE Undisturbed'
  <2>1. Undisturbed
    BY <1>1, <1>6 DEF IInv
  <2>2. \A u \in Threads : Own(txn'[u])
    BY <1>1, <1>6, <2>1 DEF Undisturbed
  <2>3. \A u \in Threads : Own(txn[u])'
    BY <1>1, <2>2 DEF Own
  <2>4. \A u, v \in Threads : u # v => Beside(txn'[u], txn'[v])
    BY <1>1, <1>6, <2>1 DEF Undisturbed
  <2>5. \A u, v \in Threads : u # v => Beside(txn[u], txn[v])'
    BY <1>1, <2>4 DEF Beside
  <2>6. RowsInv'
    BY <1>1, <2>1 DEF Undisturbed, RowsInv
  <2>7. \A u, v, w \in Active' : u = v \/ v = w \/ u = w
    BY <1>3, <2>1 DEF Undisturbed
  <2>. QED
    BY <2>3, <2>5, <2>6, <2>7 DEF Undisturbed
<1>. QED
  BY <1>1, <1>2, <1>4, <1>5, <1>6 DEF IInv

(* What IInv says of one transaction under way. *)
LEMMA OfTransaction ==
    ASSUME IInv, NEW t \in Threads
    PROVE  LET x == txn[t] IN
           /\ x \in Transactions /\ Shape(x)
           /\ x.at # "idle" /\ t \notin shared => Solo(x)
           /\ ~disturbed => /\ RowsInv /\ Own(x)
                            /\ \A u \in Threads \ {t} : Beside(x, txn[u]) /\ Beside(txn[u], x)
  BY DEF IInv, TypeOK, SoloInv, Undisturbed, Active

(* Reading a device row (service.py:187-188). *)
LEMMA ReadDeviceIInv ==
    ASSUME IInv, NEW t \in Threads, NEW m \in Macs, ReadDevice(t, m)
    PROVE  IInv'
<1> DEFINE o == txn[t]
           x == [o EXCEPT !.at = "session", !.cur = m, !.todo = @ \ {m},
                          !.loaded[m] = clients[m]]
<1>1. /\ o.at = "devices" /\ m \in o.todo /\ Set(t, x)
      /\ UNCHANGED <<clients, clock, lock, shared, busy, disturbed>>
  BY DEF ReadDevice
<1>2. /\ o \in Transactions /\ Shape(o) /\ (t \notin shared => Solo(o))
      /\ ~disturbed => /\ RowsInv /\ Own(o)
                       /\ \A u \in Threads \ {t} : Beside(o, txn[u]) /\ Beside(txn[u], o)
  BY <1>1, OfTransaction
<1>3. clients \in [Macs -> Row]
  BY DEF IInv, TypeOK
<1>4. /\ x \in Transactions
      /\ x.at = "session" /\ x.cur = m /\ x.todo = o.todo \ {m} /\ x.macs = o.macs
      /\ x.loaded[m] = clients[m] /\ \A k \in Macs \ {m} : x.loaded[k] = o.loaded[k]
      /\ x.opens = o.opens /\ x.gone = o.gone /\ x.when = o.when /\ x.ended = o.ended
  BY <1>2, <1>3 DEF Transactions, Places
<1> HIDE DEF x
<1>5. o.gone = {} /\ o.todo \subseteq o.macs /\ o.macs \subseteq Macs /\ o.opens \subseteq Handled(o)
  BY <1>1, <1>2 DEF Shape, Transactions
<1>6. Loaded(x) = Loaded(o) \cup {m} /\ m \notin Loaded(o)
      /\ Handled(o) = Loaded(o) /\ Handled(x) = Handled(o)
  BY <1>1, <1>4, <1>5 DEF Loaded, Handled
<1>7. \A k \in Loaded(o) : x.loaded[k] = o.loaded[k]
  BY <1>4, <1>5, <1>6 DEF Loaded
<1>8. Shape(x)
  BY <1>1, <1>2, <1>4, <1>5, <1>6 DEF Shape
<1>9. t \notin shared => Solo(x)
  BY <1>2, <1>4, <1>6, <1>7 DEF Solo
<1>10. ASSUME ~disturbed
       PROVE  Own(x) /\ \A u \in Threads \ {t} : Beside(x, txn[u]) /\ Beside(txn[u], x)
  <2>1. Own(x)
    <3>1. ~Deemed(x, m) => ~clients[m].online
      BY <1>2, <1>4, <1>10 DEF Deemed, RowsInv
    <3>2. \A k \in Loaded(o) : Deemed(x, k) = Deemed(o, k)
      BY <1>7 DEF Deemed
    <3>. QED
      BY <1>1, <1>2, <1>4, <1>5, <1>6, <1>10, <3>1, <3>2 DEF Own
  <2>2. ASSUME NEW u \in Threads \ {t} PROVE Beside(x, txn[u])
    <3>1. Beside(o, txn[u]) /\ Own(txn[u])
      BY <1>2, <1>10, OfTransaction
    <3>2. \A k \in Loaded(o) : Deemed(x, k) = Deemed(o, k)
      BY <1>7 DEF Deemed
    <3>3. m \in txn[u].gone => IF Deemed(x, m) THEN clients[m].online ELSE Opens(clients[m])
      <4>1. m \in txn[u].gone /\ ~clients[m].online => Opens(clients[m])
        BY <3>1 DEF Own
      <4>2. clients[m].online => clients[m].known
        BY <1>2, <1>10 DEF RowsInv
      <4>. QED
        BY <1>4, <4>1, <4>2 DEF Deemed
    <3>. QED
      BY <1>4, <1>5, <1>6, <3>1, <3>2, <3>3 DEF Beside
  <2>3. ASSUME NEW u \in Threads \ {t} PROVE Beside(txn[u], x)
    BY <1>4, <1>5 DEF Beside
  <2>. QED
    BY <2>1, <2>2, <2>3
<1>. QED
  BY <1>1, <1>4, <1>8, <1>9, <1>10, LocalIInv

(* Looking for its open session (service.py:241). *)
LEMMA ReadSessionIInv ==
    ASSUME IInv, NEW t \in Threads, ReadSession(t)
    PROVE  IInv'
<1> DEFINE o == txn[t]
           m == o.cur
           x == [o EXCEPT !.at = IF Opens(clients[m]) THEN "flush" ELSE "devices"]
<1>1. /\ o.at = "session" /\ Set(t, x)
      /\ UNCHANGED <<clients, clock, lock, shared, busy, disturbed>>
  BY DEF ReadSession
<1>2. /\ o \in Transactions /\ Shape(o) /\ (t \notin shared => Solo(o))
      /\ ~disturbed => /\ RowsInv /\ Own(o)
                       /\ \A u \in Threads \ {t} : Beside(o, txn[u]) /\ Beside(txn[u], o)
  BY <1>1, OfTransaction
<1>3. /\ x \in Transactions /\ x.at = IF Opens(clients[m]) THEN "flush" ELSE "devices"
      /\ x.cur = m /\ x.todo = o.todo /\ x.macs = o.macs /\ x.loaded = o.loaded
      /\ x.opens = o.opens /\ x.gone = o.gone /\ x.when = o.when /\ x.ended = o.ended
  BY <1>2 DEF Transactions, Places
<1>4. /\ o.gone = {} /\ o.todo \subseteq o.macs /\ m \in Loaded(o)
      /\ m \notin o.opens /\ o.opens \subseteq Handled(o)
  BY <1>1, <1>2 DEF Shape, Handled
<1> HIDE DEF x, m
<1>5. /\ Loaded(x) = Loaded(o)
      /\ Opens(clients[m]) => Handled(x) = Handled(o)
      /\ ~Opens(clients[m]) => Handled(x) = Handled(o) \cup {m}
  <2>1. Handled(o) = Loaded(o) \ {m}
    BY <1>1 DEF Handled, m
  <2>. QED
    BY <1>3, <1>4, <2>1 DEF Loaded, Handled
<1>6. Shape(x)
  BY <1>1, <1>2, <1>3, <1>4, <1>5 DEF Shape
<1>7. ASSUME t \notin shared PROVE Solo(x)
  <2>1. \A k \in Handled(o) : k \in o.opens <=> Opens(clients[k])
    BY <1>2, <1>7 DEF Solo
  <2>2. \A k \in Handled(x) : k \in x.opens <=> Opens(clients[k])
    BY <1>3, <1>4, <1>5, <2>1
  <2>3. \A k \in Loaded(x) : x.loaded[k] = clients[k]
    BY <1>2, <1>3, <1>5, <1>7 DEF Solo
  <2>. QED
    BY <1>3, <2>2, <2>3 DEF Solo
<1>8. ASSUME ~disturbed
      PROVE  Own(x) /\ \A u \in Threads \ {t} : Beside(x, txn[u]) /\ Beside(txn[u], x)
  <2>1. \A k : Deemed(x, k) = Deemed(o, k)
    BY <1>3 DEF Deemed
  <2>2. Own(x)
    BY <1>1, <1>2, <1>3, <1>4, <1>5, <1>8, <2>1 DEF Own
  <2>3. ASSUME NEW u \in Threads \ {t} PROVE Beside(x, txn[u])
    <3>1. Beside(o, txn[u])
      BY <1>2, <1>8
    <3>2. m \in txn[u].gone => Deemed(o, m) \/ Opens(clients[m])
      BY <1>4, <3>1 DEF Beside
    <3>. QED
      BY <1>3, <1>4, <1>5, <2>1, <3>1, <3>2 DEF Beside
  <2>4. ASSUME NEW u \in Threads \ {t} PROVE Beside(txn[u], x)
    BY <1>3, <1>4 DEF Beside
  <2>. QED
    BY <2>2, <2>3, <2>4
<1>9. x.at # "idle"
  BY <1>3
<1>. QED
  BY <1>1, <1>3, <1>6, <1>7, <1>8, <1>9, LocalIInv

(* Flushing a new session (service.py:243-257). *)
LEMMA FlushIInv ==
    ASSUME IInv, NEW t \in Threads, Flush(t)
    PROVE  IInv'
<1> DEFINE o == txn[t]
           m == o.cur
           x == [o EXCEPT !.at = "devices", !.opens = @ \cup {m}]
<1>1. /\ o.at = "flush" /\ MayWrite(t) /\ lock' = t /\ Set(t, x)
      /\ UNCHANGED <<clients, clock, shared, busy, disturbed>>
  BY DEF Flush
<1>2. /\ o \in Transactions /\ Shape(o) /\ (t \notin shared => Solo(o))
      /\ ~disturbed => /\ RowsInv /\ Own(o)
                       /\ \A u \in Threads \ {t} : Beside(o, txn[u]) /\ Beside(txn[u], o)
  BY <1>1, OfTransaction
<1>3. /\ o.gone = {} /\ o.todo \subseteq o.macs /\ m \in Loaded(o) /\ o.macs \subseteq Macs
      /\ o.opens \subseteq Handled(o) /\ Handled(o) = Loaded(o) \ {m}
  BY <1>1, <1>2 DEF Shape, Handled, Transactions
<1>4. /\ x \in Transactions /\ x.at = "devices" /\ x.opens = o.opens \cup {m}
      /\ x.cur = m /\ x.todo = o.todo /\ x.macs = o.macs /\ x.loaded = o.loaded
      /\ x.gone = o.gone /\ x.when = o.when /\ x.ended = o.ended
  BY <1>2, <1>3 DEF Transactions, Places, Loaded
<1> HIDE DEF x, m
<1>5. Loaded(x) = Loaded(o) /\ Handled(x) = Handled(o) \cup {m} /\ m \notin Handled(o)
  BY <1>3, <1>4 DEF Loaded, Handled
<1>6. Shape(x)
  BY <1>1, <1>2, <1>3, <1>4, <1>5 DEF Shape
<1>7. ASSUME t \notin shared PROVE Solo(x)
  <2>1. Opens(clients[m])
    BY <1>1, <1>2, <1>7 DEF Solo, m
  <2>2. \A k \in Handled(o) : k \in o.opens <=> Opens(clients[k])
    BY <1>2, <1>7 DEF Solo
  <2>3. \A k \in Handled(x) : k \in x.opens <=> Opens(clients[k])
    BY <1>4, <1>5, <2>1, <2>2
  <2>4. \A k \in Loaded(x) : x.loaded[k] = clients[k]
    BY <1>2, <1>4, <1>5, <1>7 DEF Solo
  <2>. QED
    BY <1>4, <2>3, <2>4 DEF Solo
<1>8. ASSUME ~disturbed
      PROVE  Own(x) /\ \A u \in Threads \ {t} : Beside(x, txn[u]) /\ Beside(txn[u], x)
  <2>1. \A k : Deemed(x, k) = Deemed(o, k)
    BY <1>4 DEF Deemed
  <2>2. Own(x)
    BY <1>1, <1>2, <1>3, <1>4, <1>5, <1>8, <2>1 DEF Own
  <2>3. ASSUME NEW u \in Threads \ {t} PROVE Beside(x, txn[u])
    <3>1. Beside(o, txn[u])
      BY <1>2, <1>8
    <3>. QED
      BY <1>3, <1>4, <1>5, <2>1, <3>1 DEF Beside
  <2>4. ASSUME NEW u \in Threads \ {t} PROVE Beside(txn[u], x)
    BY <1>3, <1>4 DEF Beside
  <2>. QED
    BY <2>2, <2>3, <2>4
<1>. QED
  BY <1>1, <1>4, <1>6, <1>7, <1>8, LocalIInv
-----------------------------------------------------------------------------
LEMMA SingleLatest ==
    ASSUME NEW c \in Row, \A r, s \in OpenIn(c) : r = s
    PROVE  LatestOpen(c) = OpenIn(c)
<1>1. \A s \in OpenIn(c) : s.id \in Nat
  BY DEF Row, OpenIn
<1>. QED
  BY <1>1 DEF LatestOpen

(* Finding the absent devices (service.py:372-387): one that is online and   *)
(* absent for long was seen before the threads at work began.                *)
LEMMA ReadAbsentIInv ==
    ASSUME IInv, NEW t \in Threads, ReadAbsent(t)
    PROVE  IInv'
<1> DEFINE o == txn[t]
           absent == AbsentDevices(o)
           x == [o EXCEPT !.at = "absent", !.gone = absent, !.todo = absent]
<1>1. /\ o.at = "devices" /\ o.todo = {} /\ Set(t, x)
      /\ UNCHANGED <<clients, clock, lock, shared, busy, disturbed>>
  BY DEF ReadAbsent
<1>2. /\ o \in Transactions /\ Shape(o) /\ (t \notin shared => Solo(o))
      /\ ~disturbed => /\ RowsInv /\ Own(o)
                       /\ \A u \in Threads \ {t} : Beside(o, txn[u]) /\ Beside(txn[u], o)
  BY <1>1, OfTransaction
<1>3. absent \subseteq Macs \ o.macs
  BY DEF AbsentDevices
<1>4. /\ x \in Transactions /\ x.at = "absent" /\ x.gone = absent /\ x.todo = absent
      /\ x.macs = o.macs /\ x.complete = o.complete /\ x.loaded = o.loaded
      /\ x.opens = o.opens /\ x.when = o.when
  BY <1>2, <1>3 DEF Transactions, Places
<1>5. /\ clients \in [Macs -> Row] /\ busy \in Nat /\ Confirmation \in Nat
      /\ o.when \in Nat /\ o.macs \subseteq Macs /\ \A m \in Macs : clients[m].seen \in Nat
  BY <1>2, InstantsAssumption DEF IInv, TypeOK, Transactions, Row
<1>6. \A m \in absent : clients[m].online /\ o.when > clients[m].seen + Confirmation
  BY DEF AbsentDevices
<1>7. absent = AbsentDevices(x)
  BY <1>4 DEF AbsentDevices
<1> HIDE DEF x, absent
<1>8. Loaded(x) = Loaded(o) /\ Handled(o) = Loaded(o) /\ Handled(x) = Loaded(o)
  BY <1>1, <1>3, <1>4 DEF Loaded, Handled
<1>9. Shape(x)
  BY <1>1, <1>2, <1>3, <1>4, <1>8 DEF Shape
<1>10. t \notin shared => Solo(x)
  BY <1>1, <1>2, <1>4, <1>7, <1>8 DEF Solo
<1>11. ASSUME ~disturbed
       PROVE  Own(x) /\ \A u \in Threads \ {t} : Beside(x, txn[u]) /\ Beside(txn[u], x)
  <2>1. \A m : Deemed(x, m) = Deemed(o, m)
    BY <1>4 DEF Deemed
  <2>2. \A m \in absent : clients[m].online /\ clients[m].seen < busy
    <3>1. o.when <= busy + Confirmation
      BY <1>1, <1>2, <1>11 DEF Own
    <3>. QED
      <4>1. ASSUME NEW m \in absent PROVE clients[m].online /\ clients[m].seen < busy
        <5>1. clients[m].online /\ o.when > clients[m].seen + Confirmation
          BY <1>6
        <5>2. clients[m].seen \in Nat
          BY <1>3, <1>5
        <5>. QED
          BY <1>5, <3>1, <5>1, <5>2
      <4>. QED
        BY <4>1
  <2>3. Own(x)
    BY <1>1, <1>2, <1>4, <1>8, <1>11, <2>1, <2>2 DEF Own
  <2>4. ASSUME NEW u \in Threads \ {t} PROVE Beside(x, txn[u])
    BY <1>2, <1>4, <1>8, <1>11, <2>1, <2>2 DEF Beside
  <2>5. ASSUME NEW u \in Threads \ {t} PROVE Beside(txn[u], x)
    <3>1. \A m \in Loaded(txn[u]) :
             ~Deemed(txn[u], m) /\ clients[m].online => busy <= clients[m].seen
      BY <1>11, OfTransaction DEF Own
    <3>2. ASSUME NEW m \in absent, m \in Loaded(txn[u]) PROVE Deemed(txn[u], m)
      BY <1>3, <1>5, <2>2, <3>1, <3>2
    <3>. QED
      BY <1>4, <2>2, <3>2 DEF Beside
  <2>. QED
    BY <2>3, <2>4, <2>5
<1>. QED
  BY <1>1, <1>4, <1>9, <1>10, <1>11, LocalIInv

(* Looking for the session of an absent device (service.py:390). *)
LEMMA ReadEndingIInv ==
    ASSUME IInv, NEW t \in Threads, NEW m \in Macs, ReadEnding(t, m)
    PROVE  IInv'
<1> DEFINE o == txn[t]
           x == [o EXCEPT !.todo = @ \ {m}, !.ended[m] = LatestOpen(clients[m])]
<1>1. /\ o.at = "absent" /\ m \in o.todo /\ Set(t, x)
      /\ UNCHANGED <<clients, clock, lock, shared, busy, disturbed>>
  BY DEF ReadEnding
<1>2. /\ o \in Transactions /\ Shape(o) /\ (t \notin shared => Solo(o))
      /\ ~disturbed => /\ RowsInv /\ Own(o)
                       /\ \A u \in Threads \ {t} : Beside(o, txn[u]) /\ Beside(txn[u], o)
  BY <1>1, OfTransaction
<1>3. clients[m] \in Row /\ LatestOpen(clients[m]) \in SUBSET [id : Nat, open : BOOLEAN]
  BY OpensType DEF IInv, TypeOK
<1>4. /\ x \in Transactions /\ x.at = "absent" /\ x.gone = o.gone /\ x.todo = o.todo \ {m}
      /\ x.macs = o.macs /\ x.complete = o.complete /\ x.loaded = o.loaded
      /\ x.opens = o.opens /\ x.when = o.when
      /\ x.ended[m] = LatestOpen(clients[m])
      /\ \A k \in Macs \ {m} : x.ended[k] = o.ended[k]
  BY <1>1, <1>2, <1>3 DEF Transactions, Places
<1>5. /\ o.gone \subseteq Macs /\ o.gone \cap o.macs = {} /\ o.todo \subseteq o.gone
      /\ o.opens \subseteq Handled(o)
  BY <1>1, <1>2 DEF Shape, Transactions
<1>6. AbsentDevices(x) = AbsentDevices(o)
  BY <1>4 DEF AbsentDevices
<1> HIDE DEF x
<1>7. Loaded(x) = Loaded(o) /\ Handled(o) = Loaded(o) /\ Handled(x) = Loaded(o)
  BY <1>1, <1>4, <1>5 DEF Loaded, Handled
<1>8. Shape(x)
  BY <1>1, <1>2, <1>4, <1>5, <1>7 DEF Shape
<1>9. ASSUME t \notin shared PROVE Solo(x)
  <2>1. Solo(o)
    BY <1>2, <1>9
  <2>2. x.gone = AbsentDevices(x)
    BY <1>1, <1>4, <1>6, <2>1 DEF Solo
  <2>3. \A k \in o.gone \ o.todo : o.ended[k] = LatestOpen(clients[k])
    BY <1>1, <2>1 DEF Solo
  <2>4. \A k \in x.gone \ x.todo : x.ended[k] = LatestOpen(clients[k])
    BY <1>4, <1>5, <2>3
  <2>. QED
    BY <1>4, <1>7, <2>1, <2>2, <2>4 DEF Solo
<1>10. ASSUME ~disturbed
       PROVE  Own(x) /\ \A u \in Threads \ {t} : Beside(x, txn[u]) /\ Beside(txn[u], x)
  <2>1. \A k : Deemed(x, k) = Deemed(o, k)
    BY <1>4 DEF Deemed
  <2>2. x.ended[m] = OpenIn(clients[m])
    BY <1>2, <1>3, <1>4, <1>10, SingleLatest DEF RowsInv
  <2>3. Own(x)
    BY <1>1, <1>2, <1>4, <1>5, <1>7, <1>10, <2>1, <2>2 DEF Own
  <2>4. ASSUME NEW u \in Threads \ {t} PROVE Beside(x, txn[u]) /\ Beside(txn[u], x)
    BY <1>2, <1>4, <1>7, <1>10, <2>1 DEF Beside
  <2>. QED
    BY <2>3, <2>4
<1>. QED
  BY <1>1, <1>4, <1>8, <1>9, <1>10, LocalIInv

LEMMA AllReadIInv ==
    ASSUME IInv, NEW t \in Threads, AllRead(t)
    PROVE  IInv'
<1> DEFINE o == txn[t]
           x == [o EXCEPT !.at = "commit"]
<1>1. /\ o.at = "absent" /\ o.todo = {} /\ Set(t, x)
      /\ UNCHANGED <<clients, clock, lock, shared, busy, disturbed>>
  BY DEF AllRead
<1>2. /\ o \in Transactions /\ Shape(o) /\ (t \notin shared => Solo(o))
      /\ ~disturbed => /\ RowsInv /\ Own(o)
                       /\ \A u \in Threads \ {t} : Beside(o, txn[u]) /\ Beside(txn[u], o)
  BY <1>1, OfTransaction
<1>3. /\ x \in Transactions /\ x.at = "commit" /\ x.gone = o.gone /\ x.todo = o.todo
      /\ x.macs = o.macs /\ x.complete = o.complete /\ x.loaded = o.loaded
      /\ x.opens = o.opens /\ x.when = o.when /\ x.ended = o.ended
  BY <1>2 DEF Transactions, Places
<1>4. AbsentDevices(x) = AbsentDevices(o)
  BY <1>3 DEF AbsentDevices
<1> HIDE DEF x
<1>5. Loaded(x) = Loaded(o) /\ Handled(x) = Handled(o)
  BY <1>1, <1>3 DEF Loaded, Handled
<1>6. Shape(x)
  BY <1>1, <1>2, <1>3, <1>5 DEF Shape
<1>7. t \notin shared => Solo(x)
  BY <1>1, <1>2, <1>3, <1>4, <1>5 DEF Solo
<1>8. \A k : Deemed(x, k) = Deemed(o, k)
  BY <1>3 DEF Deemed
<1>9. ~disturbed => Own(x) /\ \A u \in Threads \ {t} : Beside(x, txn[u]) /\ Beside(txn[u], x)
  BY <1>1, <1>2, <1>3, <1>5, <1>8 DEF Own, Beside
<1>. QED
  BY <1>1, <1>3, <1>6, <1>7, <1>9, LocalIInv
-----------------------------------------------------------------------------
(* The steps that begin and end a transaction *)

LEMMA IdleKnowsNothing ==
    /\ Shape(Idle)
    /\ Loaded(Idle) = {} /\ Handled(Idle) = {} /\ Idle.gone = {} /\ Idle.opens = {}
    /\ Idle.at = "idle"
  BY DEF Shape, Loaded, Handled, Idle

(* A snapshot handed to a thread: alone, or beside the only other one. *)
LEMMA BeginIInv ==
    ASSUME IInv, NEW t \in Threads, NEW at \in Instants, NEW macs \in SUBSET Macs,
           NEW complete \in BOOLEAN, Begin(t, at, macs, complete)
    PROVE  IInv'
<1> DEFINE x == [Idle EXCEPT !.at = "devices", !.when = at, !.macs = macs,
                             !.complete = complete, !.todo = macs]
<1>1. /\ txn[t].at = "idle" /\ at > clock /\ clock' = at /\ Set(t, x)
      /\ shared' = IF Active = {} THEN shared \ {t} ELSE shared \cup Active \cup {t}
      /\ busy' = IF Active = {} THEN at ELSE busy
      /\ disturbed' = (disturbed \/ at > busy' + Confirmation \/ \E u, v \in Active : u # v)
      /\ clients' = clients /\ lock' = lock
  BY DEF Begin
<1>2. /\ TypeOK /\ busy <= clock /\ SoloInv
      /\ at \in Nat /\ busy \in Nat /\ clock \in Nat /\ Confirmation \in Nat
      /\ Active \subseteq Threads /\ t \notin Active /\ txn[t] = Idle
  BY <1>1, InstantsAssumption DEF IInv, TypeOK, Active, Shape
<1>3. /\ x \in Transactions /\ x.at = "devices" /\ x.when = at /\ x.macs = macs
      /\ x.todo = macs /\ x.opens = {} /\ x.gone = {}
  BY IdleType, <1>2 DEF Transactions, Places, Idle
<1> HIDE DEF x
<1>4. Loaded(x) = {} /\ Handled(x) = {}
  BY <1>3 DEF Loaded, Handled
<1>5. /\ txn' \in [Threads -> Transactions] /\ txn'[t] = x
      /\ \A u \in Threads \ {t} : txn'[u] = txn[u]
  BY <1>1, <1>2, <1>3 DEF Set, TypeOK
<1>6. Active' = Active \cup {t}
  BY <1>2, <1>3, <1>5 DEF Active
<1>7. TypeOK'
  <2>1. lock # None => lock # t /\ lock \in Threads
    BY <1>1, <1>2 DEF TypeOK
  <2>2. \A u \in Threads : txn'[u].opens # {} => lock' = u
    BY <1>1, <1>2, <1>3, <1>5 DEF TypeOK
  <2>3. shared' \subseteq Threads /\ busy' \in Nat /\ disturbed' \in BOOLEAN
    BY <1>1, <1>2 DEF TypeOK
  <2>. QED
    BY <1>1, <1>2, <1>5, <2>1, <2>2, <2>3 DEF TypeOK
<1>8. busy' <= clock'
  BY <1>1, <1>2
<1>9. \A u \in Threads : Shape(txn'[u])
  <2>1. Shape(x)
    BY <1>3, <1>4 DEF Shape
  <2>. QED
    BY <1>5, <2>1 DEF IInv
<1>10. SoloInv'
  <2>1. CASE Active = {}
    <3>1. Solo(x)'
      BY <1>3, <1>4 DEF Solo
    <3>. QED
      BY <1>5, <1>6, <2>1, <3>1 DEF SoloInv
  <2>2. CASE Active # {}
    <3>1. Active' \subseteq shared'
      BY <1>1, <1>6, <2>2
    <3>. QED
      BY <3>1 DEF SoloInv
  <2>. QED
    BY <2>1, <2>2
<1>11. ASSUME ~disturbed' PROVE Undisturbed'
  <2>1. /\ Undisturbed /\ at <= busy' + Confirmation
        /\ \A u, v \in Active : u = v
    <3>1. ~disturbed /\ ~(at > busy' + Confirmation) /\ ~\E u, v \in Active : u # v
      BY <1>1, <1>11
    <3>2. at \in Nat /\ busy' \in Nat /\ Confirmation \in Nat
      BY <1>1, <1>2
    <3>3. Undisturbed
      BY <3>1 DEF IInv
    <3>4. \A b, c \in Nat : ~(at > b + c) => at <= b + c
      BY <3>2
    <3>5. at <= busy' + Confirmation
      BY <3>1, <3>2, <3>4
    <3>. QED
      BY <3>1, <3>3, <3>5
  <2>2. \A u, v, w \in Active' : u = v \/ v = w \/ u = w
    BY <1>6, <2>1
  <2>3. RowsInv'
    BY <1>1, <2>1 DEF Undisturbed, RowsInv
  <2>4. Own(x)'
    BY <1>1, <1>2, <1>3, <1>4, <2>1 DEF Own
  <2>5. ASSUME NEW u \in Threads \ {t}
        PROVE  txn[u] = Idle \/ busy' = busy
    BY <1>1, <2>5 DEF Active, IInv, Shape
  <2>6. ASSUME NEW u \in Threads PROVE Own(txn[u])'
    <3>1. CASE u = t
      BY <1>5, <2>4, <3>1
    <3>2. CASE u # t /\ txn[u] = Idle
      <4>1. Own(Idle)'
        BY IdleKnowsNothing DEF Own
      <4>. QED
        BY <1>5, <3>2, <4>1
    <3>3. CASE u # t /\ busy' = busy
      BY <1>1, <1>5, <2>1, <3>3 DEF Own, Undisturbed
    <3>. QED
      BY <2>5, <3>1, <3>2, <3>3
  <2>7. ASSUME NEW u \in Threads, NEW v \in Threads, u # v PROVE Beside(txn[u], txn[v])'
    <3>1. CASE v = t
      BY <1>3, <1>5, <3>1 DEF Beside
    <3>2. CASE u = t
      BY <1>3, <1>4, <1>5, <3>2 DEF Beside
    <3>3. CASE u # t /\ v # t /\ txn[u] = Idle
      BY <1>5, <3>3, IdleKnowsNothing DEF Beside
    <3>4. CASE u # t /\ v # t /\ busy' = busy
      <4>1. Beside(txn[u], txn[v])
        BY <2>1, <2>7 DEF Undisturbed
      <4>. QED
        BY <1>1, <1>5, <3>4, <4>1 DEF Beside
    <3>. QED
      BY <2>5, <2>7, <3>1, <3>2, <3>3, <3>4
  <2>. QED
    BY <2>2, <2>3, <2>6, <2>7 DEF Undisturbed
<1>. QED
  BY <1>7, <1>8, <1>9, <1>10, <1>11 DEF IInv

(* A transaction that is rolled back, or all of them, take with them what    *)
(* they knew.                                                                *)
LEMMA RollbackIInv ==
    ASSUME IInv, NEW S \in SUBSET Threads,
           txn' = [t \in Threads |-> IF t \in S THEN Idle ELSE txn[t]],
           TypeOK', UNCHANGED <<clients, clock, shared, busy, disturbed>>
    PROVE  IInv'
<1>1. /\ \A t \in S : txn'[t] = Idle
      /\ \A t \in Threads \ S : txn'[t] = txn[t]
      /\ clients' = clients /\ busy' = busy /\ clock' = clock
      /\ shared' = shared /\ disturbed' = disturbed
  OBVIOUS
<1>2. Active' \subseteq Active \ S
  BY <1>1, IdleKnowsNothing DEF Active
<1>3. \A t \in Threads : Shape(txn'[t])
  BY <1>1, IdleKnowsNothing DEF IInv
<1>4. SoloInv'
  <2>1. ASSUME NEW t \in (Active \ shared)' PROVE Solo(txn[t])'
    <3>1. t \in Active \ shared /\ t \in Threads \ S
      BY <1>1, <1>2, <2>1 DEF Active
    <3>2. Solo(txn'[t])
      BY <1>1, <3>1 DEF IInv, SoloInv
    <3>. QED
      BY <1>1, <3>2 DEF Solo, AbsentDevices
  <2>. QED
    BY <1>1, <1>2, <2>1 DEF IInv, SoloInv
<1>5. ASSUME ~disturbed' PROVE Undisturbed'
  <2>1. Undisturbed
    BY <1>1, <1>5 DEF IInv
  <2>2. \A t \in Threads : Own(txn'[t])
    BY <1>1, <2>1, IdleKnowsNothing DEF Undisturbed, Own
  <2>3. \A t \in Threads : Own(txn[t])'
    BY <1>1, <2>2 DEF Own
  <2>4. \A t, u \in Threads : t # u => Beside(txn'[t], txn'[u])
    BY <1>1, <2>1, IdleKnowsNothing DEF Undisturbed, Beside
  <2>5. \A t, u \in Threads : t # u => Beside(txn[t], txn[u])'
    BY <1>1, <2>4 DEF Beside
  <2>6. RowsInv'
    BY <1>1, <2>1 DEF Undisturbed, RowsInv
  <2>. QED
    BY <1>2, <2>1, <2>3, <2>5, <2>6 DEF Undisturbed
<1>. QED
  BY <1>1, <1>3, <1>4, <1>5 DEF IInv

LEMMA AbortIInv ==
    ASSUME IInv, NEW t \in Threads, Abort(t)
    PROVE  IInv'
<1>1. TypeOK'
  BY EndTypeOK DEF IInv, TypeOK, Abort
<1>2. txn' = [u \in Threads |-> IF u \in {t} THEN Idle ELSE txn[u]]
  BY DEF IInv, TypeOK, Abort, Set
<1>. QED
  BY <1>1, <1>2, RollbackIInv DEF Abort

LEMMA KillIInv ==
    ASSUME IInv, Kill
    PROVE  IInv'
<1>1. TypeOK'
  BY IdleType, IdleKnowsNothing DEF IInv, TypeOK, Kill
<1>2. txn' = [u \in Threads |-> IF u \in Threads THEN Idle ELSE txn[u]]
  BY DEF Kill
<1>. QED
  BY <1>1, <1>2, RollbackIInv DEF Kill
-----------------------------------------------------------------------------
(* The commit *)

LEMMA WithSessionOpens ==
    ASSUME NEW c \in Row
    PROVE  WithSession(c) \in Row /\ ~Opens(WithSession(c))
<1> DEFINE s == [id |-> c.last + 1, open |-> TRUE]
<1>1. s \in [id : Nat, open : BOOLEAN] /\ c.last + 1 \in Nat
  BY DEF Row
<1>2. WithSession(c) = [c EXCEPT !.sessions = @ \cup {s}, !.last = @ + 1]
  BY DEF WithSession
<1>3. WithSession(c) \in Row /\ s \in WithSession(c).sessions
  BY <1>1, <1>2 DEF Row
<1>. QED
  BY <1>3 DEF Opens, OpenIn

LEMMA ClosedOpens ==
    ASSUME NEW c \in Row, NEW ended \in SUBSET [id : Nat, open : BOOLEAN]
    PROVE  /\ WrittenGone(c, ended) \in Row /\ ~WrittenGone(c, ended).online
           /\ OpenIn(WrittenGone(c, ended)) = OpenIn(c) \ ended
<1> DEFINE d == WrittenGone(c, ended)
<1>1. c.sessions \subseteq [id : Nat, open : BOOLEAN]
  BY DEF Row
<1>2. \A s \in c.sessions : [s EXCEPT !.open = FALSE] \in [id : Nat, open : BOOLEAN]
                            /\ ~[s EXCEPT !.open = FALSE].open
  BY <1>1
<1>3. Closed(c.sessions, ended) \subseteq [id : Nat, open : BOOLEAN]
  BY <1>1, <1>2 DEF Closed
<1>4. d \in Row /\ ~d.online /\ d.sessions = Closed(c.sessions, ended)
  BY <1>3 DEF Row, WrittenGone
<1>5. {s \in Closed(c.sessions, ended) : s.open} = {s \in c.sessions : s.open} \ ended
  BY <1>2 DEF Closed
<1>. QED
  BY <1>4, <1>5 DEF OpenIn

(* What the commit makes of a client that it lists, that it sets offline,    *)
(* and of any other.                                                         *)
LEMMA WrittenRow ==
    ASSUME NEW c \in Row, NEW x \in Transactions, NEW m \in Macs
    PROVE  LET w == Written(c, x, m) IN
           /\ w \in Row
           /\ m \in x.macs =>
                 /\ w.known /\ w.seen = x.when
                 /\ w.online <=> (Deemed(x, m) => c.online)
                 /\ m \in x.opens => ~Opens(w)
                 /\ m \notin x.opens => OpenIn(w) = OpenIn(c)
                 /\ ~Opens(c) => ~Opens(w)
           /\ m \notin x.macs /\ m \in x.gone =>
                 ~w.online /\ OpenIn(w) = OpenIn(c) \ x.ended[m]
           /\ m \notin x.macs /\ m \notin x.gone => w = c
<1>1. CASE m \in x.macs
  <2> DEFINE d == IF m \in x.opens THEN WithSession(c) ELSE c
             o == WrittenOnline(c, x, m)
             w == [d EXCEPT !.known = TRUE, !.online = o, !.seen = x.when]
  <2>1. Written(c, x, m) = w
    BY <1>1 DEF Written, WrittenListed
  <2>2. d \in Row /\ (m \in x.opens => ~Opens(d)) /\ (m \notin x.opens => d = c)
    BY WithSessionOpens
  <2>3. o \in BOOLEAN /\ (o <=> (Deemed(x, m) => c.online)) /\ x.when \in Nat
    BY DEF WrittenOnline, Deemed, Row, Transactions
  <2> HIDE DEF d, o
  <2>4. w \in Row /\ w.sessions = d.sessions /\ w.known /\ w.online = o /\ w.seen = x.when
    BY <2>2, <2>3 DEF Row
  <2>5. OpenIn(w) = OpenIn(d)
    BY <2>4 DEF OpenIn
  <2>. QED
    BY <1>1, <2>1, <2>2, <2>3, <2>4, <2>5 DEF Opens
<1>2. CASE m \notin x.macs /\ m \in x.gone
  <2>1. x.ended[m] \in SUBSET [id : Nat, open : BOOLEAN]
    BY DEF Transactions
  <2>2. Written(c, x, m) = WrittenGone(c, x.ended[m])
    BY <1>2 DEF Written
  <2>. QED
    BY <1>2, <2>1, <2>2, ClosedOpens
<1>3. CASE m \notin x.macs /\ m \notin x.gone
  BY <1>3 DEF Written
<1>. QED
  BY <1>1, <1>2, <1>3

(* What is written of the clients that a thread beside has read about        *)
(* agrees with what it has read (service.py:187-283, 372-427).               *)
LEMMA CommitIInv ==
    ASSUME IInv, NEW t \in Threads, Commit(t)
    PROVE  IInv'
<1> DEFINE x == txn[t]
           w(m) == Written(clients[m], x, m)
<1>1. /\ x.at = "commit" /\ MayWrite(t) /\ Set(t, Idle) /\ lock' = None
      /\ clients' = [m \in Macs |-> w(m)]
      /\ disturbed' = (disturbed \/ \E m \in Macs : \E r, s \in OpenIn(clients'[m]) : r # s)
      /\ clock' = clock /\ shared' = shared /\ busy' = busy
  BY DEF Commit
<1>2. /\ x \in Transactions /\ Shape(x)
      /\ ~disturbed => /\ RowsInv /\ Own(x)
                       /\ \A u \in Threads \ {t} : Beside(x, txn[u]) /\ Beside(txn[u], x)
  BY <1>1, OfTransaction
<1>3. /\ clients \in [Macs -> Row] /\ busy \in Nat /\ disturbed \in BOOLEAN
      /\ x.when \in Nat /\ x.macs \subseteq Macs /\ x.gone \subseteq Macs
      /\ \A m \in Macs : clients[m].seen \in Nat
  BY <1>2 DEF IInv, TypeOK, Transactions, Row
<1>4. /\ x.todo = {} /\ x.gone \cap x.macs = {}
      /\ Loaded(x) = x.macs /\ Handled(x) = x.macs
  BY <1>1, <1>2 DEF Shape, Loaded, Handled
<1>5. ASSUME NEW m \in Macs
      PROVE  /\ w(m) \in Row
             /\ m \in x.macs =>
                   /\ w(m).known /\ w(m).seen = x.when
                   /\ w(m).online <=> (Deemed(x, m) => clients[m].online)
                   /\ m \in x.opens => ~Opens(w(m))
                   /\ m \notin x.opens => OpenIn(w(m)) = OpenIn(clients[m])
                   /\ ~Opens(clients[m]) => ~Opens(w(m))
             /\ m \in x.gone =>
                   ~w(m).online /\ OpenIn(w(m)) = OpenIn(clients[m]) \ x.ended[m]
             /\ m \notin x.macs /\ m \notin x.gone => w(m) = clients[m]
  <2>1. clients[m] \in Row /\ x \in Transactions /\ (m \in x.gone => m \notin x.macs)
    BY <1>2, <1>3, <1>4
  <2>. QED
    BY <2>1, WrittenRow
<1>6. \A m \in Macs : clients'[m] = w(m)
  BY <1>1
<1>7. /\ txn'[t] = Idle
      /\ \A u \in Threads \ {t} : txn'[u] = txn[u]
  BY <1>1 DEF IInv, TypeOK, Set
<1>8. TypeOK'
  <2>1. lock' = IF lock = t THEN None ELSE lock
    BY <1>1 DEF MayWrite
  <2>2. clients' \in [Macs -> Row] /\ disturbed' \in BOOLEAN
    BY <1>1, <1>3, <1>5
  <2>. QED
    BY <1>1, <2>1, <2>2, EndTypeOK DEF IInv
<1> HIDE DEF w
<1>9. t \in Active /\ Active' \subseteq Active \ {t}
  BY <1>1, <1>7, IdleKnowsNothing DEF Active
<1>10. \A u \in Threads : Shape(txn'[u])
  BY <1>7, IdleKnowsNothing DEF IInv
<1>11. SoloInv'
  BY <1>1, <1>9 DEF IInv, SoloInv
<1>12. ASSUME ~disturbed' PROVE Undisturbed'
  <2>1. /\ Undisturbed /\ RowsInv /\ Own(x)
        /\ \A m \in Macs : \A r, s \in OpenIn(clients'[m]) : r = s
    BY <1>1, <1>2, <1>3, <1>12 DEF IInv
  <2>2. \A u, v, y \in Active' : u = v \/ v = y \/ u = y
    BY <1>9, <2>1 DEF Undisturbed
  <2>3. RowsInv'
    <3>1. ASSUME NEW m \in Macs, clients'[m].online
          PROVE  clients'[m].known /\ ~Opens(clients'[m])
      <4>1. CASE m \in x.macs
        <5>1. m \notin x.opens => ~Opens(clients[m])
          BY <1>4, <1>5, <1>6, <2>1, <3>1, <4>1 DEF Own, RowsInv
        <5>. QED
          BY <1>5, <1>6, <4>1, <5>1
      <4>2. CASE m \notin x.macs
        BY <1>5, <1>6, <2>1, <3>1, <4>2 DEF RowsInv
      <4>. QED
        BY <4>1, <4>2
    <3>. QED
      BY <2>1, <3>1 DEF RowsInv
  <2>4. ASSUME NEW u \in Threads PROVE Own(txn[u])'
    <3>1. CASE u = t
      BY <1>7, <3>1, IdleKnowsNothing DEF Own
    <3>2. CASE u # t
      <4> DEFINE y == txn[u]
      <4>1. /\ txn'[u] = y /\ Own(y) /\ Beside(x, y) /\ Beside(y, x)
            /\ y.macs \subseteq Macs /\ y.gone \subseteq Macs
        BY <1>2, <1>7, <1>12, <1>1, <1>3, <2>1, <3>2, OfTransaction
           DEF Undisturbed, Transactions
      <4> HIDE DEF y
      <4>2. Loaded(y) \subseteq Macs /\ Handled(y) \subseteq Loaded(y)
        BY <4>1 DEF Loaded, Handled
      <4>3. busy <= x.when
        BY <1>1, <2>1 DEF Own
      <4>4. ASSUME NEW m \in Loaded(y), ~Deemed(y, m), w(m).online
            PROVE  busy <= w(m).seen
        BY <1>5, <4>1, <4>2, <4>3, <4>4 DEF Own
      <4>5. ASSUME NEW m \in Handled(y), ~Deemed(y, m), m \notin y.opens
            PROVE  ~Opens(w(m))
        <5>1. ~Opens(clients[m]) /\ m \in Macs
          BY <4>1, <4>2, <4>5 DEF Own
        <5>2. m \notin x.gone
          BY <4>1, <4>2, <4>5, <5>1 DEF Beside
        <5>. QED
          BY <1>5, <5>1, <5>2
      <4>6. ASSUME NEW m \in y.gone, ~w(m).online PROVE Opens(w(m))
        <5>1. m \in Macs /\ m \notin x.macs
          BY <1>4, <1>5, <4>1, <4>6 DEF Beside
        <5>2. CASE m \in x.gone
          <6>1. clients[m].online => x.ended[m] = OpenIn(clients[m])
            BY <1>4, <2>1, <4>1, <5>2 DEF Own, Beside
          <6>2. ~clients[m].online => Opens(clients[m])
            BY <2>1, <5>2 DEF Own
          <6>. QED
            BY <1>5, <5>1, <5>2, <6>1, <6>2 DEF Opens
        <5>3. CASE m \notin x.gone
          BY <1>5, <4>1, <4>6, <5>1, <5>3 DEF Own
        <5>. QED
          BY <5>2, <5>3
      <4>7. ASSUME NEW m \in y.gone, m \notin y.todo, w(m).online, w(m).seen < busy
            PROVE  y.ended[m] = OpenIn(w(m))
        <5>1. m \in Macs /\ m \notin x.macs /\ m \notin x.gone
          BY <1>3, <1>5, <4>1, <4>3, <4>7
        <5>. QED
          BY <1>5, <4>1, <4>7, <5>1 DEF Own
      <4>8. y.at # "idle" => busy <= y.when /\ y.when <= busy + Confirmation
        BY <4>1 DEF Own
      <4>9. Own(txn[u])'
        BY <1>1, <1>6, <4>1, <4>2, <4>4, <4>5, <4>6, <4>7, <4>8 DEF Own
      <4>. QED
        BY <4>9
    <3>. QED
      BY <3>1, <3>2
  <2>5. ASSUME NEW u \in Threads, NEW v \in Threads, u # v PROVE Beside(txn[u], txn[v])'
    <3>1. txn'[u] = Idle \/ txn'[v] = Idle
      <4>1. \A s \in Threads : txn'[s] = Idle \/ s \in Active \ {t}
        BY <1>7 DEF Active, IInv, Shape
      <4>. QED
        BY <1>9, <2>1, <2>5, <4>1 DEF Undisturbed
    <3>. QED
      BY <3>1, IdleKnowsNothing DEF Beside
  <2>. QED
    BY <2>2, <2>3, <2>4, <2>5 DEF Undisturbed
<1>. QED
  BY <1>1, <1>8, <1>10, <1>11, <1>12 DEF IInv
-----------------------------------------------------------------------------
(* The theorems *)

LEMMA InitIInv == TxnInit => IInv
<1>. SUFFICES ASSUME TxnInit PROVE IInv
  OBVIOUS
<1>1. \A t \in Threads : txn[t] = Idle
  BY DEF TxnInit
<1>2. TypeOK
  <2>1. Unknown \in Row
    BY DEF Unknown, Row
  <2>. QED
    BY <1>1, <2>1, IdleType, IdleKnowsNothing DEF TxnInit, Init, TypeOK
<1>3. Active = {}
  BY <1>1, IdleKnowsNothing DEF Active
<1>4. RowsInv
  BY DEF TxnInit, Init, RowsInv, Unknown, OpenIn
<1>5. \A t, u \in Threads : Own(txn[t]) /\ Beside(txn[t], txn[u])
  BY <1>1, IdleKnowsNothing DEF Own, Beside
<1>. QED
  BY <1>1, <1>2, <1>3, <1>4, <1>5, IdleKnowsNothing
     DEF IInv, SoloInv, Undisturbed, TxnInit

LEMMA NextIInv == IInv /\ [TxnNext]_vars => IInv'
<1>. SUFFICES ASSUME IInv, [TxnNext]_vars PROVE IInv'
  OBVIOUS
<1>1. ASSUME NEW t \in Threads, Step(t) PROVE IInv'
  BY <1>1, BeginIInv, ReadDeviceIInv, ReadSessionIInv, FlushIInv, ReadAbsentIInv,
     ReadEndingIInv, AllReadIInv, CommitIInv, AbortIInv DEF Step
<1>2. CASE UNCHANGED vars
  <2>1. Active' = Active
    BY <1>2 DEF vars, Active
  <2>2. SoloInv'
    BY <1>2, <2>1 DEF vars, IInv, SoloInv, Solo, AbsentDevices
  <2>3. ~disturbed' => Undisturbed'
    BY <1>2, <2>1 DEF vars, IInv, Undisturbed, Own, Beside, RowsInv
  <2>4. TypeOK' /\ busy' <= clock' /\ \A t \in Threads : Shape(txn'[t])
    BY <1>2 DEF vars, IInv, TypeOK
  <2>. QED
    BY <2>2, <2>3, <2>4 DEF IInv
<1>. QED
  BY <1>1, <1>2, KillIInv DEF TxnNext

(* The invariant, which the three results below rest on. *)
THEOREM Invariant == TxnSpec => []IInv
  BY InitIInv, NextIInv, PTL DEF TxnSpec

(* The variables keep their types; whoever has the write lock is in a        *)
(* transaction, and a transaction that has flushed a session has the lock:   *)
(* the lock is never left behind by a commit, a rollback or a killed process *)
(* (service.py:153-427, db/runtime.py:21-42).                                *)
THEOREM TypeCorrect == TxnSpec => []TypeOK
<1>1. IInv => TypeOK
  BY DEF IInv
<1>. QED
  BY <1>1, Invariant, PTL

(* With any number of threads, overlapping as they like, a client shown      *)
(* online has an open session, as long as at most two have been at work at a *)
(* time, for no longer than the confirmation time, and no second session has *)
(* been left open (service.py:187-283, 372-399).                             *)
THEOREM SessionKept == TxnSpec => []OnlineHasSession
<1>1. IInv => OnlineHasSession
  BY DEF IInv, Undisturbed, RowsInv, OnlineHasSession, Opens
<1>. QED
  BY <1>1, Invariant, PTL

(* The commit of a thread that has run alone is one step of Ingest. *)
LEMMA CommitApplies ==
    ASSUME IInv, NEW t \in Threads, Commit(t), t \notin shared
    PROVE  Next
<1> DEFINE x == txn[t]
<1>1. x.at = "commit" /\ clients' = [m \in Macs |-> Written(clients[m], x, m)]
  BY DEF Commit
<1>2. x \in Transactions /\ Shape(x) /\ Solo(x)
  BY <1>1, OfTransaction
<1>3. /\ x.when \in Instants /\ x.macs \in SUBSET Macs /\ x.complete \in BOOLEAN
      /\ x.todo = {} /\ Loaded(x) = x.macs /\ Handled(x) = x.macs
      /\ x.gone = AbsentDevices(x)
  BY <1>1, <1>2 DEF Shape, Solo, Transactions, Loaded, Handled
<1>4. ASSUME NEW m \in Macs
      PROVE  Written(clients[m], x, m) =
                IF m \in x.macs THEN Listed(clients[m], x.when)
                ELSE IF x.complete THEN Missing(clients[m], x.when)
                ELSE clients[m]
  <2>1. CASE m \in x.macs
    <3>1. x.loaded[m] = clients[m] /\ (m \in x.opens <=> OpenIn(clients[m]) = {})
      BY <1>2, <1>3, <2>1 DEF Solo, Opens
    <3>2. WrittenOnline(clients[m], x, m) = TRUE
      BY <3>1 DEF WrittenOnline
    <3>3. Written(clients[m], x, m) = WrittenListed(clients[m], x, m)
      BY <2>1 DEF Written
    <3>. QED
      BY <2>1, <3>1, <3>2, <3>3 DEF WrittenListed, Listed
  <2>2. CASE m \notin x.macs
    <3>1. m \in x.gone <=> /\ x.complete /\ clients[m].online
                           /\ x.when > clients[m].seen + Confirmation
      BY <1>3, <2>2 DEF AbsentDevices
    <3>2. m \in x.gone => x.ended[m] = LatestOpen(clients[m])
      BY <1>1, <1>2, <1>3 DEF Solo
    <3>. QED
      BY <2>2, <3>1, <3>2 DEF Written, WrittenGone, Missing
  <2>. QED
    BY <2>1, <2>2
<1>5. Apply(x.when, x.macs, x.complete)
  BY <1>1, <1>4 DEF Apply
<1>. QED
  BY <1>3, <1>5 DEF Next

(* A transaction that runs alone, whatever ran or was rolled back before it, *)
(* is one step of Ingest: its statements, with the reads between the writes, *)
(* do together what storing a snapshot promises (service.py:153-427).        *)
THEOREM TransactionIsAtomic == TxnSpec => Atomic
<1>1. TxnInit => Init
  BY DEF TxnInit
<1>2. IInv /\ [TxnNext]_vars => [Active \cap shared = {} => Next]_clients
  <2>. SUFFICES ASSUME IInv, [TxnNext]_vars, Active \cap shared = {}
                PROVE  Next \/ clients' = clients
    OBVIOUS
  <2>1. ASSUME NEW t \in Threads, Step(t) PROVE Next \/ clients' = clients
    <3>1. CASE Commit(t)
      <4>1. t \notin shared
        BY <3>1 DEF Commit, Active
      <4>. QED
        BY <3>1, <4>1, CommitApplies
    <3>. QED
      BY <2>1, <3>1
         DEF Step, Begin, ReadDevice, ReadSession, Flush, ReadAbsent, ReadEnding, AllRead, Abort
  <2>. QED
    BY <2>1 DEF TxnNext, Kill, vars
<1>. QED
  BY <1>1, <1>2, Invariant, PTL DEF TxnSpec, Atomic
=============================================================================
