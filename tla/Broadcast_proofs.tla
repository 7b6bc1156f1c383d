--------------------------- MODULE Broadcast_proofs ---------------------------
(***************************************************************************)
(* The type invariant of module Broadcast, and that the server forgets no  *)
(* open page, for any pages, sockets and bounds.  That pages catch up is a *)
(* liveness property: it is checked by TLC.                                *)
(***************************************************************************)
EXTENDS Broadcast, FiniteSetTheorems, TLAPS

Messages == [page : Pages \cup {None}, queue : Seq(Versions)]

LEMMA Constants ==
    /\ None \notin Pages /\ None \notin Sockets
    /\ Capacity \in Nat /\ MaxVersion \in Nat /\ MaxVersion >= 1
    /\ Idle \in Broadcasts /\ Gone \in Messages /\ Gone.page = None
BY NoneAssumption, BoundAssumption DEF Idle, Gone, Broadcasts, Messages, Versions

LEMMA InitTypeOK == Init => TypeOK
<1> SUFFICES ASSUME Init PROVE TypeOK
  OBVIOUS
<1>1. version \in Versions /\ page \in [Pages -> [shown : Versions, asked : Versions]]
  BY Constants DEF Init, Versions
<1>2. socket \in [Sockets -> Messages] /\ \A s \in Sockets : socket[s].page = None
  BY Constants DEF Init
<1>3. \A p \in Pages : SocketOf(p) = {}
  BY Constants, <1>2 DEF SocketOf
<1>4. bcast \in Broadcasts /\ bcast.at = "idle"
  BY Constants DEF Init, Idle
<1>. QED
  BY <1>1, <1>2, <1>3, <1>4 DEF Init, TypeOK, Messages

(* The step from one send to the next. *)
LEMMA AdvanceStep ==
    ASSUME TypeOK, bcast.at = "sending", NEW dead \in SUBSET Sockets, Advance(dead)
    PROVE  /\ connections' \in {connections, connections \ dead}
           /\ bcast' \in Broadcasts
           /\ bcast'.at = "sending" => bcast'.cur # None
           /\ bcast'.dead \subseteq dead
<1> USE Constants
<1>1. bcast \in Broadcasts /\ bcast.left \subseteq Sockets
  BY DEF TypeOK, Broadcasts
<1>2. CASE bcast' = Idle /\ connections' \in {connections, connections \ dead}
  BY <1>2 DEF Idle
<1>3. ASSUME NEW s \in bcast.left, GoOn(s, dead)
      PROVE  /\ bcast' \in Broadcasts
             /\ bcast'.cur # None
             /\ bcast'.dead \subseteq dead
             /\ connections' = connections
  BY <1>1, <1>3 DEF Broadcasts, GoOn
<1>4. CASE SizeChanged
  BY <1>2, <1>4 DEF Advance
<1>5. CASE ~SizeChanged
  <2>1. \/ bcast' = Idle /\ connections' = WithoutDead(dead)
        \/ \E s \in bcast.left : GoOn(s, dead)
    BY <1>5 DEF Advance
  <2>2. CASE bcast' = Idle /\ connections' = WithoutDead(dead)
    BY <1>2, <2>2 DEF WithoutDead
  <2>3. CASE \E s \in bcast.left : GoOn(s, dead)
    BY <1>3, <2>3
  <2>. QED
    BY <2>1, <2>2, <2>3
<1>. QED
  BY <1>4, <1>5

LEMMA StepTypeOK == TypeOK /\ [Next]_vars => TypeOK'
<1> SUFFICES ASSUME TypeOK, [Next]_vars PROVE TypeOK'
  OBVIOUS
<1> USE Constants
<1>0. /\ version \in Versions /\ connections \subseteq Sockets
      /\ socket \in [Sockets -> Messages]
      /\ page \in [Pages -> [shown : Versions, asked : Versions]]
      /\ bcast \in Broadcasts /\ calm \in BOOLEAN
      /\ \A p \in Pages : \A s, t \in Sockets : socket[s].page = p /\ socket[t].page = p => s = t
      /\ bcast.at = "sending" => bcast.cur # None
  BY DEF TypeOK, Messages, SocketOf
<1>1. CASE UNCHANGED vars
  BY <1>1 DEF vars, TypeOK, SocketOf
<1>2. CASE Commit \/ Settle
  <2>1. version' \in Versions /\ calm' \in BOOLEAN
    <3>1. CASE Commit
      <4>1. version' \in Versions
        BY <1>0, <3>1 DEF Commit, Versions
      <4>. QED
        BY <1>0, <3>1, <4>1 DEF Commit
    <3>2. CASE Settle
      BY <1>0, <3>2 DEF Settle
    <3>. QED
      BY <1>2, <3>1, <3>2
  <2>2. UNCHANGED <<connections, socket, page, bcast>>
    BY <1>2 DEF Commit, Settle
  <2>. QED
    BY <2>1, <2>2 DEF TypeOK, SocketOf
<1>3. CASE Start
  <2>1. /\ bcast' \in Broadcasts
        /\ bcast'.at = "sending" => bcast'.cur # None
    <3>1. CASE connections = {}
      BY <1>0, <1>3, <3>1 DEF Start
    <3>2. CASE connections # {}
      <4>1. PICK s \in connections :
              bcast' = [at |-> "sending", payload |-> version,
                        size |-> Cardinality(connections), moved |-> FALSE,
                        left |-> connections \ {s}, cur |-> s, dead |-> {}]
        BY <1>3, <3>2 DEF Start
      <4>2. Cardinality(connections) \in Nat
        BY <1>0, SocketsAssumption, FS_Subset, FS_CardinalityType
      <4>. QED
        BY <1>0, <4>1, <4>2 DEF Broadcasts
    <3>. QED
      BY <3>1, <3>2
  <2>. QED
    BY <1>3, <2>1 DEF Start, TypeOK, SocketOf
<1>4. CASE Sent
  <2>1. bcast.at = "sending" /\ Advance(bcast.dead) /\ UNCHANGED <<version, page, calm>>
    BY <1>4 DEF Sent
  <2>2. bcast.cur \in Sockets /\ bcast.dead \in SUBSET Sockets /\ bcast.payload \in Versions
    BY <1>0, <2>1 DEF Broadcasts
  <2>3. /\ socket' \in [Sockets -> Messages]
        /\ \A s \in Sockets : socket'[s].page = socket[s].page
    <3>1. CASE Up(bcast.cur)
      <4>1. socket' = [socket EXCEPT ![bcast.cur].queue = Append(@, bcast.payload)]
        BY <1>4, <3>1 DEF Sent
      <4>2. Append(socket[bcast.cur].queue, bcast.payload) \in Seq(Versions)
        BY <1>0, <2>2 DEF Messages
      <4>. QED
        BY <1>0, <2>2, <4>1, <4>2 DEF Messages
    <3>2. CASE ~Up(bcast.cur)
      BY <1>0, <1>4, <3>2 DEF Sent
    <3>. QED
      BY <3>1, <3>2
  <2>4. /\ connections' \subseteq Sockets /\ bcast' \in Broadcasts
        /\ bcast'.at = "sending" => bcast'.cur # None
    BY <1>0, <2>1, <2>2, AdvanceStep
  <2>. QED
    BY <1>0, <2>1, <2>3, <2>4 DEF TypeOK, SocketOf, Messages
<1>5. CASE SendFailed
  <2>1. bcast.at = "sending" /\ Advance(bcast.dead \cup {bcast.cur})
        /\ UNCHANGED <<version, socket, page, calm>>
    BY <1>5 DEF SendFailed, NotesFailure
  <2>2. bcast.dead \cup {bcast.cur} \in SUBSET Sockets
    BY <1>0, <2>1 DEF Broadcasts
  <2>3. /\ connections' \subseteq Sockets /\ bcast' \in Broadcasts
        /\ bcast'.at = "sending" => bcast'.cur # None
    BY <1>0, <2>1, <2>2, AdvanceStep
  <2>. QED
    BY <1>0, <2>1, <2>3 DEF TypeOK, SocketOf, Messages
<1>6. CASE Cancelled
  BY <1>6 DEF Cancelled, TypeOK, SocketOf, Idle
<1>7. ASSUME NEW s \in Sockets, Disconnect(s)
      PROVE  TypeOK'
  <2>1. bcast' = [bcast EXCEPT !.left = @ \ {s}] /\ connections' = connections \ {s}
        /\ UNCHANGED <<version, socket, page, calm>>
    BY <1>7 DEF Disconnect
  <2>2. bcast' \in Broadcasts /\ bcast'.at = bcast.at /\ bcast'.cur = bcast.cur
    BY <1>0, <2>1 DEF Broadcasts
  <2>. QED
    BY <1>0, <2>1, <2>2 DEF TypeOK, SocketOf, Messages
<1>8. ASSUME NEW s \in Sockets, Drop(s)
      PROVE  TypeOK'
  <2>1. /\ socket' = [socket EXCEPT ![s] = Gone]
        /\ UNCHANGED <<version, connections, page, bcast, calm>>
    BY <1>8 DEF Drop
  <2>2. socket' \in [Sockets -> Messages]
        /\ \A t \in Sockets : socket'[t].page \in {None, socket[t].page}
    BY <1>0, <2>1
  <2>. QED
    BY <1>0, <2>1, <2>2 DEF TypeOK, SocketOf, Messages
<1>9. ASSUME NEW p \in Pages, Bootstrap(p) \/ Bootstrapped(p)
      PROVE  TypeOK'
  <2>1. page' \in [Pages -> [shown : Versions, asked : Versions]]
    BY <1>0, <1>9 DEF Bootstrap, Bootstrapped, Versions
  <2>. QED
    BY <1>9, <2>1 DEF Bootstrap, Bootstrapped, TypeOK, SocketOf
<1>10. ASSUME NEW p \in Pages, Connect(p)
       PROVE  TypeOK'
  <2>1. PICK s \in Sockets : /\ connections' = connections \cup {s}
                             /\ socket' = [socket EXCEPT ![s] = [page |-> p, queue |-> <<>>]]
                             /\ bcast' = IF bcast.at = "sending"
                                         THEN [bcast EXCEPT !.moved = TRUE, !.left = connections']
                                         ELSE bcast
    BY <1>10 DEF Connect
  <2>2. \A t \in Sockets : socket[t].page # p
    BY <1>10 DEF Connect, MayConnect, SocketOf
  <2>3. [page |-> p, queue |-> <<>>] \in Messages
    BY DEF Messages
  <2>4. /\ socket' \in [Sockets -> Messages] /\ socket'[s].page = p
        /\ \A t \in Sockets \ {s} : socket'[t] = socket[t]
    BY <1>0, <2>1, <2>3
  <2>5. \A q \in Pages : \A t, u \in Sockets :
            socket'[t].page = q /\ socket'[u].page = q => t = u
    BY <1>0, <2>2, <2>4
  <2>6. bcast' \in Broadcasts /\ bcast'.at = bcast.at /\ bcast'.cur = bcast.cur
    BY <1>0, <2>1 DEF Broadcasts
  <2>. QED
    BY <1>0, <1>10, <2>1, <2>4, <2>5, <2>6 DEF Connect, TypeOK, SocketOf, Messages
<1>11. ASSUME NEW p \in Pages, Receive(p)
       PROVE  TypeOK'
  <2>1. PICK s \in SocketOf(p) :
          /\ socket[s].queue # <<>>
          /\ page' = [page EXCEPT ![p].shown = Head(socket[s].queue)]
          /\ socket' = [socket EXCEPT ![s].queue = Tail(@)]
    BY <1>11 DEF Receive
  <2>2. s \in Sockets /\ socket[s].queue \in Seq(Versions)
    BY <1>0 DEF SocketOf, Messages
  <2>3. Head(socket[s].queue) \in Versions /\ Tail(socket[s].queue) \in Seq(Versions)
    BY <2>1, <2>2
  <2>4. page' \in [Pages -> [shown : Versions, asked : Versions]]
    BY <1>0, <2>1, <2>3
  <2>5. socket' \in [Sockets -> Messages] /\ \A t \in Sockets : socket'[t].page = socket[t].page
    BY <1>0, <2>1, <2>2, <2>3 DEF Messages
  <2>. QED
    BY <1>0, <1>11, <2>4, <2>5 DEF Receive, TypeOK, SocketOf, Messages
<1>. QED
  BY <1>1, <1>2, <1>3, <1>4, <1>5, <1>6, <1>7, <1>8, <1>9, <1>10, <1>11 DEF Next, Sending

(* Types; a page has one socket at most, however connections are lost and    *)
(* opened again while a broadcast sends (main.py:69-77, 1064-1074;           *)
(* index.html:240).                                                          *)
THEOREM TypeCorrect == Spec => []TypeOK
BY InitTypeOK, StepTypeOK, PTL DEF Spec

-----------------------------------------------------------------------------
(* What a broadcast removes *)

(* What it has noted as dead stays dead: nobody opens that connection again. *)
DeadAreDown == \A s \in bcast.dead : ~Up(s)

OInv == TypeOK /\ OpenStaysConnected /\ DeadAreDown

LEMMA InitOInv == Init => OInv
<1> SUFFICES ASSUME Init PROVE OpenStaysConnected /\ DeadAreDown
  BY InitTypeOK DEF OInv
<1>. QED
  BY DEF Init, OpenStaysConnected, DeadAreDown, Up, Gone, Idle

LEMMA StepOInv == OInv /\ [Next]_vars => OInv'
<1> SUFFICES ASSUME TypeOK, OpenStaysConnected, DeadAreDown, [Next]_vars
             PROVE  OpenStaysConnected' /\ DeadAreDown'
  BY StepTypeOK DEF OInv
<1>0. /\ connections \subseteq Sockets /\ socket \in [Sockets -> Messages]
      /\ bcast \in Broadcasts /\ bcast.dead \subseteq Sockets
      /\ bcast.at = "sending" => bcast.cur \in Sockets
  BY DEF TypeOK, Messages, Broadcasts
<1>1. CASE UNCHANGED <<connections, socket, bcast>>
  BY <1>1 DEF OpenStaysConnected, DeadAreDown, Up
<1>2. CASE bcast'.dead = {} /\ UNCHANGED <<connections, socket>>
  BY <1>2 DEF OpenStaysConnected, DeadAreDown, Up
<1>3. CASE Start
  <2>1. UNCHANGED <<connections, socket>> /\ (bcast' = bcast \/ bcast'.dead = {})
    <3>1. CASE connections = {}
      BY <1>3, <3>1 DEF Start
    <3>2. CASE connections # {}
      <4>1. PICK s \in connections :
              bcast' = [at |-> "sending", payload |-> version,
                        size |-> Cardinality(connections), moved |-> FALSE,
                        left |-> connections \ {s}, cur |-> s, dead |-> {}]
        BY <1>3, <3>2 DEF Start
      <4>. QED
        BY <1>3, <4>1 DEF Start
    <3>. QED
      BY <3>1, <3>2
  <2>. QED
    BY <1>1, <1>2, <2>1
<1>4. CASE Cancelled
  BY <1>2, <1>4 DEF Cancelled, Idle
<1>5. ASSUME NEW dead \in SUBSET Sockets, bcast.at = "sending", Advance(dead),
             \A s \in dead : ~Up(s), \A s \in Sockets : socket'[s].page = socket[s].page
      PROVE  OpenStaysConnected' /\ DeadAreDown'
  BY <1>5, AdvanceStep DEF OpenStaysConnected, DeadAreDown, Up
<1>6. CASE Sent
  <2>1. \A s \in Sockets : socket'[s].page = socket[s].page
    <3>1. CASE Up(bcast.cur)
      <4>1. socket' = [socket EXCEPT ![bcast.cur].queue = Append(@, bcast.payload)]
        BY <1>6, <3>1 DEF Sent
      <4>. QED
        BY <1>0, <4>1 DEF Messages
    <3>2. CASE ~Up(bcast.cur)
      BY <1>6, <3>2 DEF Sent
    <3>. QED
      BY <3>1, <3>2
  <2>. QED
    BY <1>0, <1>5, <1>6, <2>1 DEF Sent, DeadAreDown
<1>7. CASE SendFailed
  <2>1. bcast.dead \cup {bcast.cur} \in SUBSET Sockets
    BY <1>0, <1>7 DEF SendFailed
  <2>2. \A s \in bcast.dead \cup {bcast.cur} : ~Up(s)
    BY <1>7 DEF SendFailed, DeadAreDown
  <2>. QED
    BY <1>5, <1>7, <2>1, <2>2 DEF SendFailed, NotesFailure
<1>8. ASSUME NEW s \in Sockets, Disconnect(s)
      PROVE  OpenStaysConnected' /\ DeadAreDown'
  <2>1. bcast'.dead = bcast.dead
    BY <1>0, <1>8 DEF Disconnect, Broadcasts
  <2>. QED
    BY <1>8, <2>1 DEF Disconnect, OpenStaysConnected, DeadAreDown, Up
<1>9. ASSUME NEW s \in Sockets, Drop(s)
      PROVE  OpenStaysConnected' /\ DeadAreDown'
  <2>1. \A t \in Sockets : socket'[t].page \in {None, socket[t].page}
    BY <1>0, <1>9 DEF Drop, Gone
  <2>. QED
    BY <1>0, <1>9, <2>1 DEF Drop, OpenStaysConnected, DeadAreDown, Up
<1>10. ASSUME NEW p \in Pages, Connect(p)
       PROVE  OpenStaysConnected' /\ DeadAreDown'
  <2>1. PICK s \in Sockets : /\ Unused(s)
                             /\ connections' = connections \cup {s}
                             /\ socket' = [socket EXCEPT ![s] = [page |-> p, queue |-> <<>>]]
                             /\ bcast' = IF bcast.at = "sending"
                                         THEN [bcast EXCEPT !.moved = TRUE, !.left = connections']
                                         ELSE bcast
    BY <1>10 DEF Connect
  <2>2. bcast'.dead = bcast.dead /\ s \notin bcast.dead
    BY <1>0, <2>1 DEF Broadcasts, Unused
  <2>3. \A t \in Sockets \ {s} : socket'[t] = socket[t]
    BY <1>0, <2>1
  <2>. QED
    BY <1>0, <2>1, <2>2, <2>3 DEF OpenStaysConnected, DeadAreDown, Up
<1>11. ASSUME NEW p \in Pages, Receive(p)
       PROVE  OpenStaysConnected' /\ DeadAreDown'
  <2>1. \A t \in Sockets : socket'[t].page = socket[t].page
    BY <1>0, <1>11 DEF Receive, SocketOf, Messages
  <2>. QED
    BY <1>0, <1>11, <2>1 DEF Receive, OpenStaysConnected, DeadAreDown, Up
<1>. QED
  BY <1>1, <1>3, <1>4, <1>6, <1>7, <1>8, <1>9, <1>10, <1>11
     DEF Next, Sending, Commit, Settle, Bootstrap, Bootstrapped, vars

(* However connections come and go while a broadcast sends, what it removes  *)
(* at its end are connections that have failed: an open page stays among     *)
(* those the next broadcast sends to (main.py:69-77, 1064-1074).             *)
THEOREM OpenPagesStay == Spec => []OpenStaysConnected
<1>1. OInv => OpenStaysConnected
  BY DEF OInv
<1>. QED
  BY <1>1, InitOInv, StepOInv, PTL DEF Spec
=============================================================================
