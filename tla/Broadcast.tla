------------------------------ MODULE Broadcast ------------------------------
(***************************************************************************)
(* How a stored snapshot reaches the open pages: handle_snapshot and       *)
(* WebSocketManager in backend/main.py, and the two ways a page of         *)
(* frontend/index.html gets its state, GET /api/bootstrap and the socket.  *)
(*                                                                         *)
(* A snapshot is the number of snapshots committed by then.  broadcast     *)
(* iterates over the set of connections and suspends at every send, while  *)
(* connections come and go: Python compares the size of the set at every   *)
(* step of the iteration and raises when it has changed.  When as many     *)
(* have come as have gone the iteration goes on from the same place of its *)
(* table, which an addition may have laid out anew: it may then give a     *)
(* member again, and leave out one it has not given.                       *)
(* Abstracted: the login of a socket (module Auth) and the messages of a   *)
(* page to the server, which nobody reads.                                 *)
(***************************************************************************)
EXTENDS Integers, Sequences, FiniteSets

CONSTANTS
    Pages,       \* browser tabs
    Sockets,     \* the sockets in use at a time
    None,
    Capacity,    \* messages on the way before a send has to wait
    MaxVersion,  \* bound of the model on the snapshots committed
    MaxAnswers   \* bound of the model on the answers of bootstraps under way

ASSUME SocketsAssumption == IsFiniteSet(Sockets)

ASSUME NoneAssumption == None \notin Pages \cup Sockets

ASSUME BoundAssumption == Capacity \in Nat \ {0} /\ MaxVersion \in Nat \ {0}

VARIABLES
    version,      \* the last snapshot committed
    connections,  \* WebSocketManager.connections
    socket,       \* the page a socket is open to, and the messages on the way
    page,         \* the snapshot a page shows, the answer it waits for (0: none)
    bcast,        \* the broadcast under way
    calm          \* the pages and their network are left alone

vars == <<version, connections, socket, page, bcast, calm>>

-----------------------------------------------------------------------------
Versions == 0..MaxVersion

(* size: of the set when the iteration began; moved: there was an addition; *)
(* left: the members the iteration may still give.                          *)
Broadcasts == [at : {"idle", "sending"}, payload : Versions, size : Nat,
               moved : BOOLEAN, left : SUBSET Sockets, cur : Sockets \cup {None},
               dead : SUBSET Sockets]

Idle == [at |-> "idle", payload |-> 0, size |-> 0, moved |-> FALSE, left |-> {},
         cur |-> None, dead |-> {}]

Gone == [page |-> None, queue |-> <<>>]

Up(s) == socket[s].page # None

SocketOf(p) == {s \in Sockets : socket[s].page = p}

(* An object that neither the server nor a page refers to. *)
Unused(s) ==
    ~Up(s) /\ s \notin connections \cup bcast.dead \cup {bcast.cur}

-----------------------------------------------------------------------------
(* The server *)

(* process_snapshot in its thread, awaited or not (module Supervisor). *)
Commit ==
    /\ version < MaxVersion
    /\ version' = version + 1
    /\ UNCHANGED <<connections, socket, page, bcast, calm>>

(* serialize_clients and the others read the database, and broadcast runs  *)
(* up to its first await; with no connection there is none.                *)
Start ==
    /\ bcast.at = "idle"
    /\ IF connections = {}
       THEN UNCHANGED bcast
       ELSE \E s \in connections :
              bcast' = [at |-> "sending", payload |-> version,
                        size |-> Cardinality(connections), moved |-> FALSE,
                        left |-> connections \ {s}, cur |-> s, dead |-> {}]
    /\ UNCHANGED <<version, connections, socket, page, calm>>

SizeChanged == Cardinality(connections) # bcast.size

(* Mutants, here and below: a definition as a plausible bug would write it. *)
LeavesUnsent(dead) == (connections \ dead) \ bcast.left

WithoutDead(dead) == connections \ dead

GoOn(s, dead) ==
    /\ bcast' = [bcast EXCEPT !.left = @ \ {s}, !.cur = s, !.dead = dead]
    /\ UNCHANGED connections

(* From one await to the next: the following member; or the end, where the *)
(* dead are removed; or the RuntimeError, which leaves them where they are. *)
Advance(dead) ==
    IF SizeChanged
    THEN bcast' = Idle /\ UNCHANGED connections
    ELSE \/ \E s \in bcast.left : GoOn(s, dead)
         \/ /\ bcast.left = {} \/ bcast.moved
            /\ bcast' = Idle
            /\ connections' = WithoutDead(dead)

(* send_json returns: the message is on its way, or the peer has gone and  *)
(* nobody has noticed.  It waits while the page has not read the last ones. *)
Sent ==
    /\ bcast.at = "sending"
    /\ IF Up(bcast.cur)
       THEN /\ Len(socket[bcast.cur].queue) < Capacity
            /\ socket' = [socket EXCEPT ![bcast.cur].queue = Append(@, bcast.payload)]
       ELSE UNCHANGED socket
    /\ Advance(bcast.dead)
    /\ UNCHANGED <<version, page, calm>>

RaisesAtFailure == bcast' = Idle /\ UNCHANGED connections

(* The exception is kept for the end of the loop. *)
NotesFailure == Advance(bcast.dead \cup {bcast.cur})

(* send_json raises: the peer has gone. *)
SendFailed ==
    /\ bcast.at = "sending"
    /\ ~Up(bcast.cur)
    /\ NotesFailure
    /\ UNCHANGED <<version, socket, page, calm>>

(* The collector's task is cancelled by a new configuration or a shutdown. *)
Cancelled ==
    /\ bcast.at = "sending"
    /\ ~calm
    /\ bcast' = Idle
    /\ UNCHANGED <<version, connections, socket, page, calm>>

(* receive_text raises WebSocketDisconnect. *)
Disconnect(s) ==
    /\ s \in connections
    /\ ~Up(s)
    /\ connections' = connections \ {s}
    /\ bcast' = [bcast EXCEPT !.left = @ \ {s}]
    /\ UNCHANGED <<version, socket, page, calm>>

-----------------------------------------------------------------------------
(* The pages *)

(* The server answers GET /api/bootstrap... *)
Bootstrap(p) ==
    /\ ~calm
    /\ page[p].asked = 0
    /\ Cardinality({q \in Pages : page[q].asked # 0}) < MaxAnswers
    /\ page' = [page EXCEPT ![p].asked = version]
    /\ UNCHANGED <<version, connections, socket, bcast, calm>>

(* ... and the page takes over the answer. *)
Bootstrapped(p) ==
    /\ page[p].asked # 0
    /\ page' = [page EXCEPT ![p] = [shown |-> @.asked, asked |-> 0]]
    /\ UNCHANGED <<version, connections, socket, bcast, calm>>

MayConnect(p) == SocketOf(p) = {}

(* connectWs, at the end of bootstrap or four seconds after a close. *)
Connect(p) ==
    /\ page[p].shown # 0
    /\ MayConnect(p)
    /\ \E s \in Sockets :
          /\ Unused(s)
          /\ connections' = connections \cup {s}
          /\ socket' = [socket EXCEPT ![s] = [page |-> p, queue |-> <<>>]]
          /\ bcast' = IF bcast.at = "sending"
                      THEN [bcast EXCEPT !.moved = TRUE, !.left = connections']
                      ELSE bcast
    /\ UNCHANGED <<version, page, calm>>

(* onmessage *)
Receive(p) ==
    /\ \E s \in SocketOf(p) :
          /\ socket[s].queue # <<>>
          /\ page' = [page EXCEPT ![p].shown = Head(socket[s].queue)]
          /\ socket' = [socket EXCEPT ![s].queue = Tail(@)]
    /\ UNCHANGED <<version, connections, bcast, calm>>

(* The network is lost, or the tab closed, and what was on its way is lost. *)
Drop(s) ==
    /\ ~calm
    /\ Up(s)
    /\ socket' = [socket EXCEPT ![s] = Gone]
    /\ UNCHANGED <<version, connections, page, bcast, calm>>

Settle ==
    /\ ~calm
    /\ calm' = TRUE
    /\ UNCHANGED <<version, connections, socket, page, bcast>>

Init ==
    /\ version = 1
    /\ connections = {}
    /\ socket = [s \in Sockets |-> Gone]
    /\ page = [p \in Pages |-> [shown |-> 0, asked |-> 0]]
    /\ bcast = Idle
    /\ calm = FALSE

Sending == Sent \/ SendFailed

Next ==
    \/ Commit \/ Start \/ Sending \/ Cancelled \/ Settle
    \/ \E s \in Sockets : Disconnect(s) \/ Drop(s)
    \/ \E p \in Pages :
          Bootstrap(p) \/ Bootstrapped(p) \/ Connect(p) \/ Receive(p)

Spec == Init /\ [][Next]_vars

(* The collector polls on, a send to an open page ends when it has read,    *)
(* and a page that is left alone reads what it gets.  That the server       *)
(* notices a lost peer otherwise than by a failed send is not assumed, nor  *)
(* that a bootstrap is ever answered.                                       *)
Fairness ==
    /\ WF_vars(Start)
    /\ WF_vars(Sending)
    /\ \A p \in Pages : WF_vars(Receive(p))

FairSpec == Spec /\ Fairness
-----------------------------------------------------------------------------
(* Properties *)

(* Type correctness; a page has one socket at most, and a broadcast that     *)
(* sends has a member it sends to.                                           *)
TypeOK ==
    /\ version \in Versions
    /\ connections \subseteq Sockets
    /\ socket \in [Sockets -> [page : Pages \cup {None}, queue : Seq(Versions)]]
    /\ page \in [Pages -> [shown : Versions, asked : Versions]]
    /\ bcast \in Broadcasts
    /\ calm \in BOOLEAN
    /\ \A p \in Pages : \A s, t \in SocketOf(p) : s = t
    /\ bcast.at = "sending" => bcast.cur # None

(* The server forgets no page that is open: however connections come and go  *)
(* while a broadcast sends, what it removes at its end are connections that  *)
(* have failed, and one that came meanwhile stays (main.py:69-77,            *)
(* 1064-1074).                                                               *)
OpenStaysConnected == \A s \in Sockets : Up(s) => s \in connections

(* However many connections have been lost in whatever state, once pages    *)
(* and network are left alone every connected page comes to show the last   *)
(* snapshot: neither a dead connection nor a broadcast that was broken off  *)
(* keeps it from the others (main.py:69-77).                                 *)
PagesCatchUp ==
    <>calm => []<>(\A p \in Pages : SocketOf(p) # {} => page[p].shown = version)
=============================================================================
