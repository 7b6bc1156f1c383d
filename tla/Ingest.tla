------------------------------- MODULE Ingest -------------------------------
(***************************************************************************)
(* What storing a snapshot promises: it is applied to the clients as a     *)
(* whole, in one step.  A client listed is online and has an open session; *)
(* a client a complete snapshot does not list, and nothing has listed for  *)
(* longer than the confirmation time, is offline and its session closed.   *)
(*                                                                         *)
(* Module Presence is built on this promise; module IngestTxn shows that   *)
(* the statements of process_snapshot keep it.                             *)
(***************************************************************************)
EXTENDS Integers

CONSTANTS
    Macs,          \* the clients
    Confirmation,  \* _OFFLINE_CONFIRMATION_SECONDS
    Instants       \* when snapshots are collected

ASSUME InstantsAssumption == Instants \subseteq Nat /\ Confirmation \in Nat

VARIABLE clients

(* last: the greatest id a session of the client has had. *)
Row == [known : BOOLEAN, online : BOOLEAN, seen : Nat,
        sessions : SUBSET [id : Nat, open : BOOLEAN], last : Nat]

Unknown == [known |-> FALSE, online |-> FALSE, seen |-> 0, sessions |-> {}, last |-> 0]

OpenIn(c) == {s \in c.sessions : s.open}

LatestOpen(c) == {s \in OpenIn(c) : \A r \in OpenIn(c) : r.id <= s.id}

WithSession(c) ==
    [c EXCEPT !.sessions = @ \cup {[id |-> c.last + 1, open |-> TRUE]}, !.last = @ + 1]

Listed(c, at) ==
    [IF OpenIn(c) = {} THEN WithSession(c) ELSE c
       EXCEPT !.known = TRUE, !.online = TRUE, !.seen = at]

Closed(sessions, ended) == {IF s \in ended THEN [s EXCEPT !.open = FALSE] ELSE s : s \in sessions}

Missing(c, at) ==
    IF c.online /\ at > c.seen + Confirmation
    THEN [c EXCEPT !.online = FALSE, !.sessions = Closed(@, LatestOpen(c))]
    ELSE c

Apply(at, macs, complete) ==
    clients' = [m \in Macs |->
                  IF m \in macs THEN Listed(clients[m], at)
                  ELSE IF complete THEN Missing(clients[m], at)
                  ELSE clients[m]]

Init == clients = [m \in Macs |-> Unknown]

Next == \E at \in Instants, macs \in SUBSET Macs, complete \in BOOLEAN :
           Apply(at, macs, complete)

Spec == Init /\ [][Next]_clients

=============================================================================
