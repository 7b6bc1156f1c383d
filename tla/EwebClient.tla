----------------------------- MODULE EwebClient -----------------------------
(***************************************************************************)
(* EwebApiClient (backend/collector/eweb_api.py): the session with the     *)
(* router, and fetch_snapshot_payloads, which asks for the topology and    *)
(* the clients at the same time and logs in again, once, when the router   *)
(* says that the session has expired.                                      *)
(*                                                                         *)
(* Supervisor has a fetch as one step that answers or fails; this module   *)
(* is what that step is made of.  The router is external: it may end a     *)
(* session at any time, answer any request with an error or not at all     *)
(* (each request has a timeout), and renew the key of its login page.      *)
(***************************************************************************)
EXTENDS Naturals, FiniteSets

CONSTANTS
    Sids,  \* session ids of the router, which it uses in turn
    None

(* A fetch sees two sessions, so three ids do to tell them apart. *)
ASSUME SidsAssumption ==
    /\ IsFiniteSet(Sids) /\ Cardinality(Sids) >= 3 /\ None \notin Sids

VARIABLES
    session,   \* self.session, by its sid
    accepted,  \* the session the router accepts at present
    fetch,     \* where the fetch is
    cmds,      \* the two commands: with which sid they were sent, and their fate
    result,    \* the sids under which the last pair of payloads was obtained
    tally      \* what went wrong in the fetch, for the properties

vars == <<session, accepted, fetch, cmds, result, tally>>

-----------------------------------------------------------------------------
Modules == {"local_topology", "user_list"}

Unsent == [m \in Modules |-> [at |-> "unsent", sid |-> None]]

(* retried: the fetch is in its except clause; attempt: the loop of login.  *)
Quiet == [at |-> "idle", retried |-> FALSE, attempt |-> 0]

(* expiries: sessions ended since the last fetch that returned, up to 2;    *)
(* faults: any other error.                                                 *)
Well == [expiries |-> 0, faults |-> FALSE]

Init ==
    /\ session = None
    /\ accepted = None
    /\ fetch = Quiet
    /\ cmds = Unsent
    /\ result = [m \in Modules |-> None]
    /\ tally = Well

(* A call of login: its first attempt. *)
LoggingIn(f) == [at |-> "key", retried |-> f.retried, attempt |-> 0]

(* _ensure_session, at the start of a fetch. *)
Start ==
    /\ fetch.at = "idle"
    /\ fetch' = IF session = None THEN LoggingIn(Quiet) ELSE [Quiet EXCEPT !.at = "gather"]
    /\ UNCHANGED <<session, accepted, cmds, result, tally>>

(* _load_login_key found the key in the login page. *)
LoadKey ==
    /\ fetch.at = "key"
    /\ fetch' = [fetch EXCEPT !.at = "auth"]
    /\ UNCHANGED <<session, accepted, cmds, result, tally>>

Raise == [fetch EXCEPT !.at = "failed"]

(* The page cannot be read, has no key, or the answer to login is no object. *)
LoginError ==
    /\ fetch.at \in {"key", "auth"}
    /\ fetch' = Raise
    /\ tally' = [tally EXCEPT !.faults = TRUE]
    /\ UNCHANGED <<session, accepted, cmds, result>>

(* The key was renewed after it was read: the login page has to be reloaded. *)
Reload ==
    /\ fetch.at = "auth"
    /\ fetch.attempt = 0
    /\ fetch' = [LoggingIn(fetch) EXCEPT !.attempt = 1]
    /\ UNCHANGED <<session, accepted, cmds, result, tally>>

(* No sid in the answer: the password is wrong, or the key was renewed      *)
(* twice.  login is outside the try for the first session, and inside the   *)
(* except clause for the second: its exception leaves the fetch.            *)
Reject ==
    /\ fetch.at = "auth"
    /\ fetch' = Raise
    /\ tally' = [tally EXCEPT !.faults = TRUE]
    /\ UNCHANGED <<session, accepted, cmds, result>>

Login(sid) ==
    /\ fetch.at = "auth"
    /\ sid # accepted
    /\ \A m \in Modules : sid # cmds[m].sid
    /\ session' = sid
    /\ accepted' = sid
    /\ fetch' = [fetch EXCEPT !.at = "gather"]
    /\ UNCHANGED <<cmds, result, tally>>

(* Mutants, here and below: a definition as a plausible bug would write it. *)
SendMissing ==
    [m \in Modules |-> IF cmds[m].at = "answered" THEN cmds[m]
                       ELSE [at |-> "sent", sid |-> session]]

SendBoth == [m \in Modules |-> [at |-> "sent", sid |-> session]]

(* asyncio.gather of two _signed_command.  Each reads self.session before   *)
(* its first await, so both do before an answer can resume either.          *)
Gather ==
    /\ fetch.at = "gather"
    /\ session # None
    /\ cmds' = SendBoth
    /\ fetch' = [fetch EXCEPT !.at = "commands"]
    /\ UNCHANGED <<session, accepted, result, tally>>

(* The router answers a command with its data. *)
Answer(m) ==
    /\ fetch.at = "commands"
    /\ cmds[m].at = "sent"
    /\ cmds[m].sid = accepted
    /\ cmds' = [cmds EXCEPT ![m].at = "answered"]
    /\ UNCHANGED <<session, accepted, fetch, result, tally>>

AlwaysAgain(f) == TRUE
NeverAgain(f) == FALSE

(* The try is around the first gather only. *)
LogsInAgain(f) == ~f.retried

(* The first exception leaves gather.  What becomes of the other command    *)
(* then, which is not cancelled, nobody awaits; it changes nothing.         *)
Denied(m) ==
    /\ fetch.at = "commands"
    /\ cmds[m].at = "sent"
    /\ cmds[m].sid # accepted
    /\ IF LogsInAgain(fetch)
       THEN /\ session' = None
            /\ fetch' = [LoggingIn(fetch) EXCEPT !.retried = TRUE]
       ELSE /\ fetch' = Raise
            /\ UNCHANGED session
    /\ UNCHANGED <<accepted, cmds, result, tally>>

(* A timeout, an answer that is no JSON object, or a code other than 0. *)
CommandError(m) ==
    /\ fetch.at = "commands"
    /\ cmds[m].at = "sent"
    /\ fetch' = Raise
    /\ tally' = [tally EXCEPT !.faults = TRUE]
    /\ UNCHANGED <<session, accepted, cmds, result>>

Return ==
    /\ fetch.at = "commands"
    /\ \A m \in Modules : cmds[m].at = "answered"
    /\ result' = [m \in Modules |-> cmds[m].sid]
    /\ fetch' = Quiet
    /\ cmds' = Unsent
    /\ tally' = [Well EXCEPT !.expiries = IF session = accepted THEN 0 ELSE 1]
    /\ UNCHANGED <<session, accepted>>

(* The exception reaches the collector, whose _reset_api closes the client; *)
(* the next fetch is that of a new one.                                     *)
Reset ==
    /\ fetch.at = "failed"
    /\ session' = None
    /\ fetch' = Quiet
    /\ cmds' = Unsent
    /\ tally' = Well
    /\ UNCHANGED <<accepted, result>>

(* The router ends the session (external). *)
Expire ==
    /\ accepted # None
    /\ accepted' = None
    /\ tally' = [tally EXCEPT !.expiries = IF session = accepted /\ @ < 2 THEN @ + 1 ELSE @]
    /\ UNCHANGED <<session, fetch, cmds, result>>

(* The steps of a fetch. *)
Proceed ==
    \/ LoadKey
    \/ LoginError
    \/ Reload
    \/ Reject
    \/ \E sid \in Sids : Login(sid)
    \/ Gather
    \/ \E m \in Modules : Answer(m) \/ Denied(m) \/ CommandError(m)
    \/ Return
    \/ Reset

Next == Start \/ Proceed \/ Expire

(* A request is answered or times out, and the event loop resumes the fetch. *)
Spec == Init /\ [][Next]_vars /\ WF_vars(Proceed)

-----------------------------------------------------------------------------
(* Properties *)

(* Type correctness. *)
TypeOK ==
    /\ session \in Sids \cup {None} /\ accepted \in Sids \cup {None}
    /\ fetch \in [at : {"idle", "key", "auth", "gather", "commands", "failed"},
                  retried : BOOLEAN, attempt : 0..1]
    /\ cmds \in [Modules -> [at : {"unsent", "sent", "answered"}, sid : Sids \cup {None}]]
    /\ result \in [Modules -> Sids \cup {None}]
    /\ tally \in [expiries : 0..2, faults : BOOLEAN]

(* The clients and the topology that make one snapshot were obtained in one  *)
(* session, whenever the session expired: an answer from before the second   *)
(* login is never put together with one from after (eweb_api.py:108-130).    *)
PairOfOneSession == \A m, n \in Modules : result[m] = result[n]

(* The end of a session is no failure of the fetch, whether it came before   *)
(* the commands, between them or between their answers.  A fetch fails only  *)
(* if something else is wrong, or if the new session too is ended before it  *)
(* has served both commands (eweb_api.py:108-115).                           *)
OneExpiryIsSurvived == fetch.at = "failed" => tally.faults \/ tally.expiries = 2

(* No fetch goes on for ever, not even with a router that ends every session *)
(* before it is used and renews its key every time (eweb_api.py:76, 112-115).*)
FetchEnds == fetch.at # "idle" ~> fetch.at = "idle"
=============================================================================
