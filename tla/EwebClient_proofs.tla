-------------------------- MODULE EwebClient_proofs --------------------------
(***************************************************************************)
(* Proofs about module EwebClient, for any session ids: a snapshot is of   *)
(* one session, and one expiry is no failure of a fetch.                   *)
(*                                                                         *)
(* The session a fetch works with is the one its commands were sent in     *)
(* (CommandsInSession), and a session that the router no longer accepts    *)
(* has been counted as ended (EndedIsCounted), twice once the fetch has    *)
(* logged in again.                                                        *)
(***************************************************************************)
EXTENDS EwebClient, TLAPS

(* Both commands under way were sent in the session that is held. *)
CommandsInSession ==
    fetch.at = "commands" =>
        /\ session # None
        /\ \A m \in Modules : cmds[m].sid = session

(* A session held that the router has ended is among those counted. *)
EndedIsCounted ==
    /\ session # None /\ session # accepted =>
          accepted = None /\ tally.expiries >= 1
    /\ fetch.retried => tally.expiries >= 1
    /\ fetch.retried /\ session # None /\ session # accepted => tally.expiries = 2

IInv == TypeOK /\ PairOfOneSession /\ OneExpiryIsSurvived /\ CommandsInSession /\ EndedIsCounted

-----------------------------------------------------------------------------
(* The places of a fetch and what went wrong in it. *)
Fetch == [at : {"idle", "key", "auth", "gather", "commands", "failed"},
          retried : BOOLEAN, attempt : 0..1]

Tally == [expiries : 0..2, faults : BOOLEAN]

Command == [at : {"unsent", "sent", "answered"}, sid : Sids \cup {None}]

LEMMA Constants == None \notin Sids /\ Quiet \in Fetch /\ Well \in Tally
                   /\ Unsent \in [Modules -> Command]
BY SidsAssumption DEF Quiet, Fetch, Well, Tally, Unsent, Command

(* The fetch at the key of a login. *)
LEMMA AtKey ==
    ASSUME NEW f \in Fetch
    PROVE  LoggingIn(f) \in Fetch /\ LoggingIn(f).at = "key" /\ LoggingIn(f).retried = f.retried
<1>1. f.retried \in BOOLEAN
  BY DEF Fetch
<1>. QED
  BY <1>1 DEF LoggingIn, Fetch

LEMMA InitIInv == Init => IInv
BY Constants, SidsAssumption DEF Init, IInv, TypeOK, PairOfOneSession, OneExpiryIsSurvived,
   CommandsInSession, EndedIsCounted, Quiet, Well, Fetch, Tally, Command

(* Steps that only move the fetch on, within or out of its login. *)
LEMMA FetchMoves ==
    ASSUME IInv, UNCHANGED <<session, accepted, cmds, result>>,
           fetch' \in Fetch, tally' \in Tally,
           fetch'.at # "commands",
           fetch'.retried => fetch.retried,
           tally'.expiries = tally.expiries,
           fetch'.at = "failed" => tally'.faults
    PROVE  IInv'
BY DEF IInv, TypeOK, PairOfOneSession, OneExpiryIsSurvived, CommandsInSession,
   EndedIsCounted, Fetch, Tally

LEMMA StepIInv == IInv /\ [Next]_vars => IInv'
<1> SUFFICES ASSUME IInv, [Next]_vars PROVE IInv'
  OBVIOUS
<1> USE Constants
<1>0. /\ TypeOK /\ PairOfOneSession /\ OneExpiryIsSurvived /\ CommandsInSession /\ EndedIsCounted
      /\ session \in Sids \cup {None} /\ accepted \in Sids \cup {None}
      /\ fetch \in Fetch /\ tally \in Tally /\ cmds \in [Modules -> Command]
      /\ result \in [Modules -> Sids \cup {None}]
      /\ fetch.retried \in BOOLEAN /\ tally.expiries \in 0..2
  BY DEF IInv, TypeOK, Fetch, Tally, Command
<1>1. CASE UNCHANGED vars
  BY <1>1 DEF vars, IInv, TypeOK, PairOfOneSession, OneExpiryIsSurvived,
              CommandsInSession, EndedIsCounted
<1>2. CASE Start
  <2>1. Quiet.retried = FALSE
    BY DEF Quiet
  <2>2. /\ LoggingIn(Quiet) \in Fetch /\ [Quiet EXCEPT !.at = "gather"] \in Fetch
        /\ LoggingIn(Quiet).retried = FALSE /\ LoggingIn(Quiet).at = "key"
        /\ [Quiet EXCEPT !.at = "gather"].retried = FALSE
        /\ [Quiet EXCEPT !.at = "gather"].at = "gather"
    BY <2>1 DEF LoggingIn, Quiet, Fetch
  <2>. QED
    BY <1>0, <1>2, <2>2, FetchMoves DEF Start
<1>3. CASE LoadKey
  <2>1. /\ fetch' \in Fetch /\ fetch'.at = "auth"
        /\ fetch'.retried = fetch.retried
    BY <1>0, <1>3 DEF LoadKey, Fetch
  <2>. QED
    BY <1>0, <1>3, <2>1, FetchMoves DEF LoadKey
<1>4. CASE LoginError
  <2>1. /\ fetch' \in Fetch /\ fetch'.at = "failed"
        /\ fetch'.retried = fetch.retried
    BY <1>0, <1>4 DEF LoginError, Fetch, Raise
  <2>2. tally' \in Tally /\ tally'.expiries = tally.expiries /\ tally'.faults
    BY <1>0, <1>4 DEF LoginError, Tally
  <2>. QED
    BY <1>0, <1>4, <2>1, <2>2, FetchMoves DEF LoginError
<1>5. CASE Reload
  <2>1. /\ fetch' \in Fetch /\ fetch'.at = "key"
        /\ fetch'.retried = fetch.retried
    <3>1. fetch' = [LoggingIn(fetch) EXCEPT !.attempt = 1]
      BY <1>5 DEF Reload
    <3>2. LoggingIn(fetch) \in Fetch /\ LoggingIn(fetch).at = "key"
          /\ LoggingIn(fetch).retried = fetch.retried
      BY <1>0, AtKey
    <3>. QED
      BY <3>1, <3>2 DEF Fetch
  <2>. QED
    BY <1>0, <1>5, <2>1, FetchMoves DEF Reload
<1>6. CASE Reject
  <2>1. /\ fetch' \in Fetch /\ fetch'.at = "failed"
        /\ fetch'.retried = fetch.retried
    BY <1>0, <1>6 DEF Reject, Fetch, Raise
  <2>2. tally' \in Tally /\ tally'.expiries = tally.expiries /\ tally'.faults
    BY <1>0, <1>6 DEF Reject, Tally
  <2>. QED
    BY <1>0, <1>6, <2>1, <2>2, FetchMoves DEF Reject
<1>7. ASSUME NEW sid \in Sids, Login(sid)
      PROVE  IInv'
  <2>1. /\ fetch' \in Fetch /\ fetch'.at = "gather" /\ fetch'.retried = fetch.retried
        /\ session' = sid /\ accepted' = sid /\ UNCHANGED <<cmds, result, tally>>
    BY <1>0, <1>7 DEF Login, Fetch
  <2>. QED
    BY <1>0, <2>1 DEF IInv, TypeOK, PairOfOneSession, OneExpiryIsSurvived,
       CommandsInSession, EndedIsCounted, Fetch, Tally, Command
<1>8. CASE Gather
  <2>1. /\ fetch' \in Fetch /\ fetch'.at = "commands" /\ fetch'.retried = fetch.retried
        /\ session # None /\ UNCHANGED <<session, accepted, result, tally>>
    BY <1>0, <1>8 DEF Gather, Fetch
  <2>2. cmds' \in [Modules -> Command] /\ \A m \in Modules : cmds'[m].sid = session
    BY <1>0, <1>8 DEF Gather, SendBoth, Command
  <2>. QED
    BY <1>0, <2>1, <2>2 DEF IInv, TypeOK, PairOfOneSession, OneExpiryIsSurvived,
       CommandsInSession, EndedIsCounted, Fetch, Tally, Command
<1>9. ASSUME NEW m \in Modules, Answer(m)
      PROVE  IInv'
  <2>1. cmds' \in [Modules -> Command] /\ \A n \in Modules : cmds'[n].sid = cmds[n].sid
    BY <1>0, <1>9 DEF Answer, Command
  <2>. QED
    BY <1>0, <1>9, <2>1 DEF Answer, IInv, TypeOK, PairOfOneSession, OneExpiryIsSurvived,
       CommandsInSession, EndedIsCounted, Fetch, Tally, Command
<1>10. ASSUME NEW m \in Modules, Denied(m)
       PROVE  IInv'
  <2>1. /\ session # None /\ session # accepted
        /\ UNCHANGED <<accepted, cmds, result, tally>>
    BY <1>0, <1>10 DEF Denied, CommandsInSession
  <2>2. CASE ~fetch.retried
    <3>1. session' = None /\ fetch' = [LoggingIn(fetch) EXCEPT !.retried = TRUE]
      BY <1>10, <2>2 DEF Denied, LogsInAgain
    <3>2. fetch' \in Fetch /\ fetch'.at = "key"
      <4>1. LoggingIn(fetch) \in Fetch /\ LoggingIn(fetch).at = "key"
        BY <1>0, AtKey
      <4>. QED
        BY <3>1, <4>1 DEF Fetch
    <3>. QED
      BY <1>0, <2>1, <3>1, <3>2 DEF IInv, TypeOK, PairOfOneSession, OneExpiryIsSurvived,
         CommandsInSession, EndedIsCounted, Fetch, Tally, Command
  <2>3. CASE fetch.retried
    <3>1. session' = session /\ fetch' \in Fetch /\ fetch'.at = "failed"
          /\ fetch'.retried = fetch.retried
      BY <1>0, <1>10, <2>3, <2>1 DEF Denied, LogsInAgain, Raise, Fetch
    <3>. QED
      BY <1>0, <2>1, <2>3, <3>1 DEF IInv, TypeOK, PairOfOneSession, OneExpiryIsSurvived,
         CommandsInSession, EndedIsCounted, Fetch, Tally, Command
  <2>. QED
    BY <2>2, <2>3
<1>11. ASSUME NEW m \in Modules, CommandError(m)
       PROVE  IInv'
  <2>1. /\ fetch' \in Fetch /\ fetch'.at = "failed"
        /\ fetch'.retried = fetch.retried
    BY <1>0, <1>11 DEF CommandError, Fetch, Raise
  <2>2. tally' \in Tally /\ tally'.expiries = tally.expiries /\ tally'.faults
    BY <1>0, <1>11 DEF CommandError, Tally
  <2>. QED
    BY <1>0, <1>11, <2>1, <2>2, FetchMoves DEF CommandError
<1>12. CASE Return
  <2>1. /\ fetch' = Quiet /\ cmds' = Unsent /\ UNCHANGED <<session, accepted>>
        /\ \A m \in Modules : cmds[m].sid = session
        /\ result' = [m \in Modules |-> cmds[m].sid]
    BY <1>0, <1>12 DEF Return, CommandsInSession
  <2>2. /\ tally' \in Tally
        /\ tally'.expiries = IF session = accepted THEN 0 ELSE 1
    <3> DEFINE n == IF session = accepted THEN 0 ELSE 1
    <3>1. n \in 0..2 /\ tally' = [Well EXCEPT !.expiries = n]
      BY <1>12 DEF Return
    <3> HIDE DEF n
    <3>2. [Well EXCEPT !.expiries = n] \in Tally /\ [Well EXCEPT !.expiries = n].expiries = n
      BY <3>1 DEF Well, Tally
    <3>. QED
      BY <3>1, <3>2 DEF n
  <2>3. fetch'.at = "idle" /\ fetch'.retried = FALSE
    BY <2>1 DEF Quiet
  <2>4. result' \in [Modules -> Sids \cup {None}] /\ \A m \in Modules : result'[m] = session
    BY <1>0, <2>1
  <2>5. TypeOK' /\ PairOfOneSession'
    BY <1>0, <2>1, <2>2, <2>4 DEF TypeOK, PairOfOneSession, Fetch, Tally, Command
  <2>. QED
    BY <1>0, <2>1, <2>2, <2>3, <2>5 DEF IInv, OneExpiryIsSurvived, CommandsInSession,
       EndedIsCounted
<1>13. CASE Reset
  <2>1. /\ fetch' = Quiet /\ cmds' = Unsent /\ tally' = Well /\ session' = None
        /\ UNCHANGED <<accepted, result>>
    BY <1>13 DEF Reset
  <2>2. fetch'.at = "idle" /\ fetch'.retried = FALSE
    BY <2>1 DEF Quiet
  <2>3. TypeOK'
    BY <1>0, <2>1 DEF TypeOK, Fetch, Tally, Command
  <2>. QED
    BY <1>0, <2>1, <2>2, <2>3 DEF IInv, PairOfOneSession, OneExpiryIsSurvived,
       CommandsInSession, EndedIsCounted
<1>14. CASE Expire
  <2>1. accepted # None /\ accepted' = None /\ UNCHANGED <<session, fetch, cmds, result>>
    BY <1>14 DEF Expire
  <2> DEFINE n == IF session = accepted /\ tally.expiries < 2
                  THEN tally.expiries + 1 ELSE tally.expiries
  <2>2. n \in 0..2 /\ tally' = [tally EXCEPT !.expiries = n]
    BY <1>0, <1>14 DEF Expire
  <2>3. tally' \in Tally /\ tally'.expiries = n /\ tally'.faults = tally.faults
    BY <1>0, <2>2 DEF Tally
  <2>4. TypeOK'
    BY <1>0, <2>1, <2>3 DEF TypeOK, Fetch, Tally, Command
  <2>5. session # accepted => session = None
    BY <1>0, <2>1 DEF EndedIsCounted
  <2>6. EndedIsCounted'
    BY <1>0, <2>1, <2>3, <2>5 DEF EndedIsCounted
  <2>7. OneExpiryIsSurvived'
    BY <1>0, <2>1, <2>3 DEF OneExpiryIsSurvived
  <2>. QED
    BY <1>0, <2>1, <2>4, <2>6, <2>7 DEF IInv, PairOfOneSession, CommandsInSession
<1>. QED
  BY <1>1, <1>2, <1>3, <1>4, <1>5, <1>6, <1>7, <1>8, <1>9, <1>10, <1>11, <1>12, <1>13, <1>14
  DEF Next, Proceed

LEMMA Invariance == Spec => []IInv
BY InitIInv, StepIInv, PTL DEF Spec

(* Type correctness. *)
THEOREM TypeCorrect == Spec => []TypeOK
BY Invariance, PTL DEF IInv

(* Both parts of a snapshot are obtained in one session with the router,    *)
(* whenever it ends sessions (eweb_api.py:108-130).                          *)
THEOREM OneSession == Spec => []PairOfOneSession
BY Invariance, PTL DEF IInv

(* A fetch fails only if something else is wrong than the end of its first  *)
(* session (eweb_api.py:108-115).                                            *)
THEOREM ExpirySurvived == Spec => []OneExpiryIsSurvived
BY Invariance, PTL DEF IInv
=============================================================================
