-------------------------------- MODULE Auth --------------------------------
(***************************************************************************)
(* backend/auth.py: the administrator's row and sessions in control.db,    *)
(* and the requests that read them and write them.                         *)
(*                                                                         *)
(* The endpoints are plain functions, so they run in threads, and the      *)
(* command line is another process.  Each operation reads its rows at      *)
(* once, verifies a password for a while, and writes in one step at the    *)
(* end: sqlite3 begins its transaction at the first write, and the lock    *)
(* that a write takes is kept until the commit.                            *)
(* A password stands for itself and its hash, a token for a random one and *)
(* its hash.  The CSRF token goes with the session and is not shown.       *)
(***************************************************************************)
EXTENDS Integers, FiniteSets

CONSTANTS
    Requests,     \* the requests that are served at a time
    Passwords,
    Tokens,       \* the session tokens in use
    NULL,         \* SQL NULL, the absence of a row
    Limit,        \* failed logins of an address in ten minutes
    MaxVersion    \* bound of the model on password_version

ASSUME NullAssumption == NULL \notin Passwords \cup Tokens

ASSUME RequestsAssumption == IsFiniteSet(Requests)

ASSUME LimitAssumption == Limit \in Nat \ {0} /\ MaxVersion \in Nat \ {0}

VARIABLES
    admin,       \* the row of admin_credentials
    sessions,    \* admin_sessions, by token
    expired,     \* the tokens whose expires_at has passed
    failures,    \* len(login_failures[ip])
    req,         \* what every request has read
    former,      \* history: the passwords that have been current
    overlapped   \* history: a change was written over another

vars == <<admin, sessions, expired, failures, req, former, overlapped>>

-----------------------------------------------------------------------------
(* A hash has the parameters of the hasher as it is now, or as it was. *)
Hashings == {"before", "now"}

AdminRow == [password : Passwords, version : Nat, hashed : Hashings]

(* version: password_version; password: history, what the session was had for. *)
Session == [version : Nat, password : Passwords]

Places == {"idle", "setup", "login", "verified", "entered", "lookup", "touch",
           "purge", "accepted", "change", "reset"}

Request == [at : Places, token : Tokens \cup {NULL}, item : Nat,
            given : Passwords \cup {NULL}, new : Passwords \cup {NULL},
            seen : AdminRow \cup {NULL}]

Idle == [at |-> "idle", token |-> NULL, item |-> 0,
         given |-> NULL, new |-> NULL, seen |-> NULL]

ASSUME RowAssumption == NULL \notin AdminRow \cup Session

Go(r, x) == req' = [req EXCEPT ![r] = x]

Done(r) == Go(r, Idle)

Valid(t) == sessions[t] # NULL /\ admin # NULL /\ t \notin expired
            /\ sessions[t].version = admin.version

(* The sessions that let a request in, and the password each was had for. *)
Live == [t \in Tokens |-> IF Valid(t) THEN sessions[t].password ELSE NULL]

(* secrets.token_urlsafe: a token that nobody holds. *)
Fresh(t) == sessions[t] = NULL /\ \A r \in Requests : req[r].token # t

(* create_admin_session *)
Create(rows, t, version, p) ==
    /\ sessions' = [rows EXCEPT ![t] = [version |-> version, password |-> p]]
    /\ expired' = expired \ {t}

NoSessions == [t \in Tokens |-> NULL]

(* The row is written by a request that has read it before. *)
Overwrites(r) == overlapped' = (overlapped \/ req[r].seen.version # admin.version)

-----------------------------------------------------------------------------
(* setup_admin *)

SetupRead(r, p) ==
    /\ req[r].at = "idle"
    /\ admin = NULL
    /\ Go(r, [Idle EXCEPT !.at = "setup", !.new = p])
    /\ UNCHANGED <<admin, sessions, expired, failures, former, overlapped>>

(* An INSERT: the id is 1, and taken if another setup was faster. *)
SetupCommit(r, t) ==
    /\ req[r].at = "setup"
    /\ admin = NULL
    /\ Fresh(t)
    /\ admin' = [password |-> req[r].new, version |-> 1, hashed |-> "now"]
    /\ former' = former \cup {req[r].new}
    /\ Create(sessions, t, 1, req[r].new)
    /\ Done(r)
    /\ UNCHANGED <<failures, overlapped>>

-----------------------------------------------------------------------------
(* login_admin *)

(* Mutants, here and below: a definition as a plausible bug would write it. *)
BelowLimitOrAt == failures <= Limit

BelowLimit == failures < Limit

(* _enforce_rate_limit: a critical section of its own. *)
LoginCheck(r, p) ==
    /\ req[r].at = "idle"
    /\ BelowLimit
    /\ Go(r, [Idle EXCEPT !.at = "login", !.given = p])
    /\ UNCHANGED <<admin, sessions, expired, failures, former, overlapped>>

LoginRight(r) ==
    /\ req[r].at = "login"
    /\ admin # NULL
    /\ admin.password = req[r].given
    /\ Go(r, [req[r] EXCEPT !.at = "verified", !.seen = admin])
    /\ UNCHANGED <<admin, sessions, expired, failures, former, overlapped>>

LoginWrong(r) ==
    /\ req[r].at = "login"
    /\ admin # NULL
    /\ admin.password # req[r].given
    /\ failures' = failures + 1
    /\ Done(r)
    /\ UNCHANGED <<admin, sessions, expired, former, overlapped>>

(* check_needs_rehash: only the hash is written, of the password given. *)
Rehash(r) ==
    IF req[r].seen.hashed = "before"
    THEN /\ admin' = [password |-> req[r].given, version |-> admin.version, hashed |-> "now"]
         /\ Overwrites(r)
    ELSE UNCHANGED <<admin, overlapped>>

SessionVersionNow(r) == admin.version

(* The version a session is given: that of the row that was verified. *)
SessionVersion(r) == req[r].seen.version

LoginCommit(r, t) ==
    /\ req[r].at = "verified"
    /\ Fresh(t)
    /\ Rehash(r)
    /\ Create(sessions, t, SessionVersion(r), req[r].given)
    /\ Go(r, [Idle EXCEPT !.at = "entered"])
    /\ UNCHANGED <<failures, former>>

(* login_failures.pop, after the commit. *)
LoginForgets(r) ==
    /\ req[r].at = "entered"
    /\ failures' = 0
    /\ Done(r)
    /\ UNCHANGED <<admin, sessions, expired, former, overlapped>>

FailureAgesOfEmpty ==
    /\ failures' = failures - 1
    /\ UNCHANGED <<admin, sessions, expired, req, former, overlapped>>

(* The oldest failure is ten minutes old, and the next login removes it. *)
FailureAges ==
    /\ failures > 0
    /\ failures' = failures - 1
    /\ UNCHANGED <<admin, sessions, expired, req, former, overlapped>>

-----------------------------------------------------------------------------
(* lookup_session, in the dependency of every other endpoint *)

(* The first of two reads; no row, no access. *)
LookupItem(r, t) ==
    /\ req[r].at = "idle"
    /\ sessions[t] # NULL
    /\ Go(r, [Idle EXCEPT !.at = "lookup", !.token = t, !.item = sessions[t].version])
    /\ UNCHANGED <<admin, sessions, expired, failures, former, overlapped>>

LookupAdmin(r) ==
    LET x == req[r] IN
    /\ x.at = "lookup"
    /\ Go(r, [x EXCEPT !.at = IF /\ admin # NULL
                                 /\ x.token \notin expired
                                 /\ x.item = admin.version
                              THEN "touch" ELSE "purge"])
    /\ UNCHANGED <<admin, sessions, expired, failures, former, overlapped>>

TouchedAlways(t) == TRUE

(* The UPDATE of last_seen_at finds the row, else StaleDataError. *)
Touched(t) == sessions[t] # NULL

LookupTouch(r) ==
    /\ req[r].at = "touch"
    /\ Touched(req[r].token)
    /\ Go(r, [Idle EXCEPT !.at = "accepted", !.token = req[r].token])
    /\ UNCHANGED <<admin, sessions, expired, failures, former, overlapped>>

(* A DELETE that finds no row is only warned of. *)
Removes(r, place) ==
    /\ req[r].at = place
    /\ sessions' = [sessions EXCEPT ![req[r].token] = NULL]
    /\ Done(r)
    /\ UNCHANGED <<admin, expired, failures, former, overlapped>>

LookupPurge(r) == Removes(r, "purge")

(* logout_admin *)
Logout(r) == Removes(r, "accepted")

(* Any other endpoint: nothing of it is in control.db. *)
Serve(r) ==
    /\ req[r].at = "accepted"
    /\ Done(r)
    /\ UNCHANGED <<admin, sessions, expired, failures, former, overlapped>>

-----------------------------------------------------------------------------
(* change_password and the command line's reset_admin_password *)

ChangeRead(r, p, new) ==
    /\ req[r].at = "accepted"
    /\ admin # NULL
    /\ admin.password = p
    /\ Go(r, [Idle EXCEPT !.at = "change", !.given = p, !.new = new, !.seen = admin])
    /\ UNCHANGED <<admin, sessions, expired, failures, former, overlapped>>

(* password_version += 1, to what was read. *)
Changed(r) ==
    [password |-> req[r].new, version |-> req[r].seen.version + 1, hashed |-> "now"]

(* delete(AdminSession): whatever is committed by then. *)
ChangeCommit(r, t) ==
    /\ req[r].at = "change"
    /\ Changed(r).version <= MaxVersion
    /\ Fresh(t)
    /\ admin' = Changed(r)
    /\ former' = former \cup {req[r].new}
    /\ Create(NoSessions, t, Changed(r).version, req[r].new)
    /\ Overwrites(r)
    /\ Done(r)
    /\ UNCHANGED failures

ResetRead(r, new) ==
    /\ req[r].at = "idle"
    /\ Go(r, [Idle EXCEPT !.at = "reset", !.new = new, !.seen = admin])
    /\ UNCHANGED <<admin, sessions, expired, failures, former, overlapped>>

ResetCommit(r) ==
    /\ req[r].at = "reset"
    /\ IF req[r].seen = NULL
       THEN /\ admin = NULL
            /\ admin' = [password |-> req[r].new, version |-> 1, hashed |-> "now"]
            /\ UNCHANGED overlapped
       ELSE /\ Changed(r).version <= MaxVersion
            /\ admin' = Changed(r)
            /\ Overwrites(r)
    /\ former' = former \cup {req[r].new}
    /\ sessions' = NoSessions
    /\ Done(r)
    /\ UNCHANGED <<expired, failures>>

-----------------------------------------------------------------------------
(* Seven days have passed. *)
Expire(t) ==
    /\ sessions[t] # NULL
    /\ t \notin expired
    /\ expired' = expired \cup {t}
    /\ UNCHANGED <<admin, sessions, failures, req, former, overlapped>>

(* A refused request, or a statement that raises: the transaction is        *)
(* rolled back.                                                             *)
Fail(r) ==
    /\ req[r].at # "idle"
    /\ Done(r)
    /\ UNCHANGED <<admin, sessions, expired, failures, former, overlapped>>

Restart ==
    /\ failures' = 0
    /\ req' = [r \in Requests |-> Idle]
    /\ UNCHANGED <<admin, sessions, expired, former, overlapped>>

(* A new installation, or the first start of a new release. *)
Init ==
    /\ admin \in {NULL} \cup [password : Passwords, version : {1}, hashed : Hashings]
    /\ sessions = NoSessions
    /\ expired = {}
    /\ failures = 0
    /\ req = [r \in Requests |-> Idle]
    /\ former = IF admin = NULL THEN {} ELSE {admin.password}
    /\ overlapped = FALSE

Step(r) ==
    \/ \E p \in Passwords : SetupRead(r, p) \/ LoginCheck(r, p) \/ ResetRead(r, p)
    \/ \E p, new \in Passwords : ChangeRead(r, p, new)
    \/ \E t \in Tokens :
          SetupCommit(r, t) \/ LoginCommit(r, t) \/ LookupItem(r, t) \/ ChangeCommit(r, t)
    \/ LoginRight(r) \/ LoginWrong(r) \/ LoginForgets(r)
    \/ LookupAdmin(r) \/ LookupTouch(r) \/ LookupPurge(r) \/ Logout(r) \/ Serve(r)
    \/ ResetCommit(r)
    \/ Fail(r)

Next ==
    \/ \E r \in Requests : Step(r)
    \/ \E t \in Tokens : Expire(t)
    \/ FailureAges
    \/ Restart

Spec == Init /\ [][Next]_vars
-----------------------------------------------------------------------------
(* Properties *)

(* Type correctness; a request that is to write has read what it writes by. *)
TypeOK ==
    /\ admin \in AdminRow \cup {NULL}
    /\ sessions \in [Tokens -> Session \cup {NULL}]
    /\ expired \subseteq Tokens
    /\ failures \in Nat
    /\ req \in [Requests -> Request]
    /\ former \subseteq Passwords
    /\ overlapped \in BOOLEAN
    /\ \A r \in Requests :
          /\ req[r].at \in {"lookup", "touch", "purge", "accepted"} => req[r].token # NULL
          /\ req[r].at \in {"setup", "change", "reset"} => req[r].new # NULL
          /\ req[r].at \in {"login", "verified", "change"} => req[r].given # NULL
          /\ req[r].at \in {"verified", "change"} => req[r].seen # NULL

Access == INSTANCE AdminAccess WITH
    password <- IF admin = NULL THEN NULL ELSE admin.password,
    live <- Live

(* Requests served together do what AdminAccess does in single steps: a      *)
(* session is had for the current password only, even when the password     *)
(* changes while it is being verified, and a change leaves no session but   *)
(* its own (auth.py:109-128, 173-193, 222-263).                              *)
Implements == Access!Spec

(* A request is let in on a session that exists, of the current version, at  *)
(* that very moment, though its session and the administrator were read     *)
(* earlier and apart (auth.py:112-128).                                      *)
AcceptedIsLive ==
    [][\A r \in Requests : req[r].at = "touch" /\ req'[r].at = "accepted" =>
          Valid(req[r].token) \/ (req[r].token \in expired
                                  /\ sessions[req[r].token].version = admin.version)]_vars

(* The failures counted exceed the limit by no more than the logins that     *)
(* had passed the check together (auth.py:162-186).                          *)
FailuresBounded ==
    failures + Cardinality({r \in Requests : req[r].at = "login"})
        <= Limit - 1 + Cardinality(Requests)
=============================================================================
