----------------------------- MODULE AdminAccess -----------------------------
(***************************************************************************)
(* What the administrator's password and sessions promise, one operation a *)
(* step: a session is had for the password that is current, and a change   *)
(* of the password ends every other session.                               *)
(*                                                                         *)
(* Nothing orders two changes that are under way together: once the later  *)
(* one has written over the earlier (overlapped), a password that was      *)
(* current before may be accepted, or become current, again.               *)
(***************************************************************************)
CONSTANTS Passwords, Tokens, NULL

VARIABLES
    password,   \* the current one, NULL before the administrator is set up
    former,     \* every password that has been current
    live,       \* the password that every session was had for, NULL for one
                \* that does not let a request in
    overlapped  \* two changes have overlapped

vars == <<password, former, live, overlapped>>

Accepted(p) == p = password \/ (overlapped' /\ p \in former)

Becomes(p) == password' = p /\ former' = former \cup {p}

Only(t, p) == [u \in Tokens |-> IF u = t THEN p ELSE NULL]

Setup(p, t) ==
    /\ password = NULL
    /\ Becomes(p)
    /\ live' = Only(t, p)
    /\ UNCHANGED overlapped

Login(p, t) ==
    /\ Accepted(p)
    /\ live[t] = NULL
    /\ live' = [live EXCEPT ![t] = p]
    /\ UNCHANGED <<password, former, overlapped>>

(* A login that hashes its password anew undoes the change it overlaps. *)
Restore(p, t) ==
    /\ overlapped'
    /\ Accepted(p)
    /\ Becomes(p)
    /\ live' \in {live, [live EXCEPT ![t] = p]}

Change(p, new, t) ==
    /\ Accepted(p)
    /\ Becomes(new)
    /\ live' = Only(t, new)
    /\ overlapped => overlapped'

Reset(new) ==
    /\ Becomes(new)
    /\ live' = [t \in Tokens |-> NULL]
    /\ overlapped => overlapped'

(* By logging out, or with time. *)
End(t) ==
    /\ live[t] # NULL
    /\ live' = [live EXCEPT ![t] = NULL]
    /\ UNCHANGED <<password, former, overlapped>>

Init ==
    /\ password \in Passwords \cup {NULL}
    /\ former = {password} \ {NULL}
    /\ live = [t \in Tokens |-> NULL]
    /\ overlapped = FALSE

Next ==
    \/ \E p \in Passwords, t \in Tokens : Setup(p, t) \/ Login(p, t) \/ Restore(p, t)
    \/ \E p, new \in Passwords, t \in Tokens : Change(p, new, t)
    \/ \E new \in Passwords : Reset(new)
    \/ \E t \in Tokens : End(t)

Spec == Init /\ [][Next]_vars
-----------------------------------------------------------------------------
(* What follows: unless changes have overlapped, every session was had for  *)
(* the password that is current (auth.py:109-128, 187-189, 236-263).         *)
OfCurrentPassword ==
    ~overlapped => \A t \in Tokens : live[t] \in {NULL, password}
=============================================================================
