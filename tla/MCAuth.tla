------------------------------- MODULE MCAuth -------------------------------
(* Auth with a few requests at a time. *)
EXTENDS Auth, TLC

CONSTANTS r1, r2, r3, p, q, s, t

Symmetric == Permutations(Requests) \cup Permutations(Passwords) \cup Permutations(Tokens)
=============================================================================
