----------------------------- MODULE MCBroadcast -----------------------------
(* Broadcast with a few pages. *)
EXTENDS Broadcast, TLC

CONSTANTS p1, p2, s1, s2, s3
=============================================================================
