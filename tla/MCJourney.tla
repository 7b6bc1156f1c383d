------------------------------ MODULE MCJourney ------------------------------
(* Journey on the small instances of Presence. *)
EXTENDS MCPresence, Journey
=============================================================================
