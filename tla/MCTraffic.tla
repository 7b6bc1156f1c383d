------------------------------ MODULE MCTraffic ------------------------------
(* Traffic with short intervals. *)
EXTENDS Traffic, TLC

MCRanges == {[duration |-> 2, bucket |-> 1], [duration |-> 4, bucket |-> 2]}
=============================================================================
