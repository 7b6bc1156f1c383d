---------------------------- MODULE MCIngestTxn ----------------------------
(* IngestTxn with one or two worker threads. *)
EXTENDS IngestTxn, TLC

CONSTANTS a, b, late, current

Symmetric == Permutations(Macs) \cup Permutations(Threads)
=============================================================================
