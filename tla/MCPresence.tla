----------------------------- MODULE MCPresence -----------------------------
(* Presence on small instances: the values of its constants for TLC. *)
EXTENDS Presence, TLC

CONSTANTS gateway, ap, m1, m2

(* The access point is listed only under the gateway it hangs from. *)
MCTopologies == {{gateway}, {gateway, ap}}

OneNode == {{gateway}}

AnyTotal == {0, 9}

Symmetric == Permutations(Macs)
=============================================================================
