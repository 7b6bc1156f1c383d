------------------------------ MODULE MCConfig ------------------------------
(***************************************************************************)
(* Config with two router addresses and one database server; a password    *)
(* that dotenv expands to nothing; an environment that says nothing, and   *)
(* one that fixes the password (to the empty one) and the retention.       *)
(***************************************************************************)
EXTENDS Config, TLC

CONSTANTS home, away, secret, dollar, server, k1

MCExpanded == [p \in Passwords |-> IF p = dollar THEN Absent ELSE p]

NoEnvironment == {<< >>}

MCEnvironments == {<< >>, ("password" :> Absent) @@ ("days" :> 1)}

(* Nothing above tells the two addresses apart. *)
EitherHost == Permutations(Hosts)
=============================================================================
