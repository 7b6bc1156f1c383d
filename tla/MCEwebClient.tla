---------------------------- MODULE MCEwebClient ----------------------------
(* EwebClient with the three session ids it takes. *)
EXTENDS EwebClient

CONSTANTS s1, s2, s3
=============================================================================
