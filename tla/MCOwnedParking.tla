----------------------------- MODULE MCOwnedParking -----------------------------
(* Two or three servers, each with one call at a time. *)
EXTENDS OwnedParking, TLC

CONSTANTS s1, s2, s3, c1, c2, c3

ServerOfCall == (c1 :> s1) @@ (c2 :> s2) @@ (c3 :> s3)
OfCalls == [c \in Calls |-> ServerOfCall[c]]
===============================================================================
