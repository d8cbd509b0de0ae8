------------------------------ MODULE MCClaimBook ------------------------------
(* One tab, three links, two browsers. *)
EXTENDS ClaimBook
=============================================================================
