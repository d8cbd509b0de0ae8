---------------------------- MODULE MCCompanionLink ----------------------------
(* Two sockets, two connect() calls at a time, a few disturbances. *)
EXTENDS CompanionLink
=============================================================================
