------------------------------ MODULE MCMacroJobs ------------------------------
(* Jobs of one server, each of which comes to N asks. *)
EXTENDS MacroJobs

CONSTANTS j1, N

AsksOf == [j \in Jobs |-> N]
=============================================================================
