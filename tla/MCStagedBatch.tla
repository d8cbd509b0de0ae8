----------------------------- MODULE MCStagedBatch -----------------------------
(* Two runs at once; the first stage is a preparation, the second is terminal. *)
EXTENDS StagedBatch

ApprovedByAll == [r \in Runs |-> Terminal]
=============================================================================
