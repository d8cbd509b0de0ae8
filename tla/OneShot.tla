-------------------------------- MODULE OneShot --------------------------------
(***************************************************************************)
(* What a guarded macro promises of its last, consequential action: for    *)
(* every target it is reviewed before it is attempted, attempted once, and *)
(* never attempted again, whatever became of the attempt.                  *)
(***************************************************************************)
EXTENDS Naturals

CONSTANT Targets

VARIABLES
    fate,    \* "new", "staged" or "attempted"
    fired    \* how often the action of each target was dispatched

Init == /\ fate = [i \in Targets |-> "new"]
        /\ fired = [i \in Targets |-> 0]

Stage(i) ==
    /\ fate[i] = "new"
    /\ fate' = [fate EXCEPT ![i] = "staged"]
    /\ UNCHANGED fired

Attempt(i) ==
    /\ fate[i] = "staged"
    /\ fate' = [fate EXCEPT ![i] = "attempted"]
    /\ UNCHANGED fired

Fire(i) ==
    /\ fate[i] = "attempted" /\ fired[i] = 0
    /\ fired' = [fired EXCEPT ![i] = 1]
    /\ UNCHANGED fate

Next == \E i \in Targets : Stage(i) \/ Attempt(i) \/ Fire(i)

Spec == Init /\ [][Next]_<<fate, fired>>
=============================================================================
