-------------------------------- MODULE TabLock --------------------------------
(***************************************************************************)
(* What a register of tab claims promises: each tab has at most one owner, *)
(* a free tab may be taken, an owner may hand its tab to another name of   *)
(* the same agent, and several tabs may come free at once.                 *)
(***************************************************************************)
CONSTANTS Owners, Tabs, Nobody, MayPass(_, _)

VARIABLE owner

Init == owner = [t \in Tabs |-> Nobody]

Take(c, t) ==
    /\ owner[t] = Nobody
    /\ owner' = [owner EXCEPT ![t] = c]

Pass(c, t) ==
    /\ owner[t] # Nobody
    /\ MayPass(owner[t], c)
    /\ owner' = [owner EXCEPT ![t] = c]

Free(S) == owner' = [t \in Tabs |-> IF t \in S THEN Nobody ELSE owner[t]]

Next ==
    \/ \E c \in Owners, t \in Tabs : Take(c, t) \/ Pass(c, t)
    \/ \E S \in SUBSET Tabs : Free(S)

Spec == Init /\ [][Next]_owner
=============================================================================
