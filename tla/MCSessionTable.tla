----------------------------- MODULE MCSessionTable -----------------------------
(* Two threads, two session names under a cap of one; two tab numbers, one of *)
(* which may be a tab of the user's at the start.                             *)
EXTENDS SessionTable, TLC

CONSTANT u1

Symmetric == Permutations(Workers) \cup Permutations(Names) \cup Permutations(Objs)

\* A tab number that is over, and that nobody will look at again.
Spent(t) ==
    /\ t \in seen \ open
    /\ \A o \in Objs : tabOf[o] # t
    /\ \A s \in Tabs \ {t} : followed[s] # t
    /\ \A w \in Workers : t \notin {asked[w], drv[w], claimed[w]}
Kept == {t \in Tabs : ~Spent(t)}

\* The state without what nobody will look at again: what is on record about
\* spent numbers, when a session that left the table was used, and whether a
\* thread that has its reservation swept before.
WhatMatters ==
    <<tableVars, tabOf, owns, fresh \cap LiveObjs, lockedBy, pc, name, asked,
      {w \in Workers : swept[w] /\ pc[w] = "enter"}, stepVars,
      open, seen, ours, crossed \cap Kept, stray \cap Kept,
      [t \in Kept |-> <<now[t], followed[t], owner[t]>>]>>
=================================================================================
