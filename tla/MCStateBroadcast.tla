---------------------------- MODULE MCStateBroadcast ----------------------------
\* The instance TLC checks: companions that replace each other, clients that come and go.
EXTENDS StateBroadcast, TLC

Symmetric == Permutations(Exts) \cup Permutations(Clients)

\* What decides who is told; the contents of frames decide only what clients believe.
WhoIsTold == <<coreVars, phase, left, [c \in Clients |-> Len(wire[c])], current, told>>
=============================================================================
