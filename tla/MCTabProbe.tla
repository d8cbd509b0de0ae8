------------------------------- MODULE MCTabProbe -------------------------------
(* One server that probes its two sessions' tabs, two companions. *)
EXTENDS TabProbe

CONSTANTS a1, procA, instA, k1, k2, t1, t2, r1

MCProcOf     == [c \in Conns |-> procA]
MCInstanceOf == [c \in Conns |-> instA]
MCSender     == [k \in Commands |-> a1]
MCTarget     == [k \in Commands |-> IF k = k1 THEN t1 ELSE t2]
MCRunOf      == [e \in Exts |-> r1]
=============================================================================
