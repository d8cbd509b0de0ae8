----------------------------- MODULE MCBridgeRelay -----------------------------
(* Two connections of one agent (a1, a2) and one of another (b1); a command   *)
(* of a1 and one of b1 on the one tab, b1's a harmless read; two companions   *)
(* of two browser runs.                                                       *)
EXTENDS BridgeRelay

CONSTANTS a1, a2, b1, procA, procB, instA, instB, k1, k2, t1, e1, e2, r1, r2

MCProcOf     == [c \in Conns |-> IF c = b1 THEN procB ELSE procA]
MCInstanceOf == [c \in Conns |-> IF c = b1 THEN instB ELSE instA]
MCSender     == [k \in Commands |-> IF k = k1 THEN a1 ELSE b1]
MCTarget     == [k \in Commands |-> t1]
MCRunOf      == [e \in Exts |-> IF e = e1 THEN r1 ELSE r2]
=============================================================================
