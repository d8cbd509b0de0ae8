---------------------------- MODULE MCMacroSchedules ----------------------------
\* The instance TLC checks: two schedules, the second of them with a single run.
EXTENDS MacroSchedules, TLC

CONSTANTS s1, s2

EveryOf == [s \in Scheds |-> IF s = s1 THEN 1 ELSE 2]
MaxRunsOf == [s \in Scheds |-> IF s = s1 THEN 0 ELSE 1]
=============================================================================
