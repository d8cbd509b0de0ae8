----------------------------- MODULE MCGuardLedger -----------------------------
\* Three calls at a time, two tokens, two targets and two resources.
EXTENDS GuardLedger, TLC

Symmetric == Permutations(Callers) \cup Permutations(Tokens) \cup Permutations(Targets)
                \cup Permutations(Resources)
=============================================================================
