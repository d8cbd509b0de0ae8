SPECIFICATION ProbeFairSpec
CONSTANTS
  a1 = a1
  procA = procA
  instA = instA
  k1 = k1
  k2 = k2
  t1 = t1
  t2 = t2
  r1 = r1
  Conns = {a1}
  Tabs = {t1, t2}
  Runs = {r1}
  ProcOf <- MCProcOf
  InstanceOf <- MCInstanceOf
  NoConn = NoConn
  NoRun = NoRun
  NoProc = NoProc
  NoInstance = NoInstance
  Commands = {k1}
  Sender <- MCSender
  Target <- MCTarget
  Exempt = {k1}
  Exts = {e1, e2}
  RunOf <- MCRunOf
  NoExt = NoExt
INVARIANTS
  CondemnedForCause
PROPERTIES
  DeadRoutesResolve
  ReplacedCompanionEnds
CHECK_DEADLOCK FALSE
