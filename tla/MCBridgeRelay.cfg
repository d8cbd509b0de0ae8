SPECIFICATION RelaySpec
CONSTANTS
  a1 = a1
  a2 = a2
  b1 = b1
  procA = procA
  procB = procB
  instA = instA
  instB = instB
  k1 = k1
  k2 = k2
  t1 = t1
  e1 = e1
  e2 = e2
  r1 = r1
  r2 = r2
  Conns = {a1, a2, b1}
  Tabs = {t1}
  Runs = {r1, r2}
  ProcOf <- MCProcOf
  InstanceOf <- MCInstanceOf
  NoConn = NoConn
  NoRun = NoRun
  NoProc = NoProc
  NoInstance = NoInstance
  Commands = {k1, k2}
  Sender <- MCSender
  Target <- MCTarget
  Exempt = {k2}
  Exts = {e1, e2}
  RunOf <- MCRunOf
  NoExt = NoExt
INVARIANTS
  NothingOutlives
  NoStrandedRoute
  NoLostCommand
  ResultIsTheOnlyAnswer
  ServedUnlessReplaced
PROPERTIES
  
  ImplementsTabLock
CHECK_DEADLOCK FALSE
