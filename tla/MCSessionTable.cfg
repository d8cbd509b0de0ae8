SPECIFICATION TableSpec
CONSTANTS
  u1 = u1
  Workers = {w1, w2}
  Names = {n1, n2}
  Tabs = {u1, x1}
  UserTabs = {u1}
  Objs = {o1, o2}
  Cap = 1
  NoObj = NoObj
  NoTab = NoTab
  NoName = NoName
  NoWorker = NoWorker
SYMMETRY Symmetric
VIEW WhatMatters
INVARIANTS
  CapKept
  PendingHasOneMaker
  ClaimsMatchSessions
  
CHECK_DEADLOCK FALSE
