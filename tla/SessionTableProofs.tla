--------------------------- MODULE SessionTableProofs ---------------------------
(***************************************************************************)
(* Theorems about the table of browser sessions, for any number of threads *)
(* session ids, tabs and any cap: its types, that a reserved name has one  *)
(* maker, that the cap holds at every moment, that sessions and claims     *)
(* match, and that every tab the server opened has somebody to close it.   *)
(*                                                                         *)
(* The last two rest on layers, each inductive on top of those before it:  *)
(* what the numbers of tabs say about pages (PagesSane), what a thread     *)
(* carries (LocalsSane), who holds a session object (ObjectsSane), and the *)
(* threads that follow a replaced tab (FollowsSane).  A layer has one      *)
(* lemma, which goes through every action of the table.                    *)
(***************************************************************************)
EXTENDS SessionTable, FiniteSetTheorems, TLAPS

\* The labels at which a thread is inside a session object.
InObj == Tearing \cup {"dropGone", "useWait", "using", "followWait", "followed", "refused", "letGo"}

\* The labels at which a thread works for a call that named a session.
InCall == Making \cup {"enter", "probe", "dropGone", "reap",
                       "useWait", "using", "stale", "followWait", "followed"}

\* What the types rest on: a thread that needs an object or a name has one.
Localised ==
    \A w \in Workers :
        /\ pc[w] \in InObj => obj[w] \in Objs
        /\ pc[w] \in InCall \/ back[w] \in {"probe", "reap"} => name[w] \in Names
        /\ pc[w] = "followWait" => asked[w] \in Tabs

TypeInv == TableTypeOK /\ Localised

\* The types hold at the start.
LEMMA InitTypes == TableInit => TypeInv
  BY TableAssumption DEF TableInit, TypeInv, TableTypeOK, Localised, InObj, InCall, Labels, Making,
    Tearing

\* One step of a thread keeps the types.
LEMMA CreationTypes ==
    ASSUME NEW w \in Workers, TypeInv, Creation(w)
    PROVE  TypeInv'
<1> USE TableAssumption DEF TypeInv, TableTypeOK, Localised, InObj, InCall, Labels, Making, Tearing,
        Goto, Return, tableVars, objVars, tabVars, argVars, stepVars, LiveObjs, Live
<1>1. CASE EnterAndReturn(w)  BY <1>1 DEF EnterAndReturn
<1>2. CASE EnterAndSweep(w)  BY <1>2 DEF EnterAndSweep
<1>3. CASE Reserve(w)  BY <1>3 DEF Reserve
<1>4. CASE Claim(w)  BY <1>4 DEF Claim
<1>5. CASE DriverOnTab(w)  BY <1>5 DEF DriverOnTab, Page, Reported
<1>6. CASE DriverFails(w)  BY <1>6 DEF DriverFails
<1>7. CASE ClaimOpened(w)  BY <1>7 DEF ClaimOpened
<1>8. ASSUME NEW t \in Tabs, DriverOnNewTab(w, t) PROVE TypeInv'
  BY <1>8 DEF DriverOnNewTab
<1>9. ASSUME NEW o \in Objs, File(w, o) PROVE TypeInv'
  BY <1>9 DEF File
<1>10. CASE GiveBack(w)  BY <1>10 DEF GiveBack, ReleaseOf
<1>11. CASE Abandon(w)  BY <1>11 DEF Abandon
<1>12. CASE Unfile(w)  BY <1>12 DEF Unfile
<1>13. QED
  BY <1>1, <1>2, <1>3, <1>4, <1>5, <1>6, <1>7, <1>8, <1>9, <1>10, <1>11, <1>12 DEF Creation

\* The sweeps, and the tearing down of what they dropped, keep the types.
LEMMA SweepTypes ==
    ASSUME NEW w \in Workers, TypeInv, Sweep(w)
    PROVE  TypeInv'
<1> USE TableAssumption DEF TypeInv, TableTypeOK, Localised, InObj, InCall, Labels, Making, Tearing,
        Goto, Return, tableVars, objVars, tabVars, argVars, stepVars, LiveObjs, Live, Lock, Unlock, Without
<1>1. ASSUME NEW o \in Objs, ProbeKeeps(w, o) PROVE TypeInv'
  BY <1>1 DEF ProbeKeeps, Page, Reported
<1>2. ASSUME NEW o \in Objs, ProbeCondemns(w, o) PROVE TypeInv'
  BY <1>2 DEF ProbeCondemns
<1>3. ASSUME NEW o \in Objs, ReapSkips(w, o) PROVE TypeInv'
  BY <1>3 DEF ReapSkips
<1>4. ASSUME NEW o \in Objs, ReapDrops(w, o) PROVE TypeInv'
  BY <1>4 DEF ReapDrops
<1>5. CASE DropGone(w)  BY <1>5, SMTT(30) DEF DropGone
<1>6. CASE ListIdle(w)  BY <1>6 DEF ListIdle
<1>7. CASE SweepDone(w)  BY <1>7 DEF SweepDone
<1>8. QED  BY <1>1, <1>2, <1>3, <1>4, <1>5, <1>6, <1>7 DEF Sweep

\* New calls and the parking of a tab keep the types.
LEMMA OtherTypes ==
    ASSUME NEW w \in Workers, TypeInv, Teardown(w) \/ Parking(w) \/ NewCall(w)
    PROVE  TypeInv'
<1> USE TableAssumption DEF TypeInv, TableTypeOK, Localised, InObj, InCall, Labels, Making, Tearing,
        Goto, Return, tableVars, objVars, tabVars, argVars, stepVars, LiveObjs, Live, Lock, Unlock
<1>1. CASE ShutDown(w)  BY <1>1 DEF ShutDown
<1>2. CASE TearTab(w)  BY <1>2 DEF TearTab
<1>3. CASE TearRelease(w)  BY <1>3 DEF TearRelease, ReleaseOf
<1>4. CASE ParkRefused(w)  BY <1>4 DEF ParkRefused
<1>5. CASE ParkClaim(w)  BY <1>5 DEF ParkClaim
<1>6. CASE ParkRelease(w)  BY <1>6 DEF ParkRelease, ReleaseOf
<1>7. ASSUME NEW n \in Names, NEW t \in open \cup {NoTab}, Call(w, n, t) PROVE TypeInv'
  BY <1>7 DEF Call
<1>8. ASSUME NEW n \in Names, Close(w, n) PROVE TypeInv'
  BY <1>8 DEF Close
<1>9. ASSUME NEW n \in Names, Get(w, n) PROVE TypeInv'
  BY <1>9 DEF Get
<1>10. ASSUME NEW n \in Names, GetReported(w, n) PROVE TypeInv'
  BY <1>10 DEF GetReported, ReportOn
<1>11. ASSUME NEW t \in open, CheckParked(w, t) PROVE TypeInv'
  BY <1>11 DEF CheckParked
<1>12. QED
  BY <1>1, <1>2, <1>3, <1>4, <1>5, <1>6, <1>7, <1>8, <1>9, <1>10, <1>11
     DEF Teardown, Parking, NewCall

\* The use of a session, and its following of a replaced tab, keep the types.
LEMMA UsingTypes ==
    ASSUME NEW w \in Workers, TypeInv, Using(w)
    PROVE  TypeInv'
<1> USE TableAssumption DEF TypeInv, TableTypeOK, Localised, InObj, InCall, Labels, Making, Tearing,
        Goto, Return, tableVars, objVars, tabVars, argVars, stepVars, LiveObjs, Live, Lock, Unlock,
        Without, Forget
<1>1. CASE Use(w)  BY <1>1 DEF Use
<1>2. CASE Used(w)  BY <1>2 DEF Used, Page, Reported
<1>3. CASE UsedStale(w)  BY <1>3 DEF UsedStale
<1>4. CASE AfterStale(w)  BY <1>4, SMTT(30) DEF AfterStale, Page, Reported
<1>5. CASE FollowLater(w)  BY <1>5 DEF FollowLater
<1>6. CASE FollowClaims(w)  BY <1>6 DEF FollowClaims
<1>7. CASE FollowReleases(w)  BY <1>7 DEF FollowReleases, ReleaseOf
<1>8. CASE FollowRefused(w)  BY <1>8 DEF FollowRefused
<1>9. CASE LetGo(w)  BY <1>9 DEF LetGo, ReleaseOf
<1>10. QED  BY <1>1, <1>2, <1>3, <1>4, <1>5, <1>6, <1>7, <1>8, <1>9 DEF Using

\* What happens in Chrome keeps the types.
LEMMA WorldTypes ==
    ASSUME TypeInv, World
    PROVE  TypeInv'
<1> USE DEF TypeInv, TableTypeOK, Localised, tableVars, objVars, tabVars, argVars, stepVars
<1>1. ASSUME NEW o \in Objs, GoIdle(o) PROVE TypeInv'
  BY <1>1 DEF GoIdle
<1>2. ASSUME NEW t \in Tabs, UserCloses(t) PROVE TypeInv'
  BY <1>2 DEF UserCloses
<1>3. ASSUME NEW t \in Tabs, OthersClaim(t) PROVE TypeInv'
  BY <1>3 DEF OthersClaim
<1>4. ASSUME NEW t \in Tabs, NEW u \in Tabs, ChromeReplaces(t, u) PROVE TypeInv'
  BY <1>4 DEF ChromeReplaces
<1>5. QED  BY <1>1, <1>2, <1>3, <1>4 DEF World

-----------------------------------------------------------------------------
\* What the table promises about reservations, as an inductive whole.
ReservationInv ==
    /\ PendingHasOneMaker
    /\ \A w \in Workers, n \in Names : Makes(w, n) => n \in pending
    /\ CapKept

\* At the start nothing is reserved.
LEMMA InitReservations == TableInit => ReservationInv
<1> SUFFICES ASSUME TableInit PROVE ReservationInv
  OBVIOUS
<1>1. Live = {} /\ pending = {}
  BY DEF TableInit, Live
<1>2. CapKept
  BY <1>1, TableAssumption, FS_EmptySet DEF CapKept
<1>3. QED
  BY <1>1, <1>2 DEF ReservationInv, PendingHasOneMaker, Makes, Making, TableInit

\* The sets that are counted are finite.
LEMMA FiniteTable ==
    ASSUME TableTypeOK
    PROVE  /\ IsFiniteSet(Live) /\ IsFiniteSet(pending)
           /\ Cardinality(Live) \in Nat /\ Cardinality(pending) \in Nat
<1>1. Live \subseteq Names /\ pending \subseteq Names
  BY DEF TableTypeOK, Live
<1>2. IsFiniteSet(Live) /\ IsFiniteSet(pending)
  BY <1>1, TableAssumption, FS_Subset
<1>3. QED  BY <1>2, FS_CardinalityType

\* A step of one thread that reserves nothing and makes no session.
Calm(w) ==
    /\ pending' = pending
    /\ \A n \in Names : sessions'[n] \in {sessions[n], NoObj}
    /\ \A v \in Workers \ {w} : pc'[v] = pc[v] /\ name'[v] = name[v]
    /\ \/ pc[w] \in Making /\ pc'[w] \in Making /\ name'[w] = name[w]
       \/ pc[w] \notin Making /\ pc'[w] \notin Making

\* Such a step leaves the makers where they are and the count no higher.
LEMMA CalmStep ==
    ASSUME NEW w \in Workers, TypeInv, ReservationInv, Calm(w)
    PROVE  ReservationInv'
<1>1. \A v \in Workers, n \in Names : Makes(v, n)' <=> Makes(v, n)
  BY DEF Calm, Makes
<1>2. Live' \subseteq Live
  BY DEF Calm, Live
<1>3. PendingHasOneMaker'
  BY <1>1, <1>2 DEF Calm, ReservationInv, PendingHasOneMaker, TypeInv, TableTypeOK
<1>4. \A v \in Workers, n \in Names : Makes(v, n)' => n \in pending'
  BY <1>1 DEF Calm, ReservationInv
<1>5. CapKept'
  <2>1. Cardinality(Live') <= Cardinality(Live) /\ Cardinality(Live') \in Nat
    BY <1>2, FiniteTable, FS_Subset, FS_CardinalityType DEF TypeInv
  <2>2. Cardinality(pending') = Cardinality(pending)
    BY DEF Calm
  <2>3. QED  BY <2>1, <2>2, FiniteTable, TableAssumption DEF CapKept, ReservationInv, TypeInv
<1>6. QED  BY <1>3, <1>4, <1>5 DEF ReservationInv

\* The reservation takes a slot that the cap has left.
LEMMA ReserveStep ==
    ASSUME NEW w \in Workers, TypeInv, ReservationInv, Reserve(w)
    PROVE  ReservationInv'
<1> DEFINE n == name[w]
<1>1. /\ n \in Names /\ n \notin pending /\ n \notin Live /\ ~AtCap /\ pc[w] = "enter"
      /\ pending' = pending \cup {n} /\ sessions' = sessions /\ name' = name
      /\ pc'[w] \in {"driver", "claim"} /\ \A v \in Workers \ {w} : pc'[v] = pc[v]
  BY DEF Reserve, TypeInv, TableTypeOK, Localised, InCall, Goto, argVars
<1>2. ASSUME NEW v \in Workers, NEW m \in Names
      PROVE  Makes(v, m)' <=> Makes(v, m) \/ (v = w /\ m = n)
  BY <1>1 DEF Makes, Making
<1>3. \A v \in Workers : ~Makes(v, n)
  BY <1>1 DEF ReservationInv
<1>4. Live' = Live
  BY <1>1 DEF Live
<1>5. PendingHasOneMaker'
  <2> SUFFICES ASSUME NEW m \in pending'
               PROVE  /\ m \notin Live'
                      /\ \E v \in Workers : Makes(v, m)' /\ \A u \in Workers \ {v} : ~Makes(u, m)'
    BY DEF PendingHasOneMaker, Makes
  <2>1. CASE m = n
    BY <1>1, <1>2, <1>3, <1>4, <2>1
  <2>2. CASE m \in pending
    <3>1. m # n /\ m \in Names
      BY <1>1, <2>2 DEF TypeInv, TableTypeOK
    <3>2. QED  BY <1>2, <1>4, <2>2, <3>1 DEF ReservationInv, PendingHasOneMaker
  <2>3. QED  BY <1>1, <2>1, <2>2
<1>6. \A v \in Workers, m \in Names : Makes(v, m)' => m \in pending'
  BY <1>1, <1>2 DEF ReservationInv
<1>7. CapKept'
  <2>1. Cardinality(pending') = Cardinality(pending) + 1
    BY <1>1, FiniteTable, FS_AddElement DEF TypeInv
  <2>2. Cardinality(Live) + Cardinality(pending) < Cap
    BY <1>1, FiniteTable, TableAssumption DEF AtCap, TypeInv
  <2>3. QED  BY <1>4, <2>1, <2>2, FiniteTable, TableAssumption DEF CapKept, TypeInv
<1>8. QED  BY <1>5, <1>6, <1>7 DEF ReservationInv

\* A name that is unreserved was this thread's alone, and its other makers are none.
LEMMA Unreserved ==
    ASSUME NEW w \in Workers, NEW n \in Names, TypeInv, ReservationInv,
           Makes(w, n), pc'[w] = "idle", pending' = pending \ {n},
           \A v \in Workers \ {w} : pc'[v] = pc[v] /\ name'[v] = name[v],
           \A m \in Names \ {n} : sessions'[m] = sessions[m]
    PROVE  /\ PendingHasOneMaker'
           /\ \A v \in Workers, m \in Names : Makes(v, m)' => m \in pending'
<1>1. ASSUME NEW v \in Workers, NEW m \in Names
      PROVE  Makes(v, m)' <=> v # w /\ Makes(v, m)
  BY DEF Makes, Making
<1>2. n \in pending
  BY DEF ReservationInv
<1>3. \A v \in Workers \ {w} : ~Makes(v, n)
  BY <1>2 DEF ReservationInv, PendingHasOneMaker
<1>4. \A m \in Names \ {n} : ~Makes(w, m)
  BY DEF Makes
<1>5. \A m \in Names \ {n} : m \in Live' <=> m \in Live
  BY DEF Live
<1>6. PendingHasOneMaker'
  <2> SUFFICES ASSUME NEW m \in pending'
               PROVE  /\ m \notin Live'
                      /\ \E v \in Workers : Makes(v, m)' /\ \A u \in Workers \ {v} : ~Makes(u, m)'
    BY DEF PendingHasOneMaker, Makes
  <2>1. m \in pending /\ m \in Names \ {n}
    BY DEF TypeInv, TableTypeOK
  <2>2. PICK v \in Workers : Makes(v, m) /\ \A u \in Workers \ {v} : ~Makes(u, m)
    BY <2>1 DEF ReservationInv, PendingHasOneMaker
  <2>3. v # w
    BY <1>4, <2>1, <2>2
  <2>4. QED  BY <1>1, <1>5, <2>1, <2>2, <2>3 DEF ReservationInv, PendingHasOneMaker
<1>7. \A v \in Workers, m \in Names : Makes(v, m)' => m \in pending'
  BY <1>1, <1>3 DEF ReservationInv
<1>8. QED  BY <1>6, <1>7

\* Filing a session turns its reservation into its slot.
LEMMA FileStep ==
    ASSUME NEW w \in Workers, NEW o \in Objs, TypeInv, ReservationInv, File(w, o)
    PROVE  ReservationInv'
<1> DEFINE n == name[w]
<1>1. /\ n \in Names /\ pc[w] = "file" /\ Makes(w, n)
      /\ sessions' = [sessions EXCEPT ![n] = o] /\ pending' = pending \ {n}
      /\ pc'[w] = "idle" /\ \A v \in Workers \ {w} : pc'[v] = pc[v] /\ name'[v] = name[v]
  BY DEF File, Makes, Making, TypeInv, TableTypeOK, Localised, InCall, Return, Goto
<1>2. n \in pending /\ n \notin Live
  BY <1>1 DEF ReservationInv, PendingHasOneMaker
<1>3. Live' = Live \cup {n}
  BY <1>1, TableAssumption DEF Live, TypeInv, TableTypeOK
<1>4. /\ PendingHasOneMaker'
      /\ \A v \in Workers, m \in Names : Makes(v, m)' => m \in pending'
  BY <1>1, Unreserved DEF TypeInv, TableTypeOK
<1>5. CapKept'
  <2>1. Cardinality(Live') = Cardinality(Live) + 1
    BY <1>2, <1>3, FiniteTable, FS_AddElement DEF TypeInv
  <2>2. Cardinality(pending') = Cardinality(pending) - 1
    BY <1>1, <1>2, FiniteTable, FS_RemoveElement DEF TypeInv
  <2>3. QED  BY <2>1, <2>2, FiniteTable, TableAssumption DEF CapKept, ReservationInv, TypeInv
<1>6. QED  BY <1>4, <1>5 DEF ReservationInv

\* A creation that failed gives its name back, and its own only.
LEMMA UnfileStep ==
    ASSUME NEW w \in Workers, TypeInv, ReservationInv, Unfile(w)
    PROVE  ReservationInv'
<1> DEFINE n == name[w]
<1>1. /\ n \in Names /\ pc[w] = "unfile" /\ Makes(w, n)
      /\ sessions' = sessions /\ pending' = pending \ {n}
      /\ pc'[w] = "idle" /\ \A v \in Workers \ {w} : pc'[v] = pc[v] /\ name'[v] = name[v]
  BY DEF Unfile, Makes, Making, TypeInv, TableTypeOK, Localised, InCall, Return, Goto
<1>2. n \in pending
  BY <1>1 DEF ReservationInv
<1>3. /\ PendingHasOneMaker'
      /\ \A v \in Workers, m \in Names : Makes(v, m)' => m \in pending'
  BY <1>1, Unreserved
<1>4. CapKept'
  <2>1. Live' = Live
    BY <1>1 DEF Live
  <2>2. Cardinality(pending') = Cardinality(pending) - 1
    BY <1>1, <1>2, FiniteTable, FS_RemoveElement DEF TypeInv
  <2>3. QED  BY <2>1, <2>2, FiniteTable, TableAssumption DEF CapKept, ReservationInv, TypeInv
<1>5. QED  BY <1>3, <1>4 DEF ReservationInv

\* Every other step of a thread is calm.
LEMMA OtherStepsCalm ==
    ASSUME NEW w \in Workers, TypeInv, WorkerStep(w) \/ NewCall(w),
           ~Reserve(w), \A o \in Objs : ~File(w, o), ~Unfile(w)
    PROVE  Calm(w)
<1> USE DEF TypeInv, TableTypeOK, Calm, Making, Goto, Return, tableVars, argVars, stepVars, Live,
      LiveObjs
<1>1. CASE Creation(w)
  <2>1. CASE EnterAndReturn(w) \/ EnterAndSweep(w)
    BY <2>1 DEF EnterAndReturn, EnterAndSweep
  <2>2. CASE Claim(w) \/ DriverOnTab(w) \/ DriverFails(w) \/ ClaimOpened(w)
    BY <2>2 DEF Claim, DriverOnTab, DriverFails, ClaimOpened
  <2>3. CASE \E t \in Tabs : DriverOnNewTab(w, t)
    BY <2>3 DEF DriverOnNewTab
  <2>4. CASE GiveBack(w) \/ Abandon(w)
    BY <2>4 DEF GiveBack, Abandon
  <2>5. QED  BY <1>1, <2>1, <2>2, <2>3, <2>4 DEF Creation
<1>2. CASE Sweep(w)
  <2>1. ASSUME NEW o \in Objs, ProbeKeeps(w, o) \/ ProbeCondemns(w, o) PROVE Calm(w)
    BY <2>1 DEF ProbeKeeps, ProbeCondemns
  <2>2. ASSUME NEW o \in Objs, ReapSkips(w, o) \/ ReapDrops(w, o) PROVE Calm(w)
    BY <2>2 DEF ReapSkips, ReapDrops, Without
  <2>3. CASE DropGone(w) \/ ListIdle(w) \/ SweepDone(w)
    BY <2>3 DEF DropGone, ListIdle, SweepDone, Without
  <2>4. QED  BY <1>2, <2>1, <2>2, <2>3 DEF Sweep
<1>3. CASE Teardown(w)
  BY <1>3 DEF Teardown, ShutDown, TearTab, TearRelease
<1>4. CASE Parking(w)
  BY <1>4 DEF Parking, ParkRefused, ParkClaim, ParkRelease
<1>5. CASE Using(w)
  <2>1. CASE Use(w) \/ Used(w) \/ UsedStale(w) \/ AfterStale(w)
    BY <2>1 DEF Use, Used, UsedStale, AfterStale, Without
  <2>2. CASE FollowLater(w) \/ FollowClaims(w) \/ FollowReleases(w)
    BY <2>2 DEF FollowLater, FollowClaims, FollowReleases
  <2>3. CASE FollowRefused(w) \/ LetGo(w)
    BY <2>3 DEF FollowRefused, LetGo, Without
  <2>4. QED  BY <1>5, <2>1, <2>2, <2>3 DEF Using
<1>6. CASE NewCall(w)
  BY <1>6 DEF NewCall, Call, Close, Get, GetReported, CheckParked
<1>7. QED  BY <1>1, <1>2, <1>3, <1>4, <1>5, <1>6 DEF WorkerStep

-----------------------------------------------------------------------------
\* The table's inductive invariant.
TableInv == TypeInv /\ ReservationInv

\* Every step keeps the types and the reservations.
LEMMA NextInv == TableInv /\ [TableNext]_vars => TableInv'
<1> SUFFICES ASSUME TableInv, [TableNext]_vars PROVE TableInv'
  OBVIOUS
<1>1. ASSUME NEW w \in Workers, WorkerStep(w) \/ NewCall(w) PROVE TableInv'
  <2>1. TypeInv'
    BY <1>1, CreationTypes, SweepTypes, OtherTypes, UsingTypes DEF WorkerStep, TableInv
  <2>2. CASE Reserve(w)
    BY <2>1, <2>2, ReserveStep DEF TableInv
  <2>3. ASSUME NEW o \in Objs, File(w, o) PROVE TableInv'
    BY <2>1, <2>3, FileStep DEF TableInv
  <2>4. CASE Unfile(w)
    BY <2>1, <2>4, UnfileStep DEF TableInv
  <2>5. CASE Calm(w)
    BY <2>1, <2>5, CalmStep DEF TableInv
  <2>6. QED  BY <1>1, <2>2, <2>3, <2>4, <2>5, OtherStepsCalm DEF TableInv
<1>2. CASE World
  <2>1. TypeInv'
    BY <1>2, WorldTypes DEF TableInv
  <2>2. sessions' = sessions /\ pending' = pending /\ pc' = pc /\ name' = name
    BY <1>2 DEF World, GoIdle, UserCloses, OthersClaim, ChromeReplaces, tableVars, argVars
  <2>3. QED
    BY <2>1, <2>2 DEF TableInv, ReservationInv, PendingHasOneMaker, Makes, CapKept, Live
<1>3. CASE UNCHANGED vars
  BY <1>3 DEF TableInv, TypeInv, TableTypeOK, Localised, ReservationInv, PendingHasOneMaker,
              Makes, CapKept, Live, vars, tableVars, objVars, tabVars, argVars, stepVars
<1>4. QED  BY <1>1, <1>2, <1>3 DEF TableNext

\* In every state of the table its types and reservations hold.
THEOREM TableInvariant == TableSpec => []TableInv
<1>1. TableInit => TableInv
  BY InitTypes, InitReservations DEF TableInv
<1>2. QED  BY <1>1, NextInv, PTL DEF TableSpec

\* The state keeps its shape, for any number of threads, ids and tabs.
THEOREM TableTypesOK == TableSpec => []TableTypeOK
<1>1. TableInv => TableTypeOK
  BY DEF TableInv, TypeInv
<1>2. QED  BY <1>1, TableInvariant, PTL

\* effective_max_sessions is never exceeded, however calls, sweeps and failed
\* creations interleave.
THEOREM CapAlwaysKept == TableSpec => []CapKept
<1>1. TableInv => CapKept
  BY DEF TableInv, ReservationInv
<1>2. QED  BY <1>1, TableInvariant, PTL

\* Every reserved name has exactly one thread that makes its session, so one
\* session is never made twice and no failure leaves a name reserved for good.
THEOREM OneMakerPerName == TableSpec => []PendingHasOneMaker
<1>1. TableInv => PendingHasOneMaker
  BY DEF TableInv, ReservationInv
<1>2. QED  BY <1>1, TableInvariant, PTL

-----------------------------------------------------------------------------
\* The numbers of tabs.  One that Chrome has not given out is nobody's; the page of
\* any other is in a tab with a number of its own, and a report that a tab was
\* replaced leads to the same page.
PagesSane ==
    /\ \A t \in Tabs :
          /\ t \notin seen => now[t] = t /\ owner[t] = "free"
          /\ t \in seen => now[t] \in seen
          /\ now[now[t]] = now[t]
          /\ t \in open => now[t] = t
          /\ followed[t] # NoTab =>
                /\ followed[t] \in seen /\ t \in seen /\ followed[t] # t
                /\ now[followed[t]] = now[t] /\ now[t] # t
    /\ \A o \in Objs : tabOf[o] # NoTab => tabOf[o] \in seen
    /\ \A w \in Workers : /\ asked[w] # NoTab => asked[w] \in seen
                          /\ drv[w] # NoTab => drv[w] \in seen
                          /\ claimed[w] # NoTab => claimed[w] \in seen

\* What a thread carries, step by step.
LocalsSane ==
    \A w \in Workers :
        /\ claimed[w] # NoTab => pc[w] \in {"driver", "file", "giveBack", "parkRelease"}
        /\ pc[w] \in {"driver", "parkRelease"} => claimed[w] = asked[w]
        /\ drv[w] # NoTab => pc[w] \in {"claimOpened", "file", "giveBack", "abandon",
                                        "followWait", "followed", "refused", "letGo"}
        /\ pc[w] \in {"claimOpened", "file", "followWait", "followed"} => drv[w] # NoTab
        /\ pc[w] \in {"claimOpened", "giveBack", "abandon"} => asked[w] = NoTab \/ drv[w] = NoTab
        /\ pc[w] \in {"claim", "parkClaim", "parkRelease", "followWait"} => asked[w] # NoTab

\* Session objects: each has one name; one that is torn down, or let go, has left the
\* table, and has one thread that tears it down.
ObjectsSane ==
    /\ \A n, m \in Live : sessions[n] = sessions[m] => n = m
    /\ \A o \in LiveObjs : tabOf[o] # NoTab
    /\ \A w \in Workers :
          /\ pc[w] \in Tearing \cup {"letGo"} => obj[w] \notin LiveObjs
          /\ pc[w] \in Tearing => tabOf[obj[w]] # NoTab
          /\ pc[w] \in {"dropGone", "tearTab", "tearRelease", "using"} => lockedBy[obj[w]] = w
    /\ \A v, w \in Workers : {pc[v], pc[w]} \subseteq Tearing /\ obj[v] = obj[w] => v = w

\* A thread that follows a replaced tab has two numbers of the page that the session
\* is on, the old one of them closed; and what a probe condemned stays closed.
FollowsSane ==
    \A w \in Workers :
        /\ pc[w] = "dropGone" => Page(tabOf[obj[w]]) \notin open
        /\ pc[w] \in {"followWait", "followed"} => drv[w] \notin open
        /\ pc[w] = "followWait" =>
              /\ asked[w] # drv[w] /\ now[asked[w]] = now[drv[w]]
              /\ tabOf[obj[w]] # NoTab => now[tabOf[obj[w]]] = now[drv[w]]
              /\ \A v \in Workers : pc[v] = "followWait" /\ obj[v] = obj[w]
                   => now[drv[v]] = now[drv[w]]

\* Who is to close the tab t.
Keeps(o, t) == o \in LiveObjs \cap owns /\ Page(tabOf[o]) = t
Opens(w, t) ==
    /\ pc[w] \in {"claimOpened", "file", "giveBack", "abandon"}
    /\ asked[w] = NoTab /\ Page(drv[w]) = t
Shuts(w, t) == pc[w] \in {"shutWait", "tearTab"} /\ obj[w] \in owns /\ Page(tabOf[obj[w]]) = t

OursKept ==
    \A t \in ours : \/ \E o \in Objs : Keeps(o, t)
                    \/ \E w \in Workers : Opens(w, t) \/ Shuts(w, t)

\* The claim on t is there, or was given up by a thread that did not know.
OnHand(t) == owner[t] = "mine" \/ t \in crossed \cup stray

ClaimsSane ==
    /\ \A w \in Workers :
          /\ claimed[w] # NoTab => OnHand(claimed[w])
          /\ pc[w] = "file" => OnHand(drv[w]) /\ (claimed[w] = drv[w] \/ claimed[w] \notin open)
    /\ \A o \in LiveObjs : OnHand(tabOf[o])

\* What a claim on the tab t is used for.
Drives(o, t) == o \in LiveObjs /\ tabOf[o] = t
Carries(w, t) == claimed[w] = t
Releases(w, t) == pc[w] \in Tearing \cup {"letGo"} /\ tabOf[obj[w]] = t
InUse(t) ==
    \/ \E o \in Objs : Drives(o, t)
    \/ \E w \in Workers : Carries(w, t) \/ Releases(w, t)

\* A step keeps the tabs accounted for when whoever was to close one still is, or
\* another is instead.
LEMMA OursStillKept ==
    ASSUME OursKept, ours' \subseteq ours,
           \A t \in ours', p \in Objs : Keeps(p, t) =>
               \/ \E q \in Objs : Keeps(q, t)'
               \/ \E v \in Workers : (Opens(v, t) \/ Shuts(v, t))',
           \A t \in ours', v \in Workers : Opens(v, t) \/ Shuts(v, t) =>
               \/ \E q \in Objs : Keeps(q, t)'
               \/ \E u \in Workers : (Opens(u, t) \/ Shuts(u, t))'
    PROVE  OursKept'
  BY DEF OursKept, Keeps, Opens, Shuts, Page

\* The same for the claims and what they are used for.
LEMMA ClaimsStillUsed ==
    ASSUME TypeInv, TypeInv', ClaimsInUse,
           \A t \in open' \ stray' : owner'[t] = "mine" =>
               (t \in open \ stray /\ owner[t] = "mine") \/ InUse(t)',
           \A t \in open' \ stray', o \in Objs :
               owner'[t] = "mine" /\ Drives(o, t) => InUse(t)',
           \A t \in open' \ stray', w \in Workers :
               owner'[t] = "mine" /\ (Carries(w, t) \/ Releases(w, t)) => InUse(t)'
    PROVE  ClaimsInUse'
<1>1. \A t : InUse(t) <=> \/ \E o \in LiveObjs : tabOf[o] = t
                          \/ \E w \in Workers : claimed[w] = t
                          \/ \E w \in Workers : /\ pc[w] \in Tearing \cup {"letGo"}
                                                /\ tabOf[obj[w]] = t
  BY TableAssumption DEF InUse, Drives, Carries, Releases, LiveObjs, Live, TypeInv, TableTypeOK
<1>2. \A t : InUse(t)' <=> \/ \E o \in LiveObjs' : tabOf'[o] = t
                           \/ \E w \in Workers : claimed'[w] = t
                           \/ \E w \in Workers : /\ pc'[w] \in Tearing \cup {"letGo"}
                                                 /\ tabOf'[obj'[w]] = t
  BY TableAssumption DEF InUse, Drives, Carries, Releases, LiveObjs, Live, TypeInv, TableTypeOK
<1>3. \A t \in open' \ stray' : owner'[t] = "mine" => InUse(t)'
  BY <1>1 DEF ClaimsInUse, InUse
<1>4. QED  BY <1>2, <1>3 DEF ClaimsInUse

\* A session follows to a tab: the claim on it is used, and the old one is left
\* only on a closed tab or a stray one.
LEMMA FollowStillUsed ==
    ASSUME TypeInv, TypeInv', LocalsSane, FollowsSane, ClaimsInUse,
           NEW w \in Workers, FollowClaims(w)
    PROVE  ClaimsInUse'
<1> DEFINE a == asked[w]
           o == obj[w]
<1>1. /\ pc[w] = "followWait" /\ pc'[w] \in {"refused", "followed"} /\ o \in Objs /\ a \in Tabs
      /\ \A v \in Workers \ {w} : pc'[v] = pc[v]
      /\ sessions' = sessions /\ open' = open /\ obj' = obj /\ claimed' = claimed
      /\ asked' = asked
      /\ drv[w] \notin open /\ stray \subseteq stray'
  BY DEF FollowClaims, TypeInv, TableTypeOK, Localised, InObj, FollowsSane, Goto,
         tableVars, stepVars, argVars
<1>2. LiveObjs' = LiveObjs
  BY <1>1 DEF LiveObjs, Live
<1>3. \A v \in Workers : pc[v] \in Tearing \cup {"letGo"} => pc'[v] = pc[v]
  BY <1>1 DEF Tearing
<1>4. CASE owner[a] = "theirs"
  <2>1. tabOf' = tabOf /\ owner' = owner
    BY <1>4 DEF FollowClaims
  <2>2. \A t, p : Drives(p, t) => Drives(p, t)'
    BY <1>2, <2>1 DEF Drives
  <2>3. \A t : \A v \in Workers : Carries(v, t) \/ Releases(v, t)
          => (Carries(v, t) \/ Releases(v, t))'
    BY <1>1, <1>3, <2>1 DEF Carries, Releases
  <2>4. \A t \in open' \ stray' : owner'[t] = "mine" => t \in open \ stray /\ owner[t] = "mine"
    BY <1>1, <2>1
  <2>5. /\ \A t : \A p \in Objs : Drives(p, t) => InUse(t)'
        /\ \A t : \A v \in Workers : Carries(v, t) \/ Releases(v, t) => InUse(t)'
    BY <2>2, <2>3 DEF InUse
  <2>6. QED  BY <2>4, <2>5, ClaimsStillUsed
<1>5. CASE owner[a] # "theirs"
  <2>1. /\ owner' = [owner EXCEPT ![a] = "mine"] /\ tabOf' = [tabOf EXCEPT ![o] = a]
        /\ stray' = stray \cup (IF Over(w, o) THEN {a} ELSE {})
                          \cup ({tabOf[o]} \ {drv[w], a, NoTab})
    BY <1>5 DEF FollowClaims
  <2>2. /\ tabOf'[o] = a /\ \A q \in Objs \ {o} : tabOf'[q] = tabOf[q]
        /\ \A t \in open' \ stray' : t = a \/ tabOf[o] # t
        /\ \A t \in Tabs \ {a} : owner'[t] = owner[t]
    BY <1>1, <2>1, TableAssumption DEF TypeInv, TableTypeOK
  <2>3. a \notin stray' => InUse(a)'
    <3>1. o \in LiveObjs => Drives(o, a)'
      BY <1>1, <1>2, <2>2 DEF Drives
    <3>2. \A v \in Workers : pc[v] \in Tearing /\ obj[v] = o => Releases(v, a)'
      BY <1>1, <1>3, <2>2 DEF Releases, TypeInv, TableTypeOK, Localised, InObj
    <3>3. a \notin stray' => o \in LiveObjs \/ \E v \in Workers : pc[v] \in Tearing /\ obj[v] = o
      BY <2>1 DEF Over
    <3>4. QED  BY <1>1, <3>1, <3>2, <3>3 DEF InUse
  <2>4. ASSUME NEW t \in open' \ stray', t # a
        PROVE  /\ owner'[t] = "mine" => t \in open \ stray /\ owner[t] = "mine"
               /\ \A p \in Objs : Drives(p, t) => Drives(p, t)'
               /\ \A v \in Workers : Carries(v, t) \/ Releases(v, t)
                    => (Carries(v, t) \/ Releases(v, t))'
    <3>1. owner'[t] = "mine" => t \in open \ stray /\ owner[t] = "mine"
      BY <1>1, <2>2, <2>4 DEF TypeInv, TableTypeOK
    <3>2. \A p \in Objs : Drives(p, t) => Drives(p, t)'
      BY <1>2, <2>2, <2>4 DEF Drives
    <3>3. \A v \in Workers : Carries(v, t) \/ Releases(v, t) => (Carries(v, t) \/ Releases(v, t))'
      <4> SUFFICES ASSUME NEW v \in Workers, Releases(v, t) PROVE Releases(v, t)'
        BY <1>1 DEF Carries
      <4>1. obj[v] # o  BY <2>2, <2>4 DEF Releases
      <4>2. QED
        BY <1>1, <1>3, <2>2, <4>1 DEF Releases, TypeInv, TableTypeOK, Localised, InObj
    <3>4. QED  BY <3>1, <3>2, <3>3
  <2>5. ASSUME NEW t \in open' \ stray', owner'[t] = "mine"
        PROVE  /\ (t \in open \ stray /\ owner[t] = "mine") \/ InUse(t)'
               /\ \A p \in Objs : Drives(p, t) => InUse(t)'
               /\ \A v \in Workers : Carries(v, t) \/ Releases(v, t) => InUse(t)'
    <3>1. CASE t = a
      BY <1>1, <2>3, <3>1
    <3>2. CASE t # a
      BY <2>4, <2>5, <3>2 DEF InUse
    <3>3. QED  BY <3>1, <3>2
  <2>6. QED  BY <2>5, ClaimsStillUsed
<1>6. QED  BY <1>4, <1>5

-----------------------------------------------------------------------------
\* A tab that is replaced takes the number of one not given out before, so numbers
\* and pages stay in step.
LEMMA PagesStep ==
    ASSUME TypeInv, PagesSane, [TableNext]_vars
    PROVE  PagesSane'
<1> USE TableAssumption DEF TypeInv, PagesSane, TableTypeOK, Live, tableVars, objVars, tabVars,
        argVars, stepVars
<1>1. ASSUME NEW w \in Workers, Creation(w) PROVE PagesSane'
  <2>1. CASE EnterAndReturn(w)
    BY <2>1 DEF EnterAndReturn, Return, Goto
  <2>2. CASE EnterAndSweep(w)
    BY <2>2 DEF EnterAndSweep, Goto
  <2>3. CASE Reserve(w)
    BY <2>3 DEF Reserve, Goto
  <2>4. CASE Claim(w)
    BY <2>4 DEF Claim, Goto
  <2>5. CASE DriverOnTab(w)
    BY <2>5 DEF DriverOnTab, Page, Reported, Goto
  <2>6. ASSUME NEW t \in Tabs, DriverOnNewTab(w, t) PROVE PagesSane'
    BY <2>6 DEF DriverOnNewTab, Goto
  <2>7. CASE DriverFails(w)
    BY <2>7 DEF DriverFails, Goto
  <2>8. CASE ClaimOpened(w)
    BY <2>8 DEF ClaimOpened, Goto
  <2>9. ASSUME NEW o \in Objs, File(w, o) PROVE PagesSane'
    BY <2>9 DEF File, Unused, Return, Goto
  <2>10. CASE GiveBack(w)
    BY <2>10 DEF GiveBack, ReleaseOf, Goto, Relied
  <2>11. CASE Abandon(w)
    BY <2>11 DEF Abandon, Page, Goto
  <2>12. CASE Unfile(w)
    BY <2>12 DEF Unfile, Return, Goto
  <2> QED
    BY <1>1, <2>1, <2>2, <2>3, <2>4, <2>5, <2>6, <2>7, <2>8, <2>9, <2>10, <2>11, <2>12 DEF Creation
<1>2. ASSUME NEW w \in Workers, Sweep(w) PROVE PagesSane'
  <2>1. ASSUME NEW o \in Objs, ProbeKeeps(w, o) PROVE PagesSane'
    BY <2>1 DEF ProbeKeeps, Page, Reported
  <2>2. ASSUME NEW o \in Objs, ProbeCondemns(w, o) PROVE PagesSane'
    BY <2>2 DEF ProbeCondemns, Page, Lock, Goto
  <2>3. ASSUME NEW o \in Objs, ReapSkips(w, o) PROVE PagesSane'
    BY <2>3 DEF ReapSkips
  <2>4. ASSUME NEW o \in Objs, ReapDrops(w, o) PROVE PagesSane'
    BY <2>4 DEF ReapDrops, Lock, Without, Goto
  <2>5. CASE DropGone(w)
    BY <2>5 DEF DropGone, Unlock, Without, Goto
  <2>6. CASE ListIdle(w)
    BY <2>6 DEF ListIdle, Goto
  <2>7. CASE SweepDone(w)
    BY <2>7 DEF SweepDone, Goto
  <2> QED
    BY <1>2, <2>1, <2>2, <2>3, <2>4, <2>5, <2>6, <2>7 DEF Sweep
<1>3. ASSUME NEW w \in Workers, Teardown(w) PROVE PagesSane'
  <2>1. CASE ShutDown(w)
    BY <2>1 DEF ShutDown, Lock, Goto
  <2>2. CASE TearTab(w)
    BY <2>2 DEF TearTab, Page, Goto
  <2>3. CASE TearRelease(w)
    BY <2>3 DEF TearRelease, ReleaseOf, Unlock, Goto, Relied
  <2> QED
    BY <1>3, <2>1, <2>2, <2>3 DEF Teardown
<1>4. ASSUME NEW w \in Workers, Using(w) PROVE PagesSane'
  <2>1. CASE Use(w)
    BY <2>1 DEF Use, Lock, Goto
  <2>2. CASE Used(w)
    BY <2>2 DEF Used, Reported, Unlock, Return, Page, Goto
  <2>3. CASE UsedStale(w)
    BY <2>3 DEF UsedStale, Page, Unlock, Goto
  <2>4. CASE AfterStale(w)
    BY <2>4 DEF AfterStale, Page, Reported, Without, Forget, Return, Goto
  <2>5. CASE FollowLater(w)
    BY <2>5 DEF FollowLater, Goto
  <2>6. CASE FollowClaims(w)
    BY <2>6 DEF FollowClaims, Over, Goto, Tearing
  <2>7. CASE FollowReleases(w)
    BY <2>7 DEF FollowReleases, ReleaseOf, Goto, Relied
  <2>8. CASE FollowRefused(w)
    BY <2>8 DEF FollowRefused, Page, Without, Goto
  <2>9. CASE LetGo(w)
    BY <2>9 DEF LetGo, ReleaseOf, Forget, Return, Relied, Goto
  <2> QED
    BY <1>4, <2>1, <2>2, <2>3, <2>4, <2>5, <2>6, <2>7, <2>8, <2>9 DEF Using
<1>5. ASSUME NEW w \in Workers, Parking(w) PROVE PagesSane'
  <2>1. CASE ParkRefused(w)
    BY <2>1 DEF ParkRefused, Return, Goto
  <2>2. CASE ParkClaim(w)
    BY <2>2 DEF ParkClaim, Goto
  <2>3. CASE ParkRelease(w)
    BY <2>3 DEF ParkRelease, ReleaseOf, Return, Relied, Goto
  <2> QED
    BY <1>5, <2>1, <2>2, <2>3 DEF Parking
<1>6. ASSUME NEW w \in Workers, NewCall(w) PROVE PagesSane'
  <2>1. ASSUME NEW n \in Names, NEW t \in open \cup {NoTab}, Call(w, n, t) PROVE PagesSane'
    BY <2>1 DEF Call, Goto
  <2>2. ASSUME NEW n \in Names, Close(w, n) PROVE PagesSane'
    BY <2>2 DEF Close, Goto
  <2>3. ASSUME NEW n \in Names, Get(w, n) PROVE PagesSane'
    BY <2>3 DEF Get, ReportOn, Goto
  <2>4. ASSUME NEW n \in Names, GetReported(w, n) PROVE PagesSane'
    BY <2>4 DEF GetReported, ReportOn, Goto
  <2>5. ASSUME NEW t \in open, CheckParked(w, t) PROVE PagesSane'
    BY <2>5 DEF CheckParked, Goto
  <2> QED
    BY <1>6, <2>1, <2>2, <2>3, <2>4, <2>5 DEF NewCall
<1>7. CASE World
  <2>1. ASSUME NEW o \in Objs, GoIdle(o) PROVE PagesSane'
    BY <2>1 DEF GoIdle
  <2>2. ASSUME NEW t \in Tabs, UserCloses(t) PROVE PagesSane'
    BY <2>2 DEF UserCloses
  <2>3. ASSUME NEW t \in Tabs, OthersClaim(t) PROVE PagesSane'
    BY <2>3 DEF OthersClaim
  <2>4. ASSUME NEW t \in Tabs, NEW u \in Tabs, ChromeReplaces(t, u) PROVE PagesSane'
    BY <2>4 DEF ChromeReplaces
  <2> QED
    BY <1>7, <2>1, <2>2, <2>3, <2>4 DEF World
<1>8. CASE UNCHANGED vars
  BY <1>8 DEF vars
<1> QED  BY <1>1, <1>2, <1>3, <1>4, <1>5, <1>6, <1>7, <1>8 DEF TableNext, WorkerStep

\* A thread moves from label to label with what that label needs.
LEMMA LocalsStep ==
    ASSUME TypeInv, LocalsSane, [TableNext]_vars
    PROVE  LocalsSane'
<1> USE TableAssumption DEF TypeInv, LocalsSane, TableTypeOK, tableVars, objVars, tabVars,
        argVars, stepVars
<1>1. ASSUME NEW w \in Workers, Creation(w) PROVE LocalsSane'
  <2>1. CASE EnterAndReturn(w)
    BY <2>1 DEF EnterAndReturn, Return, Goto
  <2>2. CASE EnterAndSweep(w)
    BY <2>2 DEF EnterAndSweep, Goto
  <2>3. CASE Reserve(w)
    BY <2>3 DEF Reserve, Goto
  <2>4. CASE Claim(w)
    BY <2>4 DEF Claim, Goto
  <2>5. CASE DriverOnTab(w)
    BY <2>5 DEF DriverOnTab, Page, Reported, Goto
  <2>6. ASSUME NEW t \in Tabs, DriverOnNewTab(w, t) PROVE LocalsSane'
    BY <2>6 DEF DriverOnNewTab, Goto
  <2>7. CASE DriverFails(w)
    BY <2>7 DEF DriverFails, Goto
  <2>8. CASE ClaimOpened(w)
    BY <2>8 DEF ClaimOpened, Goto
  <2>9. ASSUME NEW o \in Objs, File(w, o) PROVE LocalsSane'
    BY <2>9 DEF File, Unused, Return, Goto
  <2>10. CASE GiveBack(w)
    BY <2>10 DEF GiveBack, ReleaseOf, Goto, Relied
  <2>11. CASE Abandon(w)
    BY <2>11 DEF Abandon, Page, Goto
  <2>12. CASE Unfile(w)
    BY <2>12 DEF Unfile, Return, Goto
  <2> QED
    BY <1>1, <2>1, <2>2, <2>3, <2>4, <2>5, <2>6, <2>7, <2>8, <2>9, <2>10, <2>11, <2>12 DEF Creation
<1>2. ASSUME NEW w \in Workers, Sweep(w) PROVE LocalsSane'
  <2>1. ASSUME NEW o \in Objs, ProbeKeeps(w, o) PROVE LocalsSane'
    BY <2>1 DEF ProbeKeeps, Page, Reported
  <2>2. ASSUME NEW o \in Objs, ProbeCondemns(w, o) PROVE LocalsSane'
    BY <2>2 DEF ProbeCondemns, Page, Lock, Goto
  <2>3. ASSUME NEW o \in Objs, ReapSkips(w, o) PROVE LocalsSane'
    BY <2>3 DEF ReapSkips
  <2>4. ASSUME NEW o \in Objs, ReapDrops(w, o) PROVE LocalsSane'
    BY <2>4 DEF ReapDrops, Lock, Without, Goto
  <2>5. CASE DropGone(w)
    BY <2>5 DEF DropGone, Unlock, Without, Goto
  <2>6. CASE ListIdle(w)
    BY <2>6 DEF ListIdle, Goto
  <2>7. CASE SweepDone(w)
    BY <2>7 DEF SweepDone, Goto
  <2> QED
    BY <1>2, <2>1, <2>2, <2>3, <2>4, <2>5, <2>6, <2>7 DEF Sweep
<1>3. ASSUME NEW w \in Workers, Teardown(w) PROVE LocalsSane'
  <2>1. CASE ShutDown(w)
    BY <2>1 DEF ShutDown, Lock, Goto
  <2>2. CASE TearTab(w)
    BY <2>2 DEF TearTab, Page, Goto
  <2>3. CASE TearRelease(w)
    BY <2>3 DEF TearRelease, ReleaseOf, Unlock, Goto, Relied
  <2> QED
    BY <1>3, <2>1, <2>2, <2>3 DEF Teardown
<1>4. ASSUME NEW w \in Workers, Using(w) PROVE LocalsSane'
  <2>1. CASE Use(w)
    BY <2>1 DEF Use, Lock, Goto
  <2>2. CASE Used(w)
    BY <2>2 DEF Used, Reported, Unlock, Return, Page, Goto
  <2>3. CASE UsedStale(w)
    BY <2>3 DEF UsedStale, Page, Unlock, Goto
  <2>4. CASE AfterStale(w)
    BY <2>4 DEF AfterStale, Page, Reported, Without, Forget, Return, Goto
  <2>5. CASE FollowLater(w)
    BY <2>5 DEF FollowLater, Goto
  <2>6. CASE FollowClaims(w)
    BY <2>6 DEF FollowClaims, Over, Goto, Tearing
  <2>7. CASE FollowReleases(w)
    BY <2>7 DEF FollowReleases, ReleaseOf, Goto, Relied
  <2>8. CASE FollowRefused(w)
    BY <2>8 DEF FollowRefused, Page, Without, Goto
  <2>9. CASE LetGo(w)
    BY <2>9 DEF LetGo, ReleaseOf, Forget, Return, Relied, Goto
  <2> QED
    BY <1>4, <2>1, <2>2, <2>3, <2>4, <2>5, <2>6, <2>7, <2>8, <2>9 DEF Using
<1>5. ASSUME NEW w \in Workers, Parking(w) PROVE LocalsSane'
  <2>1. CASE ParkRefused(w)
    BY <2>1 DEF ParkRefused, Return, Goto
  <2>2. CASE ParkClaim(w)
    BY <2>2 DEF ParkClaim, Goto
  <2>3. CASE ParkRelease(w)
    BY <2>3 DEF ParkRelease, ReleaseOf, Return, Relied, Goto
  <2> QED
    BY <1>5, <2>1, <2>2, <2>3 DEF Parking
<1>6. ASSUME NEW w \in Workers, NewCall(w) PROVE LocalsSane'
  <2>1. ASSUME NEW n \in Names, NEW t \in open \cup {NoTab}, Call(w, n, t) PROVE LocalsSane'
    BY <2>1 DEF Call, Goto
  <2>2. ASSUME NEW n \in Names, Close(w, n) PROVE LocalsSane'
    BY <2>2 DEF Close, Goto
  <2>3. ASSUME NEW n \in Names, Get(w, n) PROVE LocalsSane'
    BY <2>3 DEF Get, ReportOn, Goto
  <2>4. ASSUME NEW n \in Names, GetReported(w, n) PROVE LocalsSane'
    BY <2>4 DEF GetReported, ReportOn, Goto
  <2>5. ASSUME NEW t \in open, CheckParked(w, t) PROVE LocalsSane'
    BY <2>5 DEF CheckParked, Goto
  <2> QED
    BY <1>6, <2>1, <2>2, <2>3, <2>4, <2>5 DEF NewCall
<1>7. CASE World
  <2>1. ASSUME NEW o \in Objs, GoIdle(o) PROVE LocalsSane'
    BY <2>1 DEF GoIdle
  <2>2. ASSUME NEW t \in Tabs, UserCloses(t) PROVE LocalsSane'
    BY <2>2 DEF UserCloses
  <2>3. ASSUME NEW t \in Tabs, OthersClaim(t) PROVE LocalsSane'
    BY <2>3 DEF OthersClaim
  <2>4. ASSUME NEW t \in Tabs, NEW u \in Tabs, ChromeReplaces(t, u) PROVE LocalsSane'
    BY <2>4 DEF ChromeReplaces
  <2> QED
    BY <1>7, <2>1, <2>2, <2>3, <2>4 DEF World
<1>8. CASE UNCHANGED vars
  BY <1>8 DEF vars
<1> QED  BY <1>1, <1>2, <1>3, <1>4, <1>5, <1>6, <1>7, <1>8 DEF TableNext, WorkerStep

\* Filing takes an object that nobody has, and whoever takes one from the table, or
\* finds it gone, is alone with it.
LEMMA ObjectsStep ==
    ASSUME TypeInv, LocalsSane, ObjectsSane, [TableNext]_vars
    PROVE  ObjectsSane'
<1> USE TableAssumption DEF TypeInv, LocalsSane, ObjectsSane, TableTypeOK, Localised, InObj,
        Tearing, LiveObjs, Live, tableVars, objVars, tabVars, argVars, stepVars
<1>1. ASSUME NEW w \in Workers, Creation(w) PROVE ObjectsSane'
  <2>1. CASE EnterAndReturn(w)
    BY <2>1 DEF EnterAndReturn, Return, Goto
  <2>2. CASE EnterAndSweep(w)
    BY <2>2 DEF EnterAndSweep, Goto
  <2>3. CASE Reserve(w)
    BY <2>3 DEF Reserve, Goto
  <2>4. CASE Claim(w)
    BY <2>4, SMTT(30) DEF Claim, Goto
  <2>5. CASE DriverOnTab(w)
    BY <2>5 DEF DriverOnTab, Page, Reported, Goto
  <2>6. ASSUME NEW t \in Tabs, DriverOnNewTab(w, t) PROVE ObjectsSane'
    BY <2>6 DEF DriverOnNewTab, Goto
  <2>7. CASE DriverFails(w)
    BY <2>7 DEF DriverFails, Goto
  <2>8. CASE ClaimOpened(w)
    BY <2>8 DEF ClaimOpened, Goto
  <2>9. ASSUME NEW o \in Objs, File(w, o) PROVE ObjectsSane'
    BY <2>9 DEF File, Unused, Return, Goto, ReservationInv, PendingHasOneMaker, Makes
  <2>10. CASE GiveBack(w)
    BY <2>10 DEF GiveBack, ReleaseOf, Goto, Relied
  <2>11. CASE Abandon(w)
    BY <2>11 DEF Abandon, Page, Goto
  <2>12. CASE Unfile(w)
    BY <2>12 DEF Unfile, Return, Goto
  <2> QED
    BY <1>1, <2>1, <2>2, <2>3, <2>4, <2>5, <2>6, <2>7, <2>8, <2>9, <2>10, <2>11, <2>12 DEF Creation
<1>2. ASSUME NEW w \in Workers, Sweep(w) PROVE ObjectsSane'
  <2>1. ASSUME NEW o \in Objs, ProbeKeeps(w, o) PROVE ObjectsSane'
    BY <2>1 DEF ProbeKeeps, Page, Reported
  <2>2. ASSUME NEW o \in Objs, ProbeCondemns(w, o) PROVE ObjectsSane'
    BY <2>2 DEF ProbeCondemns, Page, Lock, Goto
  <2>3. ASSUME NEW o \in Objs, ReapSkips(w, o) PROVE ObjectsSane'
    BY <2>3 DEF ReapSkips
  <2>4. ASSUME NEW o \in Objs, ReapDrops(w, o) PROVE ObjectsSane'
    BY <2>4 DEF ReapDrops, Lock, Without, Goto
  <2>5. CASE DropGone(w)
    <3>1. CASE obj[w] \in LiveObjs
      BY <2>5, <3>1 DEF DropGone, Unlock, Without, Goto
    <3>2. CASE obj[w] \notin LiveObjs
      BY <2>5, <3>2, SMTT(30) DEF DropGone, Unlock, Without, Goto
    <3> QED  BY <3>1, <3>2
  <2>6. CASE ListIdle(w)
    BY <2>6 DEF ListIdle, Goto
  <2>7. CASE SweepDone(w)
    BY <2>7 DEF SweepDone, Goto
  <2> QED
    BY <1>2, <2>1, <2>2, <2>3, <2>4, <2>5, <2>6, <2>7 DEF Sweep
<1>3. ASSUME NEW w \in Workers, Teardown(w) PROVE ObjectsSane'
  <2>1. CASE ShutDown(w)
    BY <2>1 DEF ShutDown, Lock, Goto
  <2>2. CASE TearTab(w)
    BY <2>2 DEF TearTab, Page, Goto
  <2>3. CASE TearRelease(w)
    BY <2>3 DEF TearRelease, ReleaseOf, Unlock, Goto, Relied
  <2> QED
    BY <1>3, <2>1, <2>2, <2>3 DEF Teardown
<1>4. ASSUME NEW w \in Workers, Using(w) PROVE ObjectsSane'
  <2>1. CASE Use(w)
    BY <2>1 DEF Use, Lock, Goto
  <2>2. CASE Used(w)
    BY <2>2 DEF Used, Reported, Unlock, Return, Page, Goto
  <2>3. CASE UsedStale(w)
    BY <2>3 DEF UsedStale, Page, Unlock, Goto
  <2>4. CASE AfterStale(w)
    BY <2>4 DEF AfterStale, Page, Reported, Without, Forget, Return, Goto
  <2>5. CASE FollowLater(w)
    BY <2>5 DEF FollowLater, Goto
  <2>6. CASE FollowClaims(w)
    BY <2>6 DEF FollowClaims, Over, Goto
  <2>7. CASE FollowReleases(w)
    BY <2>7 DEF FollowReleases, ReleaseOf, Goto, Relied
  <2>8. CASE FollowRefused(w)
    BY <2>8 DEF FollowRefused, Page, Without, Goto
  <2>9. CASE LetGo(w)
    BY <2>9 DEF LetGo, ReleaseOf, Forget, Return, Relied, Goto
  <2> QED
    BY <1>4, <2>1, <2>2, <2>3, <2>4, <2>5, <2>6, <2>7, <2>8, <2>9 DEF Using
<1>5. ASSUME NEW w \in Workers, Parking(w) PROVE ObjectsSane'
  <2>1. CASE ParkRefused(w)
    BY <2>1 DEF ParkRefused, Return, Goto
  <2>2. CASE ParkClaim(w)
    BY <2>2 DEF ParkClaim, Goto
  <2>3. CASE ParkRelease(w)
    BY <2>3 DEF ParkRelease, ReleaseOf, Return, Relied, Goto
  <2> QED
    BY <1>5, <2>1, <2>2, <2>3 DEF Parking
<1>6. ASSUME NEW w \in Workers, NewCall(w) PROVE ObjectsSane'
  <2>1. ASSUME NEW n \in Names, NEW t \in open \cup {NoTab}, Call(w, n, t) PROVE ObjectsSane'
    BY <2>1 DEF Call, Goto
  <2>2. ASSUME NEW n \in Names, Close(w, n) PROVE ObjectsSane'
    BY <2>2 DEF Close, Goto
  <2>3. ASSUME NEW n \in Names, Get(w, n) PROVE ObjectsSane'
    BY <2>3 DEF Get, ReportOn, Goto
  <2>4. ASSUME NEW n \in Names, GetReported(w, n) PROVE ObjectsSane'
    BY <2>4 DEF GetReported, ReportOn, Goto
  <2>5. ASSUME NEW t \in open, CheckParked(w, t) PROVE ObjectsSane'
    BY <2>5 DEF CheckParked, Goto
  <2> QED
    BY <1>6, <2>1, <2>2, <2>3, <2>4, <2>5 DEF NewCall
<1>7. CASE World
  <2>1. ASSUME NEW o \in Objs, GoIdle(o) PROVE ObjectsSane'
    BY <2>1 DEF GoIdle
  <2>2. ASSUME NEW t \in Tabs, UserCloses(t) PROVE ObjectsSane'
    BY <2>2 DEF UserCloses
  <2>3. ASSUME NEW t \in Tabs, OthersClaim(t) PROVE ObjectsSane'
    BY <2>3 DEF OthersClaim
  <2>4. ASSUME NEW t \in Tabs, NEW u \in Tabs, ChromeReplaces(t, u) PROVE ObjectsSane'
    BY <2>4 DEF ChromeReplaces
  <2> QED
    BY <1>7, <2>1, <2>2, <2>3, <2>4 DEF World
<1>8. CASE UNCHANGED vars
  BY <1>8 DEF vars
<1> QED  BY <1>1, <1>2, <1>3, <1>4, <1>5, <1>6, <1>7, <1>8 DEF TableNext, WorkerStep

\* A replaced number is closed for good, and reports of one page lead to one page.
LEMMA FollowsStep ==
    ASSUME TypeInv, PagesSane, LocalsSane, ObjectsSane, FollowsSane, [TableNext]_vars
    PROVE  FollowsSane'
<1> USE TableAssumption DEF TypeInv, PagesSane, LocalsSane, ObjectsSane, FollowsSane,
        TableTypeOK, Localised, InObj, Live, Page, tableVars, objVars, tabVars, argVars,
        stepVars
<1>1. ASSUME NEW w \in Workers, Creation(w) PROVE FollowsSane'
  <2>1. CASE EnterAndReturn(w)
    BY <2>1 DEF EnterAndReturn, Return, Goto
  <2>2. CASE EnterAndSweep(w)
    BY <2>2 DEF EnterAndSweep, Goto
  <2>3. CASE Reserve(w)
    BY <2>3 DEF Reserve, Goto
  <2>4. CASE Claim(w)
    BY <2>4 DEF Claim, Goto
  <2>5. CASE DriverOnTab(w)
    BY <2>5 DEF DriverOnTab, Reported, Goto
  <2>6. ASSUME NEW t \in Tabs, DriverOnNewTab(w, t) PROVE FollowsSane'
    BY <2>6 DEF DriverOnNewTab, Goto
  <2>7. CASE DriverFails(w)
    BY <2>7 DEF DriverFails, Goto
  <2>8. CASE ClaimOpened(w)
    BY <2>8 DEF ClaimOpened, Goto
  <2>9. ASSUME NEW o \in Objs, File(w, o) PROVE FollowsSane'
    BY <2>9 DEF File, Unused, Return, Goto
  <2>10. CASE GiveBack(w)
    BY <2>10 DEF GiveBack, ReleaseOf, Goto, Relied
  <2>11. CASE Abandon(w)
    BY <2>11 DEF Abandon, Goto
  <2>12. CASE Unfile(w)
    BY <2>12 DEF Unfile, Return, Goto
  <2> QED
    BY <1>1, <2>1, <2>2, <2>3, <2>4, <2>5, <2>6, <2>7, <2>8, <2>9, <2>10, <2>11, <2>12 DEF Creation
<1>2. ASSUME NEW w \in Workers, Sweep(w) PROVE FollowsSane'
  <2>1. ASSUME NEW o \in Objs, ProbeKeeps(w, o) PROVE FollowsSane'
    BY <2>1 DEF ProbeKeeps, Reported
  <2>2. ASSUME NEW o \in Objs, ProbeCondemns(w, o) PROVE FollowsSane'
    BY <2>2 DEF ProbeCondemns, Lock, Goto
  <2>3. ASSUME NEW o \in Objs, ReapSkips(w, o) PROVE FollowsSane'
    BY <2>3 DEF ReapSkips
  <2>4. ASSUME NEW o \in Objs, ReapDrops(w, o) PROVE FollowsSane'
    BY <2>4 DEF ReapDrops, Lock, Without, Goto
  <2>5. CASE DropGone(w)
    BY <2>5 DEF DropGone, Unlock, Without, Goto
  <2>6. CASE ListIdle(w)
    BY <2>6 DEF ListIdle, Goto
  <2>7. CASE SweepDone(w)
    BY <2>7 DEF SweepDone, Goto
  <2> QED
    BY <1>2, <2>1, <2>2, <2>3, <2>4, <2>5, <2>6, <2>7 DEF Sweep
<1>3. ASSUME NEW w \in Workers, Teardown(w) PROVE FollowsSane'
  <2>1. CASE ShutDown(w)
    BY <2>1 DEF ShutDown, Lock, Goto
  <2>2. CASE TearTab(w)
    BY <2>2 DEF TearTab, Goto
  <2>3. CASE TearRelease(w)
    BY <2>3 DEF TearRelease, ReleaseOf, Unlock, Goto, Relied
  <2> QED
    BY <1>3, <2>1, <2>2, <2>3 DEF Teardown
<1>4. ASSUME NEW w \in Workers, Using(w) PROVE FollowsSane'
  <2>1. CASE Use(w)
    BY <2>1 DEF Use, Lock, Goto
  <2>2. CASE Used(w)
    BY <2>2 DEF Used, Reported, Unlock, Return, Goto
  <2>3. CASE UsedStale(w)
    BY <2>3 DEF UsedStale, Unlock, Goto
  <2>4. CASE AfterStale(w)
    BY <2>4 DEF AfterStale, Reported, Without, Forget, Return, Goto
  <2>5. CASE FollowLater(w)
    BY <2>5 DEF FollowLater, Goto
  <2>6. CASE FollowClaims(w)
    BY <2>6 DEF FollowClaims, Over, Goto, Tearing
  <2>7. CASE FollowReleases(w)
    BY <2>7 DEF FollowReleases, ReleaseOf, Goto, Relied
  <2>8. CASE FollowRefused(w)
    BY <2>8 DEF FollowRefused, Without, Goto
  <2>9. CASE LetGo(w)
    BY <2>9 DEF LetGo, ReleaseOf, Forget, Return, Relied, Goto
  <2> QED
    BY <1>4, <2>1, <2>2, <2>3, <2>4, <2>5, <2>6, <2>7, <2>8, <2>9 DEF Using
<1>5. ASSUME NEW w \in Workers, Parking(w) PROVE FollowsSane'
  <2>1. CASE ParkRefused(w)
    BY <2>1 DEF ParkRefused, Return, Goto
  <2>2. CASE ParkClaim(w)
    BY <2>2 DEF ParkClaim, Goto
  <2>3. CASE ParkRelease(w)
    BY <2>3 DEF ParkRelease, ReleaseOf, Return, Relied, Goto
  <2> QED
    BY <1>5, <2>1, <2>2, <2>3 DEF Parking
<1>6. ASSUME NEW w \in Workers, NewCall(w) PROVE FollowsSane'
  <2>1. ASSUME NEW n \in Names, NEW t \in open \cup {NoTab}, Call(w, n, t) PROVE FollowsSane'
    BY <2>1 DEF Call, Goto
  <2>2. ASSUME NEW n \in Names, Close(w, n) PROVE FollowsSane'
    BY <2>2 DEF Close, Goto
  <2>3. ASSUME NEW n \in Names, Get(w, n) PROVE FollowsSane'
    BY <2>3 DEF Get, ReportOn, Goto
  <2>4. ASSUME NEW n \in Names, GetReported(w, n) PROVE FollowsSane'
    BY <2>4 DEF GetReported, ReportOn, Goto
  <2>5. ASSUME NEW t \in open, CheckParked(w, t) PROVE FollowsSane'
    BY <2>5 DEF CheckParked, Goto
  <2> QED
    BY <1>6, <2>1, <2>2, <2>3, <2>4, <2>5 DEF NewCall
<1>7. CASE World
  <2>1. ASSUME NEW o \in Objs, GoIdle(o) PROVE FollowsSane'
    BY <2>1 DEF GoIdle
  <2>2. ASSUME NEW t \in Tabs, UserCloses(t) PROVE FollowsSane'
    BY <2>2 DEF UserCloses
  <2>3. ASSUME NEW t \in Tabs, OthersClaim(t) PROVE FollowsSane'
    BY <2>3 DEF OthersClaim
  <2>4. ASSUME NEW t \in Tabs, NEW u \in Tabs, ChromeReplaces(t, u) PROVE FollowsSane'
    BY <2>4 DEF ChromeReplaces
  <2> QED
    BY <1>7, <2>1, <2>2, <2>3, <2>4 DEF World
<1>8. CASE UNCHANGED vars
  BY <1>8 DEF vars
<1> QED  BY <1>1, <1>2, <1>3, <1>4, <1>5, <1>6, <1>7, <1>8 DEF TableNext, WorkerStep

\* A claim that a session needs is taken away only by another thread that does not
\* know (crossed), or with the tab's number (stray).
LEMMA ClaimsStep ==
    ASSUME TypeInv, PagesSane, LocalsSane, ObjectsSane, ClaimsSane, [TableNext]_vars
    PROVE  ClaimsSane'
<1> USE TableAssumption DEF TypeInv, PagesSane, LocalsSane, ObjectsSane, ClaimsSane,
        TableTypeOK, Labels, Tearing, LiveObjs, Live, OnHand, tableVars, objVars, tabVars,
        argVars, stepVars
<1>1. ASSUME NEW w \in Workers, Creation(w) PROVE ClaimsSane'
  <2>1. CASE EnterAndReturn(w)
    BY <2>1 DEF EnterAndReturn, Return, Goto
  <2>2. CASE EnterAndSweep(w)
    BY <2>2 DEF EnterAndSweep, Goto
  <2>3. CASE Reserve(w)
    BY <2>3 DEF Reserve, Goto
  <2>4. CASE Claim(w)
    BY <2>4 DEF Claim, Goto
  <2>5. CASE DriverOnTab(w)
    BY <2>5 DEF DriverOnTab, Page, Reported, Goto
  <2>6. ASSUME NEW t \in Tabs, DriverOnNewTab(w, t) PROVE ClaimsSane'
    BY <2>6 DEF DriverOnNewTab, Goto
  <2>7. CASE DriverFails(w)
    BY <2>7 DEF DriverFails, Goto
  <2>8. CASE ClaimOpened(w)
    BY <2>8 DEF ClaimOpened, Goto
  <2>9. ASSUME NEW o \in Objs, File(w, o) PROVE ClaimsSane'
    BY <2>9 DEF File, Unused, Return, Goto
  <2>10. CASE GiveBack(w)
    BY <2>10 DEF GiveBack, ReleaseOf, Goto, Relied
  <2>11. CASE Abandon(w)
    BY <2>11 DEF Abandon, Page, Goto
  <2>12. CASE Unfile(w)
    BY <2>12 DEF Unfile, Return, Goto
  <2> QED
    BY <1>1, <2>1, <2>2, <2>3, <2>4, <2>5, <2>6, <2>7, <2>8, <2>9, <2>10, <2>11, <2>12 DEF Creation
<1>2. ASSUME NEW w \in Workers, Sweep(w) PROVE ClaimsSane'
  <2>1. ASSUME NEW o \in Objs, ProbeKeeps(w, o) PROVE ClaimsSane'
    BY <2>1 DEF ProbeKeeps, Page, Reported
  <2>2. ASSUME NEW o \in Objs, ProbeCondemns(w, o) PROVE ClaimsSane'
    BY <2>2 DEF ProbeCondemns, Page, Lock, Goto
  <2>3. ASSUME NEW o \in Objs, ReapSkips(w, o) PROVE ClaimsSane'
    BY <2>3 DEF ReapSkips
  <2>4. ASSUME NEW o \in Objs, ReapDrops(w, o) PROVE ClaimsSane'
    BY <2>4 DEF ReapDrops, Lock, Without, Goto
  <2>5. CASE DropGone(w)
    BY <2>5 DEF DropGone, Unlock, Without, Goto
  <2>6. CASE ListIdle(w)
    BY <2>6 DEF ListIdle, Goto
  <2>7. CASE SweepDone(w)
    BY <2>7 DEF SweepDone, Goto
  <2> QED
    BY <1>2, <2>1, <2>2, <2>3, <2>4, <2>5, <2>6, <2>7 DEF Sweep
<1>3. ASSUME NEW w \in Workers, Teardown(w) PROVE ClaimsSane'
  <2>1. CASE ShutDown(w)
    BY <2>1 DEF ShutDown, Lock, Goto
  <2>2. CASE TearTab(w)
    BY <2>2 DEF TearTab, Page, Goto
  <2>3. CASE TearRelease(w)
    BY <2>3, SMTT(30) DEF TearRelease, ReleaseOf, Unlock, Goto, Relied
  <2> QED
    BY <1>3, <2>1, <2>2, <2>3 DEF Teardown
<1>4. ASSUME NEW w \in Workers, Using(w) PROVE ClaimsSane'
  <2>1. CASE Use(w)
    BY <2>1 DEF Use, Lock, Goto
  <2>2. CASE Used(w)
    BY <2>2 DEF Used, Reported, Unlock, Return, Page, Goto
  <2>3. CASE UsedStale(w)
    BY <2>3 DEF UsedStale, Page, Unlock, Goto
  <2>4. CASE AfterStale(w)
    BY <2>4 DEF AfterStale, Page, Reported, Without, Forget, Return, Goto
  <2>5. CASE FollowLater(w)
    BY <2>5 DEF FollowLater, Goto
  <2>6. CASE FollowClaims(w)
    BY <2>6 DEF FollowClaims, Over, Goto
  <2>7. CASE FollowReleases(w)
    BY <2>7 DEF FollowReleases, ReleaseOf, Goto, Relied
  <2>8. CASE FollowRefused(w)
    BY <2>8 DEF FollowRefused, Page, Without, Goto
  <2>9. CASE LetGo(w)
    BY <2>9 DEF LetGo, ReleaseOf, Forget, Return, Relied, Goto
  <2> QED
    BY <1>4, <2>1, <2>2, <2>3, <2>4, <2>5, <2>6, <2>7, <2>8, <2>9 DEF Using
<1>5. ASSUME NEW w \in Workers, Parking(w) PROVE ClaimsSane'
  <2>1. CASE ParkRefused(w)
    BY <2>1 DEF ParkRefused, Return, Goto
  <2>2. CASE ParkClaim(w)
    BY <2>2 DEF ParkClaim, Goto
  <2>3. CASE ParkRelease(w)
    BY <2>3 DEF ParkRelease, ReleaseOf, Return, Relied, Goto
  <2> QED
    BY <1>5, <2>1, <2>2, <2>3 DEF Parking
<1>6. ASSUME NEW w \in Workers, NewCall(w) PROVE ClaimsSane'
  <2>1. ASSUME NEW n \in Names, NEW t \in open \cup {NoTab}, Call(w, n, t) PROVE ClaimsSane'
    BY <2>1 DEF Call, Goto
  <2>2. ASSUME NEW n \in Names, Close(w, n) PROVE ClaimsSane'
    BY <2>2 DEF Close, Goto
  <2>3. ASSUME NEW n \in Names, Get(w, n) PROVE ClaimsSane'
    BY <2>3 DEF Get, ReportOn, Goto
  <2>4. ASSUME NEW n \in Names, GetReported(w, n) PROVE ClaimsSane'
    BY <2>4 DEF GetReported, ReportOn, Goto
  <2>5. ASSUME NEW t \in open, CheckParked(w, t) PROVE ClaimsSane'
    BY <2>5 DEF CheckParked, Goto
  <2> QED
    BY <1>6, <2>1, <2>2, <2>3, <2>4, <2>5 DEF NewCall
<1>7. CASE World
  <2>1. ASSUME NEW o \in Objs, GoIdle(o) PROVE ClaimsSane'
    BY <2>1 DEF GoIdle
  <2>2. ASSUME NEW t \in Tabs, UserCloses(t) PROVE ClaimsSane'
    BY <2>2 DEF UserCloses
  <2>3. ASSUME NEW t \in Tabs, OthersClaim(t) PROVE ClaimsSane'
    BY <2>3 DEF OthersClaim
  <2>4. ASSUME NEW t \in Tabs, NEW u \in Tabs, ChromeReplaces(t, u) PROVE ClaimsSane'
    BY <2>4 DEF ChromeReplaces
  <2> QED
    BY <1>7, <2>1, <2>2, <2>3, <2>4 DEF World
<1>8. CASE UNCHANGED vars
  BY <1>8 DEF vars
<1> QED  BY <1>1, <1>2, <1>3, <1>4, <1>5, <1>6, <1>7, <1>8 DEF TableNext, WorkerStep

\* Each action keeps whoever is to close a tab of the server's, or passes the tab on
\* in the same step.
LEMMA OursStep ==
    ASSUME TypeInv, ReservationInv, PagesSane, LocalsSane, ObjectsSane, FollowsSane, OursKept,
           [TableNext]_vars
    PROVE  OursKept'
<1> USE TableAssumption DEF TypeInv, PagesSane, LocalsSane, ObjectsSane, FollowsSane, OursKept,
        TableTypeOK, Localised, InObj, InCall, Making, Tearing, LiveObjs, Live, Without, Page,
        Keeps, Opens, Shuts, tableVars, objVars, tabVars, argVars, stepVars
<1>1. ASSUME NEW w \in Workers, Creation(w) PROVE OursKept'
  <2>1. CASE EnterAndReturn(w)
    <3>1. ours' \subseteq ours  BY <2>1 DEF EnterAndReturn, Return, Goto
    <3>2. ASSUME NEW t \in ours', NEW p \in Objs, Keeps(p, t) PROVE Keeps(p, t)'
      BY <2>1, <3>2 DEF EnterAndReturn, Return, Goto
    <3>3. ASSUME NEW t \in ours', NEW v \in Workers, Opens(v, t) \/ Shuts(v, t)
          PROVE  (Opens(v, t) \/ Shuts(v, t))'
      BY <2>1, <3>3 DEF EnterAndReturn, Return, Goto
    <3> QED  BY ONLY OursKept, <3>1, <3>2, <3>3, OursStillKept
  <2>2. CASE EnterAndSweep(w)
    BY <2>2 DEF EnterAndSweep, Goto
  <2>3. CASE Reserve(w)
    BY <2>3 DEF Reserve, Goto
  <2>4. CASE Claim(w)
    BY <2>4 DEF Claim, Goto
  <2>5. CASE DriverOnTab(w)
    BY <2>5, SMTT(30) DEF DriverOnTab, Reported, Goto
  <2>6. ASSUME NEW t \in Tabs, DriverOnNewTab(w, t) PROVE OursKept'
    BY <2>6, SMTT(30) DEF DriverOnNewTab, Goto
  <2>7. CASE DriverFails(w)
    BY <2>7 DEF DriverFails, Goto
  <2>8. CASE ClaimOpened(w)
    BY <2>8 DEF ClaimOpened, Goto
  <2>9. ASSUME NEW o \in Objs, File(w, o) PROVE OursKept'
    <3>1. ours' \subseteq ours  BY <2>9 DEF File, Unused, Return, Goto
    <3>2. ASSUME NEW t \in ours', NEW p \in Objs, Keeps(p, t) PROVE Keeps(p, t)'
      BY <2>9, <3>2 DEF File, Unused, Return, Goto, ReservationInv, PendingHasOneMaker, Makes
    <3>3. ASSUME NEW t \in ours', NEW v \in Workers, Opens(v, t) \/ Shuts(v, t)
          PROVE  IF v = w THEN Keeps(o, t)' ELSE (Opens(v, t) \/ Shuts(v, t))'
      BY <2>9, <3>3 DEF File, Unused, Return, Goto
    <3> QED  BY ONLY OursKept, <3>1, <3>2, <3>3, OursStillKept
  <2>10. CASE GiveBack(w)
    BY <2>10 DEF GiveBack, ReleaseOf, Goto, Relied
  <2>11. CASE Abandon(w)
    <3>1. ours' \subseteq ours  BY <2>11 DEF Abandon, Goto
    <3>2. ASSUME NEW t \in ours', NEW p \in Objs, Keeps(p, t) PROVE Keeps(p, t)'
      BY <2>11, <3>2 DEF Abandon, Goto
    <3>3. ASSUME NEW t \in ours', NEW v \in Workers, Opens(v, t) \/ Shuts(v, t)
          PROVE  (Opens(v, t) \/ Shuts(v, t))'
      BY <2>11, <3>3 DEF Abandon, Goto
    <3> QED  BY ONLY OursKept, <3>1, <3>2, <3>3, OursStillKept
  <2>12. CASE Unfile(w)
    <3>1. ours' \subseteq ours  BY <2>12 DEF Unfile, Return, Goto
    <3>2. ASSUME NEW t \in ours', NEW p \in Objs, Keeps(p, t) PROVE Keeps(p, t)'
      BY <2>12, <3>2 DEF Unfile, Return, Goto
    <3>3. ASSUME NEW t \in ours', NEW v \in Workers, Opens(v, t) \/ Shuts(v, t)
          PROVE  (Opens(v, t) \/ Shuts(v, t))'
      BY <2>12, <3>3 DEF Unfile, Return, Goto
    <3> QED  BY ONLY OursKept, <3>1, <3>2, <3>3, OursStillKept
  <2> QED
    BY <1>1, <2>1, <2>2, <2>3, <2>4, <2>5, <2>6, <2>7, <2>8, <2>9, <2>10, <2>11, <2>12 DEF Creation
<1>2. ASSUME NEW w \in Workers, Sweep(w) PROVE OursKept'
  <2>1. ASSUME NEW o \in Objs, ProbeKeeps(w, o) PROVE OursKept'
    BY <2>1 DEF ProbeKeeps, Reported
  <2>2. ASSUME NEW o \in Objs, ProbeCondemns(w, o) PROVE OursKept'
    BY <2>2 DEF ProbeCondemns, Lock, Goto
  <2>3. ASSUME NEW o \in Objs, ReapSkips(w, o) PROVE OursKept'
    BY <2>3 DEF ReapSkips
  <2>4. ASSUME NEW o \in Objs, ReapDrops(w, o) PROVE OursKept'
    <3>1. ours' \subseteq ours  BY <2>4 DEF ReapDrops, Lock, Goto
    <3>2. ASSUME NEW t \in ours', NEW p \in Objs, Keeps(p, t) PROVE IF p = o THEN Shuts(w, t)'
            ELSE Keeps(p, t)'
      BY <2>4, <3>2 DEF ReapDrops, Lock, Goto
    <3>3. ASSUME NEW t \in ours', NEW v \in Workers, Opens(v, t) \/ Shuts(v, t)
          PROVE  (Opens(v, t) \/ Shuts(v, t))'
      BY <2>4, <3>3 DEF ReapDrops, Lock, Goto
    <3> QED  BY ONLY OursKept, <3>1, <3>2, <3>3, OursStillKept
  <2>5. CASE DropGone(w)
    BY <2>5, SMTT(30) DEF DropGone, Unlock, Goto
  <2>6. CASE ListIdle(w)
    BY <2>6 DEF ListIdle, Goto
  <2>7. CASE SweepDone(w)
    BY <2>7 DEF SweepDone, Goto
  <2> QED
    BY <1>2, <2>1, <2>2, <2>3, <2>4, <2>5, <2>6, <2>7 DEF Sweep
<1>3. ASSUME NEW w \in Workers, Teardown(w) PROVE OursKept'
  <2>1. CASE ShutDown(w)
    BY <2>1 DEF ShutDown, Lock, Goto
  <2>2. CASE TearTab(w)
    BY <2>2 DEF TearTab, Goto
  <2>3. CASE TearRelease(w)
    BY <2>3 DEF TearRelease, ReleaseOf, Unlock, Goto, Relied
  <2> QED
    BY <1>3, <2>1, <2>2, <2>3 DEF Teardown
<1>4. ASSUME NEW w \in Workers, Using(w) PROVE OursKept'
  <2>1. CASE Use(w)
    BY <2>1 DEF Use, Lock, Goto
  <2>2. CASE Used(w)
    <3>1. ours' \subseteq ours  BY <2>2 DEF Used, Reported, Unlock, Return, Goto
    <3>2. ASSUME NEW t \in ours', NEW p \in Objs, Keeps(p, t) PROVE Keeps(p, t)'
      BY <2>2, <3>2 DEF Used, Reported, Unlock, Return, Goto
    <3>3. ASSUME NEW t \in ours', NEW v \in Workers, Opens(v, t) \/ Shuts(v, t)
          PROVE  (Opens(v, t) \/ Shuts(v, t))'
      BY <2>2, <3>3 DEF Used, Reported, Unlock, Return, Goto
    <3> QED  BY ONLY OursKept, <3>1, <3>2, <3>3, OursStillKept
  <2>3. CASE UsedStale(w)
    <3>1. ours' \subseteq ours  BY <2>3 DEF UsedStale, Unlock, Goto
    <3>2. ASSUME NEW t \in ours', NEW p \in Objs, Keeps(p, t) PROVE Keeps(p, t)'
      BY <2>3, <3>2 DEF UsedStale, Unlock, Goto
    <3>3. ASSUME NEW t \in ours', NEW v \in Workers, Opens(v, t) \/ Shuts(v, t)
          PROVE  (Opens(v, t) \/ Shuts(v, t))'
      BY <2>3, <3>3 DEF UsedStale, Unlock, Goto
    <3> QED  BY ONLY OursKept, <3>1, <3>2, <3>3, OursStillKept
  <2>4. CASE AfterStale(w)
    <3>1. ours' \subseteq ours  BY <2>4 DEF AfterStale, Reported, Forget, Return, Goto
    <3>2. ASSUME NEW t \in ours', NEW p \in Objs, Keeps(p, t) PROVE Keeps(p, t)'
      BY <2>4, <3>2 DEF AfterStale, Reported, Forget, Return, Goto
    <3>3. ASSUME NEW t \in ours', NEW v \in Workers, Opens(v, t) \/ Shuts(v, t)
          PROVE  (Opens(v, t) \/ Shuts(v, t))'
      BY <2>4, <3>3 DEF AfterStale, Reported, Forget, Return, Goto
    <3> QED  BY ONLY OursKept, <3>1, <3>2, <3>3, OursStillKept
  <2>5. CASE FollowLater(w)
    BY <2>5, SMTT(30) DEF FollowLater, Goto
  <2>6. CASE FollowClaims(w)
    BY <2>6, SMTT(30) DEF FollowClaims, Over, Goto
  <2>7. CASE FollowReleases(w)
    BY <2>7, SMTT(30) DEF FollowReleases, ReleaseOf, Goto, Relied
  <2>8. CASE FollowRefused(w)
    <3>1. ours' \subseteq ours  BY <2>8 DEF FollowRefused, Goto
    <3>2. ASSUME NEW t \in ours', NEW p \in Objs, Keeps(p, t) PROVE Keeps(p, t)'
      <4>1. p # obj[w]  BY <2>8, <3>2 DEF FollowRefused
      <4>2. p \in LiveObjs'  BY <2>8, <3>2, <4>1 DEF FollowRefused
      <4> QED  BY <2>8, <3>2, <4>2 DEF FollowRefused
    <3>3. ASSUME NEW t \in ours', NEW v \in Workers, Opens(v, t) \/ Shuts(v, t)
          PROVE  (Opens(v, t) \/ Shuts(v, t))'
      BY <2>8, <3>3 DEF FollowRefused, Goto
    <3> QED  BY ONLY OursKept, <3>1, <3>2, <3>3, OursStillKept
  <2>9. CASE LetGo(w)
    <3>1. ours' \subseteq ours  BY <2>9 DEF LetGo, ReleaseOf, Forget, Return, Relied, Goto
    <3>2. ASSUME NEW t \in ours', NEW p \in Objs, Keeps(p, t) PROVE Keeps(p, t)'
      BY <2>9, <3>2 DEF LetGo, ReleaseOf, Forget, Return, Relied, Goto
    <3>3. ASSUME NEW t \in ours', NEW v \in Workers, Opens(v, t) \/ Shuts(v, t)
          PROVE  (Opens(v, t) \/ Shuts(v, t))'
      BY <2>9, <3>3 DEF LetGo, ReleaseOf, Forget, Return, Relied, Goto
    <3> QED  BY ONLY OursKept, <3>1, <3>2, <3>3, OursStillKept
  <2> QED
    BY <1>4, <2>1, <2>2, <2>3, <2>4, <2>5, <2>6, <2>7, <2>8, <2>9 DEF Using
<1>5. ASSUME NEW w \in Workers, Parking(w) PROVE OursKept'
  <2>1. CASE ParkRefused(w)
    BY <2>1, SMTT(30) DEF ParkRefused, Return, Goto
  <2>2. CASE ParkClaim(w)
    <3>1. ours' \subseteq ours  BY <2>2 DEF ParkClaim, Goto
    <3>2. ASSUME NEW t \in ours', NEW p \in Objs, Keeps(p, t) PROVE Keeps(p, t)'
      BY <2>2, <3>2 DEF ParkClaim, Goto
    <3>3. ASSUME NEW t \in ours', NEW v \in Workers, Opens(v, t) \/ Shuts(v, t)
          PROVE  (Opens(v, t) \/ Shuts(v, t))'
      BY <2>2, <3>3 DEF ParkClaim, Goto
    <3> QED  BY ONLY OursKept, <3>1, <3>2, <3>3, OursStillKept
  <2>3. CASE ParkRelease(w)
    <3>1. ours' \subseteq ours  BY <2>3 DEF ParkRelease, ReleaseOf, Return, Relied, Goto
    <3>2. ASSUME NEW t \in ours', NEW p \in Objs, Keeps(p, t) PROVE Keeps(p, t)'
      BY <2>3, <3>2 DEF ParkRelease, ReleaseOf, Return, Relied, Goto
    <3>3. ASSUME NEW t \in ours', NEW v \in Workers, Opens(v, t) \/ Shuts(v, t)
          PROVE  (Opens(v, t) \/ Shuts(v, t))'
      BY <2>3, <3>3 DEF ParkRelease, ReleaseOf, Return, Relied, Goto
    <3> QED  BY ONLY OursKept, <3>1, <3>2, <3>3, OursStillKept
  <2> QED
    BY <1>5, <2>1, <2>2, <2>3 DEF Parking
<1>6. ASSUME NEW w \in Workers, NewCall(w) PROVE OursKept'
  <2>1. ASSUME NEW n \in Names, NEW t \in open \cup {NoTab}, Call(w, n, t) PROVE OursKept'
    BY <2>1 DEF Call, Goto
  <2>2. ASSUME NEW n \in Names, Close(w, n) PROVE OursKept'
    BY <2>2, SMTT(30) DEF Close, Goto
  <2>3. ASSUME NEW n \in Names, Get(w, n) PROVE OursKept'
    BY <2>3 DEF Get, ReportOn, Goto
  <2>4. ASSUME NEW n \in Names, GetReported(w, n) PROVE OursKept'
    <3>1. ours' \subseteq ours  BY <2>4 DEF GetReported, ReportOn, Goto
    <3>2. ASSUME NEW t \in ours', NEW p \in Objs, Keeps(p, t) PROVE Keeps(p, t)'
      BY <2>4, <3>2 DEF GetReported, ReportOn, Goto
    <3>3. ASSUME NEW t \in ours', NEW v \in Workers, Opens(v, t) \/ Shuts(v, t)
          PROVE  (Opens(v, t) \/ Shuts(v, t))'
      BY <2>4, <3>3 DEF GetReported, ReportOn, Goto
    <3> QED  BY ONLY OursKept, <3>1, <3>2, <3>3, OursStillKept
  <2>5. ASSUME NEW t \in open, CheckParked(w, t) PROVE OursKept'
    BY <2>5 DEF CheckParked, Goto
  <2> QED
    BY <1>6, <2>1, <2>2, <2>3, <2>4, <2>5 DEF NewCall
<1>7. CASE World
  <2>1. ASSUME NEW o \in Objs, GoIdle(o) PROVE OursKept'
    BY <2>1 DEF GoIdle
  <2>2. ASSUME NEW t \in Tabs, UserCloses(t) PROVE OursKept'
    BY <2>2 DEF UserCloses
  <2>3. ASSUME NEW t \in Tabs, OthersClaim(t) PROVE OursKept'
    BY <2>3 DEF OthersClaim
  <2>4. ASSUME NEW t \in Tabs, NEW u \in Tabs, ChromeReplaces(t, u) PROVE OursKept'
    <3> DEFINE new(x) == IF x = t THEN u ELSE x
    <3>1. \A y \in ours' : \E x \in ours : y = new(x)
      BY <2>4 DEF ChromeReplaces
    <3>2. \A x \in ours, o \in Objs : Keeps(o, x) => Keeps(o, new(x))'
      BY <2>4 DEF ChromeReplaces
    <3>3. \A x \in ours, v \in Workers :
              /\ Opens(v, x) => Opens(v, new(x))'
              /\ Shuts(v, x) => Shuts(v, new(x))'
      BY <2>4 DEF ChromeReplaces
    <3> QED  BY ONLY <3>1, <3>2, <3>3, OursKept DEF OursKept
  <2> QED
    BY <1>7, <2>1, <2>2, <2>3, <2>4 DEF World
<1>8. CASE UNCHANGED vars
  BY <1>8 DEF vars
<1> QED  BY <1>1, <1>2, <1>3, <1>4, <1>5, <1>6, <1>7, <1>8 DEF TableNext, WorkerStep

\* Each action keeps the use of a claim, passes it on, or ends it with the claim.
LEMMA UsesStep ==
    ASSUME TypeInv, TypeInv', ReservationInv, PagesSane, LocalsSane, ObjectsSane, FollowsSane,
           ClaimsSane, ClaimsInUse, [TableNext]_vars
    PROVE  ClaimsInUse'
<1> USE TableAssumption DEF TypeInv, PagesSane, LocalsSane, ObjectsSane, FollowsSane,
        ClaimsSane, ClaimsInUse, TableTypeOK, Localised, InObj, InCall, Labels, Making, Tearing,
        Goto, Return, LiveObjs, Live, Lock, Unlock, Without, Page, Drives, Carries, Releases,
        OnHand, tableVars, objVars, tabVars, argVars, stepVars
<1>1. ASSUME NEW w \in Workers, Creation(w) PROVE ClaimsInUse'
  <2>1. CASE EnterAndReturn(w)
    BY <2>1, SMTT(30) DEF EnterAndReturn
  <2>2. CASE EnterAndSweep(w)
    BY <2>2 DEF EnterAndSweep
  <2>3. CASE Reserve(w)
    BY <2>3 DEF Reserve
  <2>4. CASE Claim(w)
    BY <2>4 DEF Claim
  <2>5. CASE DriverOnTab(w)
    BY <2>5, SMTT(30) DEF DriverOnTab, Reported
  <2>6. ASSUME NEW t \in Tabs, DriverOnNewTab(w, t) PROVE ClaimsInUse'
    BY <2>6 DEF DriverOnNewTab
  <2>7. CASE DriverFails(w)
    BY <2>7 DEF DriverFails
  <2>8. CASE ClaimOpened(w)
    BY <2>8 DEF ClaimOpened
  <2>9. ASSUME NEW o \in Objs, File(w, o) PROVE ClaimsInUse'
    <3>1. ASSUME NEW t \in open' \ stray', owner'[t] = "mine"
          PROVE  t \in open \ stray /\ owner[t] = "mine"
      BY <2>9, <3>1 DEF File, Unused
    <3>2. ASSUME NEW t \in open' \ stray', owner'[t] = "mine", NEW p \in Objs, Drives(p, t)
          PROVE  Drives(p, t)'
      BY <2>9, <3>2 DEF File, Unused, ReservationInv, PendingHasOneMaker, Makes
    <3>3. ASSUME NEW t \in open' \ stray', owner'[t] = "mine", NEW v \in Workers,
                 Carries(v, t) \/ Releases(v, t)
          PROVE  IF v = w THEN Drives(o, t)' ELSE (Carries(v, t) \/ Releases(v, t))'
      <4>1. CASE v = w
        BY <2>9, <3>3, <4>1 DEF File, Unused
      <4>2. CASE v # w
        BY <2>9, <3>3, <4>2 DEF File, Unused
      <4> QED  BY <4>1, <4>2
    <3> HIDE DEF TypeInv, ClaimsInUse, Drives, Carries, Releases
    <3> QED
      BY ONLY TypeInv, TypeInv', ClaimsInUse, <3>1, <3>2, <3>3, ClaimsStillUsed DEF InUse
  <2>10. CASE GiveBack(w)
    BY <2>10 DEF GiveBack, ReleaseOf, Relied
  <2>11. CASE Abandon(w)
    BY <2>11 DEF Abandon
  <2>12. CASE Unfile(w)
    <3>1. ASSUME NEW t \in open' \ stray', owner'[t] = "mine"
          PROVE  t \in open \ stray /\ owner[t] = "mine"
      BY <2>12, <3>1 DEF Unfile
    <3>2. ASSUME NEW t \in open' \ stray', owner'[t] = "mine", NEW p \in Objs, Drives(p, t)
          PROVE  Drives(p, t)'
      BY <2>12, <3>2 DEF Unfile
    <3>3. ASSUME NEW t \in open' \ stray', owner'[t] = "mine", NEW v \in Workers,
                 Carries(v, t) \/ Releases(v, t)
          PROVE  (Carries(v, t) \/ Releases(v, t))'
      BY <2>12, <3>3 DEF Unfile
    <3> HIDE DEF TypeInv, ClaimsInUse, Drives, Carries, Releases
    <3> QED
      BY ONLY TypeInv, TypeInv', ClaimsInUse, <3>1, <3>2, <3>3, ClaimsStillUsed DEF InUse
  <2> QED
    BY <1>1, <2>1, <2>2, <2>3, <2>4, <2>5, <2>6, <2>7, <2>8, <2>9, <2>10, <2>11, <2>12 DEF Creation
<1>2. ASSUME NEW w \in Workers, Sweep(w) PROVE ClaimsInUse'
  <2>1. ASSUME NEW o \in Objs, ProbeKeeps(w, o) PROVE ClaimsInUse'
    BY <2>1 DEF ProbeKeeps, Reported
  <2>2. ASSUME NEW o \in Objs, ProbeCondemns(w, o) PROVE ClaimsInUse'
    <3>1. ASSUME NEW t \in open' \ stray', owner'[t] = "mine"
          PROVE  t \in open \ stray /\ owner[t] = "mine"
      BY <2>2, <3>1 DEF ProbeCondemns
    <3>2. ASSUME NEW t \in open' \ stray', owner'[t] = "mine", NEW p \in Objs, Drives(p, t)
          PROVE  Drives(p, t)'
      BY <2>2, <3>2 DEF ProbeCondemns
    <3>3. ASSUME NEW t \in open' \ stray', owner'[t] = "mine", NEW v \in Workers,
                 Carries(v, t) \/ Releases(v, t)
          PROVE  (Carries(v, t) \/ Releases(v, t))'
      BY <2>2, <3>3 DEF ProbeCondemns
    <3> HIDE DEF TypeInv, ClaimsInUse, Drives, Carries, Releases
    <3> QED
      BY ONLY TypeInv, TypeInv', ClaimsInUse, <3>1, <3>2, <3>3, ClaimsStillUsed DEF InUse
  <2>3. ASSUME NEW o \in Objs, ReapSkips(w, o) PROVE ClaimsInUse'
    BY <2>3 DEF ReapSkips
  <2>4. ASSUME NEW o \in Objs, ReapDrops(w, o) PROVE ClaimsInUse'
    <3>1. ASSUME NEW t \in open' \ stray', owner'[t] = "mine"
          PROVE  t \in open \ stray /\ owner[t] = "mine"
      BY <2>4, <3>1 DEF ReapDrops
    <3>2. ASSUME NEW t \in open' \ stray', owner'[t] = "mine", NEW p \in Objs, Drives(p, t)
          PROVE  IF p = o THEN Releases(w, t)' ELSE Drives(p, t)'
      BY <2>4, <3>2 DEF ReapDrops
    <3>3. ASSUME NEW t \in open' \ stray', owner'[t] = "mine", NEW v \in Workers,
                 Carries(v, t) \/ Releases(v, t)
          PROVE  (Carries(v, t) \/ Releases(v, t))'
      BY <2>4, <3>3 DEF ReapDrops
    <3> HIDE DEF TypeInv, ClaimsInUse, Drives, Carries, Releases
    <3> QED
      BY ONLY TypeInv, TypeInv', ClaimsInUse, <3>1, <3>2, <3>3, ClaimsStillUsed DEF InUse
  <2>5. CASE DropGone(w)
    <3>1. ASSUME NEW t \in open' \ stray', owner'[t] = "mine"
          PROVE  t \in open \ stray /\ owner[t] = "mine"
      BY <2>5, <3>1 DEF DropGone
    <3>2. ASSUME NEW t \in open' \ stray', owner'[t] = "mine", NEW p \in Objs, Drives(p, t)
          PROVE  IF p = obj[w] THEN Releases(w, t)' ELSE Drives(p, t)'
      BY <2>5, <3>2 DEF DropGone
    <3>3. ASSUME NEW t \in open' \ stray', owner'[t] = "mine", NEW v \in Workers,
                 Carries(v, t) \/ Releases(v, t)
          PROVE  (Carries(v, t) \/ Releases(v, t))'
      BY <2>5, <3>3 DEF DropGone
    <3> HIDE DEF TypeInv, ClaimsInUse, Drives, Carries, Releases
    <3> QED
      BY ONLY TypeInv, TypeInv', ClaimsInUse, <3>1, <3>2, <3>3, ClaimsStillUsed DEF InUse
  <2>6. CASE ListIdle(w)
    BY <2>6 DEF ListIdle
  <2>7. CASE SweepDone(w)
    BY <2>7 DEF SweepDone
  <2> QED
    BY <1>2, <2>1, <2>2, <2>3, <2>4, <2>5, <2>6, <2>7 DEF Sweep
<1>3. ASSUME NEW w \in Workers, Teardown(w) PROVE ClaimsInUse'
  <2>1. CASE ShutDown(w)
    BY <2>1 DEF ShutDown
  <2>2. CASE TearTab(w)
    BY <2>2 DEF TearTab
  <2>3. CASE TearRelease(w)
    <3>1. ASSUME NEW t \in open' \ stray', owner'[t] = "mine"
          PROVE  t \in open \ stray /\ owner[t] = "mine"
      BY <2>3, <3>1 DEF TearRelease, ReleaseOf, Relied
    <3>2. ASSUME NEW t \in open' \ stray', owner'[t] = "mine", NEW p \in Objs, Drives(p, t)
          PROVE  Drives(p, t)'
      BY <2>3, <3>2 DEF TearRelease, ReleaseOf, Relied
    <3>3. ASSUME NEW t \in open' \ stray', owner'[t] = "mine", NEW v \in Workers,
                 Carries(v, t) \/ Releases(v, t)
          PROVE  (Carries(v, t) \/ Releases(v, t))'
      BY <2>3, <3>3 DEF TearRelease, ReleaseOf, Relied
    <3> HIDE DEF TypeInv, ClaimsInUse, Drives, Carries, Releases
    <3> QED
      BY ONLY TypeInv, TypeInv', ClaimsInUse, <3>1, <3>2, <3>3, ClaimsStillUsed DEF InUse
  <2> QED
    BY <1>3, <2>1, <2>2, <2>3 DEF Teardown
<1>4. ASSUME NEW w \in Workers, Using(w) PROVE ClaimsInUse'
  <2>1. CASE Use(w)
    BY <2>1 DEF Use
  <2>2. CASE Used(w)
    <3>1. ASSUME NEW t \in open' \ stray', owner'[t] = "mine"
          PROVE  t \in open \ stray /\ owner[t] = "mine"
      BY <2>2, <3>1 DEF Used, Reported
    <3>2. ASSUME NEW t \in open' \ stray', owner'[t] = "mine", NEW p \in Objs, Drives(p, t)
          PROVE  Drives(p, t)'
      BY <2>2, <3>2 DEF Used, Reported
    <3>3. ASSUME NEW t \in open' \ stray', owner'[t] = "mine", NEW v \in Workers,
                 Carries(v, t) \/ Releases(v, t)
          PROVE  (Carries(v, t) \/ Releases(v, t))'
      BY <2>2, <3>3, SMTT(30) DEF Used, Reported
    <3> HIDE DEF TypeInv, ClaimsInUse, Drives, Carries, Releases
    <3> QED
      BY ONLY TypeInv, TypeInv', ClaimsInUse, <3>1, <3>2, <3>3, ClaimsStillUsed DEF InUse
  <2>3. CASE UsedStale(w)
    <3>1. ASSUME NEW t \in open' \ stray', owner'[t] = "mine"
          PROVE  t \in open \ stray /\ owner[t] = "mine"
      BY <2>3, <3>1 DEF UsedStale
    <3>2. ASSUME NEW t \in open' \ stray', owner'[t] = "mine", NEW p \in Objs, Drives(p, t)
          PROVE  Drives(p, t)'
      BY <2>3, <3>2 DEF UsedStale
    <3>3. ASSUME NEW t \in open' \ stray', owner'[t] = "mine", NEW v \in Workers,
                 Carries(v, t) \/ Releases(v, t)
          PROVE  (Carries(v, t) \/ Releases(v, t))'
      BY <2>3, <3>3 DEF UsedStale
    <3> HIDE DEF TypeInv, ClaimsInUse, Drives, Carries, Releases
    <3> QED
      BY ONLY TypeInv, TypeInv', ClaimsInUse, <3>1, <3>2, <3>3, ClaimsStillUsed DEF InUse
  <2>4. CASE AfterStale(w)
    <3> DEFINE o == sessions[name[w]]
    <3>a. /\ pc[w] = "stale" /\ claimed[w] = NoTab /\ open' = open /\ owner' = owner /\ stray' = stray
          /\ \A v \in Workers \ {w} :
                pc'[v] = pc[v] /\ claimed'[v] = claimed[v] /\ obj'[v] = obj[v]
      <4>1. pc[w] = "stale" /\ open' = open /\ owner' = owner /\ stray' = stray /\ Return(w)
        BY <2>4 DEF AfterStale
      <4>2. claimed[w] = NoTab
        BY ONLY <4>1, LocalsSane
      <4>3. ASSUME NEW v \in Workers, v # w
            PROVE  pc'[v] = pc[v] /\ claimed'[v] = claimed[v] /\ obj'[v] = obj[v]
        BY ONLY <4>1, <4>3, TypeInv
      <4> QED  BY ONLY <4>1, <4>2, <4>3
    <3>b. \/ sessions' = sessions /\ tabOf' = tabOf
          \/ /\ sessions' = Without(o) /\ tabOf[o] \notin open /\ o \in Objs
             /\ \A p \in Objs \ {o} : tabOf'[p] = tabOf[p]
             /\ \A v \in Workers \ {w} : obj[v] = o => tabOf'[o] = tabOf[o]
      BY <2>4 DEF AfterStale, Forget
    <3>c. \A p \in LiveObjs : p = o \/ p \in LiveObjs' \/ sessions' # Without(o)
      <4>1. ASSUME NEW n \in Names, sessions[n] # NoObj, sessions[n] # o, sessions' = Without(o)
            PROVE  sessions[n] \in LiveObjs'
        BY <4>1
      <4> QED  BY <4>1
    <3>d. \A v \in Workers : pc[v] \in Tearing \cup {"letGo"} => obj[v] \in Objs
      OBVIOUS
    <3>e. sessions' = sessions => LiveObjs' = LiveObjs
      OBVIOUS
    <3>1. ASSUME NEW t \in open' \ stray', owner'[t] = "mine"
          PROVE  t \in open \ stray /\ owner[t] = "mine"
      BY <3>1, <3>a
    <3> HIDE DEF TypeInv, ReservationInv, PagesSane, LocalsSane, ObjectsSane, FollowsSane,
             ClaimsSane, ClaimsInUse, LiveObjs, Without, o
    <3>2. ASSUME NEW t \in open' \ stray', owner'[t] = "mine", NEW p \in Objs, Drives(p, t)
          PROVE  Drives(p, t)'
      BY <3>2, <3>a, <3>b, <3>c, <3>e
    <3>3. ASSUME NEW t \in open' \ stray', owner'[t] = "mine", NEW v \in Workers,
                 Carries(v, t) \/ Releases(v, t)
          PROVE  (Carries(v, t) \/ Releases(v, t))'
      <4>1. CASE Carries(v, t)
        <5>1. t # NoTab
          BY <3>3, TableAssumption DEF TypeInv
        <5> QED  BY <3>a, <4>1, <5>1
      <4>2. CASE Releases(v, t)
        <5>1. v # w
          BY <3>a, <4>2
        <5> QED  BY <3>a, <3>b, <3>d, <4>2, <5>1
      <4> QED  BY <3>3, <4>1, <4>2
    <3> HIDE DEF TypeInv, ClaimsInUse, Drives, Carries, Releases
    <3> QED
      BY ONLY TypeInv, TypeInv', ClaimsInUse, <3>1, <3>2, <3>3, ClaimsStillUsed DEF InUse
  <2>5. CASE FollowLater(w)
    BY <2>5 DEF FollowLater
  <2>6. CASE FollowClaims(w)
    BY <2>6, FollowStillUsed
  <2>7. CASE FollowReleases(w)
    BY <2>7, SMTT(30) DEF FollowReleases, ReleaseOf, Relied
  <2>8. CASE FollowRefused(w)
    <3>1. ASSUME NEW t \in open' \ stray', owner'[t] = "mine"
          PROVE  t \in open \ stray /\ owner[t] = "mine"
      BY <2>8, <3>1 DEF FollowRefused
    <3>2. ASSUME NEW t \in open' \ stray', owner'[t] = "mine", NEW p \in Objs, Drives(p, t)
          PROVE  IF p = obj[w] THEN Releases(w, t)' ELSE Drives(p, t)'
      BY <2>8, <3>2 DEF FollowRefused
    <3>3. ASSUME NEW t \in open' \ stray', owner'[t] = "mine", NEW v \in Workers,
                 Carries(v, t) \/ Releases(v, t)
          PROVE  (Carries(v, t) \/ Releases(v, t))'
      BY <2>8, <3>3 DEF FollowRefused
    <3> HIDE DEF TypeInv, ClaimsInUse, Drives, Carries, Releases
    <3> QED
      BY ONLY TypeInv, TypeInv', ClaimsInUse, <3>1, <3>2, <3>3, ClaimsStillUsed DEF InUse
  <2>9. CASE LetGo(w)
    <3> DEFINE o == obj[w]
    <3>a. /\ pc[w] = "letGo" /\ claimed[w] = NoTab /\ o \in Objs /\ o \notin LiveObjs
          /\ LiveObjs' = LiveObjs /\ open' = open
          /\ \A v \in Workers \ {w} :
                pc'[v] = pc[v] /\ claimed'[v] = claimed[v] /\ obj'[v] = obj[v]
      BY <2>9 DEF LetGo
    <3>b. /\ \A p \in Objs \ {o} : tabOf'[p] = tabOf[p]
          /\ \A v \in Workers \ {w} : obj[v] = o => tabOf'[o] = tabOf[o]
      BY <2>9, <3>a DEF LetGo, Forget
    <3>c. \A t \in Tabs : owner'[t] = "mine" /\ t \notin stray' =>
              owner[t] = "mine" /\ t \notin stray /\ t # tabOf[o]
      BY <2>9 DEF LetGo, ReleaseOf
    <3>d. \A v \in Workers : pc[v] \in Tearing \cup {"letGo"} => obj[v] \in Objs
      OBVIOUS
    <3>t. open \subseteq Tabs
      OBVIOUS
    <3> HIDE DEF TypeInv, ReservationInv, PagesSane, LocalsSane, ObjectsSane, FollowsSane,
             ClaimsSane, ClaimsInUse, LiveObjs, o
    <3>1. ASSUME NEW t \in open' \ stray', owner'[t] = "mine"
          PROVE  t \in open \ stray /\ owner[t] = "mine"
      BY <3>1, <3>a, <3>c, <3>t
    <3>2. ASSUME NEW t \in open' \ stray', owner'[t] = "mine", NEW p \in Objs, Drives(p, t)
          PROVE  Drives(p, t)'
      BY <3>2, <3>a, <3>b
    <3>3. ASSUME NEW t \in open' \ stray', owner'[t] = "mine", NEW v \in Workers,
                 Carries(v, t) \/ Releases(v, t)
          PROVE  (Carries(v, t) \/ Releases(v, t))'
      <4>1. v # w /\ t \in Tabs
        BY <3>3, <3>a, <3>c, <3>t, TableAssumption DEF o
      <4>2. CASE Carries(v, t)
        BY <3>a, <4>1, <4>2
      <4>3. CASE Releases(v, t)
        BY <3>a, <3>b, <3>d, <4>1, <4>3
      <4> QED  BY <3>3, <4>2, <4>3
    <3> HIDE DEF TypeInv, ClaimsInUse, Drives, Carries, Releases
    <3> QED
      BY ONLY TypeInv, TypeInv', ClaimsInUse, <3>1, <3>2, <3>3, ClaimsStillUsed DEF InUse
  <2> QED
    BY <1>4, <2>1, <2>2, <2>3, <2>4, <2>5, <2>6, <2>7, <2>8, <2>9 DEF Using
<1>5. ASSUME NEW w \in Workers, Parking(w) PROVE ClaimsInUse'
  <2>1. CASE ParkRefused(w)
    BY <2>1, SMTT(30) DEF ParkRefused
  <2>2. CASE ParkClaim(w)
    BY <2>2 DEF ParkClaim
  <2>3. CASE ParkRelease(w)
    <3>1. ASSUME NEW t \in open' \ stray', owner'[t] = "mine"
          PROVE  t \in open \ stray /\ owner[t] = "mine"
      BY <2>3, <3>1 DEF ParkRelease, ReleaseOf, Relied
    <3>2. ASSUME NEW t \in open' \ stray', owner'[t] = "mine", NEW p \in Objs, Drives(p, t)
          PROVE  Drives(p, t)'
      BY <2>3, <3>2 DEF ParkRelease, ReleaseOf, Relied
    <3>3. ASSUME NEW t \in open' \ stray', owner'[t] = "mine", NEW v \in Workers,
                 Carries(v, t) \/ Releases(v, t)
          PROVE  (Carries(v, t) \/ Releases(v, t))'
      BY <2>3, <3>3 DEF ParkRelease, ReleaseOf, Relied
    <3> HIDE DEF TypeInv, ClaimsInUse, Drives, Carries, Releases
    <3> QED
      BY ONLY TypeInv, TypeInv', ClaimsInUse, <3>1, <3>2, <3>3, ClaimsStillUsed DEF InUse
  <2> QED
    BY <1>5, <2>1, <2>2, <2>3 DEF Parking
<1>6. ASSUME NEW w \in Workers, NewCall(w) PROVE ClaimsInUse'
  <2>1. ASSUME NEW n \in Names, NEW t \in open \cup {NoTab}, Call(w, n, t) PROVE ClaimsInUse'
    BY <2>1 DEF Call
  <2>2. ASSUME NEW n \in Names, Close(w, n) PROVE ClaimsInUse'
    BY <2>2 DEF Close
  <2>3. ASSUME NEW n \in Names, Get(w, n) PROVE ClaimsInUse'
    <3>1. ASSUME NEW t \in open' \ stray', owner'[t] = "mine"
          PROVE  t \in open \ stray /\ owner[t] = "mine"
      BY <2>3, <3>1 DEF Get, ReportOn
    <3>2. ASSUME NEW t \in open' \ stray', owner'[t] = "mine", NEW p \in Objs, Drives(p, t)
          PROVE  Drives(p, t)'
      BY <2>3, <3>2 DEF Get, ReportOn
    <3>3. ASSUME NEW t \in open' \ stray', owner'[t] = "mine", NEW v \in Workers,
                 Carries(v, t) \/ Releases(v, t)
          PROVE  (Carries(v, t) \/ Releases(v, t))'
      BY <2>3, <3>3 DEF Get, ReportOn
    <3> HIDE DEF TypeInv, ClaimsInUse, Drives, Carries, Releases
    <3> QED
      BY ONLY TypeInv, TypeInv', ClaimsInUse, <3>1, <3>2, <3>3, ClaimsStillUsed DEF InUse
  <2>4. ASSUME NEW n \in Names, GetReported(w, n) PROVE ClaimsInUse'
    <3>1. ASSUME NEW t \in open' \ stray', owner'[t] = "mine"
          PROVE  t \in open \ stray /\ owner[t] = "mine"
      BY <2>4, <3>1 DEF GetReported, ReportOn
    <3>2. ASSUME NEW t \in open' \ stray', owner'[t] = "mine", NEW p \in Objs, Drives(p, t)
          PROVE  Drives(p, t)'
      BY <2>4, <3>2 DEF GetReported, ReportOn
    <3>3. ASSUME NEW t \in open' \ stray', owner'[t] = "mine", NEW v \in Workers,
                 Carries(v, t) \/ Releases(v, t)
          PROVE  (Carries(v, t) \/ Releases(v, t))'
      BY <2>4, <3>3 DEF GetReported, ReportOn
    <3> HIDE DEF TypeInv, ClaimsInUse, Drives, Carries, Releases
    <3> QED
      BY ONLY TypeInv, TypeInv', ClaimsInUse, <3>1, <3>2, <3>3, ClaimsStillUsed DEF InUse
  <2>5. ASSUME NEW t \in open, CheckParked(w, t) PROVE ClaimsInUse'
    BY <2>5 DEF CheckParked
  <2> QED
    BY <1>6, <2>1, <2>2, <2>3, <2>4, <2>5 DEF NewCall
<1>7. CASE World
  <2>1. ASSUME NEW o \in Objs, GoIdle(o) PROVE ClaimsInUse'
    BY <2>1 DEF GoIdle
  <2>2. ASSUME NEW t \in Tabs, UserCloses(t) PROVE ClaimsInUse'
    BY <2>2 DEF UserCloses
  <2>3. ASSUME NEW t \in Tabs, OthersClaim(t) PROVE ClaimsInUse'
    BY <2>3 DEF OthersClaim
  <2>4. ASSUME NEW t \in Tabs, NEW u \in Tabs, ChromeReplaces(t, u) PROVE ClaimsInUse'
    BY <2>4 DEF ChromeReplaces
  <2> QED
    BY <1>7, <2>1, <2>2, <2>3, <2>4 DEF World
<1>8. CASE UNCHANGED vars
  BY <1>8 DEF vars
<1> QED  BY <1>1, <1>2, <1>3, <1>4, <1>5, <1>6, <1>7, <1>8 DEF TableNext, WorkerStep

-----------------------------------------------------------------------------
\* Everything the claims and the tabs rest on.
SessionInv ==
    /\ TableInv
    /\ PagesSane /\ LocalsSane /\ ObjectsSane /\ FollowsSane
    /\ OursKept /\ ClaimsSane /\ ClaimsInUse

\* It holds at the start: no session, no thread at work, and no tab of the server's.
LEMMA InitSessions == TableInit => SessionInv
<1> SUFFICES ASSUME TableInit PROVE SessionInv
  OBVIOUS
<1> USE TableAssumption DEF TableInit, Live, LiveObjs, Making, Tearing
<1>1. TableInv  BY InitTypes, InitReservations DEF TableInv
<1>2. PagesSane  BY DEF PagesSane
<1>3. LocalsSane  BY DEF LocalsSane
<1>4. ObjectsSane  BY DEF ObjectsSane
<1>5. FollowsSane  BY DEF FollowsSane
<1>6. OursKept  BY DEF OursKept
<1>7. ClaimsSane  BY DEF ClaimsSane
<1>8. ClaimsInUse  BY DEF ClaimsInUse
<1> QED
  BY <1>1, <1>2, <1>3, <1>4, <1>5, <1>6, <1>7, <1>8 DEF SessionInv

\* In every state of the session table its inductive invariant holds.
THEOREM SessionInvariant == TableSpec => []SessionInv
<1>1. SessionInv /\ [TableNext]_vars => SessionInv'
  <2> SUFFICES ASSUME SessionInv, [TableNext]_vars PROVE SessionInv'
    OBVIOUS
  <2>1. TableInv'  BY NextInv DEF SessionInv
  <2>2. TypeInv /\ ReservationInv /\ TypeInv'  BY <2>1 DEF SessionInv, TableInv
  <2>3. PagesSane'  BY <2>2, PagesStep DEF SessionInv
  <2>4. LocalsSane'  BY <2>2, LocalsStep DEF SessionInv
  <2>5. ObjectsSane'  BY <2>2, ObjectsStep DEF SessionInv
  <2>6. FollowsSane'  BY <2>2, FollowsStep DEF SessionInv
  <2>7. OursKept'  BY <2>2, OursStep DEF SessionInv
  <2>8. ClaimsSane'  BY <2>2, ClaimsStep DEF SessionInv
  <2>9. ClaimsInUse'  BY <2>2, UsesStep DEF SessionInv
  <2> QED
    BY <2>1, <2>3, <2>4, <2>5, <2>6, <2>7, <2>8, <2>9 DEF SessionInv
<1>2. QED  BY InitSessions, <1>1, PTL DEF TableSpec

\* Sessions and claims match in both directions: a claim on an open tab that nobody
\* uses would keep other agents out of it, a session without its claim would share
\* its tab with one of them.
THEOREM ClaimsAlwaysMatch == TableSpec => []ClaimsMatchSessions
<1>1. SessionInv => ClaimsMatchSessions
  BY DEF SessionInv, ClaimsSane, OnHand, ClaimsMatchSessions, SessionsHoldClaims
<1>2. QED  BY <1>1, SessionInvariant, PTL

\* No tab that the server opened stays in the user's Chrome with nobody to close it.
THEOREM TabsAlwaysAccounted == TableSpec => []OpenedTabsAccounted
<1>1. SessionInv => OpenedTabsAccounted
  BY DEF SessionInv, OursKept, Keeps, Opens, Shuts, OpenedTabsAccounted, Making, Tearing
<1>2. QED  BY <1>1, SessionInvariant, PTL
=============================================================================
