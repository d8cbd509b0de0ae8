-------------------------- MODULE MacroSchedulesProofs --------------------------
(***************************************************************************)
(* Theorems about macro schedules, for any number of processes, schedules  *)
(* and jobs and any periods: the types, that no schedule runs more often   *)
(* than its period allows, and that a retired one never comes back.        *)
(***************************************************************************)
EXTENDS MacroSchedules, TLAPS

LEMMA InitTypes == ScheduleInit => ScheduleTypeOK
  BY ScheduleAssumption DEF ScheduleInit, ScheduleTypeOK, Nothing, Stored

\* One item after a tick is an item.
LEMMA TickedIsItem ==
    ASSUME ScheduleTypeOK, NEW p \in Servers, NEW t \in Nat, NEW s \in Stored
    PROVE  Ticked(p, t)[s] \in Item
<1>1. file[s] \in Item /\ s \in Scheds /\ Every[s] \in Nat
  BY ScheduleAssumption DEF ScheduleTypeOK, Stored
<1>2. NextTime(s, t) \in Nat
  BY <1>1 DEF NextTime, Item
<1>3. QED  BY <1>1, <1>2 DEF Ticked, Item

LEMMA StepTypes == ScheduleTypeOK /\ [ScheduleNext]_vars => ScheduleTypeOK'
<1> SUFFICES ASSUME ScheduleTypeOK, [ScheduleNext]_vars PROVE ScheduleTypeOK'
  OBVIOUS
<1> USE ScheduleAssumption
<1>0. now \in Nat /\ now <= MaxTime
  BY DEF ScheduleTypeOK
<1>1. ASSUME NEW s \in Scheds, Create(s) PROVE ScheduleTypeOK'
  <2>1. [created |-> now, nextAt |-> now + Every[s], runs |-> 0, lastJob |-> NoJob] \in Item
    BY <1>0 DEF Item
  <2>2. QED  BY <1>1, <2>1 DEF Create, ScheduleTypeOK, Stored
<1>2. ASSUME NEW s \in Scheds, Remove(s) PROVE ScheduleTypeOK'
  BY <1>2 DEF Remove, ScheduleTypeOK, Stored
<1>3. ASSUME NEW p \in Servers, Claim(p) PROVE ScheduleTypeOK'
  BY <1>0, <1>3 DEF Claim, ScheduleTypeOK, Stored
<1>4. ASSUME NEW p \in Servers, NEW t \in clock[p]..now, Tick(p, t) PROVE ScheduleTypeOK'
  <2>0. t \in Nat
    BY DEF ScheduleTypeOK
  <2>1. file' \in [Scheds -> Item \cup {NoItem}]
    BY <1>4, <2>0, TickedIsItem DEF Tick, ScheduleTypeOK
  <2>2. due' \in [Servers -> SUBSET [sched : Scheds, job : Jobs \cup {NoJob}]]
    BY <1>4 DEF Tick, ScheduleTypeOK, ToRun, Stored, Item
  <2>3. retired' \subseteq Scheds /\ Stored' \cap retired' = {}
    BY <1>4 DEF Tick, ScheduleTypeOK, Finished, Stored
  <2>4. QED  BY <1>4, <2>1, <2>2, <2>3 DEF Tick, ScheduleTypeOK
<1>5. ASSUME NEW p \in Servers, NEW d \in due[p], NEW j \in Jobs, Launch(p, d, j) PROVE ScheduleTypeOK'
  <2>1. d \in [sched : Scheds, job : Jobs \cup {NoJob}]
    BY DEF ScheduleTypeOK
  <2>2. QED  BY <1>5, <2>1 DEF Launch, ScheduleTypeOK, Stored
<1>6. ASSUME NEW p \in Servers, NEW d \in due[p], LaunchRefused(p, d) PROVE ScheduleTypeOK'
  <2>1. d \in [sched : Scheds, job : Jobs \cup {NoJob}]
    BY DEF ScheduleTypeOK
  <2>2. QED  BY <1>6, <2>1 DEF LaunchRefused, ScheduleTypeOK, Stored
<1>7. ASSUME NEW p \in Servers, Record(p) PROVE ScheduleTypeOK'
  <2>1. launched[p].job \in Jobs \cup {NoJob}
    BY DEF ScheduleTypeOK
  <2>2. file' \in [Scheds -> Item \cup {NoItem}] /\ \A s \in Scheds : file[s] = NoItem => file'[s] = NoItem
    BY <1>7, <2>1 DEF Record, ScheduleTypeOK, Item
  <2>3. Stored' \cap retired' = {}
    BY <1>7, <2>2 DEF Record, ScheduleTypeOK, Stored
  <2>4. QED  BY <1>7, <2>2, <2>3 DEF Record, ScheduleTypeOK, Nothing
<1>8. CASE World
  <2>1. CASE TimePasses
    BY <1>0, <2>1 DEF TimePasses, ScheduleTypeOK, Stored
  <2>2. ASSUME NEW j \in Jobs, JobEnds(j) PROVE ScheduleTypeOK'
    BY <2>2 DEF JobEnds, ScheduleTypeOK, Stored
  <2>3. ASSUME NEW p \in Servers, Die(p) PROVE ScheduleTypeOK'
    BY <2>3 DEF Die, ScheduleTypeOK, Stored, Nothing
  <2>4. ASSUME NEW p \in Servers, Start(p) PROVE ScheduleTypeOK'
    BY <2>4 DEF Start, ScheduleTypeOK, Stored
  <2>5. QED  BY <1>8, <2>1, <2>2, <2>3, <2>4 DEF World
<1>9. CASE UNCHANGED vars
  BY <1>9 DEF vars, ScheduleTypeOK, Stored
<1>10. QED
  BY <1>1, <1>2, <1>3, <1>4, <1>5, <1>6, <1>7, <1>8, <1>9 DEF ScheduleNext, Tools, LoopStep

\* The files and the processes' state keep their shape.
THEOREM ScheduleTypesOK == ScheduleSpec => []ScheduleTypeOK
  BY InitTypes, StepTypes, PTL DEF ScheduleSpec

-----------------------------------------------------------------------------
\* The next slot of an item lies a period after every slot it has had.
Paced(item, period) ==
    /\ item.created + item.runs * period <= now
    /\ item.created + item.runs * period + period <= item.nextAt

PacedInv == \A s \in Stored : Paced(file[s], Every[s])

\* A due item that is counted is still paced.
LEMMA TickedIsPaced ==
    ASSUME ScheduleTypeOK, NEW p \in Servers, NEW t \in Nat, t <= now,
           NEW s \in Stored, Paced(file[s], Every[s])
    PROVE  Paced(Ticked(p, t)[s], Every[s])
<1> DEFINE item == file[s]
<1>1. /\ item.created \in Nat /\ item.runs \in Nat /\ item.nextAt \in Nat
      /\ now \in Nat /\ Every[s] \in Nat /\ s \in Scheds
  BY ScheduleAssumption DEF ScheduleTypeOK, Stored, Item
<1>2. CASE ~IsDue(s, t)
  BY <1>2 DEF Ticked
<1>3. CASE IsDue(s, t)
  <2> DEFINE runs == Ticked(p, t)[s].runs
             m    == item.runs * Every[s]
             k    == runs * Every[s]
  <2>1. /\ Ticked(p, t)[s].created = item.created
        /\ Ticked(p, t)[s].nextAt = NextTime(s, t)
        /\ runs = item.runs \/ runs = item.runs + 1
    BY <1>3 DEF Ticked
  <2>2. k = m \/ k = m + Every[s]
    BY <1>1, <2>1
  <2>3. m \in Nat /\ k \in Nat
    BY <1>1, <2>1
  <2>4. item.nextAt <= t
    BY <1>3 DEF IsDue
  <2>5. NextTime(s, t) >= item.nextAt + Every[s] /\ NextTime(s, t) > t
    BY <1>1, <2>4, ScheduleAssumption DEF NextTime
  <2>6. item.created + m <= now /\ item.created + m + Every[s] <= item.nextAt
    BY DEF Paced
  <2>7. item.created + k <= now /\ item.created + k + Every[s] <= NextTime(s, t)
    <3> HIDE DEF m, k, item
    <3>1. NextTime(s, t) \in Nat
      BY <1>1 DEF NextTime, item
    <3>2. QED  BY <1>1, <2>2, <2>3, <2>4, <2>5, <2>6, <3>1
  <2>8. QED  BY <2>1, <2>7 DEF Paced
<1>4. QED  BY <1>2, <1>3

LEMMA StepPaced == ScheduleTypeOK /\ PacedInv /\ [ScheduleNext]_vars => PacedInv'
<1> SUFFICES ASSUME ScheduleTypeOK, PacedInv, [ScheduleNext]_vars PROVE PacedInv'
  OBVIOUS
<1>1. ASSUME NEW s \in Scheds, Create(s) PROVE PacedInv'
  <2> SUFFICES ASSUME NEW r \in Stored' PROVE Paced(file[r], Every[r])'
    BY DEF PacedInv
  <2>1. CASE r = s
    <3>1. file'[s].created = now /\ file'[s].runs = 0 /\ file'[s].nextAt = now + Every[s] /\ now' = now
      BY <1>1 DEF Create, ScheduleTypeOK
    <3>2. now \in Nat /\ Every[s] \in Nat /\ 0 * Every[s] = 0
      BY ScheduleAssumption DEF ScheduleTypeOK
    <3>3. QED  BY <2>1, <3>1, <3>2 DEF Paced
  <2>2. CASE r # s
    BY <1>1, <2>2 DEF Create, Paced, PacedInv, Stored, ScheduleTypeOK
  <2>3. QED  BY <2>1, <2>2
<1>2. ASSUME NEW s \in Scheds, Remove(s) PROVE PacedInv'
  BY <1>2 DEF Remove, PacedInv, Paced, Stored, ScheduleTypeOK
<1>3. ASSUME NEW p \in Servers, NEW t \in clock[p]..now, Tick(p, t) PROVE PacedInv'
  <2> SUFFICES ASSUME NEW r \in Stored' PROVE Paced(file[r], Every[r])'
    BY DEF PacedInv
  <2>1. r \in Stored /\ file'[r] = Ticked(p, t)[r] /\ now' = now
    BY <1>3 DEF Tick, Stored
  <2>2. Paced(Ticked(p, t)[r], Every[r])
    BY <2>1, TickedIsPaced DEF PacedInv, ScheduleTypeOK
  <2>3. QED  BY <2>1, <2>2 DEF Paced
<1>4. ASSUME NEW p \in Servers, Record(p) PROVE PacedInv'
  <2> SUFFICES ASSUME NEW r \in Stored' PROVE Paced(file[r], Every[r])'
    BY DEF PacedInv
  <2>1. /\ r \in Stored /\ now' = now /\ file'[r].created = file[r].created
        /\ file'[r].nextAt = file[r].nextAt /\ file'[r].runs = file[r].runs
    BY <1>4 DEF Record, Stored, ScheduleTypeOK
  <2>2. QED  BY <2>1 DEF Paced, PacedInv
<1>5. CASE TimePasses
  <2> SUFFICES ASSUME NEW r \in Stored' PROVE Paced(file[r], Every[r])'
    BY DEF PacedInv
  <2>1. r \in Stored /\ file' = file /\ now' = now + 1 /\ now \in Nat /\ Paced(file[r], Every[r])
    BY <1>5 DEF TimePasses, Stored, PacedInv, ScheduleTypeOK
  <2>2. file[r].created + file[r].runs * Every[r] \in Nat
    <3>1. file[r].created \in Nat /\ file[r].runs \in Nat /\ Every[r] \in Nat
      BY <2>1, ScheduleAssumption DEF ScheduleTypeOK, Stored, Item
    <3>2. file[r].runs * Every[r] \in Nat
      BY <3>1
    <3>3. QED  BY <3>1, <3>2
  <2>3. QED
    <3> DEFINE m == file[r].created + file[r].runs * Every[r]
    <3>1. m \in Nat /\ m <= now /\ m + Every[r] <= file[r].nextAt
      BY <2>1, <2>2 DEF Paced
    <3>2. m <= now + 1
      <4> HIDE DEF m
      <4>1. QED  BY <2>1, <3>1
    <3>3. QED  BY <2>1, <3>1, <3>2 DEF Paced
<1>6. ASSUME file' = file, now' = now PROVE PacedInv'
  BY <1>6 DEF PacedInv, Paced, Stored
<1>7. QED
  BY <1>1, <1>2, <1>3, <1>4, <1>5, <1>6
     DEF ScheduleNext, Tools, LoopStep, World, Claim, Launch, LaunchRefused, JobEnds, Die, Start, vars

\* However many processes believe they hold the scheduler and however late they
\* are, no schedule is counted more often than its period allows.
THEOREM NeverTooOftenHolds == ScheduleSpec => []NeverTooOften
<1>1. ScheduleInit => PacedInv
  BY DEF ScheduleInit, PacedInv, Stored
<1>2. PacedInv => NeverTooOften
  BY DEF PacedInv, Paced, NeverTooOften
<1>3. QED  BY <1>1, <1>2, StepPaced, ScheduleTypesOK, PTL DEF ScheduleSpec

\* A schedule that was removed or has had its runs is never stored again, although
\* jobs of it may still be launched and recorded.
THEOREM RetiredStayRetired == ScheduleSpec => RetiredForGood
<1>1. ScheduleTypeOK /\ [ScheduleNext]_vars => [\A s \in retired : file'[s] = NoItem]_vars
  <2> SUFFICES ASSUME ScheduleTypeOK, ScheduleNext, NEW r \in retired PROVE file'[r] = NoItem
    OBVIOUS
  <2>1. file[r] = NoItem /\ r \in Scheds
    BY DEF ScheduleTypeOK, Stored
  <2>2. QED
    BY <2>1 DEF ScheduleTypeOK, ScheduleNext, Tools, LoopStep, World, Create, Remove, Claim, Tick, Record,
                Launch, LaunchRefused, TimePasses, JobEnds, Die, Start, Stored
<1>2. QED  BY <1>1, ScheduleTypesOK, PTL DEF ScheduleSpec, RetiredForGood
=============================================================================
