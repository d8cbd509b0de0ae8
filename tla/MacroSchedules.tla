----------------------------- MODULE MacroSchedules -----------------------------
(***************************************************************************)
(* Macro schedules (web_search_neo/macro_schedules.py): several server     *)
(* processes share one file of schedules.  Each runs a scheduler loop; the *)
(* one that holds the owner file's heartbeat counts the runs that are due  *)
(* and launches them as background jobs of its own.  The schedule file and *)
(* the owner file are each read and written under a lock across processes; *)
(* between the steps a process may be arbitrarily slow (a machine that is  *)
(* put to sleep), and it may die.                                          *)
(*                                                                         *)
(* Schedules repeat every Every[s] units of time; those at set times of    *)
(* day differ only in how the next time is computed.                       *)
(***************************************************************************)
EXTENDS Naturals, FiniteSets

CONSTANTS
    Servers,    \* server processes; a restarted one is a new process
    Scheds,     \* schedule ids, each of them given out once
    Jobs,       \* job ids; one that nothing refers to is used again
    Every,      \* Every[s]: every_seconds of s
    MaxRuns,    \* MaxRuns[s]: max_runs of s, 0 for none
    Stale,      \* OWNER_STALE_SECONDS
    MaxTime,    \* bound: the time at which the model's clock stops
    NoServer, NoJob, NoItem

ASSUME ScheduleAssumption ==
    /\ Every \in [Scheds -> Nat \ {0}] /\ MaxRuns \in [Scheds -> Nat]
    /\ Stale \in Nat /\ MaxTime \in Nat
    /\ NoServer \notin Servers /\ NoJob \notin Jobs
    /\ NoItem \notin Scheds

VARIABLES
    now,        \* time.time()
    file,       \* the schedule file: the item of each schedule, or NoItem
    retired,    \* the ids that were removed or came to their end
    owner,      \* the owner file: the process and its last heartbeat
    alive,      \* the processes that run
    clock,      \* the time at which each process last took the heartbeat over
    loop,       \* where the scheduler loop of each process is
    due,        \* the due items a tick has yet to launch: id and last job as read
    launched,   \* the item whose launch is to be recorded
    active,     \* the jobs that run
    home        \* home[j]: the process and the schedule of job j

vars == <<now, file, retired, owner, alive, clock, loop, due, launched, active, home>>

Item == [created : Nat, nextAt : Nat, runs : Nat, lastJob : Jobs \cup {NoJob}]

Stored == {s \in Scheds : file[s] # NoItem}

Nothing == [sched |-> NoItem, job |-> NoJob]

ScheduleInit ==
    /\ now = 0 /\ file = [s \in Scheds |-> NoItem] /\ retired = {}
    /\ owner = [pid |-> NoServer, beat |-> 0]
    /\ alive = Servers /\ clock = [p \in Servers |-> 0]
    /\ loop = [p \in Servers |-> "sleep"] /\ due = [p \in Servers |-> {}]
    /\ launched = [p \in Servers |-> Nothing]
    /\ active = {} /\ home = [j \in Jobs |-> [proc |-> NoServer, sched |-> NoItem]]

-----------------------------------------------------------------------------
\* The tools: op='schedule' and op='unschedule', from any process.

Create(s) ==
    /\ s \notin Stored \cup retired
    /\ file' = [file EXCEPT ![s] = [created |-> now, nextAt |-> now + Every[s],
                                    runs |-> 0, lastJob |-> NoJob]]
    /\ UNCHANGED <<now, retired, owner, alive, clock, loop, due, launched, active, home>>

Remove(s) ==
    /\ s \in Stored
    /\ file' = [file EXCEPT ![s] = NoItem] /\ retired' = retired \cup {s}
    /\ UNCHANGED <<now, owner, alive, clock, loop, due, launched, active, home>>

-----------------------------------------------------------------------------
\* The scheduler loop.

\* The owner is gone, has been silent for too long, or never was.
OwnerGone == \/ owner.pid \notin alive
             \/ now > owner.beat + Stale

\* Under the owner file's lock: the heartbeat of the one that may go on.
Claim(p) ==
    /\ p \in alive /\ loop[p] = "sleep" /\ Stored # {}
    /\ owner.pid = p \/ OwnerGone
    /\ owner' = [pid |-> p, beat |-> now] /\ clock' = [clock EXCEPT ![p] = now]
    /\ loop' = [loop EXCEPT ![p] = "tick"]
    /\ UNCHANGED <<now, file, retired, alive, due, launched, active, home>>

\* Mutant: a run is due until it has been launched.
NextTimeUnmoved(s, t) == file[s].nextAt

\* next_time at time t: a slot that was slept through is not made up for.
NextTime(s, t) == IF file[s].nextAt + Every[s] > t THEN file[s].nextAt + Every[s] ELSE t + Every[s]

\* The last run of s is a job of this very process and still going.
Running(p, s) == file[s].lastJob \in active /\ home[file[s].lastJob].proc = p

IsDue(s, t) == s \in Stored /\ file[s].nextAt <= t

\* Mutant: a run that is still going keeps its slot.
TickedWaiting(p, t) ==
    [s \in Stored |->
        IF ~IsDue(s, t) \/ Running(p, s) THEN file[s]
        ELSE [created |-> file[s].created, nextAt |-> NextTime(s, t),
              runs |-> file[s].runs + 1, lastJob |-> file[s].lastJob]]

\* The items after a tick of p: a due one moves on, and is counted unless the
\* run before it is still going.
Ticked(p, t) ==
    [s \in Stored |->
        IF ~IsDue(s, t) THEN file[s]
        ELSE [created |-> file[s].created, nextAt |-> NextTime(s, t),
              runs |-> IF Running(p, s) THEN file[s].runs ELSE file[s].runs + 1,
              lastJob |-> file[s].lastJob]]

ToRun(p, t) == {s \in Stored : IsDue(s, t) /\ ~Running(p, s)}

\* Those that have had all their runs and are not about to run.
Finished(p, t) == {s \in Stored \ ToRun(p, t) : MaxRuns[s] # 0 /\ Ticked(p, t)[s].runs >= MaxRuns[s]}

\* Under the schedule file's lock: count what is due, drop what is finished.  The
\* clock was read before the lock was waited for.
Tick(p, t) ==
    /\ p \in alive /\ loop[p] = "tick" /\ t \in clock[p]..now
    /\ file' = [s \in Scheds |-> IF s \in Stored \ Finished(p, t) THEN Ticked(p, t)[s] ELSE NoItem]
    /\ retired' = retired \cup Finished(p, t)
    /\ due' = [due EXCEPT ![p] = {[sched |-> s, job |-> file[s].lastJob] : s \in ToRun(p, t)}]
    /\ loop' = [loop EXCEPT ![p] = IF ToRun(p, t) = {} THEN "sleep" ELSE "launch"]
    /\ clock' = [clock EXCEPT ![p] = 0]
    /\ UNCHANGED <<now, owner, alive, launched, active, home>>

\* Nothing refers to the job id j.
Unused(j) ==
    /\ j \notin active
    /\ \A s \in Stored : file[s].lastJob # j
    /\ \A p \in Servers : launched[p].job # j /\ \A d \in due[p] : d.job # j

\* A due item becomes a background job of this process...
Launch(p, d, j) ==
    /\ p \in alive /\ loop[p] = "launch" /\ d \in due[p] /\ Unused(j)
    /\ active' = active \cup {j}
    /\ home' = [home EXCEPT ![j] = [proc |-> p, sched |-> d.sched]]
    /\ due' = [due EXCEPT ![p] = @ \ {d}]
    /\ launched' = [launched EXCEPT ![p] = [sched |-> d.sched, job |-> j]]
    /\ loop' = [loop EXCEPT ![p] = "record"]
    /\ UNCHANGED <<now, file, retired, owner, alive, clock>>

\* ...or is refused: the macro is gone, the session is not there.
LaunchRefused(p, d) ==
    /\ p \in alive /\ loop[p] = "launch" /\ d \in due[p]
    /\ due' = [due EXCEPT ![p] = @ \ {d}]
    /\ launched' = [launched EXCEPT ![p] = d]
    /\ loop' = [loop EXCEPT ![p] = "record"]
    /\ UNCHANGED <<now, file, retired, owner, alive, clock, active, home>>

\* Mutant: the item that was launched is written back as it was read.
RecordWhole(p) ==
    /\ p \in alive /\ loop[p] = "record"
    /\ file' = [file EXCEPT ![launched[p].sched] =
                   IF @ # NoItem THEN [created |-> @.created, nextAt |-> @.nextAt, runs |-> @.runs,
                                       lastJob |-> launched[p].job]
                   ELSE [created |-> now, nextAt |-> now + Every[launched[p].sched], runs |-> 1,
                         lastJob |-> launched[p].job]]
    /\ launched' = [launched EXCEPT ![p] = Nothing]
    /\ loop' = [loop EXCEPT ![p] = IF due[p] = {} THEN "sleep" ELSE "launch"]
    /\ UNCHANGED <<now, retired, owner, alive, clock, due, active, home>>

\* Under the schedule file's lock: the job is noted, if the schedule is still there.
Record(p) ==
    /\ p \in alive /\ loop[p] = "record"
    /\ file' = [s \in Scheds |->
                   IF s = launched[p].sched /\ file[s] # NoItem
                   THEN [created |-> file[s].created, nextAt |-> file[s].nextAt,
                         runs |-> file[s].runs, lastJob |-> launched[p].job]
                   ELSE file[s]]
    /\ launched' = [launched EXCEPT ![p] = Nothing]
    /\ loop' = [loop EXCEPT ![p] = IF due[p] = {} THEN "sleep" ELSE "launch"]
    /\ UNCHANGED <<now, retired, owner, alive, clock, due, active, home>>

-----------------------------------------------------------------------------
\* What happens meanwhile.

JobEnds(j) ==
    /\ j \in active
    /\ active' = active \ {j}
    /\ UNCHANGED <<now, file, retired, owner, alive, clock, loop, due, launched, home>>

\* A process dies, with its jobs and what it was about to launch.
Die(p) ==
    /\ p \in alive
    /\ alive' = alive \ {p}
    /\ active' = {j \in active : home[j].proc # p}
    /\ owner' = [owner EXCEPT !.pid = IF @ = p THEN NoServer ELSE @]
    /\ loop' = [loop EXCEPT ![p] = "sleep"] /\ due' = [due EXCEPT ![p] = {}]
    /\ launched' = [launched EXCEPT ![p] = Nothing] /\ clock' = [clock EXCEPT ![p] = 0]
    /\ UNCHANGED <<now, file, retired, home>>

Start(p) ==
    /\ p \notin alive
    /\ alive' = alive \cup {p}
    /\ UNCHANGED <<now, file, retired, owner, clock, loop, due, launched, active, home>>

TimePasses ==
    /\ now < MaxTime
    /\ now' = now + 1
    /\ UNCHANGED <<file, retired, owner, alive, clock, loop, due, launched, active, home>>

LoopStep(p) ==
    \/ Claim(p) \/ Record(p)
    \/ \E t \in clock[p]..now : Tick(p, t)
    \/ \E d \in due[p] : LaunchRefused(p, d) \/ \E j \in Jobs : Launch(p, d, j)

Tools == \E s \in Scheds : Create(s) \/ Remove(s)

World == TimePasses \/ (\E j \in Jobs : JobEnds(j)) \/ \E p \in Servers : Die(p) \/ Start(p)

ScheduleNext == Tools \/ (\E p \in Servers : LoopStep(p)) \/ World

ScheduleSpec == ScheduleInit /\ [][ScheduleNext]_vars

\* Every process keeps its loop going and one that died is started again; jobs may
\* run for ever and time may stand still.
ScheduleFairSpec ==
    ScheduleSpec /\ \A p \in Servers : WF_vars(LoopStep(p)) /\ WF_vars(Start(p))

-----------------------------------------------------------------------------

\* The state is of the shape the code keeps.
ScheduleTypeOK ==
    /\ now \in 0..MaxTime
    /\ file \in [Scheds -> Item \cup {NoItem}]
    /\ retired \subseteq Scheds /\ Stored \cap retired = {}
    /\ owner \in [pid : Servers \cup {NoServer}, beat : Nat]
    /\ alive \subseteq Servers /\ clock \in [Servers -> 0..MaxTime]
    /\ loop \in [Servers -> {"sleep", "tick", "launch", "record"}]
    /\ due \in [Servers -> SUBSET [sched : Scheds, job : Jobs \cup {NoJob}]]
    /\ launched \in [Servers -> [sched : Scheds \cup {NoItem}, job : Jobs \cup {NoJob}]]
    /\ active \subseteq Jobs
    /\ home \in [Jobs -> [proc : Servers \cup {NoServer}, sched : Scheds \cup {NoItem}]]

\* However many processes believe they hold the scheduler, no run is started twice:
\* since it was created, a schedule was never counted more often than its period allows.
NeverTooOften ==
    \A s \in Stored : file[s].created + file[s].runs * Every[s] <= now

\* A schedule that was removed, or has had its runs, never comes back.
RetiredForGood == [][\A s \in retired : file'[s] = NoItem]_vars

\* Whatever is due is dealt with in the end - run, skipped, or removed - whichever
\* processes died on the way, once they cease to die.
DueIsSeenTo ==
    (<>[][alive \subseteq alive']_vars) => \A s \in Scheds : IsDue(s, now) ~> ~IsDue(s, now)

\* A schedule runs until max_runs and not beyond.
MaxRunsKept == \A s \in Stored : MaxRuns[s] # 0 => file[s].runs <= MaxRuns[s]
=============================================================================
