------------------------------- MODULE MacroJobs -------------------------------
(***************************************************************************)
(* Macro jobs (web_search_neo/macro_jobs.py and the companion's jobs.js):  *)
(* the scripts that run inside one server process, the questions they ask, *)
(* and the ways to stop a job or to answer it - a call in the same         *)
(* process, a file that another process leaves, a press in the companion's *)
(* popup, which rides back on the report the server sends it.              *)
(*                                                                         *)
(* The server is one asyncio loop: an action is what runs between two      *)
(* awaits.  A cancelled task raises where it waits, the next time it runs. *)
(***************************************************************************)
EXTENDS Naturals

CONSTANTS
    Jobs,     \* job ids
    Asks,     \* Asks[j]: bound: the `ask` steps that j comes to
    Watcher   \* the watcher, as one that reports

ASSUME JobsAssumption == Asks \in [Jobs -> Nat] /\ Watcher \notin Jobs

VARIABLES
    job,         \* job[j]: state, question and cancel_requested; 0 for no question
    script,      \* where the task of j is
    cancelled,   \* the tasks on which cancel() was called and has yet to raise
    asked,       \* asked[j]: the asks that j has come to; a question's number
    future,      \* future[j]: the question that the open ask's answer was given to
    got,         \* got[j][n]: the question whose answer ended the n-th ask of j
    disk,        \* the job files: state and question
    stopFile,    \* the jobs with a .cancel file
    answerFile,  \* answerFile[j]: the question that the .answer.json file is about
    watch, idle, \* where _watch is, and its idle_rounds
    quiet,       \* the rounds of _watch before a report is due again
    report,      \* report[w]: the companion.jobsReport of w, and what it carries
    seen,        \* the companion's copy of the jobs
    stops,       \* the companion's `cancel`: the jobs on which Stop was pressed
    answers      \* the companion's `answers`, by the question they were given to

files == <<stopFile, answerFile>>
companion == <<seen, stops, answers>>
vars == <<job, script, cancelled, asked, future, got, disk, files, watch, idle, quiet, report, companion>>

ACTIVE == {"running", "waiting"}
Ended == {"done", "failed", "cancelled"}
Reporters == Jobs \cup {Watcher}
Unasked == [state |-> "none", question |-> 0]
Shown == [state : {"none"} \cup ACTIVE \cup Ended, question : Nat]

Record(j) == [state |-> job[j].state, question |-> job[j].question]
Active(j) == job[j].state \in ACTIVE
Waiting(j) == job[j].state = "waiting"

\* The job j comes to a state, with a question or without.
Becomes(j, state, question) ==
    job' = [job EXCEPT ![j] = [state |-> state, question |-> question, stop |-> job[j].stop]]

\* persist: the record as it is after the step; a write that fails is let be.
Persist(js) ==
    \E written \in SUBSET js :
        disk' = [j \in Jobs |-> IF j \in written THEN Record(j)' ELSE disk[j]]

NoReport == [at |-> "none", shown |-> [j \in Jobs |-> Unasked],
             stops |-> {}, answers |-> [j \in Jobs |-> 0]]

JobsInit ==
    /\ job = [j \in Jobs |-> [state |-> "none", question |-> 0, stop |-> FALSE]]
    /\ script = [j \in Jobs |-> "none"] /\ cancelled = {}
    /\ asked = [j \in Jobs |-> 0] /\ future = [j \in Jobs |-> 0]
    /\ got = [j \in Jobs |-> [n \in 1..Asks[j] |-> 0]]
    /\ disk = [j \in Jobs |-> Unasked]
    /\ stopFile = {} /\ answerFile = [j \in Jobs |-> 0]
    /\ watch = "off" /\ idle = 0 /\ quiet = 0
    /\ report = [w \in Reporters |-> NoReport]
    /\ seen = [j \in Jobs |-> Unasked] /\ stops = {} /\ answers = [j \in Jobs |-> 0]

-----------------------------------------------------------------------------
\* Stopping and answering, the part that all the ways have in common.

\* cancel on the jobs js of this process: the flag, and the task if it still runs.
Cancel(js) ==
    /\ job' = [j \in Jobs |-> IF j \in js
                              THEN [state |-> job[j].state, question |-> job[j].question, stop |-> TRUE]
                              ELSE job[j]]
    /\ cancelled' = cancelled \cup {j \in js : script[j] \notin {"over", "lost"}}

\* Mutant: the ask makes room for its answer after its report.
AnswerOnceReported(given) ==
    future' = [j \in Jobs |-> IF script[j] = "asking" /\ future[j] = 0 THEN given[j] ELSE future[j]]

\* answer on each job that waits and has no answer yet, when given[j] is one.
Answer(given) ==
    future' = [j \in Jobs |-> IF Waiting(j) /\ future[j] = 0 THEN given[j] ELSE future[j]]

\* _report_now of w up to the moment that it waits for the companion.
SendReport(w) ==
    report' = [report EXCEPT ![w] = [NoReport EXCEPT !.at = "sent",
                                                     !.shown = [j \in Jobs |-> Record(j)']]]

\* The jobs that a reply stops.
ToStop(w) == {j \in report[w].stops : Active(j)}

\* What _report_now makes of the companion's reply.
HearReply(w) ==
    /\ report[w].at = "back"
    /\ Cancel(ToStop(w))
    /\ Answer(report[w].answers)
    /\ report' = [report EXCEPT ![w] = NoReport]

\* The companion is not there, or the request fails or times out: before the
\* companion has seen it, or after.
LoseReport(w) ==
    /\ report[w].at \in {"sent", "back"}
    /\ report' = [report EXCEPT ![w] = NoReport]
    /\ UNCHANGED <<job, cancelled, future>>

-----------------------------------------------------------------------------
\* The script's task.

\* new and launch.
Launch(j) ==
    /\ script[j] = "none"
    /\ Becomes(j, "running", 0)
    /\ script' = [script EXCEPT ![j] = "launched"]
    /\ Persist({j})
    /\ watch' = IF watch = "off" THEN "sleep" ELSE watch
    /\ idle' = IF watch = "off" THEN 0 ELSE idle
    /\ UNCHANGED <<cancelled, asked, future, got, files, quiet, report, companion>>

\* The task runs for the first time; one cancelled before that never enters
\* _run, and nobody sets the job's state.
Begin(j) ==
    /\ script[j] = "launched"
    /\ script' = [script EXCEPT ![j] = IF j \in cancelled THEN "lost" ELSE "step"]
    /\ cancelled' = cancelled \ {j}
    /\ UNCHANGED <<job, asked, future, got, disk, files, watch, idle, quiet, report, companion>>

\* Mutant: a stop does not reach a script that is between two waits.
AskThoughStopped(j) ==
    /\ script[j] = "step" /\ asked[j] < Asks[j]
    /\ asked' = [asked EXCEPT ![j] = @ + 1]
    /\ Becomes(j, "waiting", asked[j] + 1)
    /\ future' = [future EXCEPT ![j] = 0]
    /\ Persist({j})
    /\ script' = [script EXCEPT ![j] = "reporting"]
    /\ SendReport(j) /\ quiet' = 2
    /\ UNCHANGED <<cancelled, got, files, watch, idle, companion>>

\* An `ask` step: _check_limits, then ask up to its own report.
Ask(j) ==
    /\ script[j] = "step" /\ j \notin cancelled /\ ~job[j].stop /\ asked[j] < Asks[j]
    /\ asked' = [asked EXCEPT ![j] = @ + 1]
    /\ Becomes(j, "waiting", asked[j] + 1)
    /\ future' = [future EXCEPT ![j] = 0]
    /\ Persist({j})
    /\ script' = [script EXCEPT ![j] = "reporting"]
    /\ SendReport(j) /\ quiet' = 2
    /\ UNCHANGED <<cancelled, got, files, watch, idle, companion>>

\* Its report is answered, or is given up...
AskReported(j) ==
    /\ script[j] = "reporting" /\ j \notin cancelled
    /\ HearReply(j) \/ LoseReport(j)
    /\ Persist(ToStop(j))
    /\ script' = [script EXCEPT ![j] = "asking"]
    /\ UNCHANGED <<asked, got, files, watch, idle, quiet, companion>>

\* ...and the ask waits until it has its answer, or its time is up.
AskEnds(j, n) ==
    /\ script[j] = "asking" /\ j \notin cancelled
    /\ got' = [got EXCEPT ![j][asked[j]] = n]
    /\ Becomes(j, "running", 0)
    /\ script' = [script EXCEPT ![j] = "step"] /\ future' = [future EXCEPT ![j] = 0]
    /\ Persist({j})
    /\ UNCHANGED <<cancelled, asked, files, watch, idle, quiet, report, companion>>

AskAnswered(j) == future[j] # 0 /\ AskEnds(j, future[j])
AskTimesOut(j) == future[j] = 0 /\ AskEnds(j, 0)

\* The job's end, the way the script went or as it was cancelled; the ask that
\* was open is over, and a report of it that is under way is heard by nobody.
End(j, state) ==
    /\ Becomes(j, state, 0)
    /\ script' = [script EXCEPT ![j] = "over"]
    /\ cancelled' = cancelled \ {j} /\ future' = [future EXCEPT ![j] = 0]
    /\ Persist({j})
    /\ UNCHANGED <<asked, got, files, watch, idle, quiet, report, companion>>

Finish(j) == script[j] = "step" /\ j \notin cancelled /\ \E s \in {"done", "failed"} : End(j, s)

\* Mutant: an ask that is cancelled during its report leaves its question.
RaisesKeepingQuestion(j) ==
    /\ j \in cancelled /\ script[j] \in {"step", "reporting", "asking"}
    /\ Becomes(j, "cancelled", job[j].question)
    /\ script' = [script EXCEPT ![j] = "over"]
    /\ cancelled' = cancelled \ {j} /\ future' = [future EXCEPT ![j] = 0]
    /\ Persist({j})
    /\ UNCHANGED <<asked, got, files, watch, idle, quiet, report, companion>>

\* CancelledError where the task waits.
Raises(j) == j \in cancelled /\ script[j] \in {"step", "reporting", "asking"} /\ End(j, "cancelled")

\* wait_for of a Python before 3.12 gives what it waited for, if that is already
\* there, and forgets the cancellation.
Overtaken(j) ==
    /\ j \in cancelled
    /\ \/ script[j] = "reporting" /\ report[j].at = "back"
       \/ script[j] = "asking" /\ future[j] # 0
    /\ cancelled' = cancelled \ {j}
    /\ UNCHANGED <<job, script, asked, future, got, disk, files, watch, idle, quiet, report, companion>>

-----------------------------------------------------------------------------
\* The watcher.

\* The answer files that _apply_files takes.
Taken == {j \in Jobs : Waiting(j) /\ answerFile[j] # 0}

ApplyFiles ==
    /\ Cancel({j \in stopFile : Active(j)})
    /\ Answer([j \in Jobs |-> IF j \in Taken THEN answerFile[j] ELSE 0])
    /\ stopFile' = {j \in stopFile : ~Active(j)}
    /\ answerFile' = [j \in Jobs |-> IF j \in Taken THEN 0 ELSE answerFile[j]]

\* The end of a round: the records, the count of idle rounds, the sleep.
RoundEnds ==
    /\ Persist({j \in Jobs : Active(j)})
    /\ idle' = IF \E j \in Jobs : Active(j) THEN 0 ELSE idle + 1
    /\ watch' = "sleep"

\* A round without a report: the last one was less than REPORT_SECONDS ago.
QuietRound ==
    /\ watch = "sleep" /\ idle < 2 /\ quiet > 0
    /\ ApplyFiles /\ RoundEnds /\ quiet' = quiet - 1
    /\ UNCHANGED <<script, asked, got, report, companion>>

\* A round with a report, up to the wait for the companion...
ReportRound ==
    /\ watch = "sleep" /\ idle < 2
    /\ ApplyFiles /\ Persist({j \in stopFile : Active(j)})
    /\ SendReport(Watcher) /\ quiet' = 1 /\ watch' = "reporting"
    /\ UNCHANGED <<script, asked, got, idle, companion>>

\* ...and from there on.
WatcherHears == watch = "reporting" /\ HearReply(Watcher) /\ RoundEnds
                /\ UNCHANGED <<script, asked, got, files, quiet, companion>>

WatcherGivesUp == watch = "reporting" /\ LoseReport(Watcher) /\ RoundEnds
                  /\ UNCHANGED <<script, asked, got, files, quiet, companion>>

\* Two idle rounds, and the sleep after the second: the watcher returns.
WatchEnds ==
    /\ watch = "sleep" /\ idle = 2
    /\ watch' = "off"
    /\ UNCHANGED <<job, script, cancelled, asked, future, got, disk, files, idle, quiet, report, companion>>

-----------------------------------------------------------------------------
\* The companion.

\* Mutant: what was pressed is handed over once, in a reply that may be lost.
DeliverOnce(w) ==
    LET shown == report[w].shown
        open == {j \in Jobs : shown[j].state = "waiting"}
    IN  /\ report[w].at = "sent"
        /\ seen' = shown
        /\ report' = [report EXCEPT ![w] = [at |-> "back", shown |-> shown,
                        stops |-> {j \in stops : shown[j].state \in ACTIVE},
                        answers |-> [j \in Jobs |-> IF j \in open THEN answers[j] ELSE 0]]]
        /\ stops' = {j \in stops : shown[j].state = "none"}
        /\ answers' = [j \in Jobs |-> IF shown[j].state = "none" THEN answers[j] ELSE 0]
        /\ UNCHANGED <<job, script, cancelled, asked, future, got, disk, files, watch, idle, quiet>>

\* companion.jobsReport: the reply carries what was pressed, for as long as a
\* report does not show that it took effect.
Deliver(w) ==
    LET shown == report[w].shown
        open == {j \in Jobs : shown[j].state = "waiting"}
    IN  /\ report[w].at = "sent"
        /\ seen' = shown
        /\ report' = [report EXCEPT ![w] = [at |-> "back", shown |-> shown,
                        stops |-> {j \in stops : shown[j].state \in ACTIVE},
                        answers |-> [j \in Jobs |-> IF j \in open THEN answers[j] ELSE 0]]]
        /\ stops' = {j \in stops : shown[j].state \notin Ended}
        /\ answers' = [j \in Jobs |-> IF j \in open \/ shown[j].state = "none" THEN answers[j] ELSE 0]
        /\ UNCHANGED <<job, script, cancelled, asked, future, got, disk, files, watch, idle, quiet>>

\* The popup: Stop, and the buttons of an open question.
PressStop(j) ==
    /\ seen[j].state \in ACTIVE
    /\ stops' = stops \cup {j}
    /\ UNCHANGED <<job, script, cancelled, asked, future, got, disk, files, watch, idle, quiet, report, seen, answers>>

PressAnswer(j) ==
    /\ seen[j].state = "waiting"
    /\ answers' = [answers EXCEPT ![j] = seen[j].question]
    /\ UNCHANGED <<job, script, cancelled, asked, future, got, disk, files, watch, idle, quiet, report, seen, stops>>

-----------------------------------------------------------------------------
\* op='cancel' and op='answer', in this process and in another.

StopHere(j) ==
    /\ script[j] # "none"
    /\ Cancel({j}) /\ Persist({j})
    /\ UNCHANGED <<script, asked, future, got, files, watch, idle, quiet, report, companion>>

AnswerHere(j) ==
    /\ Waiting(j) /\ future[j] = 0
    /\ future' = [future EXCEPT ![j] = job[j].question]
    /\ UNCHANGED <<job, script, cancelled, asked, got, disk, files, watch, idle, quiet, report, companion>>

StopElsewhere(j) ==
    /\ disk[j].state \in ACTIVE
    /\ stopFile' = stopFile \cup {j}
    /\ UNCHANGED <<job, script, cancelled, asked, future, got, disk, answerFile, watch, idle, quiet, report, companion>>

AnswerElsewhere(j) ==
    /\ disk[j].state = "waiting"
    /\ answerFile' = [answerFile EXCEPT ![j] = disk[j].question]
    /\ UNCHANGED <<job, script, cancelled, asked, future, got, disk, stopFile, watch, idle, quiet, report, companion>>

-----------------------------------------------------------------------------

TaskStep(j) == Begin(j) \/ AskReported(j) \/ AskAnswered(j) \/ Raises(j)

Round == QuietRound \/ ReportRound \/ WatchEnds

JobsNext ==
    \/ \E j \in Jobs :
        \/ Launch(j) \/ TaskStep(j) \/ Ask(j) \/ AskTimesOut(j) \/ Finish(j) \/ Overtaken(j)
        \/ PressStop(j) \/ PressAnswer(j)
        \/ StopHere(j) \/ AnswerHere(j) \/ StopElsewhere(j) \/ AnswerElsewhere(j)
    \/ \E w \in Reporters : Deliver(w)
    \/ Round \/ WatcherHears \/ WatcherGivesUp

JobsSpec == JobsInit /\ [][JobsNext]_vars

\* The loop runs what can run, and the companion can be reached time and again.
\* Nothing says that a script goes on by itself, or that an ask times out.
JobsFairSpec ==
    /\ JobsSpec
    /\ \A j \in Jobs : WF_vars(TaskStep(j)) /\ WF_vars(job[j].stop /\ Finish(j))
    /\ \A w \in Reporters : SF_vars(Deliver(w))
    /\ WF_vars(Round) /\ WF_vars(WatcherHears \/ WatcherGivesUp) /\ SF_vars(WatcherHears)

-----------------------------------------------------------------------------

\* The state is of the shape the code keeps.
JobsTypeOK ==
    /\ job \in [Jobs -> [state : {"none"} \cup ACTIVE \cup Ended, question : Nat, stop : BOOLEAN]]
    /\ script \in [Jobs -> {"none", "launched", "step", "reporting", "asking", "over", "lost"}]
    /\ cancelled \subseteq Jobs
    /\ asked \in [Jobs -> Nat] /\ future \in [Jobs -> Nat]
    /\ \A j \in Jobs : asked[j] <= Asks[j] /\ got[j] \in [1..Asks[j] -> Nat]
    /\ disk \in [Jobs -> Shown] /\ seen \in [Jobs -> Shown]
    /\ stopFile \subseteq Jobs /\ answerFile \in [Jobs -> Nat]
    /\ watch \in {"off", "sleep", "reporting"} /\ idle \in 0..2 /\ quiet \in 0..2
    /\ \A w \in Reporters : /\ report[w].at \in {"none", "sent", "back"}
                            /\ report[w].shown \in [Jobs -> Shown]
                            /\ report[w].stops \subseteq Jobs /\ report[w].answers \in [Jobs -> Nat]
    /\ stops \subseteq Jobs /\ answers \in [Jobs -> Nat]

\* A job shows a question, and reads as waiting, exactly while its script is in
\* the ask that put it: not after a stop, an answer or a timeout, however these
\* fall together, and never somebody else's question.
QuestionHasAsker ==
    \A j \in Jobs :
        /\ Waiting(j) <=> job[j].question # 0
        /\ Waiting(j) <=> script[j] \in {"reporting", "asking"}
        /\ Waiting(j) => job[j].question = asked[j]

\* Once a job is told to stop it asks nobody anything more, even where its
\* cancellation was overtaken by an answer.
NothingAskedAfterStop ==
    [][\A j \in Jobs : job[j].stop => asked'[j] = asked[j]]_vars

\* The watcher is there and will go on while it finds a job.
Watching == watch # "off" /\ idle < 2

\* A job that was told to stop and waits on: only where Python forgot its
\* cancellation, just as the report of its question came back.
Forgotten(j) == job[j].stop /\ Waiting(j) /\ j \notin cancelled

\* A stop that another process left, or that was pressed in the popup, ends the
\* job: what the job waits for, an answer nobody gives or a report under way,
\* does not hold it up, and neither does a lost reply.
StopTakesEffect ==
    \A j \in Jobs :
        (j \in stopFile \cup stops /\ Active(j) /\ script[j] \notin {"launched", "lost"} /\ Watching)
            ~> (~Active(j) \/ Forgotten(j))

\* No older report, from before the question, is still on its way.
NoOlderReport(j) == \A w \in Reporters : report[w].at = "sent" => report[w].shown[j].state = "waiting"

\* A file or a press of a button answers the question of j.
Given(j) == answerFile[j] # 0 \/ (answers[j] # 0 /\ NoOlderReport(j))

\* An answer that another process left, or that was pressed in the popup, ends
\* the wait for it, whatever reports are lost, without the ask's time running out.
AnswerHeard ==
    \A j \in Jobs : \A n \in 1..Asks[j] :
        (job[j].question = n /\ Watching /\ Given(j)) ~> job[j].question # n

\* An ask is answered by what was given as an answer to it.
AnswerFitsQuestion == \A j \in Jobs : \A n \in 1..Asks[j] : got[j][n] \in {0, n}
=============================================================================
