------------------------------ MODULE StagedBatch ------------------------------
(***************************************************************************)
(* scripts/staged_batch.py: a browser workflow over a few items, stage by  *)
(* stage with a barrier between stages.  A terminal stage holds one action *)
(* with consequences; that it was attempted is claimed in a file of its    *)
(* own, and written to a journal, before the action is sent.               *)
(*                                                                         *)
(* Several runs of the script may share the journal, one after another or  *)
(* at once, and each may be killed at every step.                          *)
(***************************************************************************)
EXTENDS Naturals, FiniteSets

CONSTANTS
    Runs,         \* invocations of the script on one workflow and journal
    Items,        \* the items of the workflow
    Last,         \* its stages are 1..Last
    Terminal,     \* the stages with a terminal action
    Approved,     \* Approved[r]: the stages that --approve-terminal names in run r
    Concurrency   \* max_concurrency

ASSUME BatchAssumption ==
    /\ Last \in Nat \ {0} /\ Terminal \subseteq 1..Last
    /\ Approved \in [Runs -> SUBSET (1..Last)]
    /\ Concurrency \in Nat \ {0} /\ IsFiniteSet(Items)

VARIABLES
    journal,   \* the state file: the status of each attempt
    claims,    \* the claim files, one for each attempt
    memory,    \* memory[r]: the `state` that run r has read and writes
    stage,     \* stage[r]: the stage that r is in; 0 before it starts
    status,    \* status[r][i]: "active", "paused", "failed", "completed"
    step,      \* step[r][i]: where _run_item_stage of i is; "off" once it returned
    alive,     \* the runs that were not killed
    sent,      \* history: sent[k]: how often the action of the attempt k was sent
    passed     \* history: passed[r][i]: the stages that i came through in run r

vars == <<journal, claims, memory, stage, status, step, alive, sent, passed>>

Attempts == Items \X Terminal
Key(r, i) == <<i, stage[r]>>
IsTerminal(r) == stage[r] \in Terminal
Active(r) == {i \in Items : status[r][i] = "active"}
Inside(r) == {i \in Items : step[r][i] \notin {"off", "queued"}}
Stages == 1..Last
Untried == [k \in Attempts |-> "none"]
Quiet == [i \in Items |-> "off"]

BatchInit ==
    /\ journal = Untried /\ claims = Untried
    /\ memory = [r \in Runs |-> Untried]
    /\ stage = [r \in Runs |-> 0]
    /\ status = [r \in Runs |-> [i \in Items |-> "active"]]
    /\ step = [r \in Runs |-> Quiet]
    /\ alive = Runs
    /\ sent = [k \in Attempts |-> 0]
    /\ passed = [r \in Runs |-> [i \in Items |-> 0]]

-----------------------------------------------------------------------------
Step(r, i, at) == step' = [step EXCEPT ![r][i] = at]
Stop(r, i, how) == Step(r, i, "off") /\ status' = [status EXCEPT ![r][i] = how]
Die(r) == alive' = alive \ {r}
files == <<journal, claims, memory>>

\* _write_state, then _update_terminal_claim, under state_lock: in memory, in the
\* journal as this run has it, and in the claim - unless r is killed in between.
Note(r, i, s) ==
    /\ memory' = [memory EXCEPT ![r][Key(r, i)] = s]
    /\ \/ /\ journal' = memory'[r] /\ claims' = [claims EXCEPT ![Key(r, i)] = s]
          /\ UNCHANGED alive
       \/ journal' \in {journal, memory'[r]} /\ UNCHANGED claims /\ Die(r)

\* run_workflow up to the first stage.
Start(r) ==
    /\ r \in alive /\ stage[r] = 0
    /\ memory' = [memory EXCEPT ![r] = journal]
    /\ stage' = [stage EXCEPT ![r] = 1]
    /\ step' = [step EXCEPT ![r] = [i \in Items |-> "queued"]]
    /\ UNCHANGED <<journal, claims, status, alive, sent, passed>>

\* The semaphore lets the item in; safety_scan and the precheck let it on, or
\* pause it, or raise.
Enter(r, i) ==
    /\ r \in alive /\ step[r][i] = "queued" /\ Cardinality(Inside(r)) < Concurrency
    /\ Step(r, i, "scan")
    /\ UNCHANGED <<files, stage, status, alive, sent, passed>>

Scan(r, i) ==
    /\ r \in alive /\ step[r][i] = "scan"
    /\ \/ Step(r, i, IF IsTerminal(r) THEN "claim" ELSE "act") /\ UNCHANGED status
       \/ \E how \in {"paused", "failed"} : Stop(r, i, how)
    /\ UNCHANGED <<files, stage, alive, sent, passed>>

\* Mutant: the journal alone says what was attempted.
ClaimByJournal(r, i) ==
    LET k == Key(r, i)
        free == stage[r] \in Approved[r] /\ memory[r][k] = "none"
    IN  /\ r \in alive /\ step[r][i] = "claim"
        /\ \/ ~free /\ Stop(r, i, "paused") /\ UNCHANGED <<files, alive>>
           \/ free /\ Note(r, i, "attempting") /\ Step(r, i, "act") /\ UNCHANGED status
        /\ UNCHANGED <<stage, sent, passed>>

\* A terminal stage needs its approval, an attempt that the journal does not know,
\* and a claim file that does not exist; the attempt is then noted in both.
Claim(r, i) ==
    LET k == Key(r, i)
        free == stage[r] \in Approved[r] /\ memory[r][k] = "none" /\ claims[k] = "none"
    IN  /\ r \in alive /\ step[r][i] = "claim"
        /\ \/ ~free /\ Stop(r, i, "paused") /\ UNCHANGED <<files, alive>>
           \/ /\ free /\ claims' = [claims EXCEPT ![k] = "attempting"]
              /\ memory' = [memory EXCEPT ![r][k] = "attempting"]
              /\ \/ journal' = memory'[r] /\ UNCHANGED alive
                 \/ UNCHANGED journal /\ Die(r)
              /\ Step(r, i, "act") /\ UNCHANGED status
        /\ UNCHANGED <<stage, sent, passed>>

\* action_call: the action is with the browser.
Act(r, i) ==
    /\ r \in alive /\ step[r][i] = "act"
    /\ Step(r, i, "sent")
    /\ sent' = [k \in Attempts |-> IF k = Key(r, i) THEN sent[k] + 1 ELSE sent[k]]
    /\ UNCHANGED <<files, stage, status, alive, passed>>

\* What came of it is noted for a terminal action: it failed, or its gate did.
Fails(r, i) ==
    \E how \in {"action_failed", "unverified"} :
        /\ Stop(r, i, IF how = "action_failed" THEN "failed" ELSE "paused")
        /\ IF IsTerminal(r) THEN Note(r, i, how) ELSE UNCHANGED <<files, alive>>
        /\ UNCHANGED passed

\* Neither is, when the call or a gate raises; a scan may pause what is not terminal.
Raises(r, i) ==
    /\ Stop(r, i, "failed") \/ (~IsTerminal(r) /\ Stop(r, i, "paused"))
    /\ UNCHANGED <<files, alive, passed>>

Succeeds(r, i) ==
    /\ Step(r, i, "off")
    /\ passed' = [passed EXCEPT ![r][i] = stage[r]]
    /\ IF IsTerminal(r) THEN Note(r, i, "verified") ELSE UNCHANGED <<files, alive>>
    /\ UNCHANGED status

Settle(r, i) ==
    /\ r \in alive /\ step[r][i] = "sent"
    /\ Fails(r, i) \/ Raises(r, i) \/ Succeeds(r, i)
    /\ UNCHANGED <<stage, sent>>

Returned(r) == \A i \in Items : step[r][i] = "off"

\* Mutant: the next stage starts with every item that did not fail.
BarrierForgets(r) ==
    /\ r \in alive /\ stage[r] \in 1..(Last - 1) /\ Returned(r)
    /\ stage' = [stage EXCEPT ![r] = @ + 1]
    /\ step' = [step EXCEPT ![r] = [i \in Items |-> IF status[r][i] # "failed" THEN "queued" ELSE "off"]]
    /\ UNCHANGED <<files, status, alive, sent, passed>>

\* gather has them all: on to the next stage with the items that are still active.
Barrier(r) ==
    /\ r \in alive /\ stage[r] \in 1..(Last - 1) /\ Returned(r) /\ Active(r) # {}
    /\ stage' = [stage EXCEPT ![r] = @ + 1]
    /\ step' = [step EXCEPT ![r] = [i \in Items |-> IF i \in Active(r) THEN "queued" ELSE "off"]]
    /\ UNCHANGED <<files, status, alive, sent, passed>>

Over(r) == stage[r] = Last + 1

\* Mutant: the loop over the stages is not left when no item is active.
FinishAtLast(r) ==
    /\ r \in alive /\ stage[r] = Last /\ Returned(r)
    /\ stage' = [stage EXCEPT ![r] = Last + 1]
    /\ status' = [status EXCEPT ![r] = [i \in Items |-> IF i \in Active(r) THEN "completed" ELSE status[r][i]]]
    /\ UNCHANGED <<files, step, alive, sent, passed>>

\* The report.
Finish(r) ==
    /\ r \in alive /\ stage[r] \in Stages /\ Returned(r)
    /\ stage[r] = Last \/ Active(r) = {}
    /\ stage' = [stage EXCEPT ![r] = Last + 1]
    /\ status' = [status EXCEPT ![r] = [i \in Items |-> IF i \in Active(r) THEN "completed" ELSE status[r][i]]]
    /\ UNCHANGED <<files, step, alive, sent, passed>>

Killed(r) ==
    /\ r \in alive /\ stage[r] \in Stages /\ Die(r)
    /\ UNCHANGED <<files, stage, status, step, sent, passed>>

ItemStep(r, i) == Enter(r, i) \/ Scan(r, i) \/ Claim(r, i) \/ Act(r, i) \/ Settle(r, i)
RunStep(r) == (\E i \in Items : ItemStep(r, i)) \/ Barrier(r) \/ Finish(r)
BatchNext == \E r \in Runs : Start(r) \/ RunStep(r) \/ Killed(r)

BatchSpec == BatchInit /\ [][BatchNext]_vars

\* Browser calls have timeouts, so a run that is not killed goes on.
BatchFairSpec == BatchSpec /\ (\A r \in Runs : WF_vars(RunStep(r)))

-----------------------------------------------------------------------------
\* "a timeout or crash cannot silently cause a second submit on the next run":
\* whatever the runs and wherever they are killed, an action is sent once.
SentOnce == \A k \in Attempts : sent[k] <= 1

\* An item is at work in a stage only if it came through every stage before, and
\* only when no item is in another: a terminal action is never sent for an item
\* whose earlier stages were paused, refused or failed.
StagesInOrder ==
    \A r \in Runs : \A i \in Inside(r) : passed[r][i] = stage[r] - 1

\* A run that started ends, or is killed: no item keeps the others from the
\* semaphore or the barrier.
RunEnds == \A r \in Runs : stage[r] = 1 ~> (Over(r) \/ r \notin alive)
=============================================================================
