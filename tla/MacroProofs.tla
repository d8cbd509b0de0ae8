------------------------------ MODULE MacroProofs ------------------------------
(***************************************************************************)
(* The guarantees that macros give to their users: what a job shows as its *)
(* question, and what a stop puts an end to, for any number of jobs and    *)
(* asks (MacroJobs); that a target of a guarded macro fires once, for any  *)
(* number of processes, tokens, targets and resources (GuardLedger).       *)
(***************************************************************************)
EXTENDS MacroJobs, GuardLedger, TLAPS

-----------------------------------------------------------------------------
(* Macro jobs. *)

\* The part of the state that questions depend on.
Shape ==
    /\ job \in [Jobs -> [state : {"none"} \cup ACTIVE \cup Ended, question : Nat, stop : BOOLEAN]]
    /\ script \in [Jobs -> {"none", "launched", "step", "reporting", "asking", "over", "lost"}]
    /\ asked \in [Jobs -> Nat]

QuestionInv == Shape /\ QuestionHasAsker

-----------------------------------------------------------------------------

LEMMA InitQuestions == JobsInit => QuestionInv
  BY DEF JobsInit, QuestionInv, Shape, QuestionHasAsker, Waiting, ACTIVE, Ended

\* A step after which each job has the state and the question it had.
SameQuestions ==
    /\ job' \in [Jobs -> [state : {"none"} \cup ACTIVE \cup Ended, question : Nat, stop : BOOLEAN]]
    /\ \A j \in Jobs : job'[j].state = job[j].state /\ job'[j].question = job[j].question

LEMMA CancelSame ==
    ASSUME Shape, NEW js, Cancel(js)
    PROVE  SameQuestions
  BY DEF Shape, Cancel, SameQuestions

\* A stop, whoever gives it to whichever jobs, changes no job's question.
LEMMA CancelKeepsQuestions ==
    ASSUME QuestionInv, NEW js, Cancel(js), UNCHANGED <<script, asked>>
    PROVE  QuestionInv'
<1>1. SameQuestions
  BY CancelSame DEF QuestionInv
<1>2. QED  BY <1>1 DEF SameQuestions, QuestionInv, Shape, QuestionHasAsker, Waiting

\* So does any step that leaves jobs and scripts alone.
LEMMA OthersKeepQuestions ==
    ASSUME QuestionInv, UNCHANGED <<job, script, asked>>
    PROVE  QuestionInv'
  BY DEF QuestionInv, Shape, QuestionHasAsker, Waiting

\* A reply's answer, or its loss, comes to an ask that goes on waiting.
LEMMA ReportedKeepsQuestions ==
    ASSUME QuestionInv, NEW i \in Jobs, AskReported(i)
    PROVE  QuestionInv'
<1>1. SameQuestions
  <2>1. CASE HearReply(i)
    BY <2>1, CancelSame DEF HearReply, QuestionInv
  <2>2. CASE LoseReport(i)
    BY <2>2 DEF LoseReport, SameQuestions, QuestionInv, Shape
  <2>3. QED  BY <2>1, <2>2 DEF AskReported
<1>2. script' = [script EXCEPT ![i] = "asking"] /\ script[i] = "reporting" /\ UNCHANGED asked
  BY DEF AskReported
<1>3. /\ script' \in [Jobs -> {"none", "launched", "step", "reporting", "asking", "over", "lost"}]
      /\ \A j \in Jobs : script'[j] \in {"reporting", "asking"} <=> script[j] \in {"reporting", "asking"}
  BY <1>2 DEF QuestionInv, Shape
<1>4. QuestionHasAsker'
  <2> SUFFICES ASSUME NEW j \in Jobs
               PROVE  /\ (job'[j].state = "waiting") <=> job'[j].question # 0
                      /\ (job'[j].state = "waiting") <=> script'[j] \in {"reporting", "asking"}
                      /\ (job'[j].state = "waiting") => job'[j].question = asked'[j]
    BY DEF QuestionHasAsker, Waiting
  <2> QED  BY <1>1, <1>2, <1>3 DEF SameQuestions, QuestionInv, QuestionHasAsker, Waiting
<1>5. QED  BY <1>1, <1>2, <1>3, <1>4 DEF SameQuestions, QuestionInv, Shape

\* The steps of a job's own task.
LEMMA OwnKeepsQuestions ==
    ASSUME QuestionInv, NEW i \in Jobs,
           Launch(i) \/ Begin(i) \/ Ask(i) \/ (\E n : AskEnds(i, n))
             \/ Finish(i) \/ Raises(i)
    PROVE  QuestionInv'
<1> USE DEF QuestionInv, Shape
<1> DEFINE Fits(j) == /\ Waiting(j) <=> job[j].question # 0
                      /\ Waiting(j) <=> script[j] \in {"reporting", "asking"}
                      /\ Waiting(j) => job[j].question = asked[j]
<1>0. \A j \in Jobs : Fits(j)
  BY DEF QuestionHasAsker
<1> SUFFICES Shape' /\ \A j \in Jobs : Fits(j)'
  BY DEF QuestionHasAsker
<1>1. CASE Launch(i)
  BY <1>0, <1>1 DEF Launch, Becomes, Waiting, ACTIVE, Ended
<1>2. CASE Begin(i)
  BY <1>0, <1>2 DEF Begin, Waiting
<1>3. CASE Ask(i)
  BY <1>0, <1>3 DEF Ask, Becomes, Waiting, ACTIVE, Ended
<1>4. CASE \E n : AskEnds(i, n)
  BY <1>0, <1>4 DEF AskEnds, Becomes, Waiting, ACTIVE, Ended
<1>5. ASSUME NEW s \in Ended, End(i, s) PROVE Shape' /\ \A j \in Jobs : Fits(j)'
  BY <1>0, <1>5 DEF End, Becomes, Waiting, ACTIVE, Ended
<1>6. QED  BY <1>1, <1>2, <1>3, <1>4, <1>5 DEF Finish, Raises, Ended

LEMMA NextQuestions == QuestionInv /\ [JobsNext]_vars => QuestionInv'
<1> SUFFICES ASSUME QuestionInv, [JobsNext]_vars PROVE QuestionInv'
  OBVIOUS
<1>1. ASSUME NEW j \in Jobs, Launch(j) \/ Begin(j) \/ Ask(j) \/ Finish(j) \/ Raises(j)
      PROVE  QuestionInv'
  BY <1>1, OwnKeepsQuestions
<1>2. ASSUME NEW j \in Jobs, AskAnswered(j) \/ AskTimesOut(j) PROVE QuestionInv'
  <2>1. \E n : AskEnds(j, n)
    BY <1>2 DEF AskAnswered, AskTimesOut
  <2>2. QED  BY <2>1, OwnKeepsQuestions
<1>3. ASSUME NEW j \in Jobs, AskReported(j) PROVE QuestionInv'
  BY <1>3, ReportedKeepsQuestions
<1>4. ASSUME NEW j \in Jobs, StopHere(j) PROVE QuestionInv'
  BY <1>4, CancelKeepsQuestions DEF StopHere
<1>5. ASSUME NEW j \in Jobs, \/ Overtaken(j) \/ PressStop(j) \/ PressAnswer(j)
                             \/ AnswerHere(j) \/ StopElsewhere(j) \/ AnswerElsewhere(j)
      PROVE  QuestionInv'
  BY <1>5, OthersKeepQuestions
     DEF Overtaken, PressStop, PressAnswer, AnswerHere, StopElsewhere, AnswerElsewhere
<1>6. ASSUME NEW w \in Reporters, Deliver(w) PROVE QuestionInv'
  BY <1>6, OthersKeepQuestions DEF Deliver
<1>7. ASSUME QuietRound \/ ReportRound PROVE QuestionInv'
  BY <1>7, CancelKeepsQuestions DEF QuietRound, ReportRound, ApplyFiles
<1>8. ASSUME WatcherHears PROVE QuestionInv'
  BY <1>8, CancelKeepsQuestions DEF WatcherHears, HearReply
<1>9. ASSUME WatcherGivesUp \/ WatchEnds \/ UNCHANGED vars PROVE QuestionInv'
  BY <1>9, OthersKeepQuestions DEF WatcherGivesUp, LoseReport, WatchEnds, vars
<1>10. QED
  BY <1>1, <1>2, <1>3, <1>4, <1>5, <1>6, <1>7, <1>8, <1>9 DEF JobsNext, TaskStep, Round

\* Every question has its asker, whatever stops, answers, timeouts and lost
\* reports come together.
THEOREM QuestionsHaveAskers == JobsSpec => []QuestionHasAsker
<1>1. QuestionInv => QuestionHasAsker
  BY DEF QuestionInv
<1>2. QED  BY <1>1, InitQuestions, NextQuestions, PTL DEF JobsSpec

-----------------------------------------------------------------------------

\* No step opens a question of a job that was told to stop.
LEMMA StepAfterStop ==
    ASSUME QuestionInv, [JobsNext]_vars, NEW j \in Jobs, job[j].stop
    PROVE  asked'[j] = asked[j]
<1>1. ASSUME NEW i \in Jobs, Ask(i) PROVE asked'[j] = asked[j]
  BY <1>1 DEF Ask, QuestionInv, Shape
<1>2. CASE \A i \in Jobs : ~Ask(i)
  <2>1. UNCHANGED asked
    BY <1>2 DEF JobsNext, TaskStep, Round, vars, Launch, Begin, AskReported, AskAnswered,
         AskTimesOut, AskEnds, Raises, Finish, End, Overtaken, PressStop, PressAnswer, StopHere,
         AnswerHere, StopElsewhere, AnswerElsewhere, Deliver, QuietRound, ReportRound,
         WatcherHears, WatcherGivesUp, WatchEnds
  <2>2. QED  BY <2>1
<1>3. QED  BY <1>1, <1>2

\* A job that was told to stop asks nobody anything more.
THEOREM NothingAskedOnceStopped == JobsSpec => NothingAskedAfterStop
<1>1. QuestionInv /\ [JobsNext]_vars
        => [\A j \in Jobs : job[j].stop => asked'[j] = asked[j]]_vars
  BY StepAfterStop
<1>2. QED  BY <1>1, InitQuestions, NextQuestions, PTL DEF JobsSpec, NothingAskedAfterStop

-----------------------------------------------------------------------------
(* The ledger.  The invariant says what the lock is for: who holds it decides *)
(* on a copy that is still the file.  From that follows that a target is      *)
(* consumed once, hence fired once.                                           *)

\* A call past the lock has it, and its copy of the ledger is the ledger.
LockMeansFresh ==
    \A c \in Callers :
        /\ pc[c] \in {"load", "decide"} => lockedBy = c
        /\ pc[c] = "decide" => copy[c] = Present

\* The fate of each target whose action is about to go out is sealed in the file.
DispatchRecorded ==
    \A c \in Callers : pc[c] = "dispatch" =>
        /\ Aim(c) \in Targets
        /\ identities[Aim(c)] \in Tokens
        /\ tokens[identities[Aim(c)]].state = "attempted"
        /\ fired[Aim(c)] = 0

\* No two calls are about to fire one target.
OneDispatcher ==
    \A c, d \in Callers : c # d /\ pc[c] = "dispatch" /\ pc[d] = "dispatch" => Aim(c) # Aim(d)

\* What was fired is on record as attempted.
FiredRecorded ==
    \A i \in Targets : fired[i] # 0 =>
        /\ fired[i] = 1 /\ identities[i] \in Tokens
        /\ tokens[identities[i]].state = "attempted"

LedgerInv ==
    /\ LedgerTypeOK /\ LockMeansFresh /\ IndexesAgree
    /\ DispatchRecorded /\ OneDispatcher /\ FiredRecorded

-----------------------------------------------------------------------------

LEMMA LedgerInit_Inv == LedgerInit => LedgerInv
BY LedgerAssumption DEF LedgerInit, LedgerInv, LedgerTypeOK, Present, Book, Labels, NoCopy, LockMeansFresh,
   IndexesAgree, DispatchRecorded, OneDispatcher, FiredRecorded, NoEntry

\* A call that ends, whichever way, disturbs nothing.
LEMMA Ends_Inv ==
    ASSUME LedgerInv, NEW c \in Callers, Ends(c), UNCHANGED <<ledger, fired>>
    PROVE  LedgerInv'
<1> USE DEF LedgerInv
<1>1. NoCopy \in Book
    BY DEF NoCopy, Book
<1>2. LedgerTypeOK'
    BY <1>1 DEF LedgerTypeOK, Ends, Goto, Labels, ledger, Present
<1>3. LockMeansFresh'
    BY DEF LedgerTypeOK, LockMeansFresh, Ends, Goto, ledger, Present
<1>4. IndexesAgree'
    BY DEF IndexesAgree, ledger
<1>5. (DispatchRecorded /\ OneDispatcher)'
    BY DEF LedgerTypeOK, DispatchRecorded, OneDispatcher, Aim, Ends, Goto, ledger
<1>6. FiredRecorded'
    BY DEF FiredRecorded, ledger
<1>. QED  BY <1>2, <1>3, <1>4, <1>5, <1>6

\* Before the ledger is decided upon, a call changes only its own state.
LEMMA Approach_Inv ==
    ASSUME LedgerInv, NEW c \in Callers,
           NewCall(c) \/ StepsSucceed(c) \/ Lock(c) \/ Load(c)
    PROVE  LedgerInv'
<1> USE DEF LedgerInv
<1>1. UNCHANGED <<ledger, fired>> /\ pc'[c] # "dispatch"
      /\ \A d \in Callers \ {c} : pc'[d] = pc[d] /\ call'[d] = call[d] /\ copy'[d] = copy[d]
    BY DEF LedgerTypeOK, NewCall, Stage, Commit, StepsSucceed, Lock, Load, Goto
<1>2. LedgerTypeOK'
    BY DEF LedgerTypeOK, NewCall, Stage, Commit, StepsSucceed, Lock, Load, Goto, Labels, ledger, Present, Call, NoCall
<1>3. LockMeansFresh'
    BY LedgerAssumption DEF LedgerTypeOK, LockMeansFresh, NewCall, Stage, Commit, StepsSucceed, Lock, Load, Goto,
       ledger, Present
<1>4. IndexesAgree'
    BY <1>1 DEF IndexesAgree, ledger
<1>5. (DispatchRecorded /\ OneDispatcher)'
  <2>1. \A d \in Callers : pc'[d] = "dispatch" => pc[d] = "dispatch" /\ Aim(d)' = Aim(d)
      BY <1>1 DEF Aim
  <2>. QED  BY <1>1, <2>1 DEF DispatchRecorded, OneDispatcher, ledger
<1>6. FiredRecorded'
    BY <1>1 DEF FiredRecorded, ledger
<1>. QED  BY <1>2, <1>3, <1>4, <1>5, <1>6

\* What reserve_checkpoint writes is what it read, and the new target.
LEMMA Reserve_Inv ==
    ASSUME LedgerInv, NEW c \in Callers, Reserve(c)
    PROVE  LedgerInv'
<1> USE DEF LedgerInv
<1> DEFINE t == call[c].token
           i == call[c].target
           r == call[c].resource
           e == [state |-> "staged", target |-> i, resource |-> r]
<1>1. /\ copy[c] = Present /\ lockedBy = c /\ pc[c] = "decide"
      /\ tokens[t] = NoEntry /\ identities[i] = NoToken /\ resources[r] \in {NoTarget, i}
    BY DEF Reserve, Allowed, MayReserve, LockMeansFresh, Present
<1>2. t \in Tokens /\ i \in Targets /\ r \in Resources
    BY DEF Reserve, LedgerTypeOK, Call
<1>3. e \in Entry /\ e # NoEntry
    BY <1>2 DEF Entry, NoEntry
<1>4. /\ tokens' = [tokens EXCEPT ![t] = e]
      /\ identities' = [identities EXCEPT ![i] = t]
      /\ resources' = [resources EXCEPT ![r] = i]
      /\ Ends(c) /\ fired' = fired
    BY <1>1 DEF Reserve, Present
<1>5. /\ tokens \in [Tokens -> Entry \cup {NoEntry}]
      /\ identities \in [Targets -> Tokens \cup {NoToken}]
      /\ resources \in [Resources -> Targets \cup {NoTarget}]
    BY DEF LedgerTypeOK, Book, Present
<1>6. LedgerTypeOK'
  <2>1. Present' \in Book
      BY <1>2, <1>3, <1>4, <1>5 DEF Present, Book
  <2>2. NoCopy \in Book
      BY DEF NoCopy, Book
  <2>. QED  BY <1>4, <2>1, <2>2 DEF LedgerTypeOK, Ends, Goto, Labels
<1>7. LockMeansFresh'
    BY <1>1, <1>4 DEF LedgerTypeOK, LockMeansFresh, Ends, Goto
<1>8. IndexesAgree'
  <2>1. \A u \in Tokens : tokens[u] # NoEntry => u # t /\ tokens[u].target # i /\ tokens[u].resource # r
      BY <1>1, <1>2, <1>5, LedgerAssumption DEF IndexesAgree, Entry
  <2>. QED  BY <1>1, <1>2, <1>3, <1>4, <1>5, <2>1, LedgerAssumption DEF IndexesAgree, Entry, NoEntry
<1>9. (DispatchRecorded /\ OneDispatcher)'
  <2>1. \A d \in Callers : pc'[d] = "dispatch" => pc[d] = "dispatch" /\ Aim(d)' = Aim(d)
      BY <1>1, <1>4 DEF LedgerTypeOK, Ends, Goto, Aim
  <2>2. \A d \in Callers : pc[d] = "dispatch" => Aim(d) # i /\ identities[Aim(d)] # t
      BY <1>1, <1>2, LedgerAssumption DEF DispatchRecorded, NoEntry
  <2>. QED  BY <1>2, <1>4, <1>5, <2>1, <2>2 DEF DispatchRecorded, OneDispatcher
<1>10. FiredRecorded'
    BY <1>1, <1>2, <1>4, <1>5, LedgerAssumption DEF FiredRecorded, NoEntry
<1>. QED  BY <1>6, <1>7, <1>8, <1>9, <1>10

\* What consume_checkpoint writes is what it read, with one attempt more; nobody
\* else is about to fire that target, and nobody has.
LEMMA Consume_Inv ==
    ASSUME LedgerInv, NEW c \in Callers, Consume(c)
    PROVE  LedgerInv'
<1> USE DEF LedgerInv
<1> DEFINE t == call[c].token
           i == tokens[t].target
           e == [state |-> "attempted", target |-> i, resource |-> tokens[t].resource]
<1>1. /\ copy[c] = Present /\ lockedBy = c /\ pc[c] = "decide"
      /\ tokens[t].state = "staged"
    BY DEF Consume, Allowed, MayConsume, LockMeansFresh, Present
<1>2. /\ tokens \in [Tokens -> Entry \cup {NoEntry}]
      /\ identities \in [Targets -> Tokens \cup {NoToken}]
      /\ resources \in [Resources -> Targets \cup {NoTarget}]
    BY DEF LedgerTypeOK, Book, Present
<1>3. t \in Tokens /\ tokens[t] \in Entry /\ tokens[t] # NoEntry /\ i \in Targets
    BY <1>1, <1>2 DEF Consume, LedgerTypeOK, Call, Entry, NoEntry
<1>4. identities[i] = t
    BY <1>3 DEF IndexesAgree
<1>5. e \in Entry /\ e # NoEntry
    BY <1>3 DEF Entry, NoEntry
<1>6. /\ tokens' = [tokens EXCEPT ![t] = e]
      /\ identities' = identities /\ resources' = resources
      /\ pc' = [pc EXCEPT ![c] = "dispatch"] /\ lockedBy' = NoCaller
      /\ call' = call /\ copy' = copy /\ fired' = fired
    BY <1>1 DEF Consume, Present, Goto
<1>7. fired[i] = 0 /\ \A d \in Callers : pc[d] = "dispatch" => Aim(d) # i
    BY <1>1, <1>3, <1>4 DEF FiredRecorded, DispatchRecorded
<1>8. LedgerTypeOK'
  <2>1. Present' \in Book
      BY <1>2, <1>3, <1>5, <1>6 DEF Present, Book
  <2>. QED  BY <1>1, <1>6, <2>1 DEF LedgerTypeOK, Labels
<1>9. LockMeansFresh'
    BY <1>1, <1>6, LedgerAssumption DEF LedgerTypeOK, LockMeansFresh
<1>10. IndexesAgree'
    BY <1>2, <1>3, <1>4, <1>5, <1>6 DEF IndexesAgree, Entry
<1>11. Aim(c) = i /\ \A d \in Callers : Aim(d)' = Aim(d)
    BY <1>1, <1>6 DEF Aim, Present
<1>12. DispatchRecorded'
  <2>1. ASSUME NEW d \in Callers, pc'[d] = "dispatch"
        PROVE  (/\ Aim(d) \in Targets /\ identities[Aim(d)] \in Tokens
                /\ tokens[identities[Aim(d)]].state = "attempted" /\ fired[Aim(d)] = 0)'
    <3>1. CASE d = c
        BY <1>2, <1>3, <1>4, <1>6, <1>7, <1>11, <3>1
    <3>2. CASE d # c
        BY <1>2, <1>3, <1>4, <1>6, <1>11, <2>1, <3>2 DEF DispatchRecorded, LedgerTypeOK
    <3>. QED  BY <3>1, <3>2
  <2>. QED  BY <2>1 DEF DispatchRecorded
<1>13. OneDispatcher'
    BY <1>6, <1>7, <1>11 DEF OneDispatcher, LedgerTypeOK
<1>14. FiredRecorded'
    BY <1>2, <1>3, <1>4, <1>6, <1>7 DEF FiredRecorded
<1>. QED  BY <1>8, <1>9, <1>10, <1>12, <1>13, <1>14

LEMMA Dispatch_Inv ==
    ASSUME LedgerInv, NEW c \in Callers, Dispatch(c)
    PROVE  LedgerInv'
<1> USE DEF LedgerInv
<1> DEFINE i == Aim(c)
<1>1. /\ i \in Targets /\ identities[i] \in Tokens
      /\ tokens[identities[i]].state = "attempted" /\ fired[i] = 0
    BY DEF Dispatch, DispatchRecorded
<1>2. Ends(c) /\ UNCHANGED ledger /\ pc[c] = "dispatch" /\ fired' = [fired EXCEPT ![i] = 1]
    BY <1>1 DEF Dispatch, LedgerTypeOK
<1>3. LedgerTypeOK'
  <2>1. NoCopy \in Book
      BY DEF NoCopy, Book
  <2>. QED  BY <1>1, <1>2, <2>1 DEF LedgerTypeOK, Ends, Goto, Labels, ledger, Present
<1>4. LockMeansFresh'
    BY <1>2 DEF LedgerTypeOK, LockMeansFresh, Ends, Goto, ledger, Present
<1>5. IndexesAgree'
    BY <1>2 DEF IndexesAgree, ledger
<1>6. \A d \in Callers : pc'[d] = "dispatch" => d # c /\ pc[d] = "dispatch" /\ Aim(d)' = Aim(d)
    BY <1>2 DEF LedgerTypeOK, Ends, Goto, Aim
<1>7. \A d \in Callers : pc'[d] = "dispatch" => Aim(d) # i
    BY <1>2, <1>6 DEF OneDispatcher
<1>8. (DispatchRecorded /\ OneDispatcher)'
    BY <1>1, <1>2, <1>6, <1>7 DEF DispatchRecorded, OneDispatcher, ledger, LedgerTypeOK
<1>9. FiredRecorded'
    BY <1>1, <1>2 DEF FiredRecorded, ledger, LedgerTypeOK
<1>. QED  BY <1>3, <1>4, <1>5, <1>8, <1>9

LEMMA LedgerNext_Inv == LedgerInv /\ [LedgerNext]_ledgerVars => LedgerInv'
<1> SUFFICES ASSUME LedgerInv, [LedgerNext]_ledgerVars PROVE LedgerInv'
    OBVIOUS
<1>1. ASSUME NEW c \in Callers, NewCall(c) \/ CallStep(c) \/ Fail(c) PROVE LedgerInv'
    BY <1>1, Ends_Inv, Approach_Inv, Reserve_Inv, Consume_Inv, Dispatch_Inv DEF CallStep, Fail, Refuse
<1>2. CASE UNCHANGED ledgerVars
    BY <1>2 DEF ledgerVars, ledger, LedgerInv, LedgerTypeOK, Present, LockMeansFresh, IndexesAgree,
       DispatchRecorded, OneDispatcher, FiredRecorded, Aim
<1>. QED  BY <1>1, <1>2 DEF LedgerNext

THEOREM LedgerInvariant == LedgerSpec => []LedgerInv
BY LedgerInit_Inv, LedgerNext_Inv, PTL DEF LedgerSpec

\* The ledger file and the calls keep their shape (macros.py, the ledger).
THEOREM LedgerTypesOK == LedgerSpec => []LedgerTypeOK
BY LedgerInvariant, PTL DEF LedgerInv

\* reserve_checkpoint and consume_checkpoint never lose or cross an entry.
THEOREM LedgerConsistent == LedgerSpec => []IndexesAgree
BY LedgerInvariant, PTL DEF LedgerInv

\* guarded_commit never dispatches the last action of a target twice.
THEOREM NeverFiredTwice == LedgerSpec => []FiredOnceAtMost
<1>1. LedgerInv => FiredOnceAtMost
    BY DEF LedgerInv, FiredRecorded, FiredOnceAtMost, LedgerTypeOK
<1>. QED  BY <1>1, LedgerInvariant, PTL

-----------------------------------------------------------------------------

\* Every step of a call is a step of the promise, or none.
LEMMA LedgerStep_Shot == LedgerInv /\ [LedgerNext]_ledgerVars => [Shot!Next]_<<Fate, fired>>
<1> SUFFICES ASSUME LedgerInv, [LedgerNext]_ledgerVars PROVE [Shot!Next]_<<Fate, fired>>
    OBVIOUS
<1> USE DEF LedgerInv
<1>0. /\ tokens \in [Tokens -> Entry \cup {NoEntry}]
      /\ identities \in [Targets -> Tokens \cup {NoToken}]
    BY DEF LedgerTypeOK, Book, Present
<1>1. ASSUME UNCHANGED <<ledger, fired>> PROVE UNCHANGED <<Fate, fired>>
    BY <1>1 DEF Fate, ledger
<1>2. ASSUME NEW c \in Callers, Reserve(c) PROVE Shot!Next
  <2> DEFINE t == call[c].token
             i == call[c].target
  <2>1. /\ copy[c] = Present /\ tokens[t] = NoEntry /\ identities[i] = NoToken
        /\ t \in Tokens /\ i \in Targets
      BY <1>2 DEF Reserve, Allowed, MayReserve, LockMeansFresh, Present, LedgerTypeOK, Call
  <2>2. /\ tokens' = [tokens EXCEPT ![t] = [state |-> "staged", target |-> i, resource |-> call[c].resource]]
        /\ identities' = [identities EXCEPT ![i] = t] /\ fired' = fired
      BY <1>2, <2>1 DEF Reserve, Present
  <2>3. \A j \in Targets : identities[j] # t
      BY <2>1, LedgerAssumption DEF IndexesAgree, NoEntry
  <2>4. Fate' = [Fate EXCEPT ![i] = "staged"] /\ Fate[i] = "new"
      BY <1>0, <2>1, <2>2, <2>3, LedgerAssumption DEF Fate
  <2>. QED  BY <2>1, <2>2, <2>4 DEF Shot!Next, Shot!Stage
<1>3. ASSUME NEW c \in Callers, Consume(c) PROVE Shot!Next
  <2> DEFINE t == call[c].token
             i == tokens[t].target
  <2>1. /\ copy[c] = Present /\ tokens[t].state = "staged" /\ t \in Tokens
        /\ tokens[t] \in Entry /\ tokens[t] # NoEntry /\ i \in Targets
      BY <1>0, <1>3 DEF Consume, Allowed, MayConsume, LockMeansFresh, Present, LedgerTypeOK, Call, Entry, NoEntry
  <2>2. /\ tokens' = [tokens EXCEPT ![t] = [state |-> "attempted", target |-> i, resource |-> tokens[t].resource]]
        /\ identities' = identities /\ fired' = fired
      BY <1>3, <2>1 DEF Consume, Present
  <2>3. identities[i] = t /\ \A j \in Targets : identities[j] = t => j = i
      BY <2>1, LedgerAssumption DEF IndexesAgree
  <2>4. Fate' = [Fate EXCEPT ![i] = "attempted"] /\ Fate[i] = "staged"
      BY <1>0, <2>1, <2>2, <2>3, LedgerAssumption DEF Fate
  <2>. QED  BY <2>1, <2>2, <2>4 DEF Shot!Next, Shot!Attempt
<1>4. ASSUME NEW c \in Callers, Dispatch(c) PROVE Shot!Next
  <2>1. /\ Aim(c) \in Targets /\ identities[Aim(c)] \in Tokens
        /\ tokens[identities[Aim(c)]].state = "attempted" /\ fired[Aim(c)] = 0
      BY <1>4 DEF Dispatch, DispatchRecorded
  <2>2. fired' = [fired EXCEPT ![Aim(c)] = 1] /\ Fate' = Fate /\ Fate[Aim(c)] = "attempted"
      BY <1>4, <2>1, LedgerAssumption DEF Dispatch, Fate, ledger, LedgerTypeOK
  <2>. QED  BY <2>1, <2>2 DEF Shot!Next, Shot!Fire
<1>5. ASSUME NEW c \in Callers,
             NewCall(c) \/ StepsSucceed(c) \/ Lock(c) \/ Load(c) \/ Refuse(c) \/ Fail(c)
      PROVE  UNCHANGED <<ledger, fired>>
    BY <1>5 DEF NewCall, Stage, Commit, StepsSucceed, Lock, Load, Refuse, Fail
<1>. QED  BY <1>1, <1>2, <1>3, <1>4, <1>5 DEF LedgerNext, CallStep, ledgerVars

\* guarded_stage and guarded_commit implement the one-shot promise.
THEOREM LedgerImplementsOneShot == LedgerSpec => ImplementsOneShot
<1>1. LedgerInit => Shot!Init
    BY DEF LedgerInit, Shot!Init, Fate
<1>. QED  BY <1>1, LedgerStep_Shot, LedgerInvariant, PTL DEF LedgerSpec, ImplementsOneShot, Shot!Spec
================================================================================
