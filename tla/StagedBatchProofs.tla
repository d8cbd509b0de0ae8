--------------------------- MODULE StagedBatchProofs ---------------------------
(***************************************************************************)
(* The promises of the staged batch runner for any number of runs, items   *)
(* and stages.  A terminal action goes out once because its claim file     *)
(* comes first: nothing was sent for an attempt without a claim, and of    *)
(* the runs only the one that made the claim is about to send.             *)
(***************************************************************************)
EXTENDS StagedBatch, TLAPS

Steps == {"off", "queued", "scan", "claim", "act", "sent"}
Statuses == {"active", "paused", "failed", "completed"}
Marks == {"none", "attempting", "action_failed", "unverified", "verified"}

BatchTypeOK ==
    /\ claims \in [Attempts -> Marks]
    /\ stage \in [Runs -> 0..(Last + 1)]
    /\ status \in [Runs -> [Items -> Statuses]]
    /\ step \in [Runs -> [Items -> Steps]]
    /\ sent \in [Attempts -> Nat]
    /\ passed \in [Runs -> [Items -> 0..Last]]

AboutToSend(r, i) == step[r][i] = "act" /\ IsTerminal(r)

\* No action went out for an attempt that nobody claimed.
NothingUnclaimed == \A k \in Attempts : claims[k] = "none" => sent[k] = 0

\* Who is about to send has claimed the attempt, and nothing was sent for it.
ClaimedFirst ==
    \A r \in Runs, i \in Items :
        AboutToSend(r, i) => claims[Key(r, i)] # "none" /\ sent[Key(r, i)] = 0

\* Of the runs that are about to send there is one for each attempt.
OneSender ==
    \A r, q \in Runs, i \in Items :
        AboutToSend(r, i) /\ AboutToSend(q, i) /\ stage[r] = stage[q] => r = q

\* An item at work, or waiting for its turn, came through the stages before;
\* one that returned and is still active came through this one too.
ComesThrough ==
    \A r \in Runs, i \in Items :
        /\ step[r][i] # "off" => stage[r] \in Stages /\ passed[r][i] = stage[r] - 1
        /\ stage[r] = 0 => passed[r][i] = 0
        /\ stage[r] \in Stages /\ step[r][i] = "off" /\ status[r][i] = "active"
                => passed[r][i] = stage[r]

BatchInv ==
    /\ BatchTypeOK /\ NothingUnclaimed /\ ClaimedFirst /\ OneSender /\ SentOnce
    /\ ComesThrough

-----------------------------------------------------------------------------
LEMMA BatchInit_Inv == BatchInit => BatchInv
BY BatchAssumption DEF BatchInit, BatchInv, BatchTypeOK, NothingUnclaimed, ClaimedFirst, OneSender,
   SentOnce, ComesThrough, AboutToSend, Untried, Quiet, Steps, Statuses, Marks, Stages

\* What a step must keep for the four facts about claims and sending: the claims
\* only grow, the counts stay, and nobody comes closer to sending.
LEMMA NobodyNearer ==
    ASSUME BatchInv, sent' = sent,
           \A k \in Attempts : claims'[k] = "none" => claims[k] = "none",
           \A r \in Runs, i \in Items :
               AboutToSend(r, i)' => AboutToSend(r, i) /\ stage'[r] = stage[r]
    PROVE  (NothingUnclaimed /\ ClaimedFirst /\ OneSender /\ SentOnce)'
<1>1. (NothingUnclaimed /\ SentOnce)'
    BY DEF BatchInv, NothingUnclaimed, SentOnce
<1>2. ASSUME NEW r \in Runs, NEW i \in Items, AboutToSend(r, i)'
      PROVE  claims'[Key(r, i)'] # "none" /\ sent'[Key(r, i)'] = 0
  <2>1. AboutToSend(r, i) /\ Key(r, i)' = Key(r, i)
      BY <1>2 DEF Key
  <2>2. Key(r, i) \in Attempts
      BY <2>1 DEF AboutToSend, IsTerminal, Key, Attempts
  <2>. QED  BY <2>1, <2>2 DEF BatchInv, ClaimedFirst
<1>3. OneSender'
    BY DEF BatchInv, OneSender
<1>. QED  BY <1>1, <1>2, <1>3 DEF ClaimedFirst

\* The effect of a note on the claims: a mark that is not "none", or nothing.
LEMMA NoteMarks ==
    ASSUME BatchTypeOK, NEW r \in Runs, NEW i \in Items, NEW s \in Marks \ {"none"},
           Note(r, i, s)
    PROVE  /\ claims' \in [Attempts -> Marks]
           /\ \A k \in Attempts : claims'[k] = "none" => claims[k] = "none"
<1>1. CASE claims' = claims
    BY <1>1 DEF BatchTypeOK
<1>2. CASE claims' = [claims EXCEPT ![Key(r, i)] = s]
    BY <1>2 DEF BatchTypeOK, Marks
<1>. QED  BY <1>1, <1>2 DEF Note

-----------------------------------------------------------------------------
LEMMA Start_Inv == ASSUME BatchInv, NEW r \in Runs, Start(r) PROVE BatchInv'
<1> USE DEF BatchInv
<1>1. /\ stage' = [stage EXCEPT ![r] = 1] /\ stage[r] = 0
      /\ step' = [step EXCEPT ![r] = [i \in Items |-> "queued"]]
      /\ UNCHANGED <<claims, status, sent, passed>>
    BY DEF Start
<1>2. BatchTypeOK'
    BY <1>1, BatchAssumption DEF BatchTypeOK, Steps
<1>3. \A q \in Runs, i \in Items : AboutToSend(q, i)' => AboutToSend(q, i) /\ stage'[q] = stage[q]
    BY <1>1 DEF AboutToSend, IsTerminal, BatchTypeOK
<1>4. (NothingUnclaimed /\ ClaimedFirst /\ OneSender /\ SentOnce)'
    BY <1>1, <1>3, NobodyNearer
<1>5. ComesThrough'
    BY <1>1, BatchAssumption DEF ComesThrough, BatchTypeOK, Stages
<1>. QED  BY <1>2, <1>4, <1>5

LEMMA Enter_Inv == ASSUME BatchInv, NEW r \in Runs, NEW i \in Items, Enter(r, i) PROVE BatchInv'
<1> USE DEF BatchInv
<1>1. /\ step' = [step EXCEPT ![r][i] = "scan"] /\ step[r][i] = "queued"
      /\ UNCHANGED <<claims, stage, status, sent, passed>>
    BY DEF Enter, Step, files
<1>2. BatchTypeOK'
    BY <1>1 DEF BatchTypeOK, Steps
<1>3. \A q \in Runs, j \in Items : AboutToSend(q, j)' => AboutToSend(q, j) /\ stage'[q] = stage[q]
    BY <1>1 DEF AboutToSend, IsTerminal, BatchTypeOK
<1>4. (NothingUnclaimed /\ ClaimedFirst /\ OneSender /\ SentOnce)'
    BY <1>1, <1>3, NobodyNearer
<1>5. ComesThrough'
    BY <1>1 DEF ComesThrough, BatchTypeOK
<1>. QED  BY <1>2, <1>4, <1>5

\* An item that stops, with the claims as they are or with a new mark.
LEMMA Stop_Inv ==
    ASSUME BatchInv, NEW r \in Runs, NEW i \in Items, NEW how \in {"paused", "failed"},
           Stop(r, i, how), UNCHANGED <<stage, sent, passed>>,
           claims' \in [Attempts -> Marks],
           \A k \in Attempts : claims'[k] = "none" => claims[k] = "none"
    PROVE  BatchInv'
<1> USE DEF BatchInv
<1>1. /\ step' = [step EXCEPT ![r][i] = "off"]
      /\ status' = [status EXCEPT ![r][i] = how]
    BY DEF Stop, Step
<1>2. BatchTypeOK'
    BY <1>1 DEF BatchTypeOK, Steps, Statuses
<1>3. \A q \in Runs, j \in Items : AboutToSend(q, j)' => AboutToSend(q, j) /\ stage'[q] = stage[q]
    BY <1>1 DEF AboutToSend, IsTerminal, BatchTypeOK
<1>4. (NothingUnclaimed /\ ClaimedFirst /\ OneSender /\ SentOnce)'
    BY <1>3, NobodyNearer
<1>5. ComesThrough'
    BY <1>1 DEF ComesThrough, BatchTypeOK
<1>. QED  BY <1>2, <1>4, <1>5

LEMMA Scan_Inv == ASSUME BatchInv, NEW r \in Runs, NEW i \in Items, Scan(r, i) PROVE BatchInv'
<1>1. CASE \E how \in {"paused", "failed"} : Stop(r, i, how)
    BY <1>1, Stop_Inv DEF Scan, files, BatchInv, BatchTypeOK
<1>2. CASE Step(r, i, IF IsTerminal(r) THEN "claim" ELSE "act") /\ UNCHANGED status
  <2> USE DEF BatchInv
  <2>1. /\ step' = [step EXCEPT ![r][i] = IF IsTerminal(r) THEN "claim" ELSE "act"]
        /\ step[r][i] = "scan"
        /\ UNCHANGED <<claims, stage, status, sent, passed>>
      BY <1>2 DEF Scan, Step, files
  <2>2. BatchTypeOK'
      BY <2>1 DEF BatchTypeOK, Steps
  <2>3. \A q \in Runs, j \in Items : AboutToSend(q, j)' => AboutToSend(q, j) /\ stage'[q] = stage[q]
      BY <2>1 DEF AboutToSend, IsTerminal, BatchTypeOK
  <2>4. (NothingUnclaimed /\ ClaimedFirst /\ OneSender /\ SentOnce)'
      BY <2>1, <2>3, NobodyNearer
  <2>5. ComesThrough'
      BY <2>1 DEF ComesThrough, BatchTypeOK
  <2>. QED  BY <2>2, <2>4, <2>5
<1>. QED  BY <1>1, <1>2 DEF Scan

\* The claim makes its run the one sender of an attempt nobody had claimed.
LEMMA Claim_Inv == ASSUME BatchInv, NEW r \in Runs, NEW i \in Items, Claim(r, i) PROVE BatchInv'
<1> DEFINE k == Key(r, i)
<1>1. CASE Stop(r, i, "paused") /\ UNCHANGED <<files, alive>>
    BY <1>1, Stop_Inv DEF Claim, files, BatchInv, BatchTypeOK
<1>2. CASE /\ claims[k] = "none" /\ claims' = [claims EXCEPT ![k] = "attempting"]
           /\ Step(r, i, "act") /\ UNCHANGED status
  <2> USE DEF BatchInv
  <2>1. /\ step' = [step EXCEPT ![r][i] = "act"] /\ step[r][i] = "claim"
        /\ claims' = [claims EXCEPT ![k] = "attempting"] /\ claims[k] = "none"
        /\ UNCHANGED <<stage, status, sent, passed>>
      BY <1>2 DEF Claim, Step
  <2> HIDE DEF k
  <2>2. BatchTypeOK'
      BY <2>1 DEF BatchTypeOK, Steps, Marks
  <2>3. (NothingUnclaimed /\ SentOnce)'
      BY <2>1 DEF NothingUnclaimed, SentOnce, BatchTypeOK
  <2>4. ASSUME NEW q \in Runs, NEW j \in Items, AboutToSend(q, j)'
        PROVE  (q = r /\ j = i) \/ AboutToSend(q, j)
      BY <2>1, <2>4 DEF AboutToSend, IsTerminal, BatchTypeOK
  <2>5. \A q \in Runs, j \in Items : Key(q, j)' = Key(q, j)
      BY <2>1 DEF Key
  <2>6. ASSUME NEW q \in Runs, NEW j \in Items, AboutToSend(q, j)
        PROVE  Key(q, j) \in Attempts /\ Key(q, j) # k
      BY <2>6, <2>1 DEF AboutToSend, IsTerminal, Key, Attempts, ClaimedFirst
  <2>7. ClaimedFirst'
    <3> SUFFICES ASSUME NEW q \in Runs, NEW j \in Items, AboutToSend(q, j)'
                 PROVE  claims'[Key(q, j)] # "none" /\ sent'[Key(q, j)] = 0
        BY <2>5 DEF ClaimedFirst
    <3>1. CASE q = r /\ j = i
      <4>1. k \in Attempts /\ Key(q, j) = k
          BY <3>1, <2>1 DEF k, AboutToSend, IsTerminal, Key, Attempts
      <4>. QED  BY <4>1, <2>1 DEF BatchTypeOK, NothingUnclaimed
    <3>2. CASE AboutToSend(q, j)
        BY <3>2, <2>6, <2>1 DEF ClaimedFirst, BatchTypeOK
    <3>. QED  BY <3>1, <3>2, <2>4
  <2>8. OneSender'
    <3> SUFFICES ASSUME NEW p \in Runs, NEW q \in Runs, NEW j \in Items,
                        AboutToSend(p, j)', AboutToSend(q, j)', stage[p] = stage[q], p # q
                 PROVE  FALSE
        BY <2>1 DEF OneSender
    <3>1. CASE AboutToSend(p, j) /\ AboutToSend(q, j)
        BY <3>1 DEF OneSender
    <3>2. CASE p = r /\ j = i /\ AboutToSend(q, j)
        BY <3>2, <2>6 DEF k, Key
    <3>3. CASE q = r /\ j = i /\ AboutToSend(p, j)
        BY <3>3, <2>6 DEF k, Key
    <3>. QED  BY <3>1, <3>2, <3>3, <2>4
  <2>9. ComesThrough'
      BY <2>1 DEF ComesThrough, BatchTypeOK
  <2>. QED  BY <2>2, <2>3, <2>7, <2>8, <2>9
<1>. QED  BY <1>1, <1>2 DEF Claim

\* The send: the run was the one sender, and nothing was sent before.
LEMMA Act_Inv == ASSUME BatchInv, NEW r \in Runs, NEW i \in Items, Act(r, i) PROVE BatchInv'
<1> USE DEF BatchInv
<1> DEFINE k == Key(r, i)
<1>1. /\ step' = [step EXCEPT ![r][i] = "sent"] /\ step[r][i] = "act"
      /\ sent' = [x \in Attempts |-> IF x = k THEN sent[x] + 1 ELSE sent[x]]
      /\ UNCHANGED <<claims, stage, status, passed>>
    BY DEF Act, Step, files
<1> HIDE DEF k
<1>2. BatchTypeOK'
    BY <1>1 DEF BatchTypeOK, Steps
<1>3. k \in Attempts => claims[k] # "none" /\ sent[k] = 0
  <2>1. k \in Attempts => AboutToSend(r, i)
      BY <1>1 DEF k, Key, Attempts, AboutToSend, IsTerminal
  <2>. QED  BY <2>1 DEF ClaimedFirst, k
<1>4. (NothingUnclaimed /\ SentOnce)'
    BY <1>1, <1>3 DEF NothingUnclaimed, SentOnce
<1>5. ASSUME NEW q \in Runs, NEW j \in Items, AboutToSend(q, j)'
      PROVE  AboutToSend(q, j) /\ Key(q, j)' = Key(q, j) /\ Key(q, j) \in Attempts /\ Key(q, j) # k
  <2>1. AboutToSend(q, j) /\ ~(q = r /\ j = i)
      BY <1>1, <1>5 DEF AboutToSend, IsTerminal, BatchTypeOK
  <2>2. Key(q, j) # k
    <3>1. SUFFICES ASSUME Key(q, j) = k PROVE FALSE
        OBVIOUS
    <3>2. j = i /\ stage[q] = stage[r]
        BY <3>1 DEF k, Key
    <3>3. AboutToSend(r, i)
        BY <2>1, <3>2, <1>1 DEF AboutToSend, IsTerminal
    <3>. QED  BY <2>1, <3>2, <3>3 DEF OneSender
  <2>. QED  BY <2>1, <2>2, <1>1 DEF AboutToSend, IsTerminal, Key, Attempts
<1>6. ClaimedFirst'
  <2> SUFFICES ASSUME NEW q \in Runs, NEW j \in Items, AboutToSend(q, j)'
               PROVE  claims'[Key(q, j)'] # "none" /\ sent'[Key(q, j)'] = 0
      BY DEF ClaimedFirst
  <2>1. claims'[Key(q, j)'] = claims[Key(q, j)] /\ sent'[Key(q, j)'] = sent[Key(q, j)]
      BY <1>1, <1>5
  <2>. QED  BY <2>1, <1>5 DEF ClaimedFirst
<1>7. OneSender'
    BY <1>1, <1>5 DEF OneSender
<1>8. ComesThrough'
    BY <1>1 DEF ComesThrough, BatchTypeOK
<1>. QED  BY <1>2, <1>4, <1>6, <1>7, <1>8

LEMMA Settle_Inv == ASSUME BatchInv, NEW r \in Runs, NEW i \in Items, Settle(r, i) PROVE BatchInv'
<1> DEFINE Marked == /\ claims' \in [Attempts -> Marks]
                     /\ \A k \in Attempts : claims'[k] = "none" => claims[k] = "none"
<1>1. ASSUME NEW s \in Marks \ {"none"},
             IF IsTerminal(r) THEN Note(r, i, s) ELSE UNCHANGED <<files, alive>>
      PROVE  Marked
    BY <1>1, NoteMarks DEF BatchInv, BatchTypeOK, files
<1>2. CASE Fails(r, i)
  <2>1. PICK how \in {"action_failed", "unverified"} :
           /\ Stop(r, i, IF how = "action_failed" THEN "failed" ELSE "paused")
           /\ IF IsTerminal(r) THEN Note(r, i, how) ELSE UNCHANGED <<files, alive>>
           /\ UNCHANGED passed
      BY <1>2 DEF Fails
  <2>2. how \in Marks \ {"none"}
      BY DEF Marks
  <2>3. Marked
      BY <1>1, <2>1, <2>2
  <2>. QED  BY <2>1, <2>3, Stop_Inv DEF Settle
<1>3. CASE Raises(r, i)
    BY <1>3, Stop_Inv DEF Settle, Raises, files, BatchInv, BatchTypeOK
<1>4. CASE Succeeds(r, i)
  <2> USE DEF BatchInv
  <2>1. "verified" \in Marks \ {"none"}
      BY DEF Marks
  <2>2. Marked
      BY <1>1, <1>4, <2>1 DEF Succeeds
  <2>3. /\ step' = [step EXCEPT ![r][i] = "off"] /\ step[r][i] = "sent"
        /\ passed' = [passed EXCEPT ![r][i] = stage[r]]
        /\ UNCHANGED <<stage, status, sent>>
      BY <1>4 DEF Settle, Succeeds, Step
  <2>4. stage[r] \in 1..Last
      BY <2>3 DEF ComesThrough, Stages
  <2>5. BatchTypeOK'
      BY <2>2, <2>3, <2>4, BatchAssumption DEF BatchTypeOK, Steps
  <2>6. \A q \in Runs, j \in Items : AboutToSend(q, j)' => AboutToSend(q, j) /\ stage'[q] = stage[q]
      BY <2>3 DEF AboutToSend, IsTerminal, BatchTypeOK
  <2>7. (NothingUnclaimed /\ ClaimedFirst /\ OneSender /\ SentOnce)'
      BY <2>2, <2>3, <2>6, NobodyNearer
  <2>8. ComesThrough'
      BY <2>3, <2>4 DEF ComesThrough, BatchTypeOK
  <2>. QED  BY <2>5, <2>7, <2>8
<1>. QED  BY <1>2, <1>3, <1>4 DEF Settle

LEMMA Barrier_Inv == ASSUME BatchInv, NEW r \in Runs, Barrier(r) PROVE BatchInv'
<1> USE DEF BatchInv
<1>1. /\ stage' = [stage EXCEPT ![r] = @ + 1] /\ stage[r] \in 1..(Last - 1)
      /\ step' = [step EXCEPT ![r] = [i \in Items |-> IF i \in Active(r) THEN "queued" ELSE "off"]]
      /\ \A i \in Items : step[r][i] = "off"
      /\ UNCHANGED <<claims, status, sent, passed>>
    BY DEF Barrier, Returned, files
<1>2. BatchTypeOK'
    BY <1>1, BatchAssumption DEF BatchTypeOK, Steps
<1>3. \A q \in Runs, j \in Items : AboutToSend(q, j)' => AboutToSend(q, j) /\ stage'[q] = stage[q]
    BY <1>1 DEF AboutToSend, IsTerminal, BatchTypeOK
<1>4. (NothingUnclaimed /\ ClaimedFirst /\ OneSender /\ SentOnce)'
    BY <1>1, <1>3, NobodyNearer
<1>5. ComesThrough'
  <2> SUFFICES ASSUME NEW q \in Runs, NEW j \in Items
               PROVE  /\ step'[q][j] # "off" => stage'[q] \in Stages /\ passed'[q][j] = stage'[q] - 1
                      /\ stage'[q] = 0 => passed'[q][j] = 0
                      /\ stage'[q] \in Stages /\ step'[q][j] = "off" /\ status'[q][j] = "active"
                              => passed'[q][j] = stage'[q]
      BY DEF ComesThrough
  <2>1. CASE q # r
      BY <2>1, <1>1 DEF ComesThrough, BatchTypeOK
  <2>2. CASE q = r
    <3>1. /\ step'[r][j] = (IF status[r][j] = "active" THEN "queued" ELSE "off")
          /\ stage'[r] = stage[r] + 1
        BY <1>1 DEF BatchTypeOK, Active
    <3>2. status[r][j] = "active" => passed[r][j] = stage[r]
        BY <1>1, BatchAssumption DEF ComesThrough, Stages
    <3>. QED  BY <2>2, <3>1, <3>2, <1>1, BatchAssumption DEF Stages
  <2>. QED  BY <2>1, <2>2
<1>. QED  BY <1>2, <1>4, <1>5

LEMMA Finish_Inv == ASSUME BatchInv, NEW r \in Runs, Finish(r) PROVE BatchInv'
<1> USE DEF BatchInv
<1>1. /\ stage' = [stage EXCEPT ![r] = Last + 1]
      /\ status' = [status EXCEPT ![r] =
             [i \in Items |-> IF i \in Active(r) THEN "completed" ELSE status[r][i]]]
      /\ \A i \in Items : step[r][i] = "off"
      /\ UNCHANGED <<claims, step, sent, passed>>
    BY DEF Finish, Returned, files
<1>2. BatchTypeOK'
    BY <1>1, BatchAssumption DEF BatchTypeOK, Statuses
<1>3. \A q \in Runs, j \in Items : AboutToSend(q, j)' => AboutToSend(q, j) /\ stage'[q] = stage[q]
    BY <1>1 DEF AboutToSend, IsTerminal, BatchTypeOK
<1>4. (NothingUnclaimed /\ ClaimedFirst /\ OneSender /\ SentOnce)'
    BY <1>1, <1>3, NobodyNearer
<1>5. ComesThrough'
    BY <1>1, BatchAssumption DEF ComesThrough, BatchTypeOK, Stages
<1>. QED  BY <1>2, <1>4, <1>5

LEMMA Quiet_Inv ==
    ASSUME BatchInv, UNCHANGED <<claims, stage, status, step, sent, passed>>
    PROVE  BatchInv'
<1> USE DEF BatchInv
<1>1. (BatchTypeOK /\ SentOnce /\ NothingUnclaimed)'
    BY DEF BatchTypeOK, SentOnce, NothingUnclaimed
<1>2. (ClaimedFirst /\ OneSender)'
    BY DEF ClaimedFirst, OneSender, AboutToSend, IsTerminal, Key
<1>3. ComesThrough'
    BY DEF ComesThrough
<1>. QED  BY <1>1, <1>2, <1>3

-----------------------------------------------------------------------------
LEMMA BatchNext_Inv == BatchInv /\ [BatchNext]_vars => BatchInv'
<1> SUFFICES ASSUME BatchInv, [BatchNext]_vars PROVE BatchInv'
    OBVIOUS
<1>1. CASE UNCHANGED vars
    BY <1>1, Quiet_Inv DEF vars
<1>2. ASSUME NEW r \in Runs, Start(r) \/ RunStep(r) \/ Killed(r)
      PROVE  BatchInv'
  <2>1. CASE Start(r)
      BY <2>1, Start_Inv
  <2>2. ASSUME NEW i \in Items, ItemStep(r, i)
        PROVE  BatchInv'
      BY <2>2, Enter_Inv, Scan_Inv, Claim_Inv, Act_Inv, Settle_Inv DEF ItemStep
  <2>3. CASE Barrier(r) \/ Finish(r)
      BY <2>3, Barrier_Inv, Finish_Inv
  <2>4. CASE Killed(r)
      BY <2>4, Quiet_Inv DEF Killed, files
  <2>. QED  BY <1>2, <2>1, <2>2, <2>3, <2>4 DEF RunStep
<1>. QED  BY <1>1, <1>2 DEF BatchNext

\* The invariant holds throughout, for all runs, items and stages.
THEOREM BatchInvariant == BatchSpec => []BatchInv
BY BatchInit_Inv, BatchNext_Inv, PTL DEF BatchSpec

\* "A timeout or crash cannot silently cause a second submit": however the runs
\* on a journal overlap and are killed, each terminal action is sent once at most.
THEOREM SendsOnce == BatchSpec => []SentOnce
<1>1. BatchInv => SentOnce
    BY DEF BatchInv
<1>. QED  BY <1>1, BatchInvariant, PTL

\* No item is at work in a stage without having come through all before it.
THEOREM KeepsOrder == BatchSpec => []StagesInOrder
<1>1. BatchInv => StagesInOrder
    BY DEF BatchInv, ComesThrough, StagesInOrder, Inside
<1>. QED  BY <1>1, BatchInvariant, PTL
=============================================================================
