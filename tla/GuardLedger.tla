------------------------------ MODULE GuardLedger ------------------------------
(***************************************************************************)
(* Guarded macros (web_search_neo/macros.py, main.py): guarded_stage runs  *)
(* every step but the last and reserves a checkpoint, guarded_commit uses  *)
(* the checkpoint up and dispatches the last step, a submit or a click     *)
(* that must not happen twice.  The ledger is one JSON file that several   *)
(* server processes read, change and write back under a lock               *)
(* (sessions/file_lock.py).  A process may die at any point, the lock may  *)
(* not be had in time, the file may not let itself be replaced, and agents *)
(* call again after every one of these.                                    *)
(***************************************************************************)
EXTENDS Naturals

CONSTANTS
    Callers,     \* calls that run at a time, in whichever process
    Tokens,      \* idempotency tokens; the checkpoint is the token
    Targets,     \* canonical target identities
    Resources,   \* resource paths
    NoToken, NoTarget, NoResource, NoCaller

ASSUME LedgerAssumption ==
    /\ NoToken \notin Tokens /\ NoTarget \notin Targets
    /\ NoResource \notin Resources /\ NoCaller \notin Callers

VARIABLES
    tokens,      \* ledger["tokens"]
    identities,  \* ledger["identities"]: the token each target was staged with
    resources,   \* ledger["resources"]: the target each resource belongs to
    lockedBy,    \* the call that holds the lock of the ledger file
    pc,          \* where each call is
    call,        \* call[c]: what c is asked to stage or to commit
    copy,        \* copy[c]: the ledger as c read it
    fired        \* history: the dispatches of each target's last action

ledger == <<tokens, identities, resources>>
ledgerVars == <<ledger, lockedBy, pc, call, copy, fired>>

Entry == [state : {"staged", "attempted"}, target : Targets, resource : Resources]

NoEntry == [state |-> "unknown", target |-> NoTarget, resource |-> NoResource]

Call   == [op : {"stage"}, token : Tokens, target : Targets, resource : Resources]
             \cup [op : {"commit"}, token : Tokens, target : {NoTarget}, resource : {NoResource}]
NoCall == [op |-> "none", token |-> NoToken, target |-> NoTarget, resource |-> NoResource]

Present == [tokens |-> tokens, identities |-> identities, resources |-> resources]
NoCopy  == [tokens     |-> [t \in Tokens |-> NoEntry],
            identities |-> [i \in Targets |-> NoToken],
            resources  |-> [r \in Resources |-> NoTarget]]

LedgerInit ==
    /\ tokens = [t \in Tokens |-> NoEntry]
    /\ identities = [i \in Targets |-> NoToken]
    /\ resources = [r \in Resources |-> NoTarget]
    /\ lockedBy = NoCaller
    /\ pc = [c \in Callers |-> "idle"]
    /\ call = [c \in Callers |-> NoCall]
    /\ copy = [c \in Callers |-> NoCopy]
    /\ fired = [i \in Targets |-> 0]

-----------------------------------------------------------------------------

Goto(c, there) == pc' = [pc EXCEPT ![c] = there]

\* The call ends: with an answer, an error, or with its process.
Ends(c) ==
    /\ Goto(c, "idle")
    /\ call' = [call EXCEPT ![c] = NoCall]
    /\ copy' = [copy EXCEPT ![c] = NoCopy]
    /\ lockedBy' = IF lockedBy = c THEN NoCaller ELSE lockedBy

\* op='guarded_stage': the guard is validated and the steps are run.
Stage(c, t, i, r) ==
    /\ pc[c] = "idle"
    /\ Goto(c, "steps")
    /\ call' = [call EXCEPT ![c] = [op |-> "stage", token |-> t, target |-> i, resource |-> r]]
    /\ UNCHANGED <<ledger, lockedBy, copy, fired>>

\* All of them succeed, and so do the assertions on their results.
StepsSucceed(c) ==
    /\ pc[c] = "steps"
    /\ Goto(c, "lock")
    /\ UNCHANGED <<ledger, lockedBy, call, copy, fired>>

\* op='guarded_commit' with a checkpoint.
Commit(c, t) ==
    /\ pc[c] = "idle"
    /\ Goto(c, "lock")
    /\ call' = [call EXCEPT ![c] = [op |-> "commit", token |-> t,
                                    target |-> NoTarget, resource |-> NoResource]]
    /\ UNCHANGED <<ledger, lockedBy, copy, fired>>

\* Mutant: the lock keeps out the threads of one process only.
LockOfOwnProcess(c) ==
    /\ pc[c] = "lock"
    /\ lockedBy' = c
    /\ Goto(c, "load")
    /\ UNCHANGED <<ledger, call, copy, fired>>

\* file_lock.exclusive.
Lock(c) ==
    /\ pc[c] = "lock" /\ lockedBy = NoCaller
    /\ lockedBy' = c
    /\ Goto(c, "load")
    /\ UNCHANGED <<ledger, call, copy, fired>>

\* _load_guarded_ledger.
Load(c) ==
    /\ pc[c] = "load"
    /\ copy' = [copy EXCEPT ![c] = Present]
    /\ Goto(c, "decide")
    /\ UNCHANGED <<ledger, lockedBy, call, fired>>

\* The token is new, so is the target, and the resource is no other target's.
MayReserve(book, t, i, r) ==
    /\ book.tokens[t] = NoEntry
    /\ book.identities[i] = NoToken
    /\ book.resources[r] \in {NoTarget, i}

\* Mutant: a commit whose first attempt got no answer may be tried again.
MayConsumeAgain(book, t) == book.tokens[t] # NoEntry

MayConsume(book, t) == book.tokens[t].state = "staged"

Allowed(c) ==
    LET k == call[c]
    IN  \/ k.op = "stage" /\ MayReserve(copy[c], k.token, k.target, k.resource)
        \/ k.op = "commit" /\ MayConsume(copy[c], k.token)

\* One of the refusals, each of them final.
Refuse(c) ==
    /\ pc[c] = "decide" /\ ~Allowed(c)
    /\ Ends(c)
    /\ UNCHANGED <<ledger, fired>>

\* reserve_checkpoint writes the file back and answers with the checkpoint.
Reserve(c) ==
    LET k == call[c]
    IN  /\ pc[c] = "decide" /\ k.op = "stage" /\ Allowed(c)
        /\ tokens' = [copy[c].tokens EXCEPT
                        ![k.token] = [state |-> "staged", target |-> k.target, resource |-> k.resource]]
        /\ identities' = [copy[c].identities EXCEPT ![k.target] = k.token]
        /\ resources' = [copy[c].resources EXCEPT ![k.resource] = k.target]
        /\ Ends(c)
        /\ UNCHANGED fired

\* consume_checkpoint writes the attempt down before anything is dispatched.
Consume(c) ==
    LET k == call[c]
        e == copy[c].tokens[k.token]
    IN  /\ pc[c] = "decide" /\ k.op = "commit" /\ Allowed(c)
        /\ tokens' = [copy[c].tokens EXCEPT
                        ![k.token] = [state |-> "attempted", target |-> e.target, resource |-> e.resource]]
        /\ identities' = copy[c].identities /\ resources' = copy[c].resources
        /\ Goto(c, "dispatch")
        /\ lockedBy' = NoCaller
        /\ UNCHANGED <<call, copy, fired>>

\* The target of the checkpoint that c commits, as c read it.
Aim(c) == copy[c].tokens[call[c].token].target

\* The last step goes out, once; what came of it is for the site to say.
Dispatch(c) ==
    /\ pc[c] = "dispatch"
    /\ fired' = [fired EXCEPT ![Aim(c)] = @ + 1]
    /\ Ends(c)
    /\ UNCHANGED ledger

\* A step of the macro fails, the lock is not had within its timeout, the file
\* cannot be read or replaced, the last step is refused before it reaches the
\* page, or the process dies, which frees its lock.
Fail(c) ==
    /\ pc[c] # "idle"
    /\ Ends(c)
    /\ UNCHANGED <<ledger, fired>>

NewCall(c) ==
    \/ \E t \in Tokens, i \in Targets, r \in Resources : Stage(c, t, i, r)
    \/ \E t \in Tokens : Commit(c, t)

CallStep(c) ==
    StepsSucceed(c) \/ Lock(c) \/ Load(c) \/ Refuse(c) \/ Reserve(c) \/ Consume(c) \/ Dispatch(c)

LedgerNext == \E c \in Callers : NewCall(c) \/ CallStep(c) \/ Fail(c)

LedgerSpec == LedgerInit /\ [][LedgerNext]_ledgerVars

-----------------------------------------------------------------------------

Labels == {"idle", "steps", "lock", "load", "decide", "dispatch"}

Book == [tokens : [Tokens -> Entry \cup {NoEntry}],
         identities : [Targets -> Tokens \cup {NoToken}],
         resources : [Resources -> Targets \cup {NoTarget}]]

\* The ledger and the calls are of the shape the code keeps.
LedgerTypeOK ==
    /\ Present \in Book
    /\ lockedBy \in Callers \cup {NoCaller}
    /\ pc \in [Callers -> Labels]
    /\ call \in [Callers -> Call \cup {NoCall}]
    /\ \A c \in Callers : pc[c] # "idle" => call[c] \in Call
    /\ copy \in [Callers -> Book]
    /\ fired \in [Targets -> Nat]

\* The three indexes of the ledger tell one story, whoever writes it back: a token
\* is its target's only one, and its resource belongs to that target and no other.
IndexesAgree ==
    /\ \A t \in Tokens : tokens[t] # NoEntry =>
          identities[tokens[t].target] = t /\ resources[tokens[t].resource] = tokens[t].target
    /\ \A i \in Targets : identities[i] # NoToken => tokens[identities[i]].target = i

\* The consequential action of a target goes out once at the most: in all processes,
\* under all tokens, after any failure, and however often an agent calls again.
FiredOnceAtMost == \A i \in Targets : fired[i] <= 1

\* What the guard makes of a target.
Fate == [i \in Targets |->
            IF identities[i] = NoToken THEN "new" ELSE tokens[identities[i]].state]

Shot == INSTANCE OneShot WITH fate <- Fate

\* The ledger implements the promise of a guarded macro: reviewed, then attempted,
\* then fired if at all, and never a step back.
ImplementsOneShot == Shot!Spec
=============================================================================
