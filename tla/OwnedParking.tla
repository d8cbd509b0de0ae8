----------------------------- MODULE OwnedParking -----------------------------
(***************************************************************************)
(* persist=true on temporary and isolated sessions (persist_actions.py and *)
(* owned_parking.py): browsers that outlive the server which launched      *)
(* them.  Server processes of one user share a record of the browser of a  *)
(* session id, change it under a file lock, and hand the browser on from   *)
(* one to the next; a watchdog process per token ends it when its time is  *)
(* over.  A server may end, or be killed, at every step.                   *)
(*                                                                         *)
(* The module has one session id, as the records of two ids do not meet.   *)
(***************************************************************************)
EXTENDS Naturals

CONSTANTS
    Servers,    \* server processes; one that ends is not started again
    Calls, Of,  \* the calls in progress, and Of[c], the server that c runs in
    Browsers,   \* bound: the browsers that servers launch
    MaxToken,   \* bound: the tokens drawn for live and parked records
    Nobody, NoBrowser

ASSUME ParkingAssumption ==
    /\ Of \in [Calls -> Servers] /\ MaxToken \in Nat \ {0}
    /\ Nobody \notin Servers /\ NoBrowser \notin Browsers /\ Browsers # {}
    /\ Calls \cap (0..MaxToken) = {}

VARIABLES
    record,    \* the record of the session id in the registry file
    tokens,    \* how many tokens were drawn
    up,        \* up[s]: "up", "exiting" (in its atexit hook), or "gone"
    table,     \* table[s]: the browser of the session id in the _sessions of s
    running,   \* the browsers that run, each with its chromedriver
    task,      \* what each call, and each token's watchdog, is at
    fate       \* history, fate[b]: see Fates

parkingVars == <<record, tokens, up, table, running, task, fate>>

\* "lost": the browser ended, was closed or claimed for retirement, or a write or
\* a drop that names no token took its record away.
Fates == {"new", "launched", "recorded", "lost"}

Watchdogs == 1..MaxToken
Actors == Calls \cup Watchdogs
ServerOf(a) == IF a \in Calls THEN Of[a] ELSE Nobody

\* fresh: inside the TTL; stale: retiring for longer than _RETIRE_STALE_SECONDS.
NoRecord == [state |-> "none", token |-> 0, owner |-> Nobody, browser |-> NoBrowser,
             fresh |-> FALSE, stale |-> FALSE]
Records == [state : {"none", "live", "parked", "retiring"}, token : 0..MaxToken \cup Calls,
            owner : Servers \cup {Nobody}, browser : Browsers \cup {NoBrowser},
            fresh : BOOLEAN, stale : BOOLEAN]
\* What a call or a watchdog is at, what it goes on to when the record is dealt
\* with (open: to open_page), and the token and the browser that it has read.
Idle == [at |-> "idle", then |-> "idle", token |-> 0, browser |-> NoBrowser]
Polling == [Idle EXCEPT !.at = "poll"]

owner_alive(r) == r.owner # Nobody /\ up[r.owner] # "gone"
LiveElsewhere(r, s) == r.state = "live" /\ owner_alive(r) /\ r.owner # s
held_elsewhere(r, s) == r.state \in {"live", "retiring"} /\ r.owner # s /\ owner_alive(r)
retire_is_stale(r) == r.state = "retiring" /\ r.stale
RetiredBySomeone(r) == r.state = "retiring" /\ ~r.stale

reapable(r) ==
    \/ retire_is_stale(r)
    \/ /\ r.state \in {"live", "parked"} /\ ~(r.state = "live" /\ owner_alive(r))
       /\ r.browser \notin running \/ ~r.fresh

\* Mutant: a close does not ask who holds the session.
TakenThoughLive(r, s, force) ==
    r.state # "none" /\ (force \/ reapable(r)) /\ ~RetiredBySomeone(r)

\* The test that retire_and_forget makes in server s (a watchdog is in none).
MayTake(r, s, force) ==
    /\ r.state # "none"
    /\ force \/ reapable(r)
    /\ ~LiveElsewhere(r, s)
    /\ ~RetiredBySomeone(r)

\* The registry is empty, or a server that is gone parked the browser in it.
ParkingInit ==
    /\ up = [s \in Servers |-> "up"] /\ table = [s \in Servers |-> NoBrowser]
    /\ \/ /\ record = NoRecord /\ tokens = 0 /\ running = {}
          /\ task = [a \in Actors |-> Idle] /\ fate = [b \in Browsers |-> "new"]
       \/ LET b == CHOOSE x \in Browsers : TRUE IN
             /\ record = [NoRecord EXCEPT !.state = "parked", !.token = 1, !.browser = b, !.fresh = TRUE]
             /\ tokens = 1 /\ running = {b}
             /\ task = [a \in Actors |-> IF a = 1 THEN Polling ELSE Idle]
             /\ fate = [c \in Browsers |-> IF c = b THEN "recorded" ELSE "new"]

-----------------------------------------------------------------------------
At(a, at) == task[a].at = at
Becomes(a, at) == IF at = "idle" THEN Idle ELSE [task[a] EXCEPT !.at = at]
Goto(a, at) == task' = [task EXCEPT ![a] = Becomes(a, at)]
With(a, at, then, token, browser) ==
    task' = [task EXCEPT ![a] = [at |-> at, then |-> then, token |-> token, browser |-> browser]]
Mine(a) == table[Of[a]]

\* c goes on; _ensure_watchdog: one that watches the token t, unless it could not
\* be started.  (A watchdog that is slow to start is one that has yet to look.)
Watched(c, at, t) ==
    LET on == [task EXCEPT ![c] = Becomes(c, at)]
    IN  task' \in {on, [on EXCEPT ![t] = Polling]}

Lost(bs) == [b \in Browsers |-> IF b \in bs THEN "lost" ELSE fate[b]]
NewToken == tokens < MaxToken /\ tokens' = tokens + 1

-----------------------------------------------------------------------------
\* Retiring a browser: retire_and_forget and _finish.

\* The record is claimed, by a token that is named for the one who retires.
TakeFor(a, then) ==
    /\ record' = [record EXCEPT !.state = "retiring", !.token = a, !.stale = FALSE]
    /\ With(a, "retire", then, 0, record.browser)
    /\ fate' = Lost({record.browser})
    /\ UNCHANGED <<tokens, up, table, running>>

\* reap_expired, with which open, reattach and browser_status begin.
Reap(c, op) ==
    /\ At(c, "idle") /\ up[Of[c]] = "up"
    /\ \/ /\ MayTake(record, Of[c], FALSE)
          /\ TakeFor(c, IF op = "open" THEN "look" ELSE "idle")
       \/ /\ ~MayTake(record, Of[c], FALSE) /\ op # "status"
          /\ With(c, "look", IF op = "open" THEN "launch" ELSE "idle", 0, NoBrowser)
          /\ UNCHANGED <<record, tokens, up, table, running, fate>>

\* retire_and_forget by force: what _refuse_and_clean does, and close.
TakeByForce(c) ==
    /\ At(c, "force")
    /\ \/ MayTake(record, Of[c], TRUE) /\ TakeFor(c, task[c].then)
       \/ /\ ~MayTake(record, Of[c], TRUE) /\ Goto(c, task[c].then)
          /\ UNCHANGED <<record, tokens, up, table, running, fate>>

\* retire: quit, then kill.  It may leave the browser running, and reports it.
Retire(a) ==
    /\ At(a, "retire") \/ At(a, "finish")
    /\ running' \in {running, running \ {task[a].browser}}
    /\ With(a, IF At(a, "retire") THEN "forget" ELSE "drop", task[a].then, 0, NoBrowser)
    /\ UNCHANGED <<record, tokens, up, table, fate>>

AfterRetiring(a) ==
    IF task[a].then = "look" THEN With(a, "look", "launch", 0, NoBrowser) ELSE Goto(a, task[a].then)

\* Mutant: a retirement drops the record whoever has it now.
ForgetAny(a) ==
    /\ At(a, "forget") \/ At(a, "drop")
    /\ record' = NoRecord
    /\ AfterRetiring(a)
    /\ UNCHANGED <<tokens, up, table, running, fate>>

\* forget, with the token of the retirement or, from _finish, without one.
Forget(a) ==
    /\ At(a, "forget") \/ At(a, "drop")
    /\ record' = IF At(a, "drop") \/ record.token = a THEN NoRecord ELSE record
    /\ fate' = IF At(a, "drop") THEN Lost({record.browser}) ELSE fate
    /\ AfterRetiring(a)
    /\ UNCHANGED <<tokens, up, table, running>>

-----------------------------------------------------------------------------
\* open, reattach, browser_status and close.

\* The record is read, adopt makes its first two tests on what was read, and
\* driver_answers: a browser that runs may be too slow for it.
Look(c) ==
    LET s == Of[c] IN
    /\ At(c, "look")
    /\ CASE Mine(c) # NoBrowser \/ record = NoRecord -> Goto(c, task[c].then)
         [] held_elsewhere(record, s) /\ task[c].then = "launch" -> Goto(c, "idle")
         [] RetiredBySomeone(record) \/ LiveElsewhere(record, s) -> Goto(c, task[c].then)
         [] OTHER -> \/ record.browser \in running /\ With(c, "claim", task[c].then, record.token, record.browser)
                     \/ Goto(c, "force")
    /\ UNCHANGED <<record, tokens, up, table, running, fate>>

Claimed(c) ==
    /\ record' = [record EXCEPT !.state = "live", !.token = tokens + 1, !.owner = Of[c]]
    /\ NewToken /\ With(c, "register", task[c].then, tokens + 1, record.browser)

\* Mutant: the claim does not compare the token that was read.
AdoptWhatIsThere(c) ==
    /\ At(c, "claim") /\ record.state \in {"parked", "live"}
    /\ Claimed(c)
    /\ UNCHANGED <<up, table, running, fate>>

\* adopt's claim: the record still carries the token that was read.
Adopt(c) ==
    LET same == record.token = task[c].token /\ record.state \in {"parked", "live"} IN
    /\ At(c, "claim")
    /\ \/ same /\ Claimed(c)
       \/ ~same /\ Goto(c, task[c].then) /\ UNCHANGED <<record, tokens>>
    /\ UNCHANGED <<up, table, running, fate>>

\* ResumedChrome on the recorded session, which may be gone by now; _register:
\* into the table, unless the name is taken or the cap is reached.
Register(c) ==
    /\ At(c, "register")
    /\ \/ /\ task[c].browser \in running /\ Mine(c) = NoBrowser
          /\ table' = [table EXCEPT ![Of[c]] = task[c].browser]
          /\ Watched(c, task[c].then, task[c].token)
       \/ task[c].browser \in running /\ Goto(c, "giveBack") /\ UNCHANGED table
       \/ Goto(c, "force") /\ UNCHANGED table
    /\ UNCHANGED <<record, tokens, up, running, fate>>

\* What was adopted and could not be registered is parked again.
GiveBack(c) ==
    /\ At(c, "giveBack")
    /\ record' = IF record.token = task[c].token
                 THEN [record EXCEPT !.state = "parked", !.owner = Nobody] ELSE record
    /\ Goto(c, task[c].then)
    /\ UNCHANGED <<tokens, up, table, running, fate>>

\* browser_tools.open_page: on a new browser, or on the one in the table; it
\* closes the session when it fails.
Launch(c) ==
    LET s == Of[c] IN
    /\ At(c, "launch")
    /\ \/ \E b \in Browsers :
             /\ Mine(c) = NoBrowser /\ fate[b] = "new"
             /\ table' = [table EXCEPT ![s] = b] /\ running' = running \cup {b}
             /\ fate' = [fate EXCEPT ![b] = "launched"]
             /\ Goto(c, "record")
       \/ /\ Mine(c) \in running /\ Goto(c, "record")
          /\ UNCHANGED <<table, running, fate>>
       \/ /\ table' = [table EXCEPT ![s] = NoBrowser]
          /\ running' = running \ {Mine(c)} /\ fate' = Lost({Mine(c)})
          /\ Goto(c, "clean")
    /\ UNCHANGED <<record, tokens, up>>

\* record_live: nothing to do, refused, or on to the write.
RecordLive(c) ==
    LET s == Of[c]
        ours == record.owner = s /\ record.state = "live" /\ record.browser = Mine(c)
    IN  /\ At(c, "record")
        /\ IF Mine(c) = NoBrowser \/ ours \/ held_elsewhere(record, s) THEN Goto(c, "idle")
           ELSE With(c, "write", "idle", 0, Mine(c))
        /\ UNCHANGED <<record, tokens, up, table, running, fate>>

\* write: whatever the file holds by now, this is the record.
Put(r) ==
    /\ record' = r
    /\ fate' = [b \in Browsers |-> IF b = r.browser /\ fate[b] = "launched" THEN "recorded"
                                   ELSE IF b = record.browser /\ b # r.browser THEN "lost" ELSE fate[b]]

WriteLive(c) ==
    LET r == [state |-> "live", token |-> tokens + 1, owner |-> Of[c],
              browser |-> task[c].browser, fresh |-> TRUE, stale |-> FALSE]
    IN  /\ At(c, "write") /\ NewToken
        /\ Put(r) /\ Watched(c, "idle", r.token)
        /\ UNCHANGED <<up, table, running>>

\* After close, or an open that failed: _finish, when the record is this server's.
Clean(c) ==
    /\ At(c, "clean")
    /\ IF record.owner = Of[c] /\ Mine(c) = NoBrowser
       THEN /\ With(c, "finish", "idle", 0, record.browser)
            /\ fate' = Lost({record.browser})
       ELSE Goto(c, "idle") /\ UNCHANGED fate
    /\ UNCHANGED <<record, tokens, up, table, running>>

\* close: the live session is closed, or a parked one retired.
Close(c) ==
    /\ At(c, "idle") /\ up[Of[c]] = "up"
    /\ Goto(c, IF Mine(c) = NoBrowser THEN "force" ELSE "clean")
    /\ table' = [table EXCEPT ![Of[c]] = NoBrowser]
    /\ running' \in {running, running \ {Mine(c)}}
    /\ fate' = Lost({Mine(c)})
    /\ UNCHANGED <<record, tokens, up>>

\* The session leaves the table by browser_tools alone, as one that is stale or idle.
SweptAway(s) ==
    /\ up[s] = "up" /\ table[s] # NoBrowser
    /\ table' = [table EXCEPT ![s] = NoBrowser]
    /\ running' = running \ {table[s]} /\ fate' = Lost({table[s]})
    /\ UNCHANGED <<record, tokens, up, task>>

-----------------------------------------------------------------------------
\* The end of a server.

\* The interpreter waits for the calls, then runs _park_at_exit: park reads the
\* record that was, or fails and the session is closed instead.
Exit(c) ==
    LET s == Of[c] IN
    /\ up[s] = "up" /\ \A d \in Calls : Of[d] = s => At(d, "idle")
    /\ \/ /\ Mine(c) # NoBrowser /\ up' = [up EXCEPT ![s] = "exiting"]
          /\ With(c, "parkWrite", "idle", IF record.owner = s THEN record.token ELSE 0, NoBrowser) /\ UNCHANGED <<table, running, fate>>
       \/ /\ up' = [up EXCEPT ![s] = "gone"] /\ table' = [table EXCEPT ![s] = NoBrowser]
          /\ running' = running \ {Mine(c)} /\ fate' = Lost({Mine(c)})
          /\ UNCHANGED task
    /\ UNCHANGED <<record, tokens>>

\* ... and writes the new one, with the token of the old one if that was its own.
ParkWrite(c) ==
    LET own == task[c].token # 0
        r == [state |-> "parked", token |-> IF own THEN task[c].token ELSE tokens + 1,
              owner |-> Nobody, browser |-> Mine(c), fresh |-> TRUE, stale |-> FALSE]
    IN  /\ At(c, "parkWrite")
        /\ IF own THEN UNCHANGED tokens ELSE NewToken
        /\ Put(r) /\ Watched(c, "idle", r.token)
        /\ table' = [table EXCEPT ![Of[c]] = NoBrowser] /\ up' = [up EXCEPT ![Of[c]] = "gone"]
        /\ UNCHANGED running

Crash(s) ==
    /\ up[s] # "gone"
    /\ up' = [up EXCEPT ![s] = "gone"] /\ table' = [table EXCEPT ![s] = NoBrowser]
    /\ task' = [a \in Actors |-> IF ServerOf(a) = s THEN Idle ELSE task[a]]
    /\ UNCHANGED <<record, tokens, running, fate>>

BrowserDies(b) ==
    /\ b \in running /\ running' = running \ {b} /\ fate' = Lost({b})
    /\ UNCHANGED <<record, tokens, up, table, task>>

-----------------------------------------------------------------------------
\* The watchdog of the token t: _watch_once.

Look1(t) == At(t, "poll") /\ UNCHANGED <<tokens, up, table, running>>

\* The record is gone, or in other hands.
WatchOver(t) ==
    /\ Look1(t) /\ record.token # t
    /\ Goto(t, "idle") /\ UNCHANGED <<record, fate>>

\* The server died without parking it: parked from now, with a new TTL.
ParkForTheDead(t) ==
    /\ Look1(t) /\ record.token = t
    /\ record.state = "live" /\ ~owner_alive(record)
    /\ record' = [record EXCEPT !.state = "parked", !.fresh = TRUE]
    /\ UNCHANGED <<task, fate>>

\* Mutant: the TTL is not looked at.
WatchdogRetiresTheDead(t) ==
    /\ At(t, "poll") /\ record.token = t /\ record.browser \notin running
    /\ MayTake(record, Nobody, FALSE)
    /\ TakeFor(t, "idle")

WatchdogRetires(t) ==
    /\ At(t, "poll") /\ record.token = t
    /\ ~(record.state = "live" /\ ~owner_alive(record))
    /\ MayTake(record, Nobody, FALSE)
    /\ TakeFor(t, "idle")

-----------------------------------------------------------------------------
TtlRunsOut ==
    /\ record.fresh /\ record' = [record EXCEPT !.fresh = FALSE]
    /\ UNCHANGED <<tokens, up, table, running, task, fate>>

RetirementDrags ==
    /\ RetiredBySomeone(record) /\ record' = [record EXCEPT !.stale = TRUE]
    /\ UNCHANGED <<tokens, up, table, running, task, fate>>

CallStep(c) ==
    \/ \E op \in {"open", "reattach", "status"} : Reap(c, op)
    \/ TakeByForce(c) \/ Retire(c) \/ Forget(c)
    \/ Look(c) \/ Adopt(c) \/ Register(c) \/ GiveBack(c)
    \/ Launch(c) \/ RecordLive(c) \/ WriteLive(c) \/ Clean(c) \/ Close(c)
    \/ Exit(c) \/ ParkWrite(c)

WatchdogStep(t) == WatchOver(t) \/ ParkForTheDead(t) \/ WatchdogRetires(t) \/ Retire(t) \/ Forget(t)

ParkingNext ==
    \/ \E c \in Calls : CallStep(c)
    \/ \E t \in Watchdogs : WatchdogStep(t)
    \/ \E s \in Servers : SweptAway(s) \/ Crash(s)
    \/ \E b \in Browsers : BrowserDies(b)
    \/ TtlRunsOut \/ RetirementDrags

ParkingSpec == ParkingInit /\ [][ParkingNext]_parkingVars

\* Watchdogs poll for as long as they watch, and finish what they began; each has
\* few steps to take, so it is enough that one or another of them goes on.
ParkingFairSpec == ParkingSpec /\ WF_parkingVars(\E t \in Watchdogs : WatchdogStep(t))

-----------------------------------------------------------------------------
\* The server s drives b, or is about to: it is in the table, or adopted.
Holds(s, b) ==
    /\ up[s] # "gone"
    /\ \/ table[s] = b
       \/ \E c \in Calls : Of[c] = s /\ At(c, "register") /\ task[c].browser = b

\* No browser is driven by two servers.
OneHolder ==
    \A b \in Browsers, s1, s2 \in Servers : Holds(s1, b) /\ Holds(s2, b) => s1 = s2

\* No retirement that still has its browser to stop is about one that another
\* server drives: neither a watchdog's, nor a late one that was taken over.
HeldIsNotRetired ==
    \A a \in Actors, s \in Servers :
        task[a].at \in {"retire", "finish"} /\ Holds(s, task[a].browser) => ServerOf(a) = s

\* A running browser that was recorded is the one on record, whatever dies: the
\* next server, or a watchdog, finds it.  It is lost only to a retirement, or to
\* a write or a drop of the registry that names no token.
KeptOnRecord ==
    \A b \in running : fate[b] = "recorded" => record.browser = b

\* A parked browser past its TTL does not stay so while a watchdog watches the
\* record: it is claimed for retirement, or goes into other hands.
Expired ==
    /\ record.state = "parked" /\ ~record.fresh
    /\ record.token \in Watchdogs /\ At(record.token, "poll")
ExpiredIsRetired == Expired ~> ~Expired
=============================================================================
