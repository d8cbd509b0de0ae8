---------------------------- MODULE CompanionLink ----------------------------
(***************************************************************************)
(* How the companion stays connected: chrome-extension/service-worker.js.  *)
(*                                                                         *)
(* The worker that holds the socket is stopped by Chrome at any idle       *)
(* moment and started again by the next event; what it keeps in variables  *)
(* is lost, what it keeps in storage and the alarms survive.  Whatever it  *)
(* awaits lets every other handler run, so that a connect() may go on      *)
(* after the user has paused the companion, resumed it, or asked for a     *)
(* fresh attempt, and several may be under way.  On the other side the     *)
(* daemon keeps the companion that authenticated last.                     *)
(***************************************************************************)
EXTENDS Naturals, FiniteSets

CONSTANTS
    Sockets,      \* the sockets that may exist together
    NoSocket,
    MaxCalls,     \* connect() calls under way together
    MaxTrouble    \* disturbances: user's clicks, evictions, daemon stops, failures

ASSUME LinkAssumption ==
    IsFiniteSet(Sockets) /\ NoSocket \notin Sockets /\ MaxCalls \in Nat /\ MaxTrouble \in Nat

VARIABLES
    \* kept by the browser: they outlive the worker
    on,           \* storage.local: the user's switch
    shelf,        \* storage.session: the id of the browser run; 0 when there is none
    ahead,        \* storage.session: backoff.nextAttemptAt is still to come
    alarm, beat,  \* RECONNECT_ALARM and HEARTBEAT_ALARM are set
    \* module scope: they begin anew with every worker
    boot,         \* "dead", "booting" until the switch is loaded, "resuming", "done"
    enabled, connecting, verified, socket, timer,
    minted,       \* this worker minted the id on the shelf
    calls,        \* connect() calls: asking the switch, reading token and run
    hashing,      \* hashing[r]: calls that read the run r and await the code's hash
    toggling,     \* setEnabled() calls that await the storage
    beating,      \* a heartbeat's event is on its way to its listener
    startup,      \* the listener of onStartup: "due", "asked", "minting", "done"
    \* outside
    link,         \* link[s]: how far the socket s is
    carries,      \* carries[s]: the run that its hello names
    up,           \* a daemon listens
    companion,    \* the daemon's _extension
    trouble       \* the disturbances so far

kept == <<on, shelf, minted>>
alarms == <<ahead, alarm, beat, timer>>
work == <<calls, hashing, toggling, beating, startup>>
outside == <<link, carries, up, companion>>
linkVars == <<on, shelf, ahead, alarm, beat, boot, enabled, connecting, verified, socket,
          timer, minted, calls, hashing, toggling, beating, startup,
          link, carries, up, companion, trouble>>

OldRun == 1
RunIds == 0..3
Fresh == [ask |-> 0, read |-> 0]
NoneHashing == [r \in RunIds |-> 0]
\* The connect() calls past their first await, and all that are under way.
PastAsking == calls.read + hashing[0] + hashing[1] + hashing[2] + hashing[3]
Pending == calls.ask + PastAsking

Loaded == boot \in {"resuming", "done"}
Shaking == {"opening", "open", "answered"}
Held == {"accepted", "acked"}      \* the daemon took the socket for its companion
Live(s) == link[s] \in Shaking \union Held

\* A browser starts, with the session store emptied or, after a crash, kept.
LinkInit ==
    /\ on \in BOOLEAN /\ shelf \in {0, OldRun} /\ ahead = FALSE
    /\ alarm = FALSE /\ beat = FALSE
    /\ boot = "booting" /\ enabled = TRUE /\ connecting = FALSE /\ verified = FALSE
    /\ socket = NoSocket /\ timer = FALSE /\ minted = FALSE
    /\ calls = Fresh /\ hashing = NoneHashing
    /\ toggling = 0 /\ beating = FALSE /\ startup = "due"
    /\ link = [s \in Sockets |-> "free"] /\ carries = [s \in Sockets |-> 0]
    /\ up = TRUE /\ companion = NoSocket /\ trouble = 0

Disturb == trouble < MaxTrouble /\ trouble' = trouble + 1
Calm == UNCHANGED trouble

-----------------------------------------------------------------------------
(* The pieces that the handlers share; each says what becomes of the timer,
   the alarm, the wait and the calls. *)

ClearReconnect == timer' = FALSE /\ alarm' = FALSE

\* startConnect: one more connect(), which first asks the switch.
StartConnect ==
    /\ ClearReconnect
    /\ Pending < MaxCalls /\ calls' = [calls EXCEPT !.ask = @ + 1]

\* A wait that outlasts the worker is an alarm, a shorter one a timer.
ScheduleReconnect ==
    /\ timer' \in BOOLEAN /\ alarm' = ~timer'
    /\ ahead' = TRUE /\ UNCHANGED calls

\* Within the floor since the last attempt the retry is only pulled forward.
ConnectNow ==
    \/ ~enabled /\ UNCHANGED <<timer, alarm, ahead, calls>>
    \/ enabled /\ ahead' = FALSE /\ StartConnect
    \/ enabled /\ timer' = TRUE /\ alarm' = FALSE /\ ahead' = TRUE /\ UNCHANGED calls

\* A socket lets go when its worker forgets it; the daemon may take a while to see it.
Released(s) == IF companion = s THEN "gone" ELSE "free"
\* The close event of a socket that is not current does nothing.
Ended(s) == IF socket = s THEN "closing" ELSE Released(s)
HangUp == [s \in Sockets |-> IF s = socket THEN Released(s) ELSE link[s]]
Lines(l) == /\ link' = l
            /\ carries' = [s \in Sockets |-> IF l[s] = "free" THEN 0 ELSE carries[s]]
Unused == LET free == {s \in Sockets : link[s] = "free"}
          IN  IF free = {} THEN {} ELSE {CHOOSE s \in free : TRUE}
Mint == IF shelf = 0 THEN OldRun + 1 ELSE shelf + 1

-----------------------------------------------------------------------------
(* connect(), as far as it runs between two awaits. *)

Ask ==
    /\ calls.ask > 0 /\ Loaded
    /\ LET goes == enabled /\ ~connecting /\ (socket = NoSocket \/ ~Live(socket)) IN
       /\ connecting' = IF goes THEN TRUE ELSE connecting /\ enabled
       /\ calls' = [ask |-> calls.ask - 1, read |-> calls.read + IF goes THEN 1 ELSE 0]
    /\ Calm /\ UNCHANGED <<kept, alarms, boot, enabled, verified, socket, hashing,
                           toggling, beating, startup, outside>>

\* browserRun reads the id, or mints one when there is none.
Read ==
    /\ calls.read > 0 /\ calls' = [calls EXCEPT !.read = @ - 1]
    /\ shelf' = IF shelf = 0 THEN Mint ELSE shelf
    /\ minted' = (minted \/ shelf = 0)
    /\ hashing' = [hashing EXCEPT ![shelf'] = @ + 1]
    /\ Calm /\ UNCHANGED <<on, alarms, boot, enabled, connecting, verified, socket,
                           toggling, beating, startup, outside>>

\* Mutant: `verified` is left as it was when a socket is replaced.
OpenStillVerified(r) ==
    /\ hashing[r] > 0 /\ hashing' = [hashing EXCEPT ![r] = @ - 1]
    /\ connecting' = FALSE /\ UNCHANGED verified
    /\ \/ ~enabled /\ UNCHANGED <<socket, link, carries>>
       \/ /\ enabled
          /\ \E s \in Unused :
                /\ socket' = s
                /\ link' = [link EXCEPT ![s] = "opening"]
                /\ carries' = [carries EXCEPT ![s] = r]
    /\ Calm /\ UNCHANGED <<kept, alarms, boot, enabled, calls, toggling, beating, startup,
                           up, companion>>

\* Mutant: the switch is not looked at again after the awaits.
OpenRegardless(r) ==
    /\ hashing[r] > 0 /\ hashing' = [hashing EXCEPT ![r] = @ - 1]
    /\ connecting' = FALSE /\ verified' = FALSE
    /\ \E s \in Unused :
            /\ socket' = s
            /\ link' = [link EXCEPT ![s] = "opening"]
            /\ carries' = [carries EXCEPT ![s] = r]
    /\ Calm /\ UNCHANGED <<kept, alarms, boot, enabled, calls, toggling, beating, startup,
                           up, companion>>

\* The switch is looked at again; then the socket is made, whatever was current.
Open(r) ==
    /\ hashing[r] > 0 /\ hashing' = [hashing EXCEPT ![r] = @ - 1]
    /\ connecting' = FALSE
    /\ \/ /\ ~enabled /\ UNCHANGED <<verified, socket, link, carries>>
       \/ /\ enabled /\ verified' = FALSE
          /\ \E s \in Unused :
                /\ socket' = s
                /\ link' = [link EXCEPT ![s] = "opening"]
                /\ carries' = [carries EXCEPT ![s] = r]
    /\ Calm /\ UNCHANGED <<kept, alarms, boot, enabled, calls, toggling, beating, startup,
                           up, companion>>

\* Mutant: an attempt that failed before it had a socket sets no retry.
BrokenForGood(r) ==
    /\ hashing[r] > 0 /\ hashing' = [hashing EXCEPT ![r] = @ - 1]
    /\ connecting' = FALSE /\ UNCHANGED <<timer, alarm, ahead, calls>>
    /\ Disturb /\ UNCHANGED <<kept, beat, boot, enabled, verified, socket, toggling, beating,
                              startup, outside>>

\* The token cannot be read, or the code's hash not computed.
Broken(r) ==
    /\ hashing[r] > 0 /\ hashing' = [hashing EXCEPT ![r] = @ - 1]
    /\ connecting' = FALSE /\ ScheduleReconnect
    /\ Disturb /\ UNCHANGED <<kept, beat, boot, enabled, verified, socket, toggling, beating,
                              startup, outside>>

Connecting == Ask \/ Read \/ \E r \in RunIds : Open(r)

-----------------------------------------------------------------------------
(* The socket, and the daemon at its other end. *)

Becomes(s, what) == Lines([link EXCEPT ![s] = what])
Inside == <<kept, alarms, boot, enabled, connecting, verified, socket, work>>

\* The socket opens and sends its hello; nobody listens: it closes.
Opened(s) ==
    /\ link[s] = "opening" /\ Becomes(s, IF up THEN "open" ELSE Ended(s))
    /\ Calm /\ UNCHANGED <<Inside, up, companion>>

\* The challenge is answered by the current socket only; any other is left to time out.
Answer(s) ==
    /\ link[s] = "open" /\ Becomes(s, IF socket = s THEN "answered" ELSE Ended(s))
    /\ Calm /\ UNCHANGED <<Inside, up, companion>>

\* The newest authenticated companion wins.
Accept(s) ==
    /\ link[s] = "answered" /\ up
    /\ companion' = s
    /\ Lines([x \in Sockets |-> IF x = s THEN "accepted"
                              ELSE IF x = companion /\ link[x] = "gone" THEN "free" ELSE link[x]])
    /\ Calm /\ UNCHANGED <<Inside, up>>

\* The thread that closes the connection which was replaced.
Replaced(s) ==
    /\ link[s] \in Held /\ companion # s /\ Becomes(s, Ended(s))
    /\ Calm /\ UNCHANGED <<Inside, up, companion>>

\* hello_ack arrives: the handshake of the current socket is complete.
Ack(s) ==
    /\ link[s] = "accepted" /\ Becomes(s, "acked")
    /\ IF socket = s
       THEN verified' = TRUE /\ ClearReconnect /\ ahead' = FALSE
       ELSE UNCHANGED <<verified, timer, alarm, ahead>>
    /\ Calm /\ UNCHANGED <<kept, beat, boot, enabled, connecting, socket, work, up, companion>>

\* A command on an unverified connection closes it: one that overtakes the ack too.
CommandTooEarly(s) ==
    /\ companion = s /\ link[s] \in Held /\ ~verified /\ Becomes(s, Ended(s))
    /\ Disturb /\ UNCHANGED <<Inside, up, companion>>

\* The daemon turns the companion away: token, limits, time.
Refuse(s) ==
    /\ link[s] \in {"open", "answered"} /\ Becomes(s, Ended(s))
    /\ Disturb /\ UNCHANGED <<Inside, up, companion>>

\* onclose: only the current socket's counts.
OnClose(s) ==
    /\ link[s] = "closing"
    /\ Becomes(s, Released(s))
    /\ IF socket = s
       THEN /\ verified' = FALSE /\ socket' = NoSocket
            /\ IF enabled THEN ScheduleReconnect
                          ELSE ahead' = FALSE /\ UNCHANGED <<timer, alarm, calls>>
       ELSE UNCHANGED <<verified, socket, ahead, timer, alarm, calls>>
    /\ Calm /\ UNCHANGED <<kept, beat, boot, enabled, connecting, hashing, toggling, beating,
                           startup, up, companion>>

\* The daemon's thread of that connection ends.
Clears(s) ==
    /\ companion = s /\ link[s] \in {"closing", "gone"}
    /\ companion' = NoSocket /\ Becomes(s, IF link[s] = "gone" THEN "free" ELSE "closing")
    /\ Calm /\ UNCHANGED <<Inside, up>>

Down ==
    /\ up /\ up' = FALSE /\ companion' = NoSocket
    /\ Lines([s \in Sockets |-> IF link[s] = "gone" \/ (Live(s) /\ socket # s) THEN "free"
                              ELSE IF Live(s) THEN "closing" ELSE link[s]])
    /\ Disturb /\ UNCHANGED Inside

Up == ~up /\ up' = TRUE /\ Calm /\ UNCHANGED <<Inside, link, carries, companion>>

Network ==
    \E s \in Sockets :
        Opened(s) \/ Answer(s) \/ Accept(s) \/ Replaced(s) \/ Ack(s) \/ OnClose(s) \/ Clears(s)

-----------------------------------------------------------------------------
(* The worker's life, its timer and its alarms. *)

\* The switch is loaded; while it is on, the heartbeat is kept.
Load ==
    /\ boot = "booting" /\ enabled' = on /\ beat' = (beat \/ on)
    /\ boot' = IF on THEN "resuming" ELSE "done"
    /\ Calm /\ UNCHANGED <<kept, ahead, alarm, timer, connecting, verified, socket, work, outside>>

\* resumeConnect: a wait that is not over is taken up, else an attempt begins.
Resume ==
    /\ boot = "resuming" /\ boot' = "done"
    /\ \/ ahead /\ ScheduleReconnect
       \/ ~ahead /\ enabled /\ StartConnect /\ UNCHANGED ahead
       \/ ~ahead /\ ~enabled /\ UNCHANGED <<timer, alarm, ahead, calls>>
    /\ Calm /\ UNCHANGED <<kept, beat, enabled, connecting, verified, socket, hashing, toggling,
                           beating, startup, outside>>

\* An idle worker is stopped; its sockets go with it.
Evict ==
    /\ boot = "done" /\ toggling = 0 /\ startup = "done" /\ ~beating /\ Pending = 0
    /\ boot' = "dead" /\ enabled' = TRUE /\ connecting' = FALSE /\ verified' = FALSE
    /\ socket' = NoSocket /\ timer' = FALSE /\ minted' = FALSE
    /\ Lines([s \in Sockets |-> Released(s)])
    /\ Disturb /\ UNCHANGED <<on, shelf, ahead, alarm, beat, work, up, companion>>

\* Some other event starts the worker: a tab, the popup.
Wake ==
    /\ boot = "dead" /\ boot' = "booting"
    /\ Calm /\ UNCHANGED <<kept, alarms, enabled, connecting, verified, socket, work, outside>>

\* The reconnect alarm; a fresh worker's `enabled` is still the default.
OnAlarm ==
    /\ alarm /\ boot' = IF boot = "dead" THEN "booting" ELSE boot
    /\ ahead' = FALSE
    /\ IF enabled THEN StartConnect ELSE alarm' = FALSE /\ UNCHANGED <<timer, calls>>
    /\ Calm /\ UNCHANGED <<kept, beat, enabled, connecting, verified, socket, hashing, toggling,
                           beating, startup, outside>>

OnTimer ==
    /\ timer /\ ahead' = FALSE
    /\ IF enabled THEN StartConnect ELSE timer' = FALSE /\ UNCHANGED <<alarm, calls>>
    /\ Calm /\ UNCHANGED <<kept, beat, boot, enabled, connecting, verified, socket, hashing,
                           toggling, beating, startup, outside>>

\* Time passes: a wait is over whose timer went with its worker.  (One that is over
\* before its timer or alarm fires is as good as fired.)
WaitOver ==
    /\ ahead /\ ~timer /\ ~alarm /\ ahead' = FALSE
    /\ Calm /\ UNCHANGED <<kept, alarm, beat, timer, boot, enabled, connecting, verified, socket,
                           work, outside>>

\* A heartbeat that finds a socket does nothing.
Beat ==
    /\ beat /\ ~beating /\ socket = NoSocket /\ beating' = TRUE
    /\ boot' = IF boot = "dead" THEN "booting" ELSE boot
    /\ Calm /\ UNCHANGED <<kept, alarms, enabled, connecting, verified, socket, calls, hashing,
                           toggling, startup, outside>>

Heartbeat ==
    /\ beating /\ Loaded /\ beating' = FALSE /\ beat' = TRUE
    /\ IF enabled /\ socket = NoSocket /\ ~connecting /\ ~ahead
       THEN StartConnect ELSE UNCHANGED <<timer, alarm, calls>>
    /\ Calm /\ UNCHANGED <<kept, ahead, boot, enabled, connecting, verified, socket, hashing,
                           toggling, startup, outside>>

-----------------------------------------------------------------------------
(* The user, and the start of the browser. *)

\* setEnabled stores the switch ...
Toggle ==
    /\ Loaded /\ toggling < 2 /\ toggling' = toggling + 1
    /\ enabled' = ~enabled /\ on' = enabled'
    /\ Disturb /\ UNCHANGED <<shelf, minted, alarms, boot, connecting, verified, socket, calls,
                              hashing, beating, startup, outside>>

\* Mutant: a companion that is resumed sets no heartbeat.
ToggledWithoutHeartbeat ==
    /\ toggling > 0 /\ toggling' = toggling - 1
    /\ beat' = FALSE
    /\ \/ /\ enabled /\ ConnectNow /\ UNCHANGED <<connecting, verified, socket, link, carries>>
       \/ /\ ~enabled /\ ClearReconnect /\ ahead' = FALSE
          /\ socket' = NoSocket /\ verified' = FALSE /\ connecting' = FALSE
          /\ Lines(HangUp) /\ UNCHANGED calls
    /\ Calm /\ UNCHANGED <<kept, boot, enabled, hashing, beating, startup, up, companion>>

\* ... and then does what the switch says by now.
Toggled ==
    /\ toggling > 0 /\ toggling' = toggling - 1
    /\ beat' = enabled
    /\ \/ /\ enabled /\ ConnectNow /\ UNCHANGED <<connecting, verified, socket, link, carries>>
       \/ /\ ~enabled /\ ClearReconnect /\ ahead' = FALSE
          /\ socket' = NoSocket /\ verified' = FALSE /\ connecting' = FALSE
          /\ Lines(HangUp) /\ UNCHANGED calls
    /\ Calm /\ UNCHANGED <<kept, boot, enabled, hashing, beating, startup, up, companion>>

\* reconnectNow, also after the port or the session limit was changed.
Reconnect ==
    /\ Loaded /\ enabled /\ ahead' = FALSE /\ StartConnect
    /\ socket' = NoSocket /\ verified' = FALSE /\ connecting' = FALSE /\ Lines(HangUp)
    /\ Disturb /\ UNCHANGED <<kept, beat, boot, enabled, hashing, toggling, beating, startup,
                              up, companion>>

\* A click on the icon; an installed update.
Click ==
    /\ Loaded /\ enabled /\ ConnectNow
    /\ Disturb /\ UNCHANGED <<kept, beat, boot, enabled, connecting, verified, socket, hashing,
                              toggling, beating, startup, outside>>

\* onStartup: only an active companion looks at the id of the run.
OnStartup ==
    /\ startup = "due" /\ Loaded
    /\ startup' = IF enabled THEN "asked" ELSE "done"
    /\ beat' = (beat \/ enabled)
    /\ Calm /\ UNCHANGED <<kept, ahead, alarm, timer, boot, enabled, connecting, verified, socket,
                           calls, hashing, toggling, beating, outside>>

\* startBrowserRun: an id that this worker minted is kept, any other is replaced ...
StartBrowserRun ==
    /\ startup = "asked" /\ minted' = TRUE
    /\ shelf' = IF minted THEN shelf ELSE Mint
    /\ IF minted \/ shelf = 0
       THEN startup' = "done" /\ ConnectNow
       ELSE startup' = "minting" /\ UNCHANGED <<timer, alarm, ahead, calls>>
    /\ Calm /\ UNCHANGED <<on, beat, boot, enabled, connecting, verified, socket, hashing,
                           toggling, beating, outside>>

\* ... and then the socket whose hello named the old one is closed.
RunStored ==
    /\ startup = "minting" /\ startup' = "done"
    /\ Lines([s \in Sockets |-> IF s = socket /\ Live(s) THEN "closing" ELSE link[s]])
    /\ ConnectNow
    /\ Calm /\ UNCHANGED <<kept, beat, boot, enabled, connecting, verified, socket, hashing,
                           toggling, beating, up, companion>>

Own ==
    \/ Connecting \/ Network \/ Load \/ Resume \/ OnAlarm \/ OnTimer \/ WaitOver
    \/ Toggled \/ OnStartup \/ StartBrowserRun \/ RunStored

Trouble ==
    \/ Toggle \/ Reconnect \/ Click \/ Evict \/ Down
    \/ \E r \in RunIds : Broken(r)
    \/ \E s \in Sockets : CommandTooEarly(s) \/ Refuse(s)

Alarms == Beat \/ Heartbeat
LinkNext == Own \/ Alarms \/ Up \/ Wake \/ Trouble
LinkSpec == LinkInit /\ [][LinkNext]_linkVars

(* Chrome fires what was set and runs the promises; the daemon is started
   again some time.  Nobody is made to click, to stop or to fail. *)
LinkFairSpec == LinkSpec /\ WF_linkVars(Own) /\ WF_linkVars(Alarms) /\ WF_linkVars(Up)

-----------------------------------------------------------------------------
\* `verified` is one flag for all sockets.  It is only ever up for the socket
\* that is current, once that very socket's handshake was acknowledged, though
\* connect() calls overtake one another and old sockets still deliver frames
\* (connect, completeHandshake, onclose).
VerifiedIsCurrent ==
    verified => socket # NoSocket /\ link[socket] \in {"acked", "closing"}

\* Once the user has paused the companion it has no socket and makes none, not
\* even through a connect() that was under way before the pause, a timer, an
\* alarm or a heartbeat (setEnabled; the second look at `enabled` in connect).
QuietWhenOff ==
    (Loaded /\ ~enabled /\ toggling = 0) => (socket = NoSocket /\ ~verified)

\* The chain of attempts does not break: an enabled worker without a socket has
\* a retry set or a connect() under way, without any help from the heartbeat
\* (startConnect, retryAfterFailure, onclose and every early return).
ChainUnbroken ==
    (boot = "done" /\ enabled /\ toggling = 0 /\ startup # "minting")
        => (socket # NoSocket \/ timer \/ alarm \/ Pending > 0)

\* A companion that is switched on comes to be the one that the daemon serves,
\* or is switched off, whatever was lost with a worker (HEARTBEAT_ALARM,
\* resumeConnect; _serve_extension).
EnabledGetsThrough == on ~> ((verified /\ companion = socket) \/ ~on)

\* After the start of a browser no connection is verified whose hello names the
\* run before ("the hello that follows carries this run's id": onStartup).
HelloOfThisRun == (verified /\ startup = "done") => carries[socket] # OldRun

=============================================================================
