------------------------- MODULE DaemonReplacement -------------------------
(***************************************************************************)
(* How the server processes of one computer come to share one bridge       *)
(* daemon: each dials the port, starts a daemon when nobody answers, asks  *)
(* a daemon older than itself to leave and starts another, gives up after  *)
(* two of those and from then on only looks (chrome_bridge.py, `start` to  *)
(* `_retire`), while daemons start, lose the race for the port, are        *)
(* stopped and die (bridge_daemon.py, `_serve`, `shutdown`).               *)
(*                                                                         *)
(* A daemon is known by its instance; Daemons is a pool of instances, used *)
(* again once the last bearer is gone.  Versions are numbers; the          *)
(* ones that cannot be ranked, and a protocol that differs, are left out:  *)
(* the first link, the second latches at once.                             *)
(***************************************************************************)
EXTENDS Naturals, FiniteSets

CONSTANTS Servers,         \* the server processes
          Daemons,         \* instances of the daemon, a finite set of numbers
          Expected,        \* [Servers -> version]: the code the server runs
          Disk,            \* [Servers -> version]: what a daemon it starts runs
          MaxReplacements, \* MAX_DAEMON_REPLACEMENTS
          MaxTrouble       \* how often something goes wrong or is stopped

ASSUME ReplacementAssumption ==
    /\ Daemons \subseteq Nat /\ MaxReplacements \in Nat /\ MaxTrouble \in Nat
    /\ Expected \in [Servers -> Nat] /\ Disk \in [Servers -> Nat]

VARIABLES server,   \* the link thread of each server
          life,     \* the life of each instance
          runs,     \* the version each instance runs
          clients,  \* the servers in each instance's register of clients
          trouble   \* what went wrong so far, up to MaxTrouble

vars == <<server, life, runs, clients, trouble>>

Nobody == 0         \* stands for "connected to no daemon"

\* `asked` still listens: the stop is acknowledged before the shutdown thread
\* runs.  `deaf` has closed the port, `shut` has also closed the connections
\* of the clients it found in its register.
Listening == {"up", "asked"}
Listener == {d \in Daemons : life[d] \in Listening}
Alive == {"up", "asked", "deaf", "shut"}

\* Instances that can be given out: gone, and no server still on the line.
Free == {d \in Daemons : life[d] = "gone" /\ \A s \in Servers : server[s].to # d}

\* One call of `_establish` begins: nothing spawned, replaced or retired yet.
Attempt(probe) ==
    [at |-> "dial", to |-> Nobody, probe |-> probe, spawned |-> FALSE,
     replacements |-> 0, retired |-> {}, version |-> 0, late |-> FALSE]

\* Waiting out the delay of `_maintain_link`, or the latch of a conflict.
Resting(where) == [Attempt(FALSE) EXCEPT !.at = where]

Becomes(s, new) == server' = [server EXCEPT ![s] = new]

\* The connection of `s`, if it has one, leaves the register.
Leaves(s) == clients' = [d \in Daemons |-> clients[d] \ {s}]

GoesWrong == trouble < MaxTrouble /\ trouble' = trouble + 1

\* Servers about to start; perhaps a daemon is there already.
ReplacementInit ==
    /\ server = [s \in Servers |-> Resting("off")]
    /\ \E first \in {"gone", "up"}, v \in {Disk[s] : s \in Servers} :
         LET oldest == CHOOSE d \in Daemons : \A e \in Daemons : d <= e IN
         /\ life = [d \in Daemons |-> IF d = oldest THEN first ELSE "gone"]
         /\ runs = [d \in Daemons |-> IF d = oldest /\ first = "up" THEN v ELSE 0]
    /\ clients = [d \in Daemons |-> {}]
    /\ trouble = 0

-----------------------------------------------------------------------------
(* The link thread of a server *)

\* Mutant: the look at a latched conflict is an attempt like any other.
StartAnew(s) ==
    /\ server[s].at \in {"off", "latched"}
    /\ Becomes(s, Attempt(FALSE))
    /\ UNCHANGED <<life, runs, clients, trouble>>

\* start: a caller or the supervisor.  After a conflict only once the latch
\* has run out, and then only to look.
Start(s) ==
    /\ server[s].at \in {"off", "latched"}
    /\ Becomes(s, Attempt(server[s].at = "latched"))
    /\ UNCHANGED <<life, runs, clients, trouble>>

\* Mutant: the flag of the passive look outlives the look.
RetryStillLooking(s) ==
    /\ server[s].at = "backoff"
    /\ Becomes(s, Attempt(TRUE))
    /\ UNCHANGED <<life, runs, clients, trouble>>

\* The delay of `_maintain_link` is over: an ordinary attempt, not a look.
Retry(s) ==
    /\ server[s].at = "backoff"
    /\ Becomes(s, Attempt(FALSE))
    /\ UNCHANGED <<life, runs, clients, trouble>>

\* Nothing answers and this attempt has not started a daemon yet.
Spawn(s) ==
    /\ server[s].at = "dial" /\ Listener = {}
    /\ ~server[s].spawned /\ ~server[s].probe
    /\ Becomes(s, [server[s] EXCEPT !.spawned = TRUE])
    /\ \E d \in Free :
         /\ \A e \in Free : d <= e
         /\ life' = [life EXCEPT ![d] = "starting"]
         /\ runs' = [runs EXCEPT ![d] = Disk[s]]
    /\ UNCHANGED <<clients, trouble>>

\* The deadline of the attempt passes with nobody listening.  A daemon that
\* is still starting answers in time, or that is trouble.
GiveUp(s) ==
    /\ server[s].at = "dial" /\ Listener = {}
    /\ server[s].spawned \/ server[s].probe
    /\ IF server[s].probe \/ \A d \in Daemons : life[d] # "starting"
         THEN UNCHANGED trouble
         ELSE GoesWrong
    /\ Becomes(s, Resting("backoff"))
    /\ UNCHANGED <<life, runs, clients>>

\* The port takes the connection; a handler of the daemon begins.
Dial(s) ==
    /\ server[s].at = "dial"
    /\ \E d \in Listener : Becomes(s, [server[s] EXCEPT !.at = "hello", !.to = d])
    /\ UNCHANGED <<life, runs, clients, trouble>>

\* The conversation breaks off before the acknowledgement: the daemon is dead,
\* or it is going and answers a 503 or nothing.
HelloFails(s) ==
    /\ server[s].at = "hello"
    /\ \/ life[server[s].to] = "gone" /\ UNCHANGED trouble
       \/ life[server[s].to] \in Alive \ {"up"} /\ GoesWrong
    /\ Becomes(s, Resting("backoff"))
    /\ UNCHANGED <<life, runs, clients>>

\* _serve_client: acknowledge, then join the register.  The handler does not
\* look whether the daemon is going: after the shutdown's round nobody closes
\* this connection any more.
Joins(s) ==
    LET d == server[s].to IN
    /\ server[s].at = "hello" /\ life[d] \in Alive
    /\ Becomes(s, [server[s] EXCEPT !.at = "met", !.version = runs[d],
                                    !.late = life[d] = "shut"])
    /\ clients' = [clients EXCEPT ![d] = @ \cup {s}]
    /\ UNCHANGED <<life, runs, trouble>>

\* The acknowledgement is read: the verdict needs the connection no longer,
\* only the link does.
Met(s) == server[s].at = "met"
Connected(s) == s \in clients[server[s].to]
Outdated(s) == server[s].version < Expected[s]
Retiring(s) == server[s].to \in server[s].retired

\* Hang up and dial again, with the rest of the attempt as it is.
Redial(attempt) ==
    [attempt EXCEPT !.at = "dial", !.to = Nobody, !.version = 0, !.late = FALSE,
                    !.retired = {d \in @ : life[d] # "gone"}]

\* The daemon's code can serve this server's.
Link(s) ==
    /\ Met(s) /\ ~Outdated(s) /\ Connected(s)
    /\ Becomes(s, [Resting("linked") EXCEPT !.to = server[s].to, !.late = server[s].late])
    /\ UNCHANGED <<life, runs, clients, trouble>>

\* The daemon asked to leave is still there: hang up and dial again.
WaitForExit(s) ==
    /\ Met(s) /\ Outdated(s) /\ Retiring(s)
    /\ Becomes(s, Redial(server[s]))
    /\ Leaves(s)
    /\ UNCHANGED <<life, runs, trouble>>

\* An older daemon, and this attempt only looks or has replaced its share.
Conflict(s) ==
    /\ Met(s) /\ Outdated(s) /\ ~Retiring(s)
    /\ server[s].probe \/ server[s].replacements = MaxReplacements
    /\ Becomes(s, Resting("latched"))
    /\ Leaves(s)
    /\ UNCHANGED <<life, runs, trouble>>

\* _retire: ask the daemon to leave, take its answer or any failure for one,
\* hang up; the next refusal is this server's to answer.
Retire(s) ==
    LET d == server[s].to IN
    /\ Met(s) /\ Outdated(s) /\ ~Retiring(s)
    /\ ~server[s].probe /\ server[s].replacements < MaxReplacements
    /\ life' = [life EXCEPT ![d] = IF @ = "up" THEN "asked" ELSE @]
    /\ Becomes(s, Redial([server[s] EXCEPT !.spawned = FALSE, !.replacements = @ + 1,
                                           !.retired = @ \cup {d}]))
    /\ Leaves(s)
    /\ UNCHANGED <<runs, trouble>>

\* The connection was closed under the server: its reader returns, or the
\* question it was about to ask fails.
Dropped(s) ==
    /\ server[s].at = "linked" \/ (Met(s) /\ ~Outdated(s))
    /\ ~Connected(s)
    /\ Becomes(s, Resting("backoff"))
    /\ UNCHANGED <<life, runs, clients, trouble>>

-----------------------------------------------------------------------------
(* The life of a daemon *)

\* The process is no more.  Its identity never comes back: what servers that
\* have hung up remember of it makes no difference, and the model forgets it.
Gone(d) ==
    /\ life' = [life EXCEPT ![d] = "gone"]
    /\ runs' = [runs EXCEPT ![d] = 0]
    /\ clients' = [clients EXCEPT ![d] = {}]
    /\ server' = [s \in Servers |->
           [server[s] EXCEPT !.retired = IF server[s].to = d THEN @ ELSE @ \ {d}]]

Bind(d) ==
    /\ life[d] = "starting" /\ Listener = {}
    /\ life' = [life EXCEPT ![d] = "up"]
    /\ UNCHANGED <<server, runs, clients, trouble>>

\* The loser of the port has nothing to do and exits.
LosePort(d) ==
    /\ life[d] = "starting" /\ Listener # {}
    /\ Gone(d)
    /\ UNCHANGED trouble

\* shutdown, first half: the port is closed, handlers live on.
GoDeaf(d) ==
    /\ life[d] = "asked"
    /\ life' = [life EXCEPT ![d] = "deaf"]
    /\ UNCHANGED <<server, runs, clients, trouble>>

\* Mutant: the connections of the clients are left open.
HangUpOnNobody(d) ==
    /\ life[d] = "deaf"
    /\ life' = [life EXCEPT ![d] = "shut"]
    /\ UNCHANGED <<server, runs, clients, trouble>>

\* shutdown, second half: close every connection in the register.
HangUp(d) ==
    /\ life[d] = "deaf"
    /\ life' = [life EXCEPT ![d] = "shut"]
    /\ clients' = [clients EXCEPT ![d] = {}]
    /\ UNCHANGED <<server, runs, trouble>>

\* The process ends with its last handler.
Exit(d) ==
    /\ life[d] = "shut" /\ clients[d] = {}
    /\ \A s \in Servers : ~(server[s].at = "hello" /\ server[s].to = d)
    /\ Gone(d)
    /\ UNCHANGED trouble

\* Stopped from the command line, or after a time with nobody attached.
Stop(d) ==
    /\ life[d] = "up" /\ GoesWrong
    /\ life' = [life EXCEPT ![d] = "asked"]
    /\ UNCHANGED <<server, runs, clients>>

\* The process is killed.
Crash(d) ==
    /\ life[d] \in Alive \cup {"starting"} /\ GoesWrong
    /\ Gone(d)

-----------------------------------------------------------------------------
Thread(s) ==
    \/ Start(s) \/ Retry(s) \/ Spawn(s) \/ GiveUp(s) \/ Dial(s) \/ HelloFails(s)
    \/ Link(s) \/ WaitForExit(s) \/ Conflict(s) \/ Retire(s) \/ Dropped(s)

Life(d) == Bind(d) \/ LosePort(d) \/ GoDeaf(d) \/ HangUp(d) \/ Exit(d)

ReplacementNext ==
    \/ \E s \in Servers : Thread(s) \/ Joins(s)
    \/ \E d \in Daemons : Life(d) \/ Stop(d) \/ Crash(d)

ReplacementSpec == ReplacementInit /\ [][ReplacementNext]_vars

\* Every server's thread runs, and so do the daemons and their handlers.
ReplacementFairSpec ==
    /\ ReplacementSpec
    /\ \A s \in Servers : WF_vars(Thread(s)) /\ WF_vars(Joins(s))
    /\ \A d \in Daemons : WF_vars(Life(d))

-----------------------------------------------------------------------------
(* What the components promise *)

\* However the servers' attempts cross, every server again and again ends one
\* with a link or with a conflict it reports; none waits for ever for a daemon
\* that lost the port, for one that will not come or for one that is leaving.
EveryServerSettles ==
    \A s \in Servers : []<>(server[s].at \in {"linked", "latched"})

\* "Replacing each other forever would be worse than saying so": with the
\* older server putting its daemon back each time, retirements end.
TugOfWarEnds == <>[][\A s \in Servers : ~Retire(s)]_vars

\* "A client linked to that retired handler has no signal to reconnect": a
\* daemon that leaves lets go of every server it had registered; the exception
\* is a server whose handshake the shutdown's round came too early for.
NobodyLeftBehind ==
    \A s \in Servers :
        []<>(server[s].at = "linked" =>
                life[server[s].to] \in Listening \/ server[s].late)
=============================================================================
