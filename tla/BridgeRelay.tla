------------------------------ MODULE BridgeRelay ------------------------------
(***************************************************************************)
(* The relay of the bridge daemon (web_search_neo/bridge_daemon.py): local *)
(* clients send commands, one Chrome companion executes them, and a newer  *)
(* companion may replace it at any moment.                                 *)
(*                                                                         *)
(* Each connection has a thread of its own.  A client's thread handles one *)
(* frame at a time, so a command is a sequence of steps with the lock let  *)
(* go between them: claim check, choice of the companion, route, send.  A  *)
(* companion's thread registers, fails the routes of the companion that it *)
(* replaced, serves, and on its way out fails its own routes.              *)
(***************************************************************************)
EXTENDS TabRegister, Sequences, FiniteSetsExt

CONSTANTS
    Commands,    \* the commands the clients may send, each of them once
    Sender,      \* Sender[k]: the connection that sends k
    Target,      \* Target[k]: the tab k is about
    Exempt,      \* the commands whose method is in CLAIM_EXEMPT_METHODS
    Exts,        \* companion sockets, each of them used once
    RunOf,       \* RunOf[e]: the browser run that e reports in its hello
    NoExt

ASSUME RelayAssumption ==
    /\ Sender \in [Commands -> Conns]
    /\ Target \in [Commands -> Tabs]
    /\ RunOf \in [Exts -> AnyRun]
    /\ NoExt \notin Exts

VARIABLES
    extension,   \* BridgeDaemon._extension
    sock,        \* where the thread of each companion socket is
    previous,    \* previous[e]: the socket e found registered in its hello
    down,        \* the companion sockets that are closed
    evicted,     \* the sockets an eviction thread is about to close
    step,        \* where each command is
    via,         \* via[k]: the companion chosen for k
    routes,      \* BridgeDaemon._routes, by command
    inbox,       \* commands that reached the companion and are unanswered by it
    answers      \* answers[k]: the result frames sent to the sender of k

relayVars == <<extension, sock, previous, down, evicted, step, via, routes, inbox, answers>>
vars == <<regVars, relayVars>>

SockStates == {"new", "registered", "serving", "unset", "done"}
Steps      == {"unsent", "checked", "picked", "routed", "settled", "abandoned"}

\* The thread of c is inside _relay_command.
Busy(c) == \E k \in Commands : Sender[k] = c /\ step[k] \in {"checked", "picked", "routed"}

\* Each command in ks gets one more result frame.
Answered(ks, verdict) ==
    [k \in Commands |-> IF k \in ks THEN Append(answers[k], verdict) ELSE answers[k]]

\* Mutant: the companion's last routes are not failed.
RoutesOfReplaced(e) == {k \in routes : via[k] = e /\ sock[e] = "serving"}

\* The routes that _fail_routes answers and forgets for the socket e.
RoutesVia(e) == {k \in routes : via[k] = e}

RelayInit ==
    /\ RegisterInit
    /\ extension = NoExt
    /\ sock = [e \in Exts |-> "new"]
    /\ previous = [e \in Exts |-> NoExt]
    /\ down = {} /\ evicted = {}
    /\ step = [k \in Commands |-> "unsent"]
    /\ via = [k \in Commands |-> NoExt]
    /\ routes = {} /\ inbox = {}
    /\ answers = [k \in Commands |-> <<>>]

-----------------------------------------------------------------------------
\* The companion's thread.

\* _serve_extension, the section that holds the lock.
ExtRegister(e) ==
    /\ sock[e] = "new"
    /\ previous' = [previous EXCEPT ![e] = extension]
    /\ extension' = e
    /\ CompanionHello(RunOf[e])
    /\ sock' = [sock EXCEPT ![e] = "registered"]
    /\ UNCHANGED <<down, evicted, step, via, routes, inbox, answers>>

\* Mutant: the replaced socket is left for its peer to close.
TakeOverWithoutEviction(e) ==
    /\ sock[e] = "registered"
    /\ routes' = routes \ RoutesVia(previous[e])
    /\ answers' = Answered(RoutesVia(previous[e]), "error")
    /\ sock' = [sock EXCEPT ![e] = "serving"]
    /\ UNCHANGED <<regVars, extension, previous, evicted, down, step, via, inbox>>

\* It fails the routes of the socket it replaced, has that one closed by a
\* thread of its own, acknowledges the hello and starts to read.
ExtTakeOver(e) ==
    /\ sock[e] = "registered"
    /\ routes' = routes \ RoutesVia(previous[e])
    /\ answers' = Answered(RoutesVia(previous[e]), "error")
    /\ evicted' = evicted \cup ({previous[e]} \ {NoExt})
    /\ sock' = [sock EXCEPT ![e] = "serving"]
    /\ UNCHANGED <<regVars, extension, previous, down, step, via, inbox>>

\* A socket closes: the companion goes away, or its pings stop.
SocketCloses(e) ==
    /\ sock[e] \in {"registered", "serving"}
    /\ e \notin down
    /\ down' = down \cup {e}
    /\ UNCHANGED <<regVars, extension, sock, previous, evicted, step, via, routes, inbox, answers>>

Evict(e) ==
    /\ e \in evicted
    /\ down' = down \cup {e}
    /\ evicted' = evicted \ {e}
    /\ UNCHANGED <<regVars, extension, sock, previous, step, via, routes, inbox, answers>>

\* Mutant: whoever leaves empties the place, even when another has taken it.
UnsetAlways(e) ==
    /\ sock[e] = "serving" /\ e \in down
    /\ extension' = NoExt
    /\ sock' = [sock EXCEPT ![e] = "unset"]
    /\ UNCHANGED <<regVars, previous, down, evicted, step, via, routes, inbox, answers>>

\* The finally of _serve_extension: the place is emptied if it is still e's...
ExtUnset(e) ==
    /\ sock[e] = "serving" /\ e \in down
    /\ extension' = IF extension = e THEN NoExt ELSE extension
    /\ sock' = [sock EXCEPT ![e] = "unset"]
    /\ UNCHANGED <<regVars, previous, down, evicted, step, via, routes, inbox, answers>>

\* ...and then whatever was sent to e and not answered is failed.
ExtFailRoutes(e) ==
    /\ sock[e] = "unset"
    /\ routes' = routes \ RoutesVia(e)
    /\ answers' = Answered(RoutesVia(e), "error")
    /\ sock' = [sock EXCEPT ![e] = "done"]
    /\ UNCHANGED <<regVars, extension, previous, down, evicted, step, via, inbox>>

\* Mutant: the route is looked up and left in place.
DeliverKeepingRoute(k) ==
    /\ k \in inbox
    /\ sock[via[k]] = "serving"
    /\ inbox' = inbox \ {k}
    /\ answers' = IF k \in routes THEN Answered({k}, "result") ELSE answers
    /\ UNCHANGED <<regVars, extension, sock, previous, down, evicted, step, via, routes>>

\* Mutant: a result is matched with the current companion, not the route's own.
DeliverIfCurrent(k) ==
    /\ k \in inbox
    /\ sock[via[k]] = "serving"
    /\ inbox' = inbox \ {k}
    /\ routes' = routes \ {k}
    /\ answers' = IF k \in routes /\ via[k] = extension THEN Answered({k}, "result") ELSE answers
    /\ UNCHANGED <<regVars, extension, sock, previous, down, evicted, step, via>>

\* _deliver_result: an answer with no route any more is dropped.
DeliverResult(k) ==
    /\ k \in inbox
    /\ sock[via[k]] = "serving"
    /\ inbox' = inbox \ {k}
    /\ routes' = routes \ {k}
    /\ answers' = IF k \in routes THEN Answered({k}, "result") ELSE answers
    /\ UNCHANGED <<regVars, extension, sock, previous, down, evicted, step, via>>

-----------------------------------------------------------------------------
\* A client's thread.

\* Mutant: a command that passes, a harmless read too, takes the claim along.
CheckMovingAnyClaim(k) ==
    LET c == Sender[k]
        t == Target[k]
        refused == Foreign(c, t) /\ k \notin Exempt
    IN  /\ step[k] = "unsent" /\ c \in clients /\ ~Busy(c)
        /\ IF Held(t) /\ ~refused
           THEN claims' = [claims EXCEPT ![t] = [client |-> c, run |-> claims[t].run]]
           ELSE claims' = claims
        /\ step' = [step EXCEPT ![k] = IF refused THEN "settled" ELSE "checked"]
        /\ answers' = IF refused THEN Answered({k}, "error") ELSE answers
        /\ UNCHANGED <<clients, browserRun, reaping, extension, sock, previous, down, evicted,
                       via, routes, inbox>>

\* _claim_check on a command just read: a command on another agent's tab is
\* refused, one on the process's own tab moves the claim to this connection.
CheckCommand(k) ==
    LET c == Sender[k]
        t == Target[k]
        refused == Foreign(c, t) /\ k \notin Exempt
    IN  /\ step[k] = "unsent" /\ c \in clients /\ ~Busy(c)
        /\ IF Held(t) /\ ~Foreign(c, t) THEN MoveClaim(c, t) ELSE UNCHANGED regVars
        /\ step' = [step EXCEPT ![k] = IF refused THEN "settled" ELSE "checked"]
        /\ answers' = IF refused THEN Answered({k}, "error") ELSE answers
        /\ UNCHANGED <<extension, sock, previous, down, evicted, via, routes, inbox>>

PickExtension(k) ==
    /\ step[k] = "checked"
    /\ via' = [via EXCEPT ![k] = extension]
    /\ step' = [step EXCEPT ![k] = IF extension = NoExt THEN "settled" ELSE "picked"]
    /\ answers' = IF extension = NoExt THEN Answered({k}, "error") ELSE answers
    /\ UNCHANGED <<regVars, extension, sock, previous, down, evicted, routes, inbox>>

RegisterRoute(k) ==
    /\ step[k] = "picked"
    /\ routes' = routes \cup {k}
    /\ step' = [step EXCEPT ![k] = "routed"]
    /\ UNCHANGED <<regVars, extension, sock, previous, down, evicted, via, inbox, answers>>

SendSucceeds(k) ==
    /\ step[k] = "routed" /\ via[k] \notin down
    /\ inbox' = inbox \cup {k}
    /\ step' = [step EXCEPT ![k] = "settled"]
    /\ UNCHANGED <<regVars, extension, sock, previous, down, evicted, via, routes, answers>>

\* Mutant: the failed send leaves its route behind.
SendFailsQuietly(k) ==
    /\ step[k] = "routed" /\ via[k] \in down
    /\ step' = [step EXCEPT ![k] = "settled"]
    /\ answers' = Answered({k}, "error")
    /\ UNCHANGED <<regVars, extension, sock, previous, down, evicted, via, routes, inbox>>

\* Sending on a closed socket raises: the route goes and the sender is told.
SendFails(k) ==
    /\ step[k] = "routed" /\ via[k] \in down
    /\ routes' = routes \ {k}
    /\ step' = [step EXCEPT ![k] = "settled"]
    /\ answers' = Answered({k}, "error")
    /\ UNCHANGED <<regVars, extension, sock, previous, down, evicted, via, inbox>>

\* Mutant: a client that leaves does not take its routes with it.
DetachKeepingRoutes(c) ==
    /\ ~Busy(c) /\ Detach(c)
    /\ step' = [k \in Commands |->
                  IF Sender[k] = c /\ step[k] = "settled" THEN "abandoned" ELSE step[k]]
    /\ UNCHANGED <<routes, extension, sock, previous, down, evicted, via, inbox, answers>>

\* The finally of _serve_client: nobody waits for this client's commands now.
ClientDetach(c) ==
    /\ ~Busy(c) /\ Detach(c)
    /\ routes' = {k \in routes : Sender[k] # c}
    /\ step' = [k \in Commands |->
                  IF Sender[k] = c /\ step[k] = "settled" THEN "abandoned" ELSE step[k]]
    /\ UNCHANGED <<extension, sock, previous, down, evicted, via, inbox, answers>>

\* The rest of the register's work, each on a thread that is free for it; the
\* scan for claims of dead processes has a thread of its own.
OtherRegisterWork ==
    /\ \/ \E c \in Conns : Attach(c)
       \/ \E c \in Conns, t \in Tabs : ~Busy(c) /\ ReleaseTab(c, t)
       \/ \E c \in Conns, t \in Tabs, asserted \in AnyRun : ~Busy(c) /\ ClaimTab(c, t, asserted)
       \/ ReaperScan
       \/ \E dead \in SUBSET Tabs : ReaperSweep(dead)
    /\ UNCHANGED relayVars

-----------------------------------------------------------------------------

ExtThread(e) == ExtTakeOver(e) \/ ExtUnset(e) \/ ExtFailRoutes(e)

CommandStep(k) == PickExtension(k) \/ RegisterRoute(k) \/ SendSucceeds(k) \/ SendFails(k)

RelayNext ==
    \/ \E e \in Exts : ExtRegister(e) \/ ExtThread(e) \/ SocketCloses(e) \/ Evict(e)
    \/ \E k \in Commands : CheckCommand(k) \/ CommandStep(k) \/ DeliverResult(k)
    \/ \E c \in Conns : ClientDetach(c)
    \/ OtherRegisterWork

RelaySpec == RelayInit /\ [][RelayNext]_vars

-----------------------------------------------------------------------------

\* The state is of the shape the code keeps.
RelayTypeOK ==
    /\ RegisterTypeOK
    /\ extension \in Exts \cup {NoExt}
    /\ sock \in [Exts -> SockStates]
    /\ previous \in [Exts -> Exts \cup {NoExt}]
    /\ down \subseteq Exts /\ evicted \subseteq Exts
    /\ step \in [Commands -> Steps]
    /\ via \in [Commands -> Exts \cup {NoExt}]
    /\ routes \subseteq Commands /\ inbox \subseteq Commands
    /\ answers \in [Commands -> Seq({"result", "error"})]

\* A route always leads back to a client that is still there: an answer is never
\* kept for, or sent to, a connection that ended.
RoutesOfAttached == \A k \in routes : Sender[k] \in clients

\* Nothing the daemon keeps outlives what it was kept for, however claims, moves,
\* commands, departures and companions overlap: claims and routes belong to
\* attached connections, and claims to the browser that is being served.
NothingOutlives == HoldersAttached /\ RoutesOfAttached /\ ClaimsOfThisBrowser

\* No route waits on a companion socket whose thread is over, except one whose
\* sender has yet to find out that the socket is closed.
NoStrandedRoute == \A k \in routes : sock[via[k]] = "done" => step[k] = "routed"

\* No command is lost: once its thread is through with it, it was answered, or
\* its route still stands and somebody will answer it, or its sender left.
NoLostCommand == \A k \in Commands : step[k] = "settled" => answers[k] # <<>> \/ k \in routes

\* A sender that gets a companion's result gets nothing else: replacing the
\* companion, losing it and a failing send never answer a command twice over.
ResultIsTheOnlyAnswer ==
    \A k \in Commands : "result" \in Range(answers[k]) => Len(answers[k]) = 1

\* A companion that is being served is the registered one, or was replaced: one
\* that leaves never unseats the one that took its place.
ServedUnlessReplaced ==
    \A e \in Exts : sock[e] \in {"registered", "serving"} /\ extension # e
                      => \E n \in Exts : previous[n] = e

\* A route whose companion socket closed does not stay: its sender hears of it.
DeadRoutesResolve == \A k \in Commands : (k \in routes /\ via[k] \in down) ~> k \notin routes

\* A companion that was replaced is put out: its thread comes to its end.
ReplacedCompanionEnds ==
    \A e \in Exts : (\E n \in Exts : previous[n] = e) ~> sock[e] = "done"

\* The relay uses the register of tab claims only in ways the register allows.
ImplementsRegister == RegisterSpec
=============================================================================
