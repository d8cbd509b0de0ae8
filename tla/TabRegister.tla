------------------------------ MODULE TabRegister ------------------------------
(***************************************************************************)
(* The register of tab claims inside the bridge daemon                     *)
(* (web_search_neo/bridge_daemon.py, bridge_claims.py): which local client *)
(* connection is driving which Chrome tab, and under which browser run.    *)
(*                                                                         *)
(* Every action below is one section of code that holds                    *)
(* BridgeDaemon._lock.  A connection is named by its identity; a name may  *)
(* attach again after it detached, because a detached connection leaves    *)
(* nothing behind in the register (HoldersAttached).                       *)
(***************************************************************************)

CONSTANTS
    Conns,       \* client connections the daemon may serve
    Tabs,        \* Chrome tab ids
    Runs,        \* browser run identities a companion may report
    ProcOf,      \* ProcOf[c]: the (pid, program) pair c sent in its hello
    InstanceOf,  \* InstanceOf[c]: the bridge instance id c sent in its hello
    NoConn, NoRun, NoProc, NoInstance   \* "none" of each kind

ASSUME NoneAssumption == /\ NoConn \notin Conns
                         /\ NoRun \notin Runs

VARIABLES
    clients,     \* BridgeDaemon._clients: the connections being served
    claims,      \* BridgeDaemon._claims: tab -> its claim, NoClaim when free
    browserRun,  \* BridgeDaemon._browser_run
    reaping      \* the claims _cleanup_dead_claims is probing, by tab

regVars == <<clients, claims, browserRun, reaping>>

AnyRun  == Runs \cup {NoRun}
Claim   == [client : Conns, run : AnyRun]
NoClaim == [client |-> NoConn, run |-> NoRun]

Held(t) == claims[t] # NoClaim

\* same_agent: two connections of one bridge object of one server process.  A
\* missing instance id matches any, so the relation is not transitive.
SameAgent(h, c) ==
    \/ h = c
    \/ /\ ProcOf[h] # NoProc
       /\ ProcOf[h] = ProcOf[c]
       /\ NoInstance \in {InstanceOf[h], InstanceOf[c]} \/ InstanceOf[h] = InstanceOf[c]

\* Mutant: a claim is one's own when the program is, whichever process holds it.
OwnByProgram(h, c) == ProcOf[h] # NoProc

\* claim_is_own: the holder is the requester, is gone, or is superseded by it.
ClaimIsOwn(h, c) == h \notin clients \/ SameAgent(h, c)

\* Held by somebody whose claim the connection c may not touch.
Foreign(c, t) == Held(t) /\ ~ClaimIsOwn(claims[t].client, c)

\* The two refusals of _claim_tab: the claim is about a browser that is over,
\* or another agent is driving the tab.
OtherBrowser(asserted) == asserted # NoRun /\ browserRun # NoRun /\ asserted # browserRun

MayClaim(c, t, asserted) == ~OtherBrowser(asserted) /\ ~Foreign(c, t)

\* A run the daemon knows wins over the one a client remembers.
RecordedRun(asserted) == IF browserRun # NoRun THEN browserRun ELSE asserted

-----------------------------------------------------------------------------

RegisterInit ==
    /\ clients = {}
    /\ claims = [t \in Tabs |-> NoClaim]
    /\ browserRun = NoRun
    /\ reaping = [t \in Tabs |-> NoClaim]

Attach(c) ==
    /\ c \notin clients
    /\ clients' = clients \cup {c}
    /\ UNCHANGED <<claims, browserRun, reaping>>

ClaimTab(c, t, asserted) ==
    /\ c \in clients
    /\ MayClaim(c, t, asserted)
    /\ claims' = [claims EXCEPT ![t] = [client |-> c, run |-> RecordedRun(asserted)]]
    /\ UNCHANGED <<clients, browserRun, reaping>>

ReleaseTab(c, t) ==
    /\ c \in clients
    /\ Held(t)
    /\ ClaimIsOwn(claims[t].client, c)
    /\ claims' = [claims EXCEPT ![t] = NoClaim]
    /\ UNCHANGED <<clients, browserRun, reaping>>

\* The part of _claim_check that writes: a command on a tab the process holds
\* through a superseded connection moves the claim to the connection in use.
MoveClaim(c, t) ==
    /\ c \in clients
    /\ Held(t)
    /\ ClaimIsOwn(claims[t].client, c)
    /\ claims' = [claims EXCEPT ![t] = [client |-> c, run |-> claims[t].run]]
    /\ UNCHANGED <<clients, browserRun, reaping>>

\* Every exit of _serve_client: out of the registry, and its claims with it.
Detach(c) ==
    /\ c \in clients
    /\ clients' = clients \ {c}
    /\ claims' = [t \in Tabs |-> IF claims[t].client = c THEN NoClaim ELSE claims[t]]
    /\ UNCHANGED <<browserRun, reaping>>

\* _adopt_browser_run on a claim, when the run is news: a claim made before any
\* run was known is adopted, one of another browser is dropped.
Adopted(claim, run) ==
    IF claim = NoClaim THEN NoClaim
    ELSE IF claim.run \in {NoRun, run} THEN [client |-> claim.client, run |-> run]
    ELSE NoClaim

\* A companion says hello; a companion too old to name its run sends NoRun.
CompanionHello(run) ==
    /\ browserRun' = IF run = NoRun THEN browserRun ELSE run
    /\ claims' = IF run \in {NoRun, browserRun} THEN claims
                 ELSE [t \in Tabs |-> Adopted(claims[t], run)]
    /\ UNCHANGED <<clients, reaping>>

\* _cleanup_dead_claims probes the owners of these claims outside the lock...
ReaperScan ==
    /\ reaping' = [t \in Tabs |->
                     IF Held(t) /\ claims[t].client \notin clients
                                /\ ProcOf[claims[t].client] # NoProc
                     THEN claims[t] ELSE NoClaim]
    /\ UNCHANGED <<clients, claims, browserRun>>

\* ...and then releases the very claims that it probed and found dead.
ReaperSweep(dead) ==
    /\ claims' = [t \in Tabs |-> IF t \in dead /\ claims[t] = reaping[t]
                                 THEN NoClaim ELSE claims[t]]
    /\ reaping' = [t \in Tabs |-> NoClaim]
    /\ UNCHANGED <<clients, browserRun>>

RegisterNext ==
    \/ \E c \in Conns : Attach(c) \/ Detach(c)
    \/ \E c \in Conns, t \in Tabs, asserted \in AnyRun : ClaimTab(c, t, asserted)
    \/ \E c \in Conns, t \in Tabs : ReleaseTab(c, t) \/ MoveClaim(c, t)
    \/ \E run \in AnyRun : CompanionHello(run)
    \/ ReaperScan
    \/ \E dead \in SUBSET Tabs : ReaperSweep(dead)

RegisterSpec == RegisterInit /\ [][RegisterNext]_regVars

-----------------------------------------------------------------------------

\* The state is of the shape the code keeps.
RegisterTypeOK ==
    /\ clients \subseteq Conns
    /\ claims \in [Tabs -> Claim \cup {NoClaim}]
    /\ browserRun \in AnyRun
    /\ reaping \in [Tabs -> Claim \cup {NoClaim}]

\* A claim never outlives the connection that holds it: whatever ends a client,
\* moves a claim to a reconnected one or re-asserts it, the holder is attached.
HoldersAttached == \A t \in Tabs : Held(t) => claims[t].client \in clients

\* Once the daemon knows which browser it serves, every claim is about that one:
\* no claim on a tab number of an earlier browser locks a tab of this one.
ClaimsOfThisBrowser ==
    browserRun # NoRun => \A t \in Tabs : Held(t) => claims[t].run = browserRun

\* The dead-owner scan never has a candidate: closing the connection has already
\* released everything the scan looks for.
ReaperFindsNothing == \A t \in Tabs : reaping[t] = NoClaim

\* No single step takes a tab from one agent and gives it to another: between
\* two agents a tab is always free first.
NoSilentTakeover ==
    [][\A t \in Tabs : Held(t) /\ Held(t)' => SameAgent(claims[t].client, claims'[t].client)]_regVars

-----------------------------------------------------------------------------

\* What the register promises its users: a lock per tab.
Lock == INSTANCE TabLock WITH owner <- [t \in Tabs |-> claims[t].client],
                              Owners <- Conns, Nobody <- NoConn, MayPass <- SameAgent

\* The register implements a lock per tab.
ImplementsTabLock == Lock!Spec
=============================================================================
