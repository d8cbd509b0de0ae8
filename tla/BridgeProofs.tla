------------------------------ MODULE BridgeProofs ------------------------------
(***************************************************************************)
(* Theorems about the bridge daemon, for any number of connections, tabs,  *)
(* browser runs, commands and companions: first its register of tab        *)
(* claims, then the relay around it, then the probes that servers send     *)
(* through the relay.                                                      *)
(***************************************************************************)
EXTENDS TabProbe, TLAPS

-----------------------------------------------------------------------------
(* The register of tab claims. *)

\* A claim record is never mistaken for the absence of one.
LEMMA ClaimIsNotNoClaim ==
    ASSUME NEW claim \in Claim
    PROVE  claim # NoClaim /\ claim.client # NoConn
  BY NoneAssumption DEF Claim, NoClaim

\* The inductive invariant.  HoldersAttached needs nothing but the types; that
\* the dead-owner scan finds nothing rests on HoldersAttached, and the scan's
\* emptiness is what keeps its sweep from touching a claim.
RegisterInv ==
    /\ RegisterTypeOK
    /\ HoldersAttached
    /\ ReaperFindsNothing
    /\ ClaimsOfThisBrowser

LEMMA InitInv == RegisterInit => RegisterInv
  BY DEF RegisterInit, RegisterInv, RegisterTypeOK, HoldersAttached, Held,
         ReaperFindsNothing, ClaimsOfThisBrowser, AnyRun

\* Attaching a connection leaves the claims alone.
LEMMA AttachInv ==
    ASSUME NEW c \in Conns, RegisterInv, Attach(c)
    PROVE  RegisterInv'
  BY DEF Attach, RegisterInv, RegisterTypeOK, HoldersAttached, Held,
         ReaperFindsNothing, ClaimsOfThisBrowser

\* A granted claim is held by an attached connection and recorded under the
\* run the daemon knows, when it knows one.
LEMMA ClaimTabInv ==
    ASSUME NEW c \in Conns, NEW t \in Tabs, NEW asserted \in AnyRun,
           RegisterInv, ClaimTab(c, t, asserted)
    PROVE  RegisterInv'
<1> USE DEF RegisterInv, RegisterTypeOK
<1>1. RecordedRun(asserted) \in AnyRun
  BY DEF RecordedRun
<1>2. [client |-> c, run |-> RecordedRun(asserted)] \in Claim
  BY <1>1 DEF Claim
<1>3. RegisterTypeOK'
  BY <1>2 DEF ClaimTab
<1>4. HoldersAttached'
  BY <1>3 DEF ClaimTab, HoldersAttached, Held, NoClaim
<1>5. ReaperFindsNothing'
  BY DEF ClaimTab, ReaperFindsNothing
<1>6. ClaimsOfThisBrowser'
  BY DEF ClaimTab, ClaimsOfThisBrowser, Held, RecordedRun
<1>7. QED  BY <1>3, <1>4, <1>5, <1>6

LEMMA ReleaseTabInv ==
    ASSUME NEW c \in Conns, NEW t \in Tabs, RegisterInv, ReleaseTab(c, t)
    PROVE  RegisterInv'
  BY DEF ReleaseTab, RegisterInv, RegisterTypeOK, HoldersAttached, Held,
         ReaperFindsNothing, ClaimsOfThisBrowser

\* Moving a claim changes who holds it and not which browser it is about.
LEMMA MoveClaimInv ==
    ASSUME NEW c \in Conns, NEW t \in Tabs, RegisterInv, MoveClaim(c, t)
    PROVE  RegisterInv'
<1> USE DEF RegisterInv, RegisterTypeOK
<1>1. claims[t] \in Claim
  BY DEF MoveClaim, Held
<1>2. claims' = [claims EXCEPT ![t] = [client |-> c, run |-> claims[t].run]]
  BY DEF MoveClaim
<1>3. [client |-> c, run |-> claims[t].run] \in Claim
  BY <1>1 DEF Claim
<1>4. RegisterTypeOK'
  BY <1>2, <1>3 DEF MoveClaim
<1>5. HoldersAttached'
  BY <1>2, <1>4 DEF MoveClaim, HoldersAttached, Held, NoClaim
<1>6. ReaperFindsNothing'
  BY DEF MoveClaim, ReaperFindsNothing
<1>7. ClaimsOfThisBrowser'
  BY <1>2 DEF MoveClaim, ClaimsOfThisBrowser, Held
<1>8. QED  BY <1>4, <1>5, <1>6, <1>7

\* A departing connection takes every claim it holds with it.
LEMMA DetachInv ==
    ASSUME NEW c \in Conns, RegisterInv, Detach(c)
    PROVE  RegisterInv'
  BY DEF Detach, RegisterInv, RegisterTypeOK, HoldersAttached, Held,
         ReaperFindsNothing, ClaimsOfThisBrowser, NoClaim

\* What a companion's hello makes of one claim.
LEMMA AdoptedClaim ==
    ASSUME NEW claim \in Claim \cup {NoClaim}, NEW run \in Runs
    PROVE  \/ Adopted(claim, run) = NoClaim
           \/ /\ claim \in Claim
              /\ Adopted(claim, run) = [client |-> claim.client, run |-> run]
  BY DEF Adopted, Claim

LEMMA CompanionHelloInv ==
    ASSUME NEW run \in AnyRun, RegisterInv, CompanionHello(run)
    PROVE  RegisterInv'
<1> USE DEF RegisterInv
<1>1. CASE run \in {NoRun, browserRun}
  BY <1>1 DEF CompanionHello, RegisterTypeOK, HoldersAttached, Held,
              ReaperFindsNothing, ClaimsOfThisBrowser, AnyRun
<1>2. CASE run \notin {NoRun, browserRun}
  <2>1. run \in Runs /\ browserRun' = run
    BY <1>2 DEF CompanionHello, AnyRun
  <2>2. claims' = [t \in Tabs |-> Adopted(claims[t], run)]
    BY <1>2 DEF CompanionHello
  <2>3. ASSUME NEW t \in Tabs
        PROVE  \/ claims'[t] = NoClaim
               \/ /\ claims[t] \in Claim
                  /\ claims'[t] = [client |-> claims[t].client, run |-> run]
    BY <2>1, <2>2, AdoptedClaim DEF RegisterTypeOK
  <2>4. ASSUME NEW t \in Tabs, claims'[t] # NoClaim
        PROVE  /\ claims[t] \in Claim
               /\ claims'[t] \in Claim
               /\ claims'[t].client = claims[t].client
               /\ claims'[t].run = run
    <3>1. claims[t] \in Claim /\ claims'[t] = [client |-> claims[t].client, run |-> run]
      BY <2>3, <2>4
    <3>2. QED  BY <2>1, <3>1 DEF Claim, AnyRun
  <2>5. RegisterTypeOK'
    BY <2>1, <2>2, <2>4 DEF RegisterTypeOK, CompanionHello, AnyRun
  <2>6. HoldersAttached'
    BY <2>4, ClaimIsNotNoClaim DEF HoldersAttached, Held, CompanionHello
  <2>7. ClaimsOfThisBrowser'
    BY <2>1, <2>4 DEF ClaimsOfThisBrowser, Held
  <2>8. ReaperFindsNothing'
    BY DEF CompanionHello, ReaperFindsNothing
  <2>9. QED  BY <2>5, <2>6, <2>7, <2>8
<1>3. QED  BY <1>1, <1>2

\* The scan has no candidate, because every holder is attached.
LEMMA ReaperScanInv ==
    ASSUME RegisterInv, ReaperScan
    PROVE  RegisterInv'
  BY DEF ReaperScan, RegisterInv, RegisterTypeOK, HoldersAttached, Held,
         ReaperFindsNothing, ClaimsOfThisBrowser

\* With nothing probed the sweep changes nothing.
LEMMA ReaperSweepInv ==
    ASSUME NEW dead \in SUBSET Tabs, RegisterInv, ReaperSweep(dead)
    PROVE  RegisterInv' /\ UNCHANGED claims
<1>1. claims' = claims
  BY DEF ReaperSweep, RegisterInv, RegisterTypeOK, ReaperFindsNothing
<1>2. QED
  BY <1>1 DEF ReaperSweep, RegisterInv, RegisterTypeOK, HoldersAttached, Held,
              ReaperFindsNothing, ClaimsOfThisBrowser

LEMMA NextInv == RegisterInv /\ [RegisterNext]_regVars => RegisterInv'
<1> SUFFICES ASSUME RegisterInv, [RegisterNext]_regVars
             PROVE  RegisterInv'
  OBVIOUS
<1>1. CASE UNCHANGED regVars
  BY <1>1 DEF regVars, RegisterInv, RegisterTypeOK, HoldersAttached, Held,
              ReaperFindsNothing, ClaimsOfThisBrowser
<1>2. CASE RegisterNext
  BY <1>2, AttachInv, DetachInv, ClaimTabInv, ReleaseTabInv, MoveClaimInv,
     CompanionHelloInv, ReaperScanInv, ReaperSweepInv DEF RegisterNext
<1>3. QED  BY <1>1, <1>2

\* The register keeps its inductive invariant for every number of connections,
\* tabs and browser runs.
THEOREM RegisterInvariant == RegisterSpec => []RegisterInv
  BY InitInv, NextInv, PTL DEF RegisterSpec

\* Type correctness of BridgeDaemon's register.
THEOREM RegisterTypes == RegisterSpec => []RegisterTypeOK
  BY RegisterInvariant, PTL DEF RegisterInv

\* A claim never outlives its connection (_serve_client's finally block).
THEOREM ClaimsHeldByAttached == RegisterSpec => []HoldersAttached
  BY RegisterInvariant, PTL DEF RegisterInv

\* Every claim is about the browser the daemon serves (_adopt_browser_run).
THEOREM ClaimsOfBrowser == RegisterSpec => []ClaimsOfThisBrowser
  BY RegisterInvariant, PTL DEF RegisterInv

\* _cleanup_dead_claims has nothing to clean up.
THEOREM ReaperRedundant == RegisterSpec => []ReaperFindsNothing
  BY RegisterInvariant, PTL DEF RegisterInv

-----------------------------------------------------------------------------

\* What one step of the register does to the holder of a tab: nothing, it frees
\* it, it gives a free one to a connection, or it passes it within one agent.
LEMMA StepOnHolder ==
    ASSUME RegisterInv, [RegisterNext]_regVars
    PROVE  \/ \A t \in Tabs : claims'[t] = NoClaim \/ claims'[t].client = claims[t].client
           \/ \E c \in Conns, t \in Tabs :
                /\ ~Held(t) \/ SameAgent(claims[t].client, c)
                /\ claims'[t].client = c
                /\ \A u \in Tabs \ {t} : claims'[u] = claims[u]
<1> USE DEF RegisterInv, RegisterTypeOK
<1> DEFINE Shrinks == \A t \in Tabs : claims'[t] = NoClaim \/ claims'[t].client = claims[t].client
           Moves(c, t) == /\ ~Held(t) \/ SameAgent(claims[t].client, c)
                          /\ claims'[t].client = c
                          /\ \A u \in Tabs \ {t} : claims'[u] = claims[u]
<1>1. CASE UNCHANGED regVars
  BY <1>1 DEF regVars
<1>2. ASSUME NEW c \in Conns, Attach(c) \/ Detach(c)
      PROVE  Shrinks
  BY <1>2 DEF Attach, Detach
<1>3. ASSUME NEW c \in Conns, NEW t \in Tabs, NEW asserted \in AnyRun, ClaimTab(c, t, asserted)
      PROVE  Moves(c, t)
  BY <1>3 DEF ClaimTab, MayClaim, Foreign, ClaimIsOwn, HoldersAttached
<1>4. ASSUME NEW c \in Conns, NEW t \in Tabs, ReleaseTab(c, t)
      PROVE  Shrinks
  BY <1>4 DEF ReleaseTab
<1>5. ASSUME NEW c \in Conns, NEW t \in Tabs, MoveClaim(c, t)
      PROVE  Moves(c, t)
  BY <1>5 DEF MoveClaim, ClaimIsOwn, HoldersAttached
<1>6. ASSUME NEW run \in AnyRun, CompanionHello(run)
      PROVE  Shrinks
  <2> SUFFICES ASSUME NEW t \in Tabs
               PROVE  claims'[t] = NoClaim \/ claims'[t].client = claims[t].client
    OBVIOUS
  <2>1. CASE claims' = claims
    BY <2>1
  <2>2. CASE claims' = [u \in Tabs |-> Adopted(claims[u], run)]
    BY <2>2 DEF Adopted
  <2>3. QED  BY <1>6, <2>1, <2>2 DEF CompanionHello
<1>7. ASSUME ReaperScan \/ \E dead \in SUBSET Tabs : ReaperSweep(dead)
      PROVE  Shrinks
  BY <1>7 DEF ReaperScan, ReaperSweep
<1>8. QED
  BY <1>1, <1>2, <1>3, <1>4, <1>5, <1>6, <1>7 DEF RegisterNext

\* A tab that is held before and after a step is held by the same agent.
LEMMA StepKeepsAgent ==
    ASSUME RegisterInv, [RegisterNext]_regVars, NEW t \in Tabs, Held(t), Held(t)'
    PROVE  SameAgent(claims[t].client, claims'[t].client)
  BY StepOnHolder DEF Held, SameAgent

\* No step of the daemon takes a tab from one agent and gives it to another.
THEOREM NoTakeover == RegisterSpec => NoSilentTakeover
<1>1. RegisterInv /\ [RegisterNext]_regVars
        => [\A t \in Tabs : Held(t) /\ Held(t)'
              => SameAgent(claims[t].client, claims'[t].client)]_regVars
  BY StepKeepsAgent
<1>2. QED  BY <1>1, RegisterInvariant, PTL DEF RegisterSpec, NoSilentTakeover

\* The register implements a lock per tab (TabLock).
THEOREM RegisterImplementsLock == RegisterSpec => ImplementsTabLock
<1> DEFINE own == [t \in Tabs |-> claims[t].client]
<1>1. RegisterInit => Lock!Init
  BY DEF RegisterInit, Lock!Init, NoClaim
<1>2. RegisterInv /\ [RegisterNext]_regVars => [Lock!Next]_own
  <2> SUFFICES ASSUME RegisterInv, [RegisterNext]_regVars
               PROVE  [Lock!Next]_own
    OBVIOUS
  <2>1. CASE \A t \in Tabs : claims'[t] = NoClaim \/ claims'[t].client = claims[t].client
    <3> DEFINE freed == {t \in Tabs : claims'[t] = NoClaim}
    <3>1. \A t \in Tabs : claims'[t].client = IF t \in freed THEN NoConn ELSE claims[t].client
      BY <2>1 DEF NoClaim
    <3>2. own' = [t \in Tabs |-> IF t \in freed THEN NoConn ELSE own[t]]
      BY <3>1
    <3>3. \E S \in SUBSET Tabs : own' = [t \in Tabs |-> IF t \in S THEN NoConn ELSE own[t]]
      BY <3>2
    <3>4. \E S \in SUBSET Tabs : Lock!Free(S)
      BY <3>3 DEF Lock!Free
    <3>5. QED  BY <3>4 DEF Lock!Next
  <2>2. ASSUME NEW c \in Conns, NEW t \in Tabs,
               ~Held(t) \/ SameAgent(claims[t].client, c),
               claims'[t].client = c,
               \A u \in Tabs \ {t} : claims'[u] = claims[u]
        PROVE  Lock!Next
    <3>1. own' = [own EXCEPT ![t] = c]
      BY <2>2
    <3>2. CASE ~Held(t)
      <4>1. own[t] = NoConn
        BY <3>2 DEF Held, NoClaim
      <4>2. Lock!Take(c, t)
        BY <3>1, <4>1 DEF Lock!Take
      <4>3. QED  BY <4>2 DEF Lock!Next
    <3>3. CASE Held(t) /\ SameAgent(claims[t].client, c)
      <4>1. own[t] # NoConn
        BY <3>3, ClaimIsNotNoClaim DEF RegisterInv, RegisterTypeOK, Held
      <4>2. QED  BY <3>1, <3>3, <4>1 DEF Lock!Pass, Lock!Next
    <3>4. QED  BY <2>2, <3>2, <3>3
  <2>3. QED  BY <2>1, <2>2, StepOnHolder
<1>3. QED
  BY <1>1, <1>2, RegisterInvariant, PTL DEF RegisterSpec, ImplementsTabLock, Lock!Spec

-----------------------------------------------------------------------------
(* The relay. *)

\* The inductive invariant, in parts.

\* The state the relay adds to the register, without the answers.
RelayTypes ==
    /\ extension \in Exts \cup {NoExt}
    /\ sock \in [Exts -> SockStates]
    /\ previous \in [Exts -> Exts \cup {NoExt}]
    /\ down \subseteq Exts /\ evicted \subseteq Exts
    /\ step \in [Commands -> Steps]
    /\ via \in [Commands -> Exts \cup {NoExt}]
    /\ routes \subseteq Commands /\ inbox \subseteq Commands
    /\ answers \in [Commands -> Seq({"result", "error"})]

\* A command a thread is busy with belongs to a client that is attached, and has
\* its companion from the moment it was chosen.
BusySender ==
    \A k \in Commands :
        /\ step[k] \in {"checked", "picked", "routed"} => Sender[k] \in clients
        /\ step[k] \in {"picked", "routed"} => via[k] \in Exts

\* A route is set up by a command's own thread and outlives it only for a client
\* that stays.
RouteOwned ==
    \A k \in routes : /\ Sender[k] \in clients
                      /\ via[k] \in Exts
                      /\ step[k] \in {"routed", "settled"}

\* A companion's thread reaches its clean-up only when its socket is closed.
CleanUpAfterClose == \A e \in Exts : sock[e] \in {"unset", "done"} => e \in down

\* From its registration on, a command has a route or has been answered.
OwedAnswer ==
    \A k \in Commands : step[k] \in {"routed", "settled"} => answers[k] # <<>> \/ k \in routes

RelayInv ==
    /\ RelayTypes
    /\ BusySender
    /\ RouteOwned
    /\ CleanUpAfterClose
    /\ NoStrandedRoute
    /\ OwedAnswer

-----------------------------------------------------------------------------
\* Answering some commands keeps the type, and leaves none of them, and none
\* that was answered before, without an answer.
LEMMA AnsweredGrows ==
    ASSUME answers \in [Commands -> Seq({"result", "error"})],
           NEW ks \in SUBSET Commands, NEW answer \in {"result", "error"}
    PROVE  /\ Answered(ks, answer) \in [Commands -> Seq({"result", "error"})]
           /\ \A k \in Commands : k \in ks \/ answers[k] # <<>> => Answered(ks, answer)[k] # <<>>
<1>1. \A k \in Commands : /\ Append(answers[k], answer) \in Seq({"result", "error"})
                          /\ Append(answers[k], answer) # <<>>
    OBVIOUS
<1>. QED  BY <1>1 DEF Answered

LEMMA RelayInit_Inv == RelayInit => RelayInv
BY RelayAssumption DEF RelayInit, RegisterInit, RelayInv, RelayTypes, BusySender, RouteOwned,
   CleanUpAfterClose, NoStrandedRoute, OwedAnswer, SockStates, Steps

-----------------------------------------------------------------------------
\* What each step does to the invariant.  A companion's thread and the clients'
\* other work touch no command's place, a command's own steps only its own.

LEMMA ExtRegister_Inv ==
    ASSUME RelayInv, NEW e \in Exts, ExtRegister(e)
    PROVE  RelayInv'
BY DEF ExtRegister, CompanionHello, RelayInv, RelayTypes, BusySender, RouteOwned,
   CleanUpAfterClose, NoStrandedRoute, OwedAnswer, SockStates

\* Routes are failed together with an answer to each of them.
LEMMA FailRoutes_Inv ==
    ASSUME RelayInv, NEW e \in Exts, NEW f \in Exts \cup {NoExt},
           NEW state \in {"serving", "done"},
           state = "done" => f = e /\ e \in down,
           routes' = routes \ RoutesVia(f),
           answers' = Answered(RoutesVia(f), "error"),
           sock' = [sock EXCEPT ![e] = state],
           evicted' \subseteq Exts,
           UNCHANGED <<clients, extension, previous, down, step, via, inbox>>
    PROVE  RelayInv'
<1> USE DEF RelayInv
<1>1. RoutesVia(f) \in SUBSET Commands
    BY DEF RoutesVia, RelayTypes
<1>2. /\ answers' \in [Commands -> Seq({"result", "error"})]
      /\ \A k \in Commands : k \in RoutesVia(f) \/ answers[k] # <<>> => answers'[k] # <<>>
    BY <1>1, AnsweredGrows DEF RelayTypes
<1>3. RelayTypes'
    BY <1>2 DEF RelayTypes, SockStates
<1>4. BusySender' /\ RouteOwned' /\ CleanUpAfterClose'
    BY DEF BusySender, RouteOwned, CleanUpAfterClose, RelayTypes
<1>5. NoStrandedRoute'
    BY DEF NoStrandedRoute, RoutesVia, RelayTypes, RouteOwned
<1>6. OwedAnswer'
    BY <1>2 DEF OwedAnswer
<1>. QED  BY <1>3, <1>4, <1>5, <1>6

LEMMA ExtThread_Inv ==
    ASSUME RelayInv, NEW e \in Exts, ExtThread(e)
    PROVE  RelayInv'
<1>1. CASE ExtTakeOver(e)
  <2>1. /\ previous[e] \in Exts \cup {NoExt}
        /\ evicted' \subseteq Exts
      BY <1>1 DEF ExtTakeOver, RelayInv, RelayTypes
  <2>. QED  BY <1>1, <2>1, FailRoutes_Inv DEF ExtTakeOver, regVars
<1>2. CASE ExtUnset(e)
    BY <1>2 DEF ExtUnset, regVars, RelayInv, RelayTypes, BusySender, RouteOwned,
       CleanUpAfterClose, NoStrandedRoute, OwedAnswer, SockStates
<1>3. CASE ExtFailRoutes(e)
  <2>1. e \in down /\ evicted \subseteq Exts
      BY <1>3 DEF ExtFailRoutes, RelayInv, RelayTypes, CleanUpAfterClose
  <2>. QED  BY <1>3, <2>1, FailRoutes_Inv DEF ExtFailRoutes, regVars
<1>. QED  BY <1>1, <1>2, <1>3 DEF ExtThread

LEMMA SocketCloses_Inv ==
    ASSUME RelayInv, NEW e \in Exts, SocketCloses(e) \/ Evict(e)
    PROVE  RelayInv'
BY DEF SocketCloses, Evict, regVars, RelayInv, RelayTypes, BusySender, RouteOwned,
   CleanUpAfterClose, NoStrandedRoute, OwedAnswer

LEMMA DeliverResult_Inv ==
    ASSUME RelayInv, NEW k \in Commands, DeliverResult(k)
    PROVE  RelayInv'
<1> USE DEF RelayInv
<1>1. /\ answers' \in [Commands -> Seq({"result", "error"})]
      /\ \A j \in Commands : (j = k /\ k \in routes) \/ answers[j] # <<>> => answers'[j] # <<>>
    BY AnsweredGrows DEF DeliverResult, RelayTypes
<1>2. RelayTypes'
    BY <1>1 DEF DeliverResult, RelayTypes, regVars
<1>3. BusySender' /\ RouteOwned' /\ CleanUpAfterClose' /\ NoStrandedRoute'
    BY DEF DeliverResult, regVars, BusySender, RouteOwned, CleanUpAfterClose, NoStrandedRoute
<1>4. OwedAnswer'
    BY <1>1 DEF DeliverResult, OwedAnswer
<1>. QED  BY <1>2, <1>3, <1>4

LEMMA CheckCommand_Inv ==
    ASSUME RelayInv, NEW k \in Commands, CheckCommand(k)
    PROVE  RelayInv'
<1> USE DEF RelayInv
<1>1. clients' = clients
    BY DEF CheckCommand, MoveClaim, regVars
<1>2. /\ answers' \in [Commands -> Seq({"result", "error"})]
      /\ \A j \in Commands : answers[j] # <<>> => answers'[j] # <<>>
      /\ step'[k] = "settled" => answers'[k] # <<>>
      /\ step'[k] \in {"checked", "settled"}
      /\ step' = [step EXCEPT ![k] = step'[k]]
    BY AnsweredGrows DEF CheckCommand, RelayTypes
<1>3. /\ step[k] = "unsent" /\ Sender[k] \in clients
      /\ UNCHANGED <<extension, sock, previous, down, evicted, via, routes, inbox>>
    BY DEF CheckCommand
<1>4. RelayTypes'
    BY <1>2, <1>3 DEF RelayTypes, Steps
<1>5. BusySender' /\ RouteOwned' /\ CleanUpAfterClose'
    BY <1>1, <1>2, <1>3 DEF BusySender, RouteOwned, CleanUpAfterClose, RelayTypes
<1>6. NoStrandedRoute' /\ OwedAnswer'
    BY <1>2, <1>3 DEF NoStrandedRoute, OwedAnswer, RelayTypes
<1>. QED  BY <1>4, <1>5, <1>6

LEMMA PickExtension_Inv ==
    ASSUME RelayInv, NEW k \in Commands, PickExtension(k)
    PROVE  RelayInv'
<1> USE DEF RelayInv
<1>1. /\ answers' \in [Commands -> Seq({"result", "error"})]
      /\ \A j \in Commands : answers[j] # <<>> => answers'[j] # <<>>
      /\ extension = NoExt => answers'[k] # <<>>
    BY AnsweredGrows DEF PickExtension, RelayTypes
<1>2. /\ step[k] = "checked" /\ k \notin routes
      /\ step' = [step EXCEPT ![k] = IF extension = NoExt THEN "settled" ELSE "picked"]
      /\ via' = [via EXCEPT ![k] = extension]
      /\ UNCHANGED <<clients, extension, sock, previous, down, evicted, routes, inbox>>
    BY DEF PickExtension, RouteOwned, regVars
<1>3. RelayTypes'
    BY <1>1, <1>2 DEF RelayTypes, Steps
<1>4. BusySender'
    BY <1>2 DEF BusySender, RelayTypes
<1>5. RouteOwned' /\ CleanUpAfterClose' /\ NoStrandedRoute'
    BY <1>2 DEF RouteOwned, CleanUpAfterClose, NoStrandedRoute, RelayTypes
<1>6. OwedAnswer'
    BY <1>1, <1>2 DEF OwedAnswer, RelayTypes
<1>. QED  BY <1>3, <1>4, <1>5, <1>6

LEMMA RegisterRoute_Inv ==
    ASSUME RelayInv, NEW k \in Commands, RegisterRoute(k)
    PROVE  RelayInv'
BY DEF RegisterRoute, regVars, RelayInv, RelayTypes, BusySender, RouteOwned,
   CleanUpAfterClose, NoStrandedRoute, OwedAnswer, Steps

\* A send that succeeds proves the socket open, so its thread has not been
\* through its clean-up and will still fail this route if it must.
LEMMA SendSucceeds_Inv ==
    ASSUME RelayInv, NEW k \in Commands, SendSucceeds(k)
    PROVE  RelayInv'
BY DEF SendSucceeds, regVars, RelayInv, RelayTypes, BusySender, RouteOwned,
   CleanUpAfterClose, NoStrandedRoute, OwedAnswer, Steps

LEMMA SendFails_Inv ==
    ASSUME RelayInv, NEW k \in Commands, SendFails(k)
    PROVE  RelayInv'
<1> USE DEF RelayInv
<1>1. /\ answers' \in [Commands -> Seq({"result", "error"})]
      /\ \A j \in Commands : j = k \/ answers[j] # <<>> => answers'[j] # <<>>
    BY AnsweredGrows DEF SendFails, RelayTypes
<1>2. RelayTypes'
    BY <1>1 DEF SendFails, regVars, RelayTypes, Steps
<1>3. BusySender' /\ RouteOwned' /\ CleanUpAfterClose' /\ NoStrandedRoute'
    BY DEF SendFails, regVars, BusySender, RouteOwned, CleanUpAfterClose, NoStrandedRoute, RelayTypes
<1>4. OwedAnswer'
    BY <1>1 DEF SendFails, OwedAnswer, RelayTypes
<1>. QED  BY <1>2, <1>3, <1>4

LEMMA ClientDetach_Inv ==
    ASSUME RelayInv, NEW c \in Conns, ClientDetach(c)
    PROVE  RelayInv'
<1> USE DEF RelayInv
<1>1. /\ clients' = clients \ {c}
      /\ routes' = {k \in routes : Sender[k] # c}
      /\ step' = [k \in Commands |->
                    IF Sender[k] = c /\ step[k] = "settled" THEN "abandoned" ELSE step[k]]
      /\ UNCHANGED <<extension, sock, previous, down, evicted, via, inbox, answers>>
    BY DEF ClientDetach, Detach
<1>2. \A k \in Commands : Sender[k] = c => step[k] \notin {"checked", "picked", "routed"}
    BY DEF ClientDetach, Busy
<1>3. RelayTypes'
    BY <1>1 DEF RelayTypes, Steps
<1>4. BusySender' /\ RouteOwned'
    BY <1>1, <1>2 DEF BusySender, RouteOwned, RelayTypes
<1>5. CleanUpAfterClose' /\ NoStrandedRoute'
    BY <1>1 DEF CleanUpAfterClose, NoStrandedRoute, RelayTypes
<1>6. OwedAnswer'
    BY <1>1, <1>2 DEF OwedAnswer, RelayTypes
<1>. QED  BY <1>3, <1>4, <1>5, <1>6

LEMMA OtherRegisterWork_Inv ==
    ASSUME RelayInv, OtherRegisterWork
    PROVE  RelayInv'
<1>1. clients \subseteq clients' /\ UNCHANGED relayVars
    BY DEF OtherRegisterWork, Attach, ReleaseTab, ClaimTab, ReaperScan, ReaperSweep
<1>. QED  BY <1>1 DEF relayVars, RelayInv, RelayTypes, BusySender, RouteOwned,
             CleanUpAfterClose, NoStrandedRoute, OwedAnswer

LEMMA RelayNext_Inv == RelayInv /\ [RelayNext]_vars => RelayInv'
<1> SUFFICES ASSUME RelayInv, [RelayNext]_vars PROVE RelayInv'
    OBVIOUS
<1>1. CASE RelayNext
    BY <1>1, ExtRegister_Inv, ExtThread_Inv, SocketCloses_Inv, DeliverResult_Inv,
       CheckCommand_Inv, PickExtension_Inv, RegisterRoute_Inv, SendSucceeds_Inv,
       SendFails_Inv, ClientDetach_Inv, OtherRegisterWork_Inv DEF RelayNext, CommandStep
<1>2. CASE UNCHANGED vars
    BY <1>2 DEF vars, regVars, relayVars, RelayInv, RelayTypes, BusySender, RouteOwned,
       CleanUpAfterClose, NoStrandedRoute, OwedAnswer
<1>. QED  BY <1>1, <1>2

THEOREM RelayInvariant == RelaySpec => []RelayInv
BY RelayInit_Inv, RelayNext_Inv, PTL DEF RelaySpec

\* Every route leads back to an attached client: the daemon never keeps an
\* answer for a connection that ended.
THEOREM RoutesLeadToAttached == RelaySpec => []RoutesOfAttached
<1>1. RelayInv => RoutesOfAttached
    BY DEF RelayInv, RouteOwned, RoutesOfAttached
<1>. QED  BY <1>1, RelayInvariant, PTL

\* No route waits on a companion whose thread is over, whatever order the
\* relay's and the companions' threads run in.
THEOREM NoRouteStranded == RelaySpec => []NoStrandedRoute
<1>1. RelayInv => NoStrandedRoute
    BY DEF RelayInv
<1>. QED  BY <1>1, RelayInvariant, PTL

\* Every command the daemon took is answered, or owed an answer by a route, or
\* its sender left.
THEOREM NoCommandLost == RelaySpec => []NoLostCommand
<1>1. RelayInv => NoLostCommand
    BY DEF RelayInv, OwedAnswer, NoLostCommand
<1>. QED  BY <1>1, RelayInvariant, PTL

-----------------------------------------------------------------------------
\* The relay is one of the register's users.

LEMMA RelayStep_RegisterStep ==
    ASSUME RelayInv, [RelayNext]_vars
    PROVE  [RegisterNext]_regVars
<1>1. ASSUME NEW e \in Exts, ExtRegister(e) PROVE RegisterNext
    BY <1>1, RelayAssumption DEF ExtRegister, RegisterNext
<1>2. ASSUME NEW k \in Commands, CheckCommand(k) PROVE [RegisterNext]_regVars
  <2>1. Sender[k] \in Conns /\ Target[k] \in Tabs
      BY RelayAssumption
  <2>. QED  BY <1>2, <2>1 DEF CheckCommand, RegisterNext
<1>3. ASSUME NEW c \in Conns, ClientDetach(c) PROVE RegisterNext
    BY <1>3 DEF ClientDetach, RegisterNext
<1>4. ASSUME OtherRegisterWork PROVE RegisterNext
    BY <1>4 DEF OtherRegisterWork, RegisterNext
<1>5. ASSUME NEW e \in Exts, ExtThread(e) \/ SocketCloses(e) \/ Evict(e) PROVE UNCHANGED regVars
    BY <1>5 DEF ExtThread, ExtTakeOver, ExtUnset, ExtFailRoutes, SocketCloses, Evict
<1>6. ASSUME NEW k \in Commands, CommandStep(k) \/ DeliverResult(k) PROVE UNCHANGED regVars
    BY <1>6 DEF CommandStep, PickExtension, RegisterRoute, SendSucceeds, SendFails, DeliverResult
<1>. QED  BY <1>1, <1>2, <1>3, <1>4, <1>5, <1>6 DEF RelayNext, vars

\* The relay implements the register: every step of a relay thread claims,
\* moves, releases and drops tabs as the register allows, or leaves it alone.
THEOREM RelayImplementsRegister == RelaySpec => ImplementsRegister
<1>1. RelayInit => RegisterInit
    BY DEF RelayInit
<1>. QED  BY <1>1, RelayStep_RegisterStep, RelayInvariant, PTL
           DEF RelaySpec, ImplementsRegister, RegisterSpec

\* So whatever was proved of the register holds in the relay: its state is well
\* typed...
THEOREM RelayTypesOK == RelaySpec => []RelayTypeOK
<1>1. RelayInv /\ RegisterTypeOK => RelayTypeOK
    BY DEF RelayInv, RelayTypes, RelayTypeOK
<1>. QED  BY <1>1, RelayInvariant, RelayImplementsRegister, RegisterTypes, PTL
           DEF ImplementsRegister

\* ...no claim and no route outlives its connection, and no claim its browser...
THEOREM RelayNothingOutlives == RelaySpec => []NothingOutlives
BY RoutesLeadToAttached, RelayImplementsRegister, ClaimsHeldByAttached, ClaimsOfBrowser, PTL
   DEF ImplementsRegister, NothingOutlives

\* ...and no step of any thread hands one agent's tab to another.
THEOREM RelayNoTakeover == RelaySpec => NoSilentTakeover
BY RelayImplementsRegister, NoTakeover DEF ImplementsRegister
-----------------------------------------------------------------------------
(* What the answers of a command say of it, and a companion's place. *)

\* A command has no answer before its route is set up (one that is refused has no
\* route), none while the route stands, and after a result none that follows.
AnswersFit ==
    \A k \in Commands :
        /\ step[k] \in {"unsent", "checked", "picked"} => answers[k] = <<>>
        /\ k \in routes => answers[k] = <<>>
        /\ k \in inbox => step[k] \in {"settled", "abandoned"}
        /\ \/ answers[k] \in Seq({"error"})
           \/ answers[k] = <<"result">> /\ step[k] \in {"settled", "abandoned"}

\* Sequences of errors: what they are made of, and how they grow.
LEMMA Errors ==
    /\ <<>> \in Seq({"error"}) /\ <<"error">> \in Seq({"error"})
    /\ \A s \in Seq({"error"}) : Append(s, "error") \in Seq({"error"})
    /\ Append(<<>>, "result") = <<"result">>
<1>1. <<>> \in Seq({"error"})
    OBVIOUS
<1>2. \A s \in Seq({"error"}) : Append(s, "error") \in Seq({"error"})
    OBVIOUS
<1>3. Append(<<>>, "error") = <<"error">> /\ Append(<<>>, "result") = <<"result">>
    OBVIOUS
<1>. QED  BY <1>1, <1>2, <1>3

\* Failing the routes of one socket answers commands that had no answer yet.
LEMMA FailRoutes_Fit ==
    ASSUME RelayInv, AnswersFit, NEW f \in Exts \cup {NoExt},
           routes' = routes \ RoutesVia(f), answers' = Answered(RoutesVia(f), "error"),
           UNCHANGED <<step, inbox>>
    PROVE  AnswersFit'
<1>. SUFFICES ASSUME NEW k \in Commands
              PROVE  /\ step[k] \in {"unsent", "checked", "picked"} => answers'[k] = <<>>
                     /\ k \in routes' => answers'[k] = <<>>
                     /\ k \in inbox => step[k] \in {"settled", "abandoned"}
                     /\ \/ answers'[k] \in Seq({"error"})
                        \/ answers'[k] = <<"result">> /\ step[k] \in {"settled", "abandoned"}
    BY DEF AnswersFit
<1>1. answers'[k] = IF k \in RoutesVia(f) THEN Append(answers[k], "error") ELSE answers[k]
    BY DEF Answered
<1>2. CASE k \in RoutesVia(f)
  <2>1. k \in routes /\ answers[k] = <<>> /\ step[k] \in {"routed", "settled"}
      BY <1>2 DEF RoutesVia, AnswersFit, RelayInv, RouteOwned
  <2>2. Append(answers[k], "error") = <<"error">>
      BY <2>1
  <2>3. answers'[k] \in Seq({"error"})
      BY <1>1, <1>2, <2>2, Errors
  <2>. QED  BY <1>2, <2>1, <2>3 DEF AnswersFit
<1>3. CASE k \notin RoutesVia(f)
    BY <1>1, <1>3 DEF AnswersFit
<1>. QED  BY <1>2, <1>3

\* A step that gives one command an error, or none, and sets no route up.
LEMMA OneError_Fit ==
    ASSUME RelayInv, AnswersFit, NEW k \in Commands,
           answers' \in {answers, Answered({k}, "error")},
           answers' # answers => answers[k] \in Seq({"error"}) /\ step'[k] = "settled" /\ k \notin routes',
           routes' \subseteq routes,
           step[k] \in {"unsent", "checked", "routed"},
           step' = [step EXCEPT ![k] = step'[k]],
           step'[k] \in {"checked", "picked", "settled"},
           step[k] = "routed" => step'[k] = "settled",
           UNCHANGED inbox
    PROVE  AnswersFit'
<1>. SUFFICES ASSUME NEW j \in Commands
              PROVE  /\ step'[j] \in {"unsent", "checked", "picked"} => answers'[j] = <<>>
                     /\ j \in routes' => answers'[j] = <<>>
                     /\ j \in inbox' => step'[j] \in {"settled", "abandoned"}
                     /\ \/ answers'[j] \in Seq({"error"})
                        \/ answers'[j] = <<"result">> /\ step'[j] \in {"settled", "abandoned"}
    BY DEF AnswersFit
<1>1. CASE j # k
  <2>1. answers'[j] = answers[j] /\ step'[j] = step[j]
      BY <1>1 DEF Answered, RelayInv, RelayTypes
  <2>. QED  BY <2>1 DEF AnswersFit
<1>2. CASE j = k
  <2>1. answers[k] \in Seq({"error"}) /\ k \notin inbox
      BY DEF AnswersFit
  <2>2. CASE answers' = answers
      BY <1>2, <2>1, <2>2 DEF AnswersFit
  <2>3. CASE answers' # answers
    <3>0. answers'[k] = Append(answers[k], "error")
        BY <2>3 DEF Answered
    <3>1. answers'[k] \in Seq({"error"})
        BY <2>1, <3>0, Errors
    <3>. QED  BY <1>2, <2>1, <2>3, <3>1
  <2>. QED  BY <2>2, <2>3
<1>. QED  BY <1>1, <1>2

\* A result comes over a standing route, so it is the first answer, and the last.
LEMMA DeliverResult_Fit ==
    ASSUME RelayInv, AnswersFit, NEW k \in Commands, DeliverResult(k)
    PROVE  AnswersFit'
<1>1. k \in routes => answers[k] = <<>> /\ Append(answers[k], "result") = <<"result">>
    BY Errors DEF AnswersFit
<1>2. step[k] \in {"settled", "abandoned"} /\ UNCHANGED step
    BY DEF DeliverResult, AnswersFit
<1>3. \A j \in Commands : answers'[j] = IF j = k /\ k \in routes THEN <<"result">> ELSE answers[j]
    BY <1>1 DEF DeliverResult, Answered
<1>. QED  BY <1>2, <1>3 DEF DeliverResult, AnswersFit

\* Every step of the relay keeps the answers in order.
LEMMA AnswersFit_Step ==
    ASSUME RelayInv, AnswersFit, [RelayNext]_vars
    PROVE  AnswersFit'
<1>. USE DEF RelayInv
<1>1. ASSUME NEW e \in Exts, ExtRegister(e) \/ ExtUnset(e) \/ SocketCloses(e) \/ Evict(e)
      PROVE  AnswersFit'
    BY <1>1 DEF ExtRegister, ExtUnset, SocketCloses, Evict, AnswersFit
<1>2. ASSUME NEW e \in Exts, ExtTakeOver(e) PROVE AnswersFit'
  <2>1. previous[e] \in Exts \cup {NoExt}
      BY DEF RelayTypes
  <2>. QED  BY <1>2, <2>1, FailRoutes_Fit DEF ExtTakeOver
<1>3. ASSUME NEW e \in Exts, ExtFailRoutes(e) PROVE AnswersFit'
    BY <1>3, FailRoutes_Fit DEF ExtFailRoutes
<1>4. ASSUME NEW k \in Commands, CheckCommand(k) PROVE AnswersFit'
  <2>1. /\ step[k] = "unsent" /\ answers[k] \in Seq({"error"}) /\ k \notin routes
        /\ step'[k] \in {"checked", "settled"} /\ step' = [step EXCEPT ![k] = step'[k]]
        /\ answers' \in {answers, Answered({k}, "error")}
        /\ answers' # answers => step'[k] = "settled"
        /\ UNCHANGED <<routes, inbox>>
      BY <1>4 DEF CheckCommand, AnswersFit, RouteOwned, RelayTypes
  <2>. QED  BY <2>1, OneError_Fit
<1>5. ASSUME NEW k \in Commands, PickExtension(k) PROVE AnswersFit'
  <2>1. /\ step[k] = "checked" /\ answers[k] \in Seq({"error"}) /\ k \notin routes
        /\ step'[k] \in {"picked", "settled"} /\ step' = [step EXCEPT ![k] = step'[k]]
        /\ answers' \in {answers, Answered({k}, "error")}
        /\ answers' # answers => step'[k] = "settled"
        /\ UNCHANGED <<routes, inbox>>
      BY <1>5 DEF PickExtension, AnswersFit, RouteOwned, RelayTypes
  <2>. QED  BY <2>1, OneError_Fit
<1>6. ASSUME NEW k \in Commands, SendFails(k) PROVE AnswersFit'
  <2>1. /\ step[k] = "routed" /\ answers[k] \in Seq({"error"})
        /\ step'[k] = "settled" /\ step' = [step EXCEPT ![k] = step'[k]]
        /\ answers' = Answered({k}, "error") /\ routes' = routes \ {k}
        /\ UNCHANGED inbox
      BY <1>6 DEF SendFails, AnswersFit, RelayTypes
  <2>. QED  BY <2>1, OneError_Fit
<1>7. ASSUME NEW k \in Commands, RegisterRoute(k) PROVE AnswersFit'
    BY <1>7 DEF RegisterRoute, AnswersFit, RelayTypes
<1>8. ASSUME NEW k \in Commands, SendSucceeds(k) PROVE AnswersFit'
    BY <1>8 DEF SendSucceeds, AnswersFit, RelayTypes
<1>9. ASSUME NEW c \in Conns, ClientDetach(c) PROVE AnswersFit'
    BY <1>9 DEF ClientDetach, AnswersFit, RelayTypes
<1>10. CASE OtherRegisterWork \/ UNCHANGED vars
    BY <1>10 DEF OtherRegisterWork, relayVars, vars, AnswersFit
<1>. QED  BY <1>1, <1>2, <1>3, <1>4, <1>5, <1>6, <1>7, <1>8, <1>9, <1>10, DeliverResult_Fit
           DEF RelayNext, ExtThread, CommandStep

\* The answers are in order in every reachable state.
LEMMA AnswersFit_Always == RelaySpec => []AnswersFit
<1>1. RelayInit => AnswersFit
    BY DEF RelayInit, AnswersFit
<1>. QED  BY <1>1, AnswersFit_Step, RelayInvariant, PTL DEF RelaySpec

\* A result is the one answer that its sender gets, whatever is replaced, lost or
\* fails around it.
THEOREM ResultStandsAlone == RelaySpec => []ResultIsTheOnlyAnswer
<1>1. ASSUME NEW s \in Seq({"error"}) PROVE "result" \notin Range(s)
    BY <1>1 DEF Range
<1>2. Len(<<"result">>) = 1
    OBVIOUS
<1>3. AnswersFit => ResultIsTheOnlyAnswer
    BY <1>1, <1>2 DEF AnswersFit, ResultIsTheOnlyAnswer
<1>. QED  BY <1>3, AnswersFit_Always, PTL

\* A socket that has not said hello is nowhere on record.
Seats ==
    /\ ServedUnlessReplaced
    /\ \A e \in Exts : sock[e] = "new" => previous[e] = NoExt /\ extension # e

\* Only a companion that was never on record takes the seat.
LEMMA Seats_Step ==
    ASSUME RelayInv, Seats, [RelayNext]_vars
    PROVE  Seats'
<1>. USE DEF RelayInv, RelayTypes
<1>1. ASSUME NEW e \in Exts, ExtRegister(e) PROVE Seats'
  <2>1. /\ sock[e] = "new" /\ previous[e] = NoExt
        /\ previous' = [previous EXCEPT ![e] = extension] /\ extension' = e
        /\ sock' = [sock EXCEPT ![e] = "registered"]
      BY <1>1 DEF ExtRegister, Seats
  <2>2. ASSUME NEW f \in Exts, f # e, sock[f] \in {"registered", "serving"}
        PROVE  \E n \in Exts : previous'[n] = f
    <3>1. CASE extension = f
        BY <2>1, <3>1
    <3>2. CASE extension # f
      <4>1. PICK n \in Exts : previous[n] = f
          BY <2>2, <3>2 DEF Seats, ServedUnlessReplaced
      <4>2. n # e
          BY <2>1, <4>1, RelayAssumption
      <4>. QED  BY <2>1, <4>1, <4>2
    <3>. QED  BY <3>1, <3>2
  <2>3. ServedUnlessReplaced'
      BY <2>1, <2>2 DEF ServedUnlessReplaced
  <2>. QED  BY <2>1, <2>3 DEF Seats
<1>2. ASSUME NEW e \in Exts, ExtTakeOver(e) \/ ExtFailRoutes(e) PROVE Seats'
    BY <1>2 DEF ExtTakeOver, ExtFailRoutes, Seats, ServedUnlessReplaced
<1>3. ASSUME NEW e \in Exts, ExtUnset(e) PROVE Seats'
    BY <1>3, RelayAssumption DEF ExtUnset, Seats, ServedUnlessReplaced
<1>4. ASSUME UNCHANGED <<extension, sock, previous>> PROVE Seats'
    BY <1>4 DEF Seats, ServedUnlessReplaced
<1>5. ASSUME NEW e \in Exts, SocketCloses(e) \/ Evict(e) PROVE UNCHANGED <<extension, sock, previous>>
    BY <1>5 DEF SocketCloses, Evict
<1>6. ASSUME NEW k \in Commands, CheckCommand(k) \/ CommandStep(k) \/ DeliverResult(k)
      PROVE  UNCHANGED <<extension, sock, previous>>
    BY <1>6 DEF CheckCommand, CommandStep, PickExtension, RegisterRoute, SendSucceeds, SendFails,
       DeliverResult
<1>7. ASSUME (\E c \in Conns : ClientDetach(c)) \/ OtherRegisterWork \/ UNCHANGED vars
      PROVE  UNCHANGED <<extension, sock, previous>>
    BY <1>7 DEF ClientDetach, OtherRegisterWork, relayVars, vars
<1>. QED  BY <1>1, <1>2, <1>3, <1>4, <1>5, <1>6, <1>7 DEF RelayNext, ExtThread

\* The seats are kept by the relay.
LEMMA Seats_Always == RelaySpec => []Seats
<1>1. RelayInit => Seats
    BY RelayAssumption DEF RelayInit, Seats, ServedUnlessReplaced
<1>. QED  BY <1>1, Seats_Step, RelayInvariant, PTL DEF RelaySpec

\* A companion that leaves never unseats the one that took its place: whichever
\* is being served is the registered one, or has a successor.
THEOREM SeatsKept == RelaySpec => []ServedUnlessReplaced
<1>1. Seats => ServedUnlessReplaced
    BY DEF Seats
<1>. QED  BY <1>1, Seats_Always, PTL

-----------------------------------------------------------------------------
(* Probes of tabs, sent through the relay. *)

\* Why a probe reads as "gone": the companion found no tab, or it was lost.
ProbeInv ==
    /\ reply \in [Commands -> {"none", "here", "gone"}]
    /\ verdict \in [Commands -> {"none", "asked", "here", "gone", "unknown"}]
    /\ \A k \in Commands :
        /\ reply[k] = "gone" => Target[k] \notin openTabs
        /\ step[k] = "unsent" => via[k] = NoExt
        /\ answers[k] # <<>> /\ Head(answers[k]) = "error" => CompanionLost(k)
        /\ verdict[k] = "gone" => /\ answers[k] # <<>>
                                  /\ Target[k] \notin openTabs \/ CompanionLost(k)

\* A probe's steps are the relay's, or leave it alone.
LEMMA ProbeStep_RelayStep == ProbeNext => [RelayNext]_vars
<1>. SUFFICES ASSUME ProbeNext PROVE [RelayNext]_vars
    OBVIOUS
<1>1. ASSUME NEW k \in Commands, Ask(k) \/ CompanionAnswers(k) PROVE RelayNext
    BY <1>1 DEF Ask, CompanionAnswers, RelayNext
<1>2. ASSUME NEW k \in Commands, CompanionLooks(k) \/ ReadAnswer(k) \/ Timeout(k) PROVE UNCHANGED vars
    BY <1>2 DEF CompanionLooks, ReadAnswer, Timeout
<1>3. ASSUME NEW c \in Conns, LinkEnds(c) PROVE RelayNext
    BY <1>3 DEF LinkEnds, RelayNext
<1>4. ASSUME RelayWork PROVE RelayNext
    BY <1>4 DEF RelayWork, RelayNext, OtherRegisterWork
<1>5. ASSUME NEW t \in Tabs, UserCloses(t) PROVE UNCHANGED vars
    BY <1>5 DEF UserCloses
<1>. QED  BY <1>1, <1>2, <1>3, <1>4, <1>5 DEF ProbeNext

\* Nothing was asked and nothing answered at first.
LEMMA ProbeInit_Inv == ProbeInit => ProbeInv
BY DEF ProbeInit, RelayInit, ProbeInv

\* A companion that was lost stays lost, as long as the command's choice stands.
LEMMA LostStaysLost ==
    ASSUME RelayInv, Seats, [RelayNext]_vars, NEW k \in Commands,
           CompanionLost(k), via'[k] = via[k]
    PROVE  CompanionLost(k)'
<1>. USE DEF RelayInv, RelayTypes
<1>1. down \subseteq down'
    BY DEF RelayNext, ExtRegister, ExtThread, ExtTakeOver, ExtUnset, ExtFailRoutes, SocketCloses,
       Evict, CheckCommand, CommandStep, PickExtension, RegisterRoute, SendSucceeds, SendFails,
       DeliverResult, ClientDetach, OtherRegisterWork, relayVars, vars
<1>2. \A e \in Exts : previous[e] # NoExt => previous'[e] = previous[e]
  <2>1. ASSUME NEW e \in Exts, ExtRegister(e) PROVE \A f \in Exts : previous[f] # NoExt => previous'[f] = previous[f]
      BY <2>1 DEF ExtRegister, Seats
  <2>. QED  BY <2>1 DEF RelayNext, ExtThread, ExtTakeOver, ExtUnset, ExtFailRoutes, SocketCloses,
       Evict, CheckCommand, CommandStep, PickExtension, RegisterRoute, SendSucceeds, SendFails,
       DeliverResult, ClientDetach, OtherRegisterWork, relayVars, vars
<1>. QED  BY <1>1, <1>2 DEF CompanionLost

\* What a relay step does to the answers of a command: nothing, or it adds an
\* error for a companion that is lost, or it gives the companion's own result.
Verdict(k) ==
    /\ answers[k] = <<>> \/ via'[k] = via[k]
    /\ \/ answers'[k] = answers[k]
       \/ answers'[k] = Append(answers[k], "error") /\ CompanionLost(k)'
       \/ answers'[k] = <<"result">>

\* Every step of the relay gives each command one of these verdicts.
LEMMA StepVerdict ==
    ASSUME RelayInv, AnswersFit, ProbeInv, [RelayNext]_vars, NEW k \in Commands
    PROVE  Verdict(k)
<1>. USE DEF RelayInv, RelayTypes
<1>1. ASSUME UNCHANGED <<via, answers>> PROVE Verdict(k)
    BY <1>1 DEF Verdict
<1>2. ASSUME NEW e \in Exts, ExtTakeOver(e) PROVE Verdict(k)
  <2>1. k \in RoutesVia(previous[e]) => CompanionLost(k)'
      BY <1>2 DEF ExtTakeOver, RoutesVia, CompanionLost
  <2>. QED  BY <1>2, <2>1 DEF ExtTakeOver, Answered, Verdict
<1>3. ASSUME NEW e \in Exts, ExtFailRoutes(e) PROVE Verdict(k)
  <2>1. k \in RoutesVia(e) => CompanionLost(k)'
      BY <1>3 DEF ExtFailRoutes, RoutesVia, CompanionLost, CleanUpAfterClose
  <2>. QED  BY <1>3, <2>1 DEF ExtFailRoutes, Answered, Verdict
<1>4. ASSUME NEW j \in Commands, CheckCommand(j) PROVE Verdict(k)
  <2>1. via[j] = NoExt /\ via' = via
      BY <1>4 DEF CheckCommand, ProbeInv
  <2>2. answers' \in {answers, Answered({j}, "error")}
      BY <1>4 DEF CheckCommand
  <2>. QED  BY <2>1, <2>2 DEF Answered, Verdict, CompanionLost
<1>5. ASSUME NEW j \in Commands, PickExtension(j) PROVE Verdict(k)
  <2>1. /\ answers[j] = <<>> /\ via' = [via EXCEPT ![j] = extension]
        /\ answers' = IF extension = NoExt THEN Answered({j}, "error") ELSE answers
      BY <1>5 DEF PickExtension, AnswersFit
  <2>2. CASE extension = NoExt /\ j = k
      BY <2>1, <2>2 DEF Answered, Verdict, CompanionLost
  <2>3. CASE extension # NoExt \/ j # k
      BY <2>1, <2>3 DEF Answered, Verdict
  <2>. QED  BY <2>2, <2>3
<1>6. ASSUME NEW j \in Commands, SendFails(j) PROVE Verdict(k)
    BY <1>6 DEF SendFails, Answered, Verdict, CompanionLost
<1>7. ASSUME NEW j \in Commands, DeliverResult(j) PROVE Verdict(k)
  <2>1. j \in routes => Append(answers[j], "result") = <<"result">>
      BY Errors DEF AnswersFit
  <2>. QED  BY <1>7, <2>1 DEF DeliverResult, Answered, Verdict
<1>8. ASSUME NEW e \in Exts, ExtRegister(e) \/ ExtUnset(e) \/ SocketCloses(e) \/ Evict(e)
      PROVE  UNCHANGED <<via, answers>>
    BY <1>8 DEF ExtRegister, ExtUnset, SocketCloses, Evict
<1>9. ASSUME NEW j \in Commands, RegisterRoute(j) \/ SendSucceeds(j) PROVE UNCHANGED <<via, answers>>
    BY <1>9 DEF RegisterRoute, SendSucceeds
<1>10. ASSUME (\E c \in Conns : ClientDetach(c)) \/ OtherRegisterWork \/ UNCHANGED vars
       PROVE  UNCHANGED <<via, answers>>
    BY <1>10 DEF ClientDetach, OtherRegisterWork, relayVars, vars
<1>. QED  BY <1>1, <1>2, <1>3, <1>4, <1>5, <1>6, <1>7, <1>8, <1>9, <1>10
           DEF RelayNext, ExtThread, CommandStep

\* Once a command was answered it stays answered, by the same companion, and the
\* cause of a first error stands.
LEMMA AnswersStand ==
    ASSUME RelayInv, Seats, AnswersFit, ProbeInv, [RelayNext]_vars, NEW k \in Commands
    PROVE  /\ answers[k] # <<>> => answers'[k] # <<>> /\ via'[k] = via[k]
           /\ answers'[k] # <<>> /\ Head(answers'[k]) = "error" => CompanionLost(k)'
<1>1. Verdict(k)
    BY StepVerdict
<1>2. answers[k] \in Seq({"result", "error"})
    BY DEF RelayInv, RelayTypes
<1>3. /\ Append(answers[k], "error") # <<>> /\ <<"result">> # <<>>
      /\ Head(<<"result">>) # "error"
    BY <1>2
<1>4. answers[k] # <<>> => answers'[k] # <<>> /\ via'[k] = via[k]
    BY <1>1, <1>3 DEF Verdict
<1>5. ASSUME answers'[k] # <<>>, Head(answers'[k]) = "error" PROVE CompanionLost(k)'
  <2>1. CASE answers'[k] = answers[k]
    <3>1. CompanionLost(k) /\ via'[k] = via[k]
        BY <1>4, <1>5, <2>1 DEF ProbeInv
    <3>. QED  BY <3>1, LostStaysLost
  <2>. QED  BY <1>1, <1>3, <1>5, <2>1 DEF Verdict
<1>. QED  BY <1>4, <1>5

\* So the cause of a condemned tab is kept by every step.
LEMMA ProbeInv_Step ==
    ASSUME RelayInv, Seats, AnswersFit, ProbeInv, [ProbeNext]_<<vars, probeVars>>
    PROVE  ProbeInv'
<1>1. [RelayNext]_vars
    BY ProbeStep_RelayStep
<1>2. openTabs' \subseteq openTabs
    BY DEF ProbeNext, UserCloses, Ask, CompanionLooks, CompanionAnswers, ReadAnswer, Timeout,
       LinkEnds, RelayWork, probeVars
<1>0. /\ reply' \in [Commands -> {"none", "here", "gone"}]
      /\ verdict' \in [Commands -> {"none", "asked", "here", "gone", "unknown"}]
    BY DEF ProbeNext, UserCloses, Ask, CompanionLooks, CompanionAnswers, ReadAnswer, Timeout,
       LinkEnds, RelayWork, probeVars, ProbeInv
<1>. SUFFICES ASSUME NEW k \in Commands
              PROVE  /\ reply'[k] = "gone" => Target[k] \notin openTabs'
                     /\ step'[k] = "unsent" => via'[k] = NoExt
                     /\ answers'[k] # <<>> /\ Head(answers'[k]) = "error" => CompanionLost(k)'
                     /\ verdict'[k] = "gone" =>
                            /\ answers'[k] # <<>>
                            /\ Target[k] \notin openTabs' \/ CompanionLost(k)'
    BY <1>0 DEF ProbeInv
<1>3. reply'[k] = "gone" => Target[k] \notin openTabs'
  <2>1. \/ reply'[k] = reply[k]
        \/ openTabs' = openTabs /\ reply'[k] = IF Target[k] \in openTabs THEN "here" ELSE "gone"
      BY DEF ProbeNext, UserCloses, Ask, CompanionLooks, CompanionAnswers, ReadAnswer, Timeout,
         LinkEnds, RelayWork, probeVars, ProbeInv
  <2>. QED  BY <1>2, <2>1 DEF ProbeInv
<1>4. step'[k] = "unsent" => via'[k] = NoExt
  <2>1. step'[k] = "unsent" => step[k] = "unsent" /\ via'[k] = via[k]
      BY <1>1 DEF RelayInv, RelayTypes, RelayNext, ExtRegister, ExtThread, ExtTakeOver, ExtUnset,
         ExtFailRoutes, SocketCloses, Evict, CheckCommand, CommandStep, PickExtension,
         RegisterRoute, SendSucceeds, SendFails, DeliverResult, ClientDetach,
         OtherRegisterWork, relayVars, vars
  <2>. QED  BY <2>1 DEF ProbeInv
<1>5. /\ answers[k] # <<>> => answers'[k] # <<>> /\ via'[k] = via[k]
      /\ answers'[k] # <<>> /\ Head(answers'[k]) = "error" => CompanionLost(k)'
    BY <1>1, AnswersStand
<1>6. ASSUME verdict'[k] = "gone"
      PROVE  answers'[k] # <<>> /\ (Target[k] \notin openTabs' \/ CompanionLost(k)')
  <2>1. CASE verdict[k] = "gone"
    <3>1. CompanionLost(k) => CompanionLost(k)'
        BY <1>1, <1>5, <2>1, LostStaysLost DEF ProbeInv
    <3>. QED  BY <1>2, <1>5, <2>1, <3>1 DEF ProbeInv
  <2>2. CASE verdict[k] # "gone"
    <3>1. ReadAnswer(k)
      <4>1. ASSUME NEW j \in Commands, j # k, ReadAnswer(j) PROVE verdict'[k] = verdict[k]
          BY <4>1 DEF ReadAnswer, ProbeInv
      <4>. QED  BY <1>6, <2>2, <4>1 DEF ProbeNext, UserCloses, Ask, CompanionLooks,
                CompanionAnswers, Timeout, LinkEnds, RelayWork, probeVars, ProbeInv
    <3>2. /\ answers[k] # <<>> /\ UNCHANGED <<vars, openTabs>>
          /\ Head(answers[k]) # "error" => reply[k] = "gone"
        BY <1>6, <3>1 DEF ReadAnswer, ProbeInv
    <3>. QED  BY <1>5, <3>2 DEF ProbeInv, vars, relayVars
  <2>. QED  BY <2>1, <2>2
<1>. QED  BY <1>3, <1>4, <1>5, <1>6

\* The relay inside the probes keeps what was shown of it.
LEMMA ProbesKeepRelay == ProbeSpec => RelaySpec
<1>1. ProbeInit => RelayInit
    BY DEF ProbeInit
<1>2. [ProbeNext]_<<vars, probeVars>> => [RelayNext]_vars
    BY ProbeStep_RelayStep
<1>. QED  BY <1>1, <1>2, PTL DEF ProbeSpec, RelaySpec

\* The cause of a condemned tab is known in every reachable state.
LEMMA ProbeInv_Always == ProbeSpec => []ProbeInv
<1>1. RelayInv /\ Seats /\ AnswersFit /\ ProbeInv /\ [ProbeNext]_<<vars, probeVars>> => ProbeInv'
    BY ProbeInv_Step
<1>. QED  BY <1>1, ProbeInit_Inv, ProbesKeepRelay, RelayInvariant, Seats_Always,
          AnswersFit_Always, PTL DEF ProbeSpec

\* A session's tab is condemned because the companion found it closed, or because
\* that companion was lost; never by a time-out or by a link that ended.
THEOREM CondemnedWithCause == ProbeSpec => []CondemnedForCause
<1>1. ProbeInv => CondemnedForCause
    BY DEF ProbeInv, CondemnedForCause
<1>. QED  BY <1>1, ProbeInv_Always, PTL
=============================================================================
