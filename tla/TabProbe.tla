-------------------------------- MODULE TabProbe --------------------------------
(***************************************************************************)
(* "Is this session's tab still open?"  At the session cap a server asks   *)
(* it of every session and frees the slots of the tabs that are gone       *)
(* (browser_tools._drop_sessions_whose_tab_is_gone).  The question is a    *)
(* tabs.get relayed by the daemon; what the server makes of the answer is  *)
(* decided by ChromeBridge.request and _tab_still_exists.                  *)
(***************************************************************************)
EXTENDS BridgeRelay

VARIABLES
    openTabs,    \* the tabs that are open in Chrome
    reply,       \* reply[k]: what the companion found when it ran k
    verdict      \* verdict[k]: what _tab_still_exists made of probe k

probeVars == <<openTabs, reply, verdict>>

ProbeInit ==
    /\ RelayInit
    /\ openTabs = Tabs
    /\ reply = [k \in Commands |-> "none"]
    /\ verdict = [k \in Commands |-> "none"]

\* The user closes a tab by hand.
UserCloses(t) ==
    /\ t \in openTabs
    /\ openTabs' = openTabs \ {t}
    /\ UNCHANGED <<vars, reply, verdict>>

\* request refuses to ask while it believes that no companion is connected.  The
\* daemon's pushes lag, so it may believe in one that has left since.
Ask(k) ==
    /\ \E e \in Exts : sock[e] # "new"
    /\ CheckCommand(k)
    /\ verdict' = [verdict EXCEPT ![k] = "asked"]
    /\ UNCHANGED <<openTabs, reply>>

\* tabs.get in the companion: the tab, or "No tab with id".
CompanionLooks(k) ==
    /\ k \in inbox /\ reply[k] = "none"
    /\ reply' = [reply EXCEPT ![k] = IF Target[k] \in openTabs THEN "here" ELSE "gone"]
    /\ UNCHANGED <<vars, openTabs, verdict>>

CompanionAnswers(k) ==
    /\ reply[k] # "none"
    /\ DeliverResult(k)
    /\ UNCHANGED probeVars

\* An error frame raises ChromeBridgeError in the client, whoever wrote it, and
\* _tab_still_exists takes that error for the companion's "No tab".
ReadAnswer(k) ==
    /\ verdict[k] = "asked" /\ answers[k] # <<>>
    /\ verdict' = [verdict EXCEPT ![k] = IF Head(answers[k]) = "error" THEN "gone" ELSE reply[k]]
    /\ UNCHANGED <<vars, openTabs, reply>>

\* Mutant: a question that nobody answered in time condemns the tab.
TimeoutCondemns(k) ==
    /\ verdict[k] = "asked"
    /\ verdict' = [verdict EXCEPT ![k] = "gone"]
    /\ UNCHANGED <<vars, openTabs, reply>>

\* Two seconds pass: a TimeoutError, which proves nothing either.
Timeout(k) ==
    /\ verdict[k] = "asked"
    /\ verdict' = [verdict EXCEPT ![k] = "unknown"]
    /\ UNCHANGED <<vars, openTabs, reply>>

\* The link to the daemon ends: _fail_pending marks a transport failure, which
\* is raised as ChromeBridgeUnavailable and proves nothing.
LinkEnds(c) ==
    /\ ClientDetach(c)
    /\ verdict' = [k \in Commands |->
                     IF Sender[k] = c /\ verdict[k] = "asked" THEN "unknown" ELSE verdict[k]]
    /\ UNCHANGED <<openTabs, reply>>

\* The relay goes about its work.
RelayWork ==
    /\ \/ \E c \in Conns : Attach(c) /\ UNCHANGED relayVars
       \/ \E e \in Exts : ExtRegister(e) \/ ExtThread(e) \/ SocketCloses(e) \/ Evict(e)
       \/ \E k \in Commands : CommandStep(k)
    /\ UNCHANGED probeVars

ProbeNext ==
    \/ \E t \in Tabs : UserCloses(t)
    \/ \E k \in Commands :
          Ask(k) \/ CompanionLooks(k) \/ CompanionAnswers(k) \/ ReadAnswer(k) \/ Timeout(k)
    \/ \E c \in Conns : LinkEnds(c)
    \/ RelayWork

ProbeSpec == ProbeInit /\ [][ProbeNext]_<<vars, probeVars>>

\* The daemon's threads that can run do run, and an eviction thread closes its
\* socket.  When a companion answers, when it leaves, and when the server asks is
\* not the daemon's to say.
ProbeFairSpec ==
    /\ ProbeSpec
    /\ \A e \in Exts : /\ WF_<<vars, probeVars>>(ExtThread(e) /\ UNCHANGED probeVars)
                       /\ WF_<<vars, probeVars>>(Evict(e) /\ UNCHANGED probeVars)
    /\ \A k \in Commands : WF_<<vars, probeVars>>(CommandStep(k) /\ UNCHANGED probeVars)

-----------------------------------------------------------------------------

\* A session is freed for a closed tab only if the tab is closed: a companion
\* that blinks, or is not there to be asked, is no evidence about any tab.
CondemnedTabsAreGone == \A k \in Commands : verdict[k] = "gone" => Target[k] \notin openTabs

\* The companion of k was not there, went away, or was replaced by a newer one.
CompanionLost(k) ==
    via[k] = NoExt \/ via[k] \in down \/ \E e \in Exts : previous[e] = via[k]

\* While the companion that was asked stays, its tab is condemned only if closed.
CondemnedForCause ==
    \A k \in Commands : verdict[k] = "gone" => Target[k] \notin openTabs \/ CompanionLost(k)
=============================================================================
