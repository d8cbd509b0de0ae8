------------------------------ MODULE SessionTable ------------------------------
(***************************************************************************)
(* The browser sessions of one server process (browser_tools.py): the      *)
(* table of live sessions, the names and tabs that are reserved while a    *)
(* session is being created, and the claims and tabs in Chrome that go     *)
(* with them.  Tool calls run on worker threads.  A thread holds           *)
(* _sessions_lock only for the steps marked "Under the lock"; every        *)
(* conversation with Chrome or the bridge daemon happens outside it, and   *)
(* some of them under the lock of one session.                             *)
(*                                                                         *)
(* The sessions are those of profile_mode "current", on tabs of the user's *)
(* own Chrome; the link to the daemon stands throughout (ClaimBook is      *)
(* about the link) and one browser run lasts.  Chrome may replace a tab    *)
(* under its page: the companion then redirects commands on the old number *)
(* and says so (tab-follow.js), and the session follows when it is next    *)
(* asked for (_follow_replaced_tab).                                       *)
(***************************************************************************)
EXTENDS Naturals, FiniteSets

CONSTANTS
    Workers,     \* threads that run tool calls
    Names,       \* session ids
    Tabs,        \* tab ids, each of them given out once by Chrome
    UserTabs,    \* the tabs that may be open at the start: the user's, or parked ones
    Objs,        \* session objects; one that nobody refers to is used again
    Cap,         \* effective_max_sessions()
    NoObj, NoTab, NoName, NoWorker

ASSUME TableAssumption ==
    /\ IsFiniteSet(Names) /\ Cap \in Nat
    /\ UserTabs \subseteq Tabs
    /\ NoObj \notin Objs /\ NoTab \notin Tabs /\ NoName \notin Names /\ NoWorker \notin Workers

VARIABLES
    sessions,    \* _sessions: name -> object
    pending,     \* _pending_sessions
    pendingTabs, \* _pending_current_tab_ids
    tabOf,       \* the tab each session object drives
    owns,        \* the objects whose tab the server opened (owns_tab)
    fresh,       \* the objects used within the idle TTL (last_used)
    lockedBy,    \* the thread inside each object's lock
    open, seen,  \* the tabs that are open, and those that ever were
    now,         \* per tab number, the tab its page is in: the follower's record
    followed,    \* ChromeBridge._followed: old tab -> the tab a command was redirected to
    owner,       \* per tab, what the daemon's register says: free, mine or theirs
    ours,        \* open tabs that the server opened and is to close
    crossed,     \* tabs whose claim one thread gave up while another relied on it
    stray,       \* tabs that claim and session parted at: replaced, or followed, in between
    pc, name, asked, swept, drv, claimed, obj, todo, back   \* locals of each thread

tableVars == <<sessions, pending, pendingTabs>>
objVars   == <<tabOf, owns, fresh, lockedBy>>
tabVars   == <<open, seen, now, followed, owner, ours, crossed, stray>>
argVars   == <<name, asked, swept>>
stepVars  == <<drv, claimed, obj, todo, back>>
vars      == <<tableVars, objVars, tabVars, pc, argVars, stepVars>>

Live == {n \in Names : sessions[n] # NoObj}
LiveObjs == {sessions[n] : n \in Live}

\* The steps at which a thread has its name reserved.
Making == {"claim", "driver", "claimOpened", "file", "giveBack", "abandon", "unfile"}

Makes(w, n) == pc[w] \in Making /\ name[w] = n

\* The steps at which a thread tears a session down that it took out of the table.
Tearing == {"shutWait", "tearTab", "tearRelease"}

\* Mutant: the sessions that are being made are left out of the count.
FullOfLive == Cardinality(Live) >= Cap

\* len(_sessions) + len(_pending_sessions) >= cap
AtCap == Cardinality(Live) + Cardinality(pending) >= Cap

\* The tab that a command on number t reaches: the companion redirects it.
Page(t) == IF t = NoTab THEN NoTab ELSE now[t]

\* An answer to a command on number t says so when it was redirected.
Reported(t) == IF Page(t) # t THEN [followed EXCEPT ![t] = now[t]] ELSE followed

\* What take_followed finds for the number t.
ReportOn(t) == IF t = NoTab THEN NoTab ELSE followed[t]

\* A tab that a session drives or that one is about to attach to.
TabTaken(t) == t \in pendingTabs \/ \E o \in LiveObjs : tabOf[o] = t

\* A session object that nothing refers to any more.
Unused(o) == o \notin LiveObjs /\ \A w \in Workers : obj[w] # o /\ o \notin todo[w]

TableInit ==
    /\ sessions = [n \in Names |-> NoObj]
    /\ pending = {} /\ pendingTabs = {}
    /\ tabOf = [o \in Objs |-> NoTab] /\ owns = {} /\ fresh = {}
    /\ lockedBy = [o \in Objs |-> NoWorker]
    /\ open \in SUBSET UserTabs /\ seen = open /\ ours = {} /\ crossed = {} /\ stray = {}
    /\ now = [t \in Tabs |-> t] /\ followed = [t \in Tabs |-> NoTab]
    /\ owner = [t \in Tabs |-> "free"]
    /\ pc = [w \in Workers |-> "idle"]
    /\ name = [w \in Workers |-> NoName] /\ asked = [w \in Workers |-> NoTab]
    /\ swept = [w \in Workers |-> FALSE]
    /\ drv = [w \in Workers |-> NoTab] /\ claimed = [w \in Workers |-> NoTab]
    /\ obj = [w \in Workers |-> NoObj] /\ todo = [w \in Workers |-> {}]
    /\ back = [w \in Workers |-> "idle"]

Goto(w, label) == pc' = [pc EXCEPT ![w] = label]

\* The thread returns from its call and its locals are gone.
Return(w) ==
    /\ Goto(w, "idle")
    /\ drv' = [drv EXCEPT ![w] = NoTab] /\ claimed' = [claimed EXCEPT ![w] = NoTab]
    /\ obj' = [obj EXCEPT ![w] = NoObj] /\ todo' = [todo EXCEPT ![w] = {}]
    /\ back' = [back EXCEPT ![w] = "idle"]
    /\ name' = [name EXCEPT ![w] = NoName] /\ asked' = [asked EXCEPT ![w] = NoTab]
    /\ swept' = [swept EXCEPT ![w] = FALSE]

-----------------------------------------------------------------------------
\* _create_session: the call and its reservation.

\* A call to open a session named n, on tab t of the user's or (NoTab) on a new one.
Call(w, n, t) ==
    /\ pc[w] = "idle"
    /\ Goto(w, "enter")
    /\ name' = [name EXCEPT ![w] = n]
    /\ asked' = [asked EXCEPT ![w] = t]
    /\ swept' = [swept EXCEPT ![w] = FALSE]
    /\ UNCHANGED <<tableVars, objVars, tabVars, stepVars>>

\* Under the lock.  The name has its session, or the call is refused.
EnterAndReturn(w) ==
    /\ pc[w] = "enter" /\ name[w] \notin pending
    /\ \/ name[w] \in Live
       \/ AtCap /\ swept[w]
       \/ ~AtCap /\ asked[w] # NoTab /\ TabTaken(asked[w])
    /\ Return(w)
    /\ UNCHANGED <<tableVars, objVars, tabVars>>

\* Under the lock.  The table is full: sweep it, once.
EnterAndSweep(w) ==
    /\ pc[w] = "enter" /\ name[w] \notin pending /\ name[w] \notin Live
    /\ AtCap /\ ~swept[w]
    /\ todo' = [todo EXCEPT ![w] = LiveObjs]
    /\ Goto(w, "probe")
    /\ UNCHANGED <<tableVars, objVars, tabVars, argVars, drv, claimed, obj, back>>

\* Under the lock.  The name, and the tab if one was asked for, are reserved.
Reserve(w) ==
    /\ pc[w] = "enter" /\ name[w] \notin pending /\ name[w] \notin Live
    /\ ~AtCap
    /\ asked[w] # NoTab => ~TabTaken(asked[w])
    /\ pending' = pending \cup {name[w]}
    /\ pendingTabs' = pendingTabs \cup ({asked[w]} \ {NoTab})
    /\ Goto(w, IF asked[w] = NoTab THEN "driver" ELSE "claim")
    /\ UNCHANGED <<sessions, objVars, tabVars, argVars, stepVars>>

-----------------------------------------------------------------------------
\* _create_session: the session itself, with no lock held.

\* The daemon grants the tab, again if this process has it; another agent's is refused.
Claim(w) ==
    /\ pc[w] = "claim"
    /\ IF owner[asked[w]] = "theirs"
       THEN Goto(w, "giveBack") /\ UNCHANGED <<owner, claimed>>
       ELSE /\ owner' = [owner EXCEPT ![asked[w]] = "mine"]
            /\ claimed' = [claimed EXCEPT ![w] = asked[w]]
            /\ Goto(w, "driver")
    /\ UNCHANGED <<tableVars, objVars, open, seen, now, followed, ours, crossed, stray, argVars,
         drv, obj, todo, back>>

\* create_driver: onto the tab that was asked for, if it is there.  The driver
\* takes the number in the answer, which is not the one that was claimed if
\* Chrome has replaced the tab since...
DriverOnTab(w) ==
    /\ pc[w] = "driver" /\ Page(asked[w]) \in open
    /\ drv' = [drv EXCEPT ![w] = Page(asked[w])]
    /\ followed' = Reported(asked[w])
    /\ stray' = stray \cup ({Page(asked[w])} \ {asked[w]})
    /\ Goto(w, "file")
    /\ UNCHANGED <<tableVars, objVars, open, seen, now, owner, ours, crossed, argVars,
                   claimed, obj, todo, back>>

\* ...or onto a tab of its own.
DriverOnNewTab(w, t) ==
    /\ pc[w] = "driver" /\ asked[w] = NoTab /\ t \notin seen
    /\ open' = open \cup {t} /\ seen' = seen \cup {t} /\ ours' = ours \cup {t}
    /\ drv' = [drv EXCEPT ![w] = t]
    /\ Goto(w, "claimOpened")
    /\ UNCHANGED <<tableVars, objVars, now, followed, owner, crossed, stray, argVars, claimed, obj,
         todo, back>>

\* No driver: the tab is gone, or Chrome does not open one.
DriverFails(w) ==
    /\ pc[w] = "driver"
    /\ Goto(w, "giveBack")
    /\ UNCHANGED <<tableVars, objVars, tabVars, argVars, stepVars>>

\* The new tab is filed; another agent may have seen it and been faster.
ClaimOpened(w) ==
    /\ pc[w] = "claimOpened"
    /\ IF owner[drv[w]] = "theirs"
       THEN Goto(w, "giveBack") /\ UNCHANGED <<owner, claimed>>
       ELSE /\ owner' = [owner EXCEPT ![drv[w]] = "mine"]
            /\ claimed' = [claimed EXCEPT ![w] = drv[w]]
            /\ Goto(w, "file")
    /\ UNCHANGED <<tableVars, objVars, open, seen, now, followed, ours, crossed, stray, argVars,
         drv, obj, todo, back>>

\* Under the lock.  The session takes its place and the reservations end.
File(w, o) ==
    /\ pc[w] = "file" /\ Unused(o)
    /\ sessions' = [sessions EXCEPT ![name[w]] = o]
    /\ tabOf' = [tabOf EXCEPT ![o] = drv[w]]
    /\ owns' = IF asked[w] = NoTab THEN owns \cup {o} ELSE owns \ {o}
    /\ fresh' = fresh \cup {o}
    /\ pending' = pending \ {name[w]}
    /\ pendingTabs' = pendingTabs \ {asked[w]}
    /\ Return(w)
    /\ UNCHANGED <<lockedBy, tabVars>>

\* Somebody else in this process, w apart, relies on the claim of tab t.
Relied(w, t) ==
    \/ \E o \in LiveObjs : tabOf[o] = t
    \/ \E v \in Workers \ {w} : t \in {claimed[v], drv[v]}

\* release_tab: the daemon frees the tab if this process holds it.  What went
\* wrong on the tab is over when nobody relies on it.
ReleaseOf(w, t) ==
    IF t = NoTab THEN UNCHANGED <<owner, crossed, stray>>
    ELSE /\ owner' = IF owner[t] = "mine" THEN [owner EXCEPT ![t] = "free"] ELSE owner
         /\ crossed' = IF Relied(w, t) THEN crossed \cup {t} ELSE crossed \ {t}
         /\ stray' = IF Relied(w, t) THEN stray ELSE stray \ {t}

\* Mutant: a creation that failed keeps the tab it had claimed.
GiveBackNothing(w) ==
    /\ pc[w] = "giveBack"
    /\ claimed' = [claimed EXCEPT ![w] = NoTab]
    /\ Goto(w, "abandon")
    /\ UNCHANGED <<tableVars, objVars, tabVars, argVars, drv, obj, todo, back>>

\* The creation failed: the claim goes back...
GiveBack(w) ==
    /\ pc[w] = "giveBack"
    /\ ReleaseOf(w, claimed[w])
    /\ claimed' = [claimed EXCEPT ![w] = NoTab]
    /\ Goto(w, "abandon")
    /\ UNCHANGED <<tableVars, objVars, open, seen, now, followed, ours, argVars,
                   drv, obj, todo, back>>

\* Mutant: a borrowed tab and one's own are both left standing.
AbandonLeavingTab(w) ==
    /\ pc[w] = "abandon"
    /\ drv' = [drv EXCEPT ![w] = NoTab]
    /\ Goto(w, "unfile")
    /\ UNCHANGED <<tableVars, objVars, tabVars, argVars, claimed, obj, todo, back>>

\* ...the tab is closed if the server opened it (_abandon_driver)...
Abandon(w) ==
    /\ pc[w] = "abandon"
    /\ open' = IF asked[w] = NoTab THEN open \ {Page(drv[w])} ELSE open
    /\ ours' = ours \cap open'
    /\ drv' = [drv EXCEPT ![w] = NoTab]
    /\ Goto(w, "unfile")
    /\ UNCHANGED <<tableVars, objVars, seen, now, followed, owner, crossed, stray, argVars,
                   claimed, obj, todo, back>>

\* Mutant: only a session that came to be clears its reservation.
UnfileKeepingName(w) ==
    /\ pc[w] = "unfile"
    /\ pendingTabs' = pendingTabs \ {asked[w]}
    /\ Return(w)
    /\ UNCHANGED <<sessions, pending, objVars, tabVars>>

\* ...and, under the lock, the reservations end.
Unfile(w) ==
    /\ pc[w] = "unfile"
    /\ pending' = pending \ {name[w]}
    /\ pendingTabs' = pendingTabs \ {asked[w]}
    /\ Return(w)
    /\ UNCHANGED <<sessions, objVars, tabVars>>

-----------------------------------------------------------------------------
\* The sweeps at the cap, and close_session.

Lock(w, o)   == lockedBy[o] = NoWorker /\ lockedBy' = [lockedBy EXCEPT ![o] = w]
Unlock(w, o) == lockedBy' = [lockedBy EXCEPT ![o] = NoWorker]

\* The sessions without o, if o still has its place.
Without(o) == [n \in Names |-> IF sessions[n] = o THEN NoObj ELSE sessions[n]]

\* _drop_sessions_whose_tab_is_gone asks Chrome about one candidate's tab.  A
\* session that a thread is inside of is passed over.
ProbeKeeps(w, o) ==
    /\ pc[w] = "probe" /\ o \in todo[w]
    /\ \/ lockedBy[o] # NoWorker /\ followed' = followed
       \/ Page(tabOf[o]) \in open /\ followed' = Reported(tabOf[o])
    /\ todo' = [todo EXCEPT ![w] = @ \ {o}]
    /\ UNCHANGED <<tableVars, objVars, open, seen, now, owner, ours, crossed, stray, pc, argVars,
                   drv, claimed, obj, back>>

ProbeCondemns(w, o) ==
    /\ pc[w] = "probe" /\ o \in todo[w]
    /\ Lock(w, o) /\ Page(tabOf[o]) \notin open
    /\ obj' = [obj EXCEPT ![w] = o]
    /\ todo' = [todo EXCEPT ![w] = @ \ {o}]
    /\ back' = [back EXCEPT ![w] = "probe"]
    /\ Goto(w, "dropGone")
    /\ UNCHANGED <<tableVars, tabOf, owns, fresh, tabVars, argVars, drv, claimed>>

\* Under the lock.  Only the very session that was probed is dropped.
DropGone(w) ==
    /\ pc[w] = "dropGone"
    /\ IF obj[w] \in LiveObjs
       THEN sessions' = Without(obj[w]) /\ Goto(w, "tearRelease") /\ UNCHANGED <<lockedBy, obj>>
       ELSE /\ Goto(w, "probe") /\ Unlock(w, obj[w])
            /\ obj' = [obj EXCEPT ![w] = NoObj]
            /\ UNCHANGED sessions
    /\ UNCHANGED <<pending, pendingTabs, tabOf, owns, fresh, tabVars, argVars,
                   drv, claimed, todo, back>>

\* _drop_idle_sessions lists, under the lock, the sessions idle past their time.
ListIdle(w) ==
    /\ pc[w] = "probe" /\ todo[w] = {}
    /\ todo' = [todo EXCEPT ![w] = LiveObjs \ fresh]
    /\ Goto(w, "reap")
    /\ UNCHANGED <<tableVars, objVars, tabVars, argVars, drv, claimed, obj, back>>

\* A candidate that a thread is inside of, or that has gone, is passed over.
ReapSkips(w, o) ==
    /\ pc[w] = "reap" /\ o \in todo[w]
    /\ lockedBy[o] # NoWorker \/ o \notin LiveObjs
    /\ todo' = [todo EXCEPT ![w] = @ \ {o}]
    /\ UNCHANGED <<tableVars, objVars, tabVars, pc, argVars, drv, claimed, obj, back>>

\* Under the lock.  Any other candidate is dropped.
ReapDrops(w, o) ==
    /\ pc[w] = "reap" /\ o \in todo[w] /\ o \in LiveObjs
    /\ Lock(w, o)
    /\ sessions' = Without(o)
    /\ obj' = [obj EXCEPT ![w] = o]
    /\ todo' = [todo EXCEPT ![w] = @ \ {o}]
    /\ back' = [back EXCEPT ![w] = "reap"]
    /\ Goto(w, "tearTab")
    /\ UNCHANGED <<pending, pendingTabs, tabOf, owns, fresh, tabVars, argVars, drv, claimed>>

\* Back to the reservation, which does not sweep a second time.
SweepDone(w) ==
    /\ pc[w] = "reap" /\ todo[w] = {}
    /\ swept' = [swept EXCEPT ![w] = TRUE]
    /\ back' = [back EXCEPT ![w] = "idle"]
    /\ Goto(w, "enter")
    /\ UNCHANGED <<tableVars, objVars, tabVars, name, asked, drv, claimed, obj, todo>>

\* close_session: under the lock the session leaves the table...
Close(w, n) ==
    /\ pc[w] = "idle" /\ n \in Live
    /\ sessions' = [sessions EXCEPT ![n] = NoObj]
    /\ obj' = [obj EXCEPT ![w] = sessions[n]]
    /\ Goto(w, "shutWait")
    /\ UNCHANGED <<pending, pendingTabs, objVars, tabVars, argVars, drv, claimed, todo, back>>

\* ...and is torn down when nobody is inside of it.
ShutDown(w) ==
    /\ pc[w] = "shutWait"
    /\ Lock(w, obj[w])
    /\ Goto(w, "tearTab")
    /\ UNCHANGED <<tableVars, tabOf, owns, fresh, tabVars, argVars, stepVars>>

\* A tab that the server opened is closed, one of the user's is handed back.
TearTab(w) ==
    /\ pc[w] = "tearTab"
    /\ open' = IF obj[w] \in owns THEN open \ {Page(tabOf[obj[w]])} ELSE open
    /\ ours' = ours \cap open'
    /\ Goto(w, "tearRelease")
    /\ UNCHANGED <<tableVars, objVars, seen, now, followed, owner, crossed, stray, argVars,
         stepVars>>

\* The claim goes back and the thread leaves the session, which is forgotten.
TearRelease(w) ==
    /\ pc[w] = "tearRelease"
    /\ ReleaseOf(w, tabOf[obj[w]])
    /\ Unlock(w, obj[w])
    /\ tabOf' = [tabOf EXCEPT ![obj[w]] = NoTab]
    /\ owns' = owns \ {obj[w]} /\ fresh' = fresh \ {obj[w]}
    /\ obj' = [obj EXCEPT ![w] = NoObj]
    /\ Goto(w, back[w])
    /\ UNCHANGED <<tableVars, open, seen, now, followed, ours, argVars,
                   drv, claimed, todo, back>>

-----------------------------------------------------------------------------
\* The sessions' users.

\* _get_session, on behalf of an action that then waits for the session's lock.
Get(w, n) ==
    /\ pc[w] = "idle" /\ n \in Live
    /\ ReportOn(tabOf[sessions[n]]) = NoTab
    /\ fresh' = fresh \cup {sessions[n]}
    /\ name' = [name EXCEPT ![w] = n]
    /\ obj' = [obj EXCEPT ![w] = sessions[n]]
    /\ Goto(w, "useWait")
    /\ UNCHANGED <<tableVars, tabOf, owns, lockedBy, tabVars, asked, swept, drv, claimed, todo,
         back>>

\* It finds a report that the session's tab was replaced, and takes it; and, under
\* the lock, whether another session drives the new one (_follow_replaced_tab).
GetReported(w, n) ==
    LET o == sessions[n]
        t == tabOf[o]
    IN  /\ pc[w] = "idle" /\ n \in Live
        /\ ReportOn(t) # NoTab
        /\ followed' = [followed EXCEPT ![t] = NoTab]
        /\ name' = [name EXCEPT ![w] = n]
        /\ obj' = [obj EXCEPT ![w] = o]
        /\ drv' = [drv EXCEPT ![w] = t] /\ asked' = [asked EXCEPT ![w] = followed[t]]
        /\ Goto(w, IF \E p \in LiveObjs \ {o} : tabOf[p] = followed[t] THEN "refused"
             ELSE "followWait")
        /\ UNCHANGED <<tableVars, objVars, open, seen, now, owner, ours, crossed, stray, swept,
                       claimed, todo, back>>

Use(w) ==
    /\ pc[w] = "useWait"
    /\ Lock(w, obj[w])
    /\ Goto(w, "using")
    /\ UNCHANGED <<tableVars, tabOf, owns, fresh, tabVars, argVars, stepVars>>

\* The action's commands reached the session's page.
Used(w) ==
    /\ pc[w] = "using"
    /\ followed' = Reported(tabOf[obj[w]])
    /\ Unlock(w, obj[w])
    /\ Return(w)
    /\ UNCHANGED <<tableVars, tabOf, owns, fresh, open, seen, now, owner, ours, crossed, stray>>

\* Or they failed, because no page is there any more.
UsedStale(w) ==
    /\ pc[w] = "using" /\ Page(tabOf[obj[w]]) \notin open
    /\ Unlock(w, obj[w])
    /\ obj' = [obj EXCEPT ![w] = NoObj]
    /\ Goto(w, "stale")
    /\ UNCHANGED <<tableVars, tabOf, owns, fresh, tabVars, argVars, drv, claimed, todo, back>>

-----------------------------------------------------------------------------
\* A session whose tab is gone or was replaced.

\* The object o is forgotten by its last user.
Forget(w, o) ==
    IF \E v \in Workers \ {w} : obj[v] = o
    THEN UNCHANGED <<tabOf, owns, fresh>>
    ELSE /\ tabOf' = [tabOf EXCEPT ![o] = NoTab]
         /\ owns' = owns \ {o} /\ fresh' = fresh \ {o}

\* translate_stale_tab_error looks the name up again, asks about the tab of the
\* session it finds, and drops a session without a tab (_discard_stale_session,
\* under the lock).  The claim on the dead number stays.
AfterStale(w) ==
    /\ pc[w] = "stale"
    /\ LET o == sessions[name[w]]
       IN  IF o # NoObj /\ Page(tabOf[o]) \notin open
           THEN sessions' = Without(o) /\ Forget(w, o) /\ followed' = followed
           ELSE /\ followed' = IF o = NoObj THEN followed ELSE Reported(tabOf[o])
                /\ UNCHANGED <<sessions, tabOf, owns, fresh>>
    /\ Return(w)
    /\ UNCHANGED <<pending, pendingTabs, lockedBy, open, seen, now, owner, ours, crossed, stray>>

\* A thread stays inside the session for five seconds: the action goes on with
\* the old number, and the companion's next answer reports the new one again.
FollowLater(w) ==
    /\ pc[w] = "followWait" /\ lockedBy[obj[w]] # NoWorker
    /\ fresh' = fresh \cup {obj[w]}
    /\ asked' = [asked EXCEPT ![w] = NoTab] /\ drv' = [drv EXCEPT ![w] = NoTab]
    /\ Goto(w, "useWait")
    /\ UNCHANGED <<tableVars, tabOf, owns, lockedBy, tabVars, name, swept, claimed, obj, todo,
         back>>

\* Nobody will give back a claim made for o now.
Over(w, o) == o \notin LiveObjs /\ \A v \in Workers \ {w} : pc[v] \in Tearing => obj[v] # o

\* Under the session's lock: its number is claimed and becomes the session's,
\* closed though the session may have been by the time the lock was free, and
\* whatever another thread may have followed to meanwhile...
FollowClaims(w) ==
    /\ pc[w] = "followWait" /\ lockedBy[obj[w]] = NoWorker
    /\ IF owner[asked[w]] = "theirs"
       THEN Goto(w, "refused") /\ UNCHANGED <<owner, stray, tabOf>>
       ELSE /\ owner' = [owner EXCEPT ![asked[w]] = "mine"]
            /\ stray' = stray \cup (IF Over(w, obj[w]) THEN {asked[w]} ELSE {})
                              \cup ({tabOf[obj[w]]} \ {drv[w], asked[w], NoTab})
            /\ tabOf' = [tabOf EXCEPT ![obj[w]] = asked[w]]
            /\ Goto(w, "followed")
    /\ UNCHANGED <<tableVars, owns, fresh, lockedBy, open, seen, now, followed, ours, crossed,
                   argVars, stepVars>>

\* ...and then the claim on the old number goes back.
FollowReleases(w) ==
    /\ pc[w] = "followed"
    /\ ReleaseOf(w, drv[w])
    /\ fresh' = fresh \cup {obj[w]}
    /\ asked' = [asked EXCEPT ![w] = NoTab] /\ drv' = [drv EXCEPT ![w] = NoTab]
    /\ Goto(w, "useWait")
    /\ UNCHANGED <<tableVars, tabOf, owns, lockedBy, open, seen, now, followed, ours,
                   name, swept, claimed, obj, todo, back>>

\* _drop_for_refused_follow: under the lock the session leaves the table; its
\* page is left to whoever drives it...
FollowRefused(w) ==
    /\ pc[w] = "refused"
    /\ sessions' = Without(obj[w])
    /\ ours' = IF obj[w] \in LiveObjs THEN ours \ {Page(tabOf[obj[w]])} ELSE ours
    /\ Goto(w, "letGo")
    /\ UNCHANGED <<pending, pendingTabs, objVars, open, seen, now, followed, owner, crossed, stray,
                   argVars, stepVars>>

\* ...and the claim it had goes back.
LetGo(w) ==
    /\ pc[w] = "letGo"
    /\ ReleaseOf(w, IF tabOf[obj[w]] # NoTab THEN tabOf[obj[w]] ELSE drv[w])
    /\ Forget(w, obj[w])
    /\ Return(w)
    /\ UNCHANGED <<tableVars, lockedBy, open, seen, now, followed, ours>>

-----------------------------------------------------------------------------
\* The other users of the table, and the world around it.

\* _parked_tab_check on tab t of an earlier client: not live here, so it is
\* claimed, to see whether another agent has it...
CheckParked(w, t) ==
    /\ pc[w] = "idle" /\ t \in open
    /\ \A o \in LiveObjs : tabOf[o] # t
    /\ asked' = [asked EXCEPT ![w] = t]
    /\ Goto(w, "parkClaim")
    /\ UNCHANGED <<tableVars, objVars, tabVars, name, swept, stepVars>>

ParkRefused(w) ==
    /\ pc[w] = "parkClaim" /\ owner[asked[w]] = "theirs"
    /\ Return(w)
    /\ UNCHANGED <<tableVars, objVars, tabVars>>

ParkClaim(w) ==
    /\ pc[w] = "parkClaim" /\ owner[asked[w]] # "theirs"
    /\ owner' = [owner EXCEPT ![asked[w]] = "mine"]
    /\ claimed' = [claimed EXCEPT ![w] = asked[w]]
    /\ Goto(w, "parkRelease")
    /\ UNCHANGED <<tableVars, objVars, open, seen, now, followed, ours, crossed, stray, argVars,
         drv, obj, todo, back>>

\* ...and released again.
ParkRelease(w) ==
    /\ pc[w] = "parkRelease"
    /\ ReleaseOf(w, asked[w])
    /\ Return(w)
    /\ UNCHANGED <<tableVars, objVars, open, seen, now, followed, ours>>

\* The idle TTL of a session passes.
GoIdle(o) ==
    /\ o \in fresh /\ o \in LiveObjs
    /\ fresh' = fresh \ {o}
    /\ UNCHANGED <<tableVars, tabOf, owns, lockedBy, tabVars, pc, argVars, stepVars>>

\* The user closes a tab.
UserCloses(t) ==
    /\ t \in open
    /\ open' = open \ {t} /\ ours' = ours \ {t}
    /\ UNCHANGED <<tableVars, objVars, seen, now, followed, owner, crossed, stray, pc, argVars,
         stepVars>>

\* Chrome puts the page of tab t into a new tab u.
ChromeReplaces(t, u) ==
    /\ t \in open /\ u \notin seen
    /\ open' = (open \ {t}) \cup {u} /\ seen' = seen \cup {u}
    /\ now' = [s \in Tabs |-> IF now[s] = t THEN u ELSE now[s]]
    /\ ours' = IF t \in ours THEN (ours \ {t}) \cup {u} ELSE ours
    /\ UNCHANGED <<tableVars, objVars, followed, owner, crossed, stray, pc, argVars, stepVars>>

\* Another agent is granted a free tab, or gives one back.
OthersClaim(t) ==
    /\ \/ t \in open /\ owner[t] = "free" /\ owner' = [owner EXCEPT ![t] = "theirs"]
       \/ owner[t] = "theirs" /\ owner' = [owner EXCEPT ![t] = "free"]
    /\ UNCHANGED <<tableVars, objVars, open, seen, now, followed, ours, crossed, stray, pc, argVars,
         stepVars>>

-----------------------------------------------------------------------------

Creation(w) ==
    \/ EnterAndReturn(w) \/ EnterAndSweep(w) \/ Reserve(w)
    \/ Claim(w) \/ DriverOnTab(w) \/ DriverFails(w) \/ ClaimOpened(w)
    \/ \E t \in Tabs : DriverOnNewTab(w, t)
    \/ \E o \in Objs : File(w, o)
    \/ GiveBack(w) \/ Abandon(w) \/ Unfile(w)

Sweep(w) ==
    \/ \E o \in Objs : ProbeKeeps(w, o) \/ ProbeCondemns(w, o)
    \/ \E o \in Objs : ReapSkips(w, o) \/ ReapDrops(w, o)
    \/ DropGone(w) \/ ListIdle(w) \/ SweepDone(w)

Teardown(w) == ShutDown(w) \/ TearTab(w) \/ TearRelease(w)

Using(w) ==
    \/ Use(w) \/ Used(w) \/ UsedStale(w) \/ AfterStale(w)
    \/ FollowLater(w) \/ FollowClaims(w) \/ FollowReleases(w)
    \/ FollowRefused(w) \/ LetGo(w)

Parking(w) == ParkRefused(w) \/ ParkClaim(w) \/ ParkRelease(w)

WorkerStep(w) == Creation(w) \/ Sweep(w) \/ Teardown(w) \/ Using(w) \/ Parking(w)

NewCall(w) ==
    \/ \E n \in Names, t \in open \cup {NoTab} : Call(w, n, t)
    \/ \E n \in Names : Close(w, n) \/ Get(w, n) \/ GetReported(w, n)
    \/ \E t \in open : CheckParked(w, t)

World ==
    \/ \E o \in Objs : GoIdle(o)
    \/ \E t \in Tabs : UserCloses(t) \/ OthersClaim(t) \/ \E u \in Tabs : ChromeReplaces(t, u)

TableNext == (\E w \in Workers : WorkerStep(w) \/ NewCall(w)) \/ World

TableSpec == TableInit /\ [][TableNext]_vars

-----------------------------------------------------------------------------

Labels == Making \cup Tearing \cup
    {"idle", "enter", "probe", "dropGone", "reap", "useWait", "using", "stale",
     "followWait", "followed", "refused", "letGo", "parkClaim", "parkRelease"}

\* The state is of the shape the code keeps.
TableTypeOK ==
    /\ sessions \in [Names -> Objs \cup {NoObj}]
    /\ pending \subseteq Names /\ pendingTabs \subseteq Tabs
    /\ tabOf \in [Objs -> Tabs \cup {NoTab}]
    /\ owns \subseteq Objs /\ fresh \subseteq Objs
    /\ lockedBy \in [Objs -> Workers \cup {NoWorker}]
    /\ ours \subseteq open /\ open \subseteq seen /\ seen \subseteq Tabs
    /\ now \in [Tabs -> Tabs] /\ followed \in [Tabs -> Tabs \cup {NoTab}]
    /\ crossed \subseteq Tabs /\ stray \subseteq Tabs
    /\ owner \in [Tabs -> {"free", "mine", "theirs"}]
    /\ pc \in [Workers -> Labels]
    /\ name \in [Workers -> Names \cup {NoName}]
    /\ asked \in [Workers -> Tabs \cup {NoTab}]
    /\ swept \in [Workers -> BOOLEAN]
    /\ drv \in [Workers -> Tabs \cup {NoTab}] /\ claimed \in [Workers -> Tabs \cup {NoTab}]
    /\ obj \in [Workers -> Objs \cup {NoObj}] /\ todo \in [Workers -> SUBSET Objs]
    /\ back \in [Workers -> {"idle", "probe", "reap"}]

\* The cap holds at every moment, the sessions that are still being made counted:
\* however calls, sweeps and failures interleave, no browser too many is opened.
CapKept == Cardinality(Live) + Cardinality(pending) <= Cap

\* A reserved name has exactly one thread at work on it, and no session: two calls
\* never make one session, and no failure leaves a name that all later calls wait for.
PendingHasOneMaker ==
    \A n \in pending :
        /\ n \notin Live
        /\ \E w \in Workers : Makes(w, n) /\ \A v \in Workers \ {w} : ~Makes(v, n)

\* An open tab this process holds the claim of is in use: by a session, or by a
\* thread that is making one, checking the tab, or taking a session down.
ClaimsInUse ==
    \A t \in open \ stray : owner[t] = "mine" =>
        \/ \E o \in LiveObjs : tabOf[o] = t
        \/ \E w \in Workers : claimed[w] = t
        \/ \E w \in Workers : pc[w] \in Tearing \cup {"letGo"} /\ tabOf[obj[w]] = t

\* A session's tab is claimed for it, unless two threads' claims crossed there or
\* the tab was replaced while the session was being attached to it.
SessionsHoldClaims ==
    \A o \in LiveObjs : owner[tabOf[o]] = "mine" \/ tabOf[o] \in crossed \cup stray

\* Claims and sessions match, through every failed creation, refused claim, close,
\* sweep and replaced tab: no claim on an open tab is kept that nobody uses, no
\* session is without its own.
ClaimsMatchSessions == ClaimsInUse /\ SessionsHoldClaims

\* No tab that the server opened is forgotten: while its page is open, a session
\* has it or a thread is about to give it to one or to close it.
OpenedTabsAccounted ==
    \A t \in ours :
        \/ \E o \in LiveObjs : Page(tabOf[o]) = t
        \/ \E w \in Workers : pc[w] \in Making /\ Page(drv[w]) = t
        \/ \E w \in Workers : pc[w] \in Tearing /\ Page(tabOf[obj[w]]) = t

\* One session id is one tab: no two sessions drive the same one.
OneSessionPerTab == \A n, m \in Live : tabOf[sessions[n]] = tabOf[sessions[m]] => n = m

=============================================================================
