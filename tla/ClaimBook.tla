------------------------------- MODULE ClaimBook -------------------------------
(***************************************************************************)
(* web_search_neo/chrome_bridge.py: the tabs that a server believes it     *)
(* holds, beside the claims that the bridge daemon holds for it.           *)
(*                                                                         *)
(* The link between them breaks and is rebuilt; a claim belongs to a       *)
(* connection, so a fresh link asks again for what the book holds.  All    *)
(* the while callers claim and release tabs in threads of their own, the   *)
(* old connection's frames are still being served, another agent takes     *)
(* what is free, and the companion may say hello with another browser.     *)
(***************************************************************************)
EXTENDS Naturals, Sequences, FiniteSets

CONSTANTS
    Tabs,
    MaxLinks,   \* connections are numbered 1..MaxLinks, in the order they are made
    MaxRuns,    \* browser runs are 1..MaxRuns; 0 is a run that is not known
    MaxCalls    \* claim_tab and release_tab calls about one tab

ASSUME BookAssumption == MaxLinks \in Nat \ {0} /\ MaxRuns \in Nat \ {0} /\ MaxCalls \in Nat

VARIABLES
    \* the daemon
    browser,    \* the run of the browser that is there
    run,        \* _browser_run
    claims,     \* claims[t]: the connection that holds t, and the run
    serving,    \* the connections it serves for this client
    asks,       \* asks[c]: frames that c sent and the daemon has not handled
    \* the wire
    answers,    \* answers[c]: frames that the daemon sent and c has not read
    cut,        \* the connections that broke
    \* the client
    last, link, \* the newest connection; the one in _daemon, 0 for none
    stage,      \* the link thread: "down", "status", "assert", "up"
    todo,       \* what _reassert_claims has still to ask: tabs and remembered runs
    asking,     \* what it is waiting for; at most one
    book,       \* book[t]: the run of a tab in _claimed, or Out
    call,       \* call[t]: the call about t that is under way
    made,       \* made[t]: the number of calls made about t
    doubt       \* tabs with a call that the link or the browser changed under

daemon == <<browser, run, claims, serving>>
linking == <<last, link, stage, todo, asking>>
calling == <<call, made>>
bookVars == <<browser, run, claims, serving, asks, answers, cut, last, link, stage, todo, asking,
          book, call, made, doubt>>

Links == 1..MaxLinks
Nobody == 0
Other == MaxLinks + 1          \* another agent
Out == MaxRuns + 1
Idle == [kind |-> "none", at |-> "idle", link |-> 0, clean |-> TRUE, granted |-> FALSE, run |-> 0]
Busy(t) == call[t].kind # "none"

BookInit ==
    /\ browser = 1 /\ run \in {0, 1} /\ claims = [t \in Tabs |-> [by |-> Nobody, run |-> 0]]
    /\ serving = {} /\ asks = [c \in Links |-> <<>>] /\ answers = [c \in Links |-> <<>>]
    /\ cut = {} /\ last = 0 /\ link = 0 /\ stage = "down" /\ todo = {} /\ asking = {}
    /\ book = [t \in Tabs |-> Out] /\ call = [t \in Tabs |-> Idle]
    /\ made = [t \in Tabs |-> 0] /\ doubt = {}

-----------------------------------------------------------------------------
(* The daemon. *)

\* A frame sent on a broken connection is lost.
Sent(c, frame) == IF c \in cut THEN asks ELSE [asks EXCEPT ![c] = Append(@, frame)]
Answered(c, frame) == IF c \in cut THEN answers ELSE [answers EXCEPT ![c] = Append(@, frame)]

\* _claim_tab: the run that is asserted, the tab's holder, then the grant.
Grants(a) ==
    /\ a.run = 0 \/ run = 0 \/ a.run = run
    /\ claims[a.tab].by # Other
Recorded(a) == IF run # 0 THEN run ELSE a.run

\* A call that is under way when the browser or the link changes.
Disturbed(T) == [t \in Tabs |-> IF Busy(t) /\ t \in T THEN [call[t] EXCEPT !.clean = FALSE] ELSE call[t]]

\* A frame of a connection that is over may still be served, after those of the fresh one.
Serve(c) ==
    /\ c \in serving /\ asks[c] # <<>>
    /\ LET a == Head(asks[c]) IN
       /\ asks' = [asks EXCEPT ![c] = Tail(@)]
       /\ CASE a.kind = "status" ->
                 /\ answers' = Answered(c, [kind |-> "status", run |-> run])
                 /\ UNCHANGED claims
            [] a.kind = "claim" ->
                 /\ claims' = IF Grants(a) THEN [claims EXCEPT ![a.tab] = [by |-> c, run |-> Recorded(a)]]
                                           ELSE claims
                 /\ answers' = Answered(c, [kind |-> "reply", tab |-> a.tab, id |-> a.id,
                                            granted |-> Grants(a),
                                            run |-> IF Grants(a) THEN Recorded(a) ELSE run])
            [] a.kind = "release" ->
                 /\ claims' = IF claims[a.tab].by \in Links
                              THEN [claims EXCEPT ![a.tab] = [by |-> Nobody, run |-> 0]] ELSE claims
                 /\ answers' = Answered(c, [kind |-> "reply", tab |-> a.tab, id |-> a.id,
                                            granted |-> TRUE, run |-> 0])
    /\ IF c = link \/ Head(asks[c]).kind = "status" THEN UNCHANGED <<call, doubt>>
       ELSE call' = Disturbed({Head(asks[c]).tab}) /\ doubt' = doubt \union {Head(asks[c]).tab}
    /\ UNCHANGED <<browser, run, serving, cut, linking, book, made>>

\* The thread of a broken connection ends: what it held is free.
Drop(c) ==
    /\ c \in serving /\ c \in cut
    /\ serving' = serving \ {c} /\ asks' = [asks EXCEPT ![c] = <<>>]
    /\ claims' = [t \in Tabs |-> IF claims[t].by = c THEN [by |-> Nobody, run |-> 0] ELSE claims[t]]
    /\ UNCHANGED <<browser, run, answers, cut, linking, book, calling, doubt>>

\* The companion says hello with another run: claims without a run are adopted into
\* it, those of another run dropped; every client is told.
Hello ==
    /\ browser' \in {browser, browser + 1} \ {run} /\ browser' <= MaxRuns
    /\ run' = browser'
    /\ claims' = [t \in Tabs |-> IF claims[t].by = Nobody THEN claims[t]
                                 ELSE IF claims[t].run \in {0, run'} THEN [claims[t] EXCEPT !.run = run']
                                 ELSE [by |-> Nobody, run |-> 0]]
    /\ answers' = [c \in Links |-> IF c \in serving \ cut
                                   THEN Append(answers[c], [kind |-> "push", run |-> run']) ELSE answers[c]]
    /\ call' = Disturbed(Tabs)
    /\ UNCHANGED <<serving, asks, cut, linking, book, made, doubt>>

OtherTakes(t) ==
    /\ claims[t].by = Nobody /\ claims' = [claims EXCEPT ![t] = [by |-> Other, run |-> run]]
    /\ UNCHANGED <<browser, run, serving, asks, answers, cut, linking, book, calling, doubt>>

OtherLeaves(t) ==
    /\ claims[t].by = Other /\ claims' = [claims EXCEPT ![t] = [by |-> Nobody, run |-> 0]]
    /\ UNCHANGED <<browser, run, serving, asks, answers, cut, linking, book, calling, doubt>>

-----------------------------------------------------------------------------
(* The wire. *)

Cut == /\ link # 0 /\ link \notin cut /\ last < MaxLinks
       /\ cut' = cut \union {link}
       /\ UNCHANGED <<daemon, asks, answers, linking, book, calling, doubt>>

\* The daemon's process stops: a new one starts that knows nothing.
Restart ==
    /\ link # 0 /\ last < MaxLinks
    /\ run' = 0 /\ UNCHANGED browser /\ claims' = [t \in Tabs |-> [by |-> Nobody, run |-> 0]]
    /\ serving' = {} /\ asks' = [c \in Links |-> <<>>] /\ cut' = 1..last
    /\ UNCHANGED <<answers, linking, book, calling, doubt>>

-----------------------------------------------------------------------------
(* The link thread. *)

\* _establish: the fresh connection becomes _daemon, and is asked for the status.
Dial ==
    /\ stage = "down" /\ last < MaxLinks
    /\ last' = last + 1 /\ link' = last' /\ stage' = "status"
    /\ serving' = serving \union {last'}
    /\ asks' = [asks EXCEPT ![last'] = <<[kind |-> "status", tab |-> "none", id |-> 0, run |-> 0]>>]
    /\ UNCHANGED <<browser, run, claims, answers, cut, todo, asking, book, calling, doubt>>

\* _apply_state: tabs without a run are adopted into the one reported, tabs of
\* another run leave the book.
Applied(r) ==
    [t \in Tabs |-> IF r = 0 \/ book[t] \in {Out, r} THEN book[t]
                    ELSE IF book[t] = 0 THEN r ELSE Out]

\* Mutant: a fresh link asks for nothing.
RememberedNothing(b) == {}

Remembered(b) == {[tab |-> t, run |-> b[t]] : t \in {x \in Tabs : b[x] # Out}}

\* What a claim says of the browser it was granted under.
Claim(t, id, r) == [kind |-> "claim", tab |-> t, id |-> id, run |-> r]

\* The state that the daemon reports; the first answer is followed by the claims.
ReadState ==
    /\ link # 0 /\ answers[link] # <<>>
    /\ LET f == Head(answers[link]) IN
       /\ f.kind \in {"status", "push"}
       /\ book' = Applied(f.run)
       /\ doubt' = doubt \union {t \in Tabs : book'[t] = Out /\ [tab |-> t, run |-> 0] \in todo \union asking}
       /\ IF f.kind = "status" /\ stage = "status"
          THEN /\ stage' = "assert" /\ todo' = Remembered(book')
               /\ call' = Disturbed({t \in Tabs : book'[t] # Out})
          ELSE UNCHANGED <<stage, todo, call>>
    /\ answers' = [answers EXCEPT ![link] = Tail(@)]
    /\ UNCHANGED <<daemon, asks, cut, last, link, asking, made>>

\* Mutant: the run does not travel with the claim.
AssertWithoutRun ==
    /\ stage = "assert" /\ asking = {}
    /\ \/ \E e \in todo :
             /\ todo' = todo \ {e} /\ asking' = {e}
             /\ asks' = Sent(link, Claim(e.tab, 0, 0))
             /\ call' = Disturbed({e.tab})
             /\ UNCHANGED stage
       \/ todo = {} /\ stage' = "up" /\ UNCHANGED <<todo, asking, asks, call>>
    /\ UNCHANGED <<daemon, answers, cut, last, link, book, made, doubt>>

\* _reassert_claims asks for one tab after the other ...
Assert ==
    /\ stage = "assert" /\ asking = {}
    /\ \/ \E e \in todo :
             /\ todo' = todo \ {e} /\ asking' = {e}
             /\ asks' = Sent(link, Claim(e.tab, 0, e.run))
             /\ call' = Disturbed({e.tab})
             /\ UNCHANGED stage
       \/ todo = {} /\ stage' = "up" /\ UNCHANGED <<todo, asking, asks, call>>
    /\ UNCHANGED <<daemon, answers, cut, last, link, book, made, doubt>>

\* ... and takes each answer into the book, if the tab is still in it.
AssertAnswered(f) ==
    /\ f.id = 0
    /\ IF asking # {}
       THEN LET e == CHOOSE x \in asking : TRUE IN
            /\ asking' = {}
            /\ book' = [book EXCEPT ![f.tab] =
                            IF ~f.granted \/ @ = Out THEN Out
                            ELSE IF f.run # 0 THEN f.run ELSE e.run]
       ELSE UNCHANGED <<asking, book>>
    /\ UNCHANGED call

\* A waiter is told; an answer that nobody waits for is dropped.
CallAnswered(f) ==
    /\ f.id # 0
    /\ call' = IF Busy(f.tab) /\ call[f.tab].at = "sent" /\ made[f.tab] = f.id
               THEN [call EXCEPT ![f.tab] = [@ EXCEPT !.at = "told", !.granted = f.granted, !.run = f.run]]
               ELSE call
    /\ UNCHANGED <<asking, book>>

ReadReply ==
    /\ link # 0 /\ answers[link] # <<>>
    /\ LET f == Head(answers[link]) IN
       f.kind = "reply" /\ (AssertAnswered(f) \/ CallAnswered(f))
    /\ answers' = [answers EXCEPT ![link] = Tail(@)]
    /\ UNCHANGED <<daemon, asks, cut, last, link, stage, todo, made, doubt>>

\* No answer in five seconds: the claims that are left wait for the next link.
AssertTimeout ==
    /\ stage = "assert" /\ asking # {}
    /\ stage' = "up" /\ todo' = {} /\ asking' = {}
    /\ doubt' = doubt \union {e.tab : e \in asking \union todo}
    /\ UNCHANGED <<daemon, asks, answers, cut, last, link, book, calling>>

\* The connection's end is read: _daemon is cleared, and who waits on it is told;
\* an answer that was stored for a waiter not yet awake may be lost with it.
LinkEnds ==
    /\ link \in cut
    /\ link' = 0 /\ stage' = "down" /\ todo' = {} /\ asking' = {}
    /\ answers' = [answers EXCEPT ![link] = <<>>]
    /\ \E lost \in SUBSET {t \in Tabs : call[t].at = "told"} :
          call' = [t \in Tabs |->
                      IF Busy(t) /\ call[t].link = link /\ (call[t].at = "sent" \/ t \in lost)
                      THEN [call[t] EXCEPT !.at = "failed", !.clean = FALSE]
                      ELSE Disturbed(Tabs)[t]]
    /\ UNCHANGED <<daemon, asks, cut, last, book, made, doubt>>

-----------------------------------------------------------------------------
(* Callers: claim_tab and release_tab. *)

Begin(t, what, at, c) ==
    call' = [call EXCEPT ![t] = [Idle EXCEPT !.kind = what, !.at = at, !.link = c,
                                             !.clean = ~\E e \in todo : e.tab = t]]

ClaimTab(t) ==
    /\ ~Busy(t) /\ made[t] < MaxCalls /\ link # 0
    /\ made' = [made EXCEPT ![t] = @ + 1]
    /\ Begin(t, "claim", "sent", link)
    /\ asks' = Sent(link, Claim(t, made'[t], 0))
    /\ UNCHANGED <<daemon, answers, cut, linking, book, doubt>>

\* The book lets go first, whatever the daemon says then.
ReleaseTab(t) ==
    /\ ~Busy(t) /\ made[t] < MaxCalls
    /\ made' = [made EXCEPT ![t] = @ + 1]
    /\ book' = [book EXCEPT ![t] = Out]
    /\ Begin(t, "release", "begun", 0)
    /\ UNCHANGED <<daemon, asks, answers, cut, linking, doubt>>

\* A call ends; one that was not disturbed leaves no doubt.
End(t) ==
    /\ call' = [call EXCEPT ![t] = Idle]
    /\ doubt' = IF call[t].clean THEN doubt \ {t} ELSE doubt \union {t}

AskRelease(t) ==
    /\ call[t].at = "begun"
    /\ IF link = 0 THEN End(t) /\ UNCHANGED asks
       ELSE /\ call' = [call EXCEPT ![t].at = "sent", ![t].link = link]
            /\ asks' = Sent(link, [kind |-> "release", tab |-> t, id |-> made[t], run |-> 0])
            /\ UNCHANGED doubt
    /\ UNCHANGED <<daemon, answers, cut, linking, book, made>>

\* The caller wakes: a claim's answer goes into the book.
Wakes(t) ==
    /\ call[t].at = "told" /\ End(t)
    /\ book' = IF call[t].kind = "claim"
               THEN [book EXCEPT ![t] = IF call[t].granted THEN call[t].run ELSE Out] ELSE book
    /\ UNCHANGED <<daemon, asks, answers, cut, linking, made>>

\* The link ended, or no answer came in time: the daemon could not be asked.
Unavailable(t) ==
    /\ call[t].at \in {"sent", "failed"}
    /\ call' = [call EXCEPT ![t] = Idle] /\ doubt' = doubt \union {t}
    /\ UNCHANGED <<daemon, asks, answers, cut, linking, book, made>>

-----------------------------------------------------------------------------
Threads ==
    \/ Dial \/ ReadState \/ Assert \/ ReadReply \/ LinkEnds
    \/ \E c \in Links : Serve(c) \/ Drop(c)
    \/ \E t \in Tabs : AskRelease(t) \/ Wakes(t) \/ (call[t].at = "failed" /\ Unavailable(t))

BookNext ==
    \/ Threads \/ Hello \/ Cut \/ Restart \/ AssertTimeout
    \/ \E t \in Tabs : ClaimTab(t) \/ ReleaseTab(t) \/ Unavailable(t) \/ OtherTakes(t) \/ OtherLeaves(t)

BookSpec == BookInit /\ [][BookNext]_bookVars
\* The threads of both processes run.
BookFairSpec == BookSpec /\ WF_bookVars(Threads)

-----------------------------------------------------------------------------
Linked == stage = "up" /\ link \notin cut /\ answers[link] = <<>>

\* Once a link is up and everything said on it was read, the book and the daemon
\* agree on every tab: who holds it, and under which browser run.  Excepted are
\* tabs with a call that a broken link, the assertion of the same tab or another
\* browser came in the way of, and those for which a frame of a link that is over
\* was served late, until the next call that nothing disturbs
\* (claim_tab, release_tab, _reassert_claims, _apply_state; _claim_tab,
\* _adopt_browser_run, _drop_claims_of).
BookTrue ==
    \A t \in Tabs : (Linked /\ ~Busy(t) /\ t \notin doubt) =>
        /\ book[t] # Out <=> claims[t].by = link
        /\ book[t] # Out => book[t] = claims[t].run

\* However the link broke, a tab in the book comes to be held by the fresh
\* link again, or leaves the book: the guard never evaporates silently
\* (_reassert_claims).
ClaimsComeBack ==
    \A t \in Tabs : (book[t] # Out) ~>
        (book[t] = Out \/ (link # 0 /\ claims[t].by = link) \/ t \in doubt)
=============================================================================
