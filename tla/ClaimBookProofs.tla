---------------------------- MODULE ClaimBookProofs ----------------------------
(***************************************************************************)
(* The book and the daemon agree once everything said on a link was read,  *)
(* for any number of tabs, links, browser runs and calls.                  *)
(*                                                                         *)
(* BookTrue speaks of a link with nothing on the wire.  The invariant says *)
(* what every frame on the wire will make of it: an answer that the client *)
(* has not read agrees with the claim it was given for and with the pushes *)
(* that follow it, a frame that the daemon has not served finds the tab as *)
(* the client believes it to be, and a push tells of a run which the claim *)
(* has already been adopted into or dropped for.  Shape is the part of it  *)
(* that holds on any link; LinkInv needs one that is not broken.           *)
(***************************************************************************)
EXTENDS ClaimBook, TLAPS

\* What the client and the daemon say on the present link, and have not read yet.
Asked == asks[link]
Said == answers[link]
Fresh == link # 0 /\ link \notin cut

AskFrames == [kind : {"status", "claim", "release"}, tab : Tabs \cup {"none"}, id : Nat,
              run : 0..MaxRuns]
StateFrames == [kind : {"status", "push"}, run : 0..MaxRuns]
ReplyFrames == [kind : {"reply"}, tab : Tabs, id : Nat, granted : BOOLEAN, run : 0..MaxRuns]
Entries == [tab : Tabs, run : 0..MaxRuns]
CallStates == [kind : {"none", "claim", "release"},
               at : {"idle", "begun", "sent", "told", "failed"},
               link : 0..MaxLinks, clean : BOOLEAN, granted : BOOLEAN, run : 0..MaxRuns]

\* The shape of the state.
DaemonTypes ==
    /\ browser \in 1..MaxRuns /\ run \in 0..browser
    /\ claims \in [Tabs -> [by : 0..Other, run : 0..MaxRuns]]
    /\ serving \subseteq 1..last
LinkTypes ==
    /\ last \in 0..MaxLinks /\ link \in {0, last} /\ stage \in {"down", "status", "assert", "up"}
    /\ cut \subseteq 1..last
EntryTypes == todo \subseteq Entries /\ asking \subseteq Entries
BookTypes == book \in [Tabs -> 0..Out] /\ made \in [Tabs -> Nat] /\ doubt \subseteq Tabs
CallTypes == call \in [Tabs -> CallStates]
Asks(a) ==
    /\ a \in [Links -> Seq(AskFrames)]
    /\ \A c \in Links : \A i \in 1..Len(a[c]) : a[c][i].kind # "status" => a[c][i].tab \in Tabs
    /\ \A c \in Links : \A i \in 1..Len(a[c]) : a[c][i].run <= browser
Answers(a) ==
    /\ a \in [Links -> Seq(StateFrames \cup ReplyFrames)]
    /\ \A c \in Links : \A i \in 1..Len(a[c]) : a[c][i].run <= browser

\* Links come one after the other, and only the newest is in use.
LinkStaged == link = 0 <=> stage = "down"
LinksUnused == \A c \in Links : c > last => asks[c] = <<>> /\ answers[c] = <<>>
LinksCut == \A c \in 1..last : c # link => c \in cut
HoldersKnown == \A t \in Tabs : claims[t].by <= last \/ claims[t].by = Other
LinkServed == Fresh => link \in serving

\* A link that was just made asserts each tab once.
EntriesSane ==
    /\ stage # "assert" => todo = {} /\ asking = {}
    /\ \A e, f \in todo : e.tab = f.tab => e = f
    /\ \A e, f \in asking : e = f
    /\ \A e \in asking, f \in todo : e.tab # f.tab

\* One call about a tab at a time.
CallsSane ==
    \A t \in Tabs : /\ ~Busy(t) => call[t] = Idle
                    /\ made[t] = 0 => ~Busy(t)
                    /\ Busy(t) => call[t].at # "idle"

\* The numbers of browser runs grow.
ClaimRuns == \A t \in Tabs : /\ claims[t].run <= browser
                             /\ run # 0 /\ claims[t].by # Nobody => claims[t].run = run
BookRuns == \A t \in Tabs : book[t] # Out => book[t] <= browser
CallRuns == \A t \in Tabs : call[t].run <= browser
EntryRuns == \A e \in todo \cup asking : e.run <= browser

Types == /\ DaemonTypes /\ LinkTypes /\ EntryTypes /\ BookTypes /\ CallTypes
         /\ Asks(asks) /\ Answers(answers)
Shape == /\ Types /\ LinkStaged /\ LinksUnused /\ LinksCut /\ HoldersKnown /\ LinkServed
         /\ EntriesSane /\ CallsSane /\ ClaimRuns /\ BookRuns /\ CallRuns /\ EntryRuns

-----------------------------------------------------------------------------
(* What was said on the link and was not read yet, beside what both sides hold. *)

States == {i \in 1..Len(Said) : Said[i].kind # "reply"}
Pushes == {i \in 1..Len(Said) : Said[i].kind = "push"}
AskAbout(t) == {i \in 1..Len(Asked) : Asked[i].kind # "status" /\ Asked[i].tab = t}
Replies(t) == {i \in 1..Len(Said) : Said[i].kind = "reply" /\ Said[i].tab = t}
Quiet(t) == AskAbout(t) = {} /\ Replies(t) = {}

StatesInOrder ==
    /\ \A i \in States : Said[i].run <= run /\ (Said[i].kind = "push" => Said[i].run # 0)
    /\ \A i, j \in States : i < j => Said[i].run <= Said[j].run
    /\ \A i, j \in Pushes : i < j => Said[i].run < Said[j].run

\* The first frame asks for the status, and the first answer that counts is its.
StatusAsked == /\ 1 \in 1..Len(Asked) /\ Asked[1].kind = "status"
               /\ \A i \in 1..Len(Said) : Said[i].kind # "reply"
StatusSaid == \E j \in 1..Len(Said) : /\ Said[j].kind = "status"
                                     /\ \A i \in 1..j : Said[i].kind # "reply"
StatusFirst ==
    /\ \A i \in 1..Len(Asked) : Asked[i].kind = "status" => stage = "status" /\ i = 1
    /\ \A i \in 1..Len(Said) : Said[i].kind = "status" =>
          /\ stage = "status"
          /\ \A k \in 1..Len(Asked) : Asked[k].kind # "status"
          /\ \A j \in 1..Len(Said) : Said[j].kind = "status" => j = i
    /\ stage = "status" => StatusAsked \/ StatusSaid

\* What the book and the assertions bring from before is no younger than the states
\* that are still to be read.
Elder ==
    /\ \A e \in todo \cup asking, i \in States : e.run <= Said[i].run
    /\ stage = "status" => \A t \in Tabs, i \in Pushes :
          /\ book[t] # Out => book[t] <= Said[i].run
          /\ call[t].at = "told" => call[t].run <= Said[i].run

Sure(t) == ~Busy(t) /\ t \notin doubt
Clean(t) == Busy(t) /\ call[t].clean
In(t, E) == \E e \in E : e.tab = t
Ours(t) == claims[t].by = link

\* The claim on t is what the book, with b for t, will be made into by the states S.
Agrees(t, b, S) ==
    IF b = Out THEN ~Ours(t)
    ELSE IF Ours(t) THEN /\ \A i \in S : Said[i].run = claims[t].run
                         /\ b = claims[t].run \/ (b = 0 /\ S # {})
    ELSE IF b = 0 THEN \E i, j \in S : Said[i].run # Said[j].run
    ELSE \E i \in S : Said[i].run # b

Starting(t) == stage = "status" /\ Sure(t) => Quiet(t) /\ ~Ours(t)
Steady(t) == stage # "status" /\ Sure(t) /\ ~In(t, todo \cup asking) =>
                Quiet(t) /\ Agrees(t, book[t], Pushes)

\* The book since the assertion was planned: only a new run of the browser changed it.
Carried(e) ==
    \/ book[e.tab] = e.run
    \/ e.run # 0 /\ book[e.tab] = Out /\ run > e.run
    \/ e.run = 0 /\ book[e.tab] \in 1..run
ToAssert(e) == Sure(e.tab) => Quiet(e.tab) /\ ~Ours(e.tab) /\ Carried(e)

AssertAsked(e) == /\ \E i \in AskAbout(e.tab) : /\ AskAbout(e.tab) = {i}
                                                /\ Asked[i] = Claim(e.tab, 0, e.run)
                  /\ Replies(e.tab) = {} /\ ~Ours(e.tab)
AssertGranted(e, j) ==
    /\ Said[j].run = 0 => e.run = 0
    /\ Agrees(e.tab, Said[j].run, {i \in Pushes : i > j})
    /\ e.run # 0 => /\ book[e.tab] = e.run /\ Said[j].run = e.run
                    /\ \A i \in Pushes : i < j => Said[i].run = e.run
AssertReplied(e) ==
    /\ AskAbout(e.tab) = {}
    /\ \E j \in Replies(e.tab) : /\ Replies(e.tab) = {j} /\ Said[j].id = 0
                                 /\ IF Said[j].granted THEN AssertGranted(e, j) ELSE ~Ours(e.tab)
Asserting(e) == Sure(e.tab) => Carried(e) /\ (AssertAsked(e) \/ AssertReplied(e))

\* Every assertion under way has its frame or its answer, and there is no other.
AskedBare == {i \in 1..Len(Asked) : Asked[i].kind # "status" /\ Asked[i].id = 0}
SaidBare == {i \in 1..Len(Said) : Said[i].kind = "reply" /\ Said[i].id = 0}
AssertPending ==
    /\ \A e \in asking : \/ \E i \in AskedBare : Asked[i].tab = e.tab
                         \/ \E j \in SaidBare : Said[j].tab = e.tab
    /\ stage # "up" =>
          /\ \A i \in AskedBare : In(Asked[i].tab, asking)
          /\ \A j \in SaidBare : In(Said[j].tab, asking)
          /\ \A i, k \in AskedBare : i = k
          /\ \A j, k \in SaidBare : j = k
          /\ AskedBare = {} \/ SaidBare = {}

\* Frames about t carry the numbers of the calls that were made about it.
Numbered(t) ==
    /\ \A i \in AskAbout(t) : /\ Asked[i].id <= made[t]
                              /\ call[t].at = "begun" => Asked[i].id # made[t]
    /\ \A j \in Replies(t) : /\ Said[j].id <= made[t]
                             /\ call[t].at = "begun" => Said[j].id # made[t]

\* What the answer to the call about t says is what the daemon holds.
Outcome(t, granted, r) ==
    IF call[t].kind = "claim" /\ granted THEN Ours(t) /\ claims[t].run = r ELSE ~Ours(t)
CallAsked(t) == \E i \in AskAbout(t) :
    /\ Asked[i].id = made[t] /\ Asked[i].kind = call[t].kind /\ Asked[i].run = 0
    /\ \A k \in AskAbout(t) : k # i => k < i /\ Asked[k].id # made[t]
    /\ \A j \in Replies(t) : Said[j].id # made[t]
CallReplied(t) ==
    /\ AskAbout(t) = {}
    /\ \E j \in Replies(t) : /\ Said[j].id = made[t]
                             /\ \A k \in Replies(t) \cup States : k <= j
                             /\ \A k \in Replies(t) : Said[k].id = made[t] => k = j
                             /\ Outcome(t, Said[j].granted, Said[j].run)
CallTold(t) == /\ Quiet(t) /\ States = {} /\ stage # "status"
               /\ Outcome(t, call[t].granted, call[t].run)
CallHeard(t) ==
    Clean(t) => /\ call[t].at = "sent" => CallAsked(t) \/ CallReplied(t)
                /\ call[t].at = "told" => CallTold(t)

\* A call that nothing disturbed.
CleanCall(t) ==
    /\ ~In(t, todo)
    /\ call[t].kind = "release" => book[t] = Out
    /\ call[t].at = "begun" => call[t].kind = "release"
    /\ call[t].at # "failed"
    /\ call[t].at # "begun" => call[t].link = link /\ link # 0
CleanCalls == \A t \in Tabs : Clean(t) => CleanCall(t)

LinkInv ==
    /\ StatesInOrder /\ StatusFirst /\ Elder /\ AssertPending
    /\ \A t \in Tabs : Starting(t) /\ Steady(t) /\ Numbered(t) /\ CallHeard(t)
    /\ \A e \in todo : ToAssert(e)
    /\ \A e \in asking : Asserting(e)
BookInv == Shape /\ CleanCalls /\ (Fresh => LinkInv)

-----------------------------------------------------------------------------
(* Sequences that lose their head or gain a tail. *)

Popped(s, r) ==
    /\ Len(r) \in Nat /\ Len(s) = Len(r) + 1
    /\ \A i \in 1..Len(r) : r[i] = s[i + 1]
    /\ \A i \in 2..Len(s) : s[i] = r[i - 1]
Pushed(s, f, r) ==
    /\ Len(r) = Len(s) + 1 /\ r[Len(s) + 1] = f
    /\ \A i \in 1..Len(s) : r[i] = s[i]

\* A sequence loses its head.
LEMMA Popping ==
    ASSUME NEW S, NEW s \in Seq(S), s # <<>>
    PROVE  /\ Tail(s) \in Seq(S) /\ Head(s) = s[1] /\ Head(s) \in S
           /\ Len(s) \in Nat \ {0} /\ Len(Tail(s)) \in Nat /\ Popped(s, Tail(s))
<1>1. Len(s) \in Nat \ {0} /\ s[1] \in S /\ Head(s) = s[1] /\ Tail(s) \in Seq(S)
  OBVIOUS
<1>2. Len(Tail(s)) = Len(s) - 1 /\ \A i \in 1..Len(Tail(s)) : Tail(s)[i] = s[i + 1]
  OBVIOUS
<1>3. \A i \in 2..Len(s) : Tail(s)[i - 1] = s[i]
  BY <1>1, <1>2
<1> QED BY <1>1, <1>2, <1>3 DEF Popped

\* A sequence gains a tail.
LEMMA Pushing ==
    ASSUME NEW S, NEW s \in Seq(S), NEW f \in S
    PROVE  /\ Append(s, f) \in Seq(S) /\ Len(s) \in Nat /\ Len(Append(s, f)) \in Nat
           /\ Pushed(s, f, Append(s, f))
BY DEF Pushed

\* What is on the wire of the link, by its type.
FramesTyped ==
    /\ Len(Asked) \in Nat /\ Len(Said) \in Nat
    /\ \A i \in 1..Len(Asked) :
          /\ Asked[i].kind \in {"status", "claim", "release"} /\ Asked[i].id \in Nat
          /\ Asked[i].run \in 0..MaxRuns
          /\ Asked[i].kind # "status" => Asked[i].tab \in Tabs
    /\ \A i \in 1..Len(Said) :
          /\ Said[i].kind \in {"status", "push", "reply"} /\ Said[i].run \in 0..MaxRuns
          /\ Said[i].kind = "reply" => /\ Said[i].tab \in Tabs /\ Said[i].id \in Nat
                                       /\ Said[i].granted \in BOOLEAN

\* The frames of the link are typed.
LEMMA Framing ==
    ASSUME LinkTypes, Asks(asks), Answers(answers), link # 0
    PROVE  link \in Links /\ FramesTyped
<1>1. link \in Links
  BY BookAssumption DEF LinkTypes, Links
<1>2. asks[link] \in Seq(AskFrames) /\ answers[link] \in Seq(StateFrames \cup ReplyFrames)
  BY <1>1 DEF Asks, Answers
<1>3. Len(Asked) \in Nat /\ \A i \in 1..Len(Asked) : Asked[i] \in AskFrames
  BY <1>2 DEF Asked
<1>4. Len(Said) \in Nat /\ \A i \in 1..Len(Said) : Said[i] \in StateFrames \cup ReplyFrames
  BY <1>2 DEF Said
<1>5. \A i \in 1..Len(Asked) : Asked[i].kind # "status" => Asked[i].tab \in Tabs
  BY <1>1 DEF Asks, Asked
<1> QED
  BY <1>1, <1>3, <1>4, <1>5 DEF FramesTyped, AskFrames, StateFrames, ReplyFrames

-----------------------------------------------------------------------------
(* The wire. *)

\* A frame that is sent has its type.
LEMMA Sending ==
    ASSUME Asks(asks), NEW c \in Links, NEW f \in AskFrames, f.run <= browser,
           f.kind # "status" => f.tab \in Tabs
    PROVE  Asks(Sent(c, f)) /\ \A x \in Links : x # c => Sent(c, f)[x] = asks[x]
<1>1. asks[c] \in Seq(AskFrames)
  BY DEF Asks
<1>2. /\ Append(asks[c], f) \in Seq(AskFrames) /\ Pushed(asks[c], f, Append(asks[c], f))
      /\ Len(asks[c]) \in Nat
  BY <1>1, Pushing
<1> QED BY <1>2 DEF Asks, Sent, Pushed

\* So has an answer,
LEMMA Answering ==
    ASSUME Answers(answers), NEW c \in Links, NEW f \in StateFrames \cup ReplyFrames,
      f.run <= browser
    PROVE  Answers(Answered(c, f)) /\ \A x \in Links : x # c => Answered(c, f)[x] = answers[x]
<1>1. answers[c] \in Seq(StateFrames \cup ReplyFrames)
  BY DEF Answers
<1>2. /\ Append(answers[c], f) \in Seq(StateFrames \cup ReplyFrames)
      /\ Pushed(answers[c], f, Append(answers[c], f)) /\ Len(answers[c]) \in Nat
  BY <1>1, Pushing
<1> QED BY <1>2 DEF Answers, Answered, Pushed

\* a frame that is served,
LEMMA Handling ==
    ASSUME Asks(asks), NEW c \in Links, asks[c] # <<>>
    PROVE  /\ Head(asks[c]) \in AskFrames /\ Head(asks[c]).run <= browser
           /\ Head(asks[c]).kind # "status" => Head(asks[c]).tab \in Tabs
           /\ Asks([asks EXCEPT ![c] = Tail(@)])
<1>1. asks[c] \in Seq(AskFrames)
  BY DEF Asks
<1>2. /\ Tail(asks[c]) \in Seq(AskFrames) /\ Popped(asks[c], Tail(asks[c]))
           /\ Len(asks[c]) \in Nat \ {0}
      /\ Head(asks[c]) = asks[c][1] /\ Head(asks[c]) \in AskFrames /\ Len(Tail(asks[c])) \in Nat
  BY <1>1, Popping
<1> QED BY <1>2 DEF Asks, Popped

\* and an answer that is read.
LEMMA Reading ==
    ASSUME Answers(answers), NEW c \in Links, answers[c] # <<>>
    PROVE  /\ Head(answers[c]) \in StateFrames \cup ReplyFrames /\ Head(answers[c]).run <= browser
           /\ Answers([answers EXCEPT ![c] = Tail(@)])
<1>1. answers[c] \in Seq(StateFrames \cup ReplyFrames)
  BY DEF Answers
<1>2. /\ Tail(answers[c]) \in Seq(StateFrames \cup ReplyFrames)
           /\ Popped(answers[c], Tail(answers[c]))
      /\ Len(answers[c]) \in Nat \ {0} /\ Len(Tail(answers[c])) \in Nat
      /\ Head(answers[c]) = answers[c][1] /\ Head(answers[c]) \in StateFrames \cup ReplyFrames
  BY <1>1, Popping
<1> QED BY <1>2 DEF Answers, Popped

-----------------------------------------------------------------------------
(* The calls. *)

\* A call is disturbed, and otherwise as it was.
LEMMA Disturbing ==
    ASSUME CallTypes, NEW T
    PROVE  /\ Disturbed(T) \in [Tabs -> CallStates]
           /\ \A t \in Tabs : LET d == Disturbed(T)[t] IN
                /\ d.kind = call[t].kind /\ d.at = call[t].at /\ d.link = call[t].link
                /\ d.granted = call[t].granted /\ d.run = call[t].run
                /\ Busy(t) /\ t \in T => ~d.clean
                /\ ~(Busy(t) /\ t \in T) => d = call[t]
<1>1. ASSUME NEW t \in Tabs
      PROVE  LET d == Disturbed(T)[t] IN
                /\ d \in CallStates
                /\ d.kind = call[t].kind /\ d.at = call[t].at /\ d.link = call[t].link
                /\ d.granted = call[t].granted /\ d.run = call[t].run
                /\ Busy(t) /\ t \in T => ~d.clean
                /\ ~(Busy(t) /\ t \in T) => d = call[t]
  <2>1. call[t] \in CallStates
    BY DEF CallTypes
  <2>2. Disturbed(T)[t] = IF Busy(t) /\ t \in T THEN [call[t] EXCEPT !.clean = FALSE] ELSE call[t]
    BY DEF Disturbed
  <2>3. CASE Busy(t) /\ t \in T
    BY <2>1, <2>2, <2>3 DEF CallStates
  <2>4. CASE ~(Busy(t) /\ t \in T)
    BY <2>1, <2>2, <2>4 DEF CallStates
  <2> QED BY <2>3, <2>4
<1>2. Disturbed(T) \in [Tabs -> CallStates]
  BY <1>1 DEF Disturbed
<1> QED BY <1>1, <1>2

\* A call that changes no more than how far it got.
CallKept(t) ==
    /\ call'[t].kind = call[t].kind
    /\ call'[t].at \in {"begun", "sent", "told", "failed"} \/ call'[t].at = call[t].at
    /\ call'[t].run <= browser'
    /\ ~Busy(t) => call'[t] = call[t]

LEMMA KeepingCalls ==
    ASSUME CallTypes, CallsSane, CallRuns, call' \in [Tabs -> CallStates], made' = made,
           \A t \in Tabs : CallKept(t)
    PROVE  CallTypes' /\ CallsSane' /\ CallRuns'
BY DEF CallTypes, CallsSane, CallRuns, CallKept, Busy

\* One call changes, the others are as they were.
LEMMA OneCall ==
    ASSUME CallTypes, CallsSane, CallRuns, browser' = browser, NEW t \in Tabs, NEW d \in CallStates,
           call' = [call EXCEPT ![t] = d], d.run <= browser,
           made' \in [Tabs -> Nat], \A x \in Tabs : x # t => made'[x] = made[x],
           d = Idle \/ (d.kind # "none" /\ d.at # "idle" /\ made'[t] # 0)
    PROVE  CallTypes' /\ CallsSane' /\ CallRuns'
<1>1. call' \in [Tabs -> CallStates] /\ call'[t] = d /\ \A x \in Tabs : x # t => call'[x] = call[x]
  BY DEF CallTypes
<1>2. CallRuns'
  BY <1>1 DEF CallRuns
<1>3. ASSUME NEW x \in Tabs, x # t
      PROVE  /\ call'[x].kind = "none" => call'[x] = Idle
             /\ made'[x] = 0 => call'[x].kind = "none"
             /\ call'[x].kind # "none" => call'[x].at # "idle"
  BY <1>1, <1>3 DEF CallsSane, Busy
<1>4. /\ call'[t].kind = "none" => call'[t] = Idle
      /\ made'[t] = 0 => call'[t].kind = "none"
      /\ call'[t].kind # "none" => call'[t].at # "idle"
  <2>1. CASE d = Idle
    BY <1>1, <2>1 DEF Idle
  <2>2. CASE d.kind # "none" /\ d.at # "idle" /\ made'[t] # 0
    BY <1>1, <2>2
  <2> QED BY <2>1, <2>2
<1>5. CallsSane'
  BY <1>3, <1>4 DEF CallsSane, Busy
<1> QED BY <1>1, <1>2, <1>5 DEF CallTypes

\* No call is one of the states of a call.
LEMMA IdleTyped == ASSUME DaemonTypes PROVE Idle \in CallStates /\ Idle.run <= browser
BY BookAssumption DEF Idle, CallStates, DaemonTypes

\* What the book remembers for a fresh link.
LEMMA Remembering ==
    ASSUME NEW b \in [Tabs -> 0..Out]
    PROVE  /\ Remembered(b) \subseteq Entries
           /\ \A e \in Remembered(b) : b[e.tab] = e.run /\ b[e.tab] # Out
           /\ \A e, f \in Remembered(b) : e.tab = f.tab => e = f
           /\ \A t \in Tabs : b[t] # Out => In(t, Remembered(b))
<1>1. \A t \in Tabs : b[t] # Out => b[t] \in 0..MaxRuns
  BY BookAssumption DEF Out
<1>2. Remembered(b) \subseteq Entries /\ \A e \in Remembered(b) : b[e.tab] = e.run /\ b[e.tab] # Out
  BY <1>1 DEF Remembered, Entries
<1>3. \A e, f \in Remembered(b) : e.tab = f.tab => e = f
  BY <1>1 DEF Remembered
<1>4. \A t \in Tabs : b[t] # Out => In(t, Remembered(b))
  <2> SUFFICES ASSUME NEW t \in Tabs, b[t] # Out PROVE \E e \in Remembered(b) : e.tab = t
    BY DEF In
  <2>1. [tab |-> t, run |-> b[t]] \in Remembered(b)
    BY DEF Remembered
  <2> QED BY <2>1
<1> QED BY <1>2, <1>3, <1>4

-----------------------------------------------------------------------------
(* Every step keeps the shape of the state. *)

LEMMA ServeShape == ASSUME Shape, NEW c \in Links, Serve(c) PROVE Shape'
<1>s. /\ DaemonTypes /\ LinkTypes /\ EntryTypes /\ BookTypes /\ CallTypes /\ Asks(asks)
      /\ Answers(answers) /\ LinkStaged /\ LinksUnused /\ LinksCut /\ HoldersKnown /\ LinkServed
      /\ EntriesSane /\ CallsSane /\ ClaimRuns /\ BookRuns /\ CallRuns /\ EntryRuns
  BY DEF Shape, Types
<1>u. UNCHANGED <<browser, run, serving, cut, last, link, stage, todo, asking, book, made>>
  BY DEF Serve, Disturbed, daemon, linking, calling
<1>w. Asks(asks') /\ Answers(answers')
  <2> DEFINE a == Head(asks[c])
  <2>1. /\ a \in AskFrames /\ a.run <= browser /\ a.kind \in {"status", "claim", "release"}
        /\ a.kind # "status" => a.tab \in Tabs
        /\ Asks([asks EXCEPT ![c] = Tail(@)])
    BY <1>s, Handling DEF Serve, AskFrames
  <2>2. Asks(asks')
    BY <1>s, <2>1 DEF Serve
  <2>3. CASE a.kind = "status"
    <3>1. [kind |-> "status", run |-> run] \in StateFrames /\ run <= browser
      BY <1>s, BookAssumption DEF DaemonTypes, StateFrames
    <3> QED BY <1>s, <2>2, <2>3, <3>1, Answering DEF Serve
  <2>4. CASE a.kind = "claim"
    <3> DEFINE f == [kind |-> "reply", tab |-> a.tab, id |-> a.id, granted |-> Grants(a),
                     run |-> IF Grants(a) THEN Recorded(a) ELSE run]
    <3>1. a.tab \in Tabs /\ a.id \in Nat /\ a.run \in 0..MaxRuns /\ run \in 0..MaxRuns
            /\ run <= browser
      BY <1>s, <2>1, <2>4, BookAssumption DEF DaemonTypes, AskFrames
    <3>2. f \in ReplyFrames /\ f.run <= browser
      BY <1>s, <2>1, <3>1 DEF ReplyFrames, Grants, Recorded
    <3>3. answers' = Answered(c, f)
      BY <1>s, <2>4 DEF Serve
    <3> QED BY <1>s, <2>2, <3>2, <3>3, Answering
  <2>5. CASE a.kind = "release"
    <3>1. a.tab \in Tabs /\ a.id \in Nat
      BY <1>s, <2>1, <2>5 DEF AskFrames
    <3>2. /\ [kind |-> "reply", tab |-> a.tab, id |-> a.id, granted |-> TRUE,
               run |-> 0] \in ReplyFrames
          /\ 0 <= browser
      BY <1>s, <3>1, BookAssumption DEF DaemonTypes, ReplyFrames
    <3> QED BY <1>s, <2>2, <2>5, <3>2, Answering DEF Serve
  <2> QED BY <1>s, <2>1, <2>3, <2>4, <2>5
<1>c. CallTypes' /\ CallsSane' /\ CallRuns'
  <2>1. CASE UNCHANGED call
    BY <1>s, <1>u, <2>1 DEF CallTypes, CallsSane, CallRuns, Busy
  <2>2. ASSUME NEW T, call' = Disturbed(T) PROVE CallTypes' /\ CallsSane' /\ CallRuns'
    <3>1. call' \in [Tabs -> CallStates] /\ \A x \in Tabs : CallKept(x)
      BY <1>s, <1>u, <2>2, Disturbing DEF CallKept, CallRuns, CallTypes, CallStates, DaemonTypes
    <3> QED BY <1>s, <1>u, <3>1, KeepingCalls
  <2> QED BY <2>1, <2>2 DEF Serve
<1>k. /\ claims' \in [Tabs -> [by : 0..Other, run : 0..MaxRuns]] /\ c \in 1..last
      /\ \A t \in Tabs : \/ claims'[t] = claims[t]
                        \/ claims'[t] = [by |-> Nobody, run |-> 0]
                        \/ /\ claims'[t].by = c /\ claims'[t].run <= browser
                           /\ run # 0 => claims'[t].run = run
  <2> DEFINE a == Head(asks[c])
  <2>1. a \in AskFrames /\ a.run <= browser /\ (a.kind # "status" => a.tab \in Tabs)
          /\ c \in 1..last
    BY <1>s, Handling DEF Serve, DaemonTypes
  <2>2. c \in 0..Other /\ run \in 0..MaxRuns /\ run <= browser /\ Nobody \in 0..Other
          /\ 0 \in 0..MaxRuns
        /\ a.run \in 0..MaxRuns
    BY <1>s, <2>1, BookAssumption DEF Links, Other, DaemonTypes, Nobody, AskFrames
  <2>3. CASE claims' = claims
    BY <1>s, <2>1, <2>3 DEF DaemonTypes
  <2>4. CASE a.kind = "claim"
          /\ claims' = [claims EXCEPT ![a.tab] = [by |-> c, run |-> Recorded(a)]]
    <3>1. Recorded(a) \in 0..MaxRuns /\ Recorded(a) <= browser /\ (run # 0 => Recorded(a) = run)
      BY <2>1, <2>2 DEF Recorded
    <3> HIDE DEF a
    <3> QED BY <1>s, <2>1, <2>2, <2>4, <3>1 DEF DaemonTypes
  <2>5. CASE a.kind = "release" /\ claims' = [claims EXCEPT ![a.tab] = [by |-> Nobody, run |-> 0]]
    <3> HIDE DEF a
    <3> QED BY <1>s, <2>1, <2>2, <2>5 DEF DaemonTypes
  <2> QED BY <2>3, <2>4, <2>5, <2>1 DEF Serve, AskFrames
<1>v. /\ LinkTypes' /\ EntryTypes' /\ LinkStaged' /\ LinksCut' /\ LinkServed' /\ EntriesSane'
      /\ BookRuns' /\ EntryRuns'
  BY <1>s, <1>u DEF LinkTypes, EntryTypes, LinkStaged, LinksCut, LinkServed, EntriesSane, BookRuns,
     EntryRuns, Fresh
<1>1. DaemonTypes'
  BY <1>s, <1>u, <1>k
  DEF DaemonTypes
<1>2. BookTypes'
  <2>1. Head(asks[c]).kind # "status" => Head(asks[c]).tab \in Tabs
    BY <1>s, Handling DEF Serve
  <2>2. doubt' \subseteq Tabs
    BY <1>s, <2>1 DEF Serve, BookTypes
  <2> QED BY <1>s, <1>u, <2>2 DEF BookTypes
<1>3. Asks(asks)'
  BY <1>w, <1>u DEF Asks
<1>4. Answers(answers)'
  BY <1>w, <1>u DEF Answers
<1>5. LinksUnused'
  <2>1. c <= last /\ last \in Nat
    BY <1>s, <1>k DEF LinkTypes
  <2>2. \A f : \A x \in Links : x # c => Answered(c, f)[x] = answers[x]
    BY <1>s DEF Answered, Answers
  <2>3. \A x \in Links : x # c => answers'[x] = answers[x]
    <3>1. Head(asks[c]).kind \in {"status", "claim", "release"}
      BY <1>s, Handling DEF Serve, AskFrames
    <3>2. \E f : answers' = Answered(c, f)
      BY <3>1 DEF Serve
    <3> QED BY <2>2, <3>2
  <2>4. \A x \in Links : x # c => asks'[x] = asks[x]
    BY <1>s DEF Serve, Asks
  <2> QED BY <1>s, <1>u, <2>1, <2>3, <2>4 DEF LinksUnused, Links
<1>6. HoldersKnown'
  BY <1>s, <1>u, <1>k
  DEF HoldersKnown, DaemonTypes, LinkTypes, Nobody
<1>7. ClaimRuns'
  BY <1>s, <1>u, <1>k, BookAssumption
  DEF ClaimRuns, DaemonTypes, Nobody
<1> QED BY <1>v, <1>1, <1>2, <1>c, <1>3, <1>4, <1>5, <1>6, <1>7 DEF Shape, Types

LEMMA DropShape == ASSUME Shape, NEW c \in Links, Drop(c) PROVE Shape'
<1>s. /\ DaemonTypes /\ LinkTypes /\ EntryTypes /\ BookTypes /\ CallTypes /\ Asks(asks)
      /\ Answers(answers) /\ LinkStaged /\ LinksUnused /\ LinksCut /\ HoldersKnown /\ LinkServed
      /\ EntriesSane /\ CallsSane /\ ClaimRuns /\ BookRuns /\ CallRuns /\ EntryRuns
  BY DEF Shape, Types
<1>u. UNCHANGED <<browser, run, answers, cut, last, link, stage, todo, asking, book, call, made,
        doubt>>
  BY DEF Drop, daemon, linking, calling
<1>w. Asks(asks') /\ Answers(answers')
  BY <1>s DEF Drop, Asks
<1>v. /\ LinkTypes' /\ EntryTypes' /\ BookTypes' /\ CallTypes' /\ Answers(answers)' /\ LinkStaged'
      /\ LinksCut' /\ EntriesSane' /\ CallsSane' /\ BookRuns' /\ CallRuns' /\ EntryRuns'
  BY <1>s, <1>u DEF LinkTypes, EntryTypes, BookTypes, CallTypes, Answers, LinkStaged, LinksCut,
     EntriesSane, CallsSane, BookRuns, CallRuns, EntryRuns, Busy
<1>1. DaemonTypes'
  BY <1>s, <1>u, BookAssumption
  DEF DaemonTypes, LinkTypes, Links, Other, Nobody, Drop
<1>2. Asks(asks)'
  BY <1>w, <1>u DEF Asks
<1>3. LinksUnused'
  BY <1>s, <1>u, BookAssumption
  DEF LinksUnused, LinkTypes, Links, Drop
<1>4. HoldersKnown'
  BY <1>s, <1>u, BookAssumption
  DEF HoldersKnown, LinkTypes, DaemonTypes, Nobody, Other, Drop
<1>5. LinkServed'
  BY <1>s, <1>u, BookAssumption
  DEF LinkServed, Fresh, LinkTypes, Drop
<1>6. ClaimRuns'
  BY <1>s, <1>u, BookAssumption
  DEF ClaimRuns, DaemonTypes, Nobody, Drop
<1> QED BY <1>v, <1>1, <1>2, <1>3, <1>4, <1>5, <1>6 DEF Shape, Types

LEMMA HelloShape == ASSUME Shape, Hello PROVE Shape'
<1>s. /\ DaemonTypes /\ LinkTypes /\ EntryTypes /\ BookTypes /\ CallTypes /\ Asks(asks)
      /\ Answers(answers) /\ LinkStaged /\ LinksUnused /\ LinksCut /\ HoldersKnown /\ LinkServed
      /\ EntriesSane /\ CallsSane /\ ClaimRuns /\ BookRuns /\ CallRuns /\ EntryRuns
  BY DEF Shape, Types
<1>u. UNCHANGED <<serving, asks, cut, last, link, stage, todo, asking, book, made, doubt>>
  BY DEF Hello, Disturbed, daemon, linking, calling
<1>b. run' = browser' /\ browser' \in Nat /\ browser <= browser' /\ browser' \in 1..MaxRuns
  BY <1>s, BookAssumption DEF Hello, DaemonTypes
<1>w. Asks(asks)' /\ Answers(answers)'
  <2>1. run' \in 0..MaxRuns /\ run' = browser' /\ browser <= browser' /\ browser \in Nat
          /\ browser' \in Nat
    BY <1>s, BookAssumption DEF Hello, DaemonTypes
  <2> DEFINE f == [kind |-> "push", run |-> run']
  <2>2. f \in StateFrames \cup ReplyFrames
    BY <1>s, <2>1 DEF StateFrames
  <2>3. ASSUME NEW c \in Links PROVE /\ answers'[c] \in Seq(StateFrames \cup ReplyFrames)
                                     /\ \A i \in 1..Len(answers'[c]) : answers'[c][i].run <= browser'
    <3>1. /\ answers[c] \in Seq(StateFrames \cup ReplyFrames) /\ Len(answers[c]) \in Nat
          /\ \A i \in 1..Len(answers[c]) : /\ answers[c][i] \in StateFrames \cup ReplyFrames
                                            /\ answers[c][i].run <= browser
      BY <1>s DEF Answers
    <3>2. ASSUME NEW i \in 1..Len(answers[c]) PROVE answers[c][i].run <= browser'
      <4>1. answers[c][i].run \in Nat /\ answers[c][i].run <= browser
        BY <3>1 DEF StateFrames, ReplyFrames
      <4> QED BY <2>1, <4>1
    <3>3. Append(answers[c], f) \in Seq(StateFrames \cup ReplyFrames)
            /\ Pushed(answers[c], f, Append(answers[c], f))
      BY <1>s, <2>2, <3>1, Pushing
    <3>4. answers'[c] \in {answers[c], Append(answers[c], f)}
      BY <1>s DEF Hello
    <3> HIDE DEF f
    <3>5. \A i \in 1..Len(Append(answers[c], f)) : Append(answers[c], f)[i].run <= browser'
      BY <1>s, <3>1, <3>2, <3>3, <2>1 DEF Pushed, f
    <3> QED BY <1>s, <3>1, <3>2, <3>3, <3>4, <3>5
  <2>4. answers' \in [Links -> Seq(StateFrames \cup ReplyFrames)]
    BY <1>s, <2>3 DEF Hello
  <2>5. Answers(answers)'
    BY <1>s, <2>3, <2>4 DEF Answers
  <2>6. ASSUME NEW c \in Links, NEW i \in 1..Len(asks[c]) PROVE asks[c][i].run <= browser'
    <3>1. asks[c][i] \in AskFrames /\ asks[c][i].run <= browser
      BY <1>s DEF Asks
    <3> QED BY <1>s, <2>1, <3>1 DEF AskFrames
  <2>7. Asks(asks)'
    BY <1>u, <2>6, <1>s DEF Asks
  <2> QED BY <1>s, <2>5, <2>7
<1>c. CallTypes' /\ CallsSane' /\ CallRuns'
  <2>2. ASSUME NEW T, call' = Disturbed(T) PROVE CallTypes' /\ CallsSane' /\ CallRuns'
    <3>1. call' \in [Tabs -> CallStates] /\ \A x \in Tabs : CallKept(x)
      BY <1>s, <1>b, <2>2, Disturbing DEF CallKept, CallRuns, CallTypes, CallStates, DaemonTypes
    <3> QED BY <1>s, <1>u, <3>1, KeepingCalls
  <2> QED BY <2>2 DEF Hello
<1>v. /\ LinkTypes' /\ EntryTypes' /\ BookTypes' /\ LinkStaged' /\ LinksCut' /\ LinkServed'
      /\ EntriesSane'
  BY <1>s, <1>u DEF LinkTypes, EntryTypes, BookTypes, LinkStaged, LinksCut, LinkServed, EntriesSane,
     Fresh
<1>1. DaemonTypes'
  BY <1>s, <1>u, BookAssumption
  DEF DaemonTypes, LinkTypes, Links, Other, Nobody, Hello, Disturbed
<1>2. LinksUnused'
  BY <1>s, <1>u DEF LinksUnused, Hello, DaemonTypes, LinkTypes, Links
<1>3. HoldersKnown'
  BY <1>s, <1>u, BookAssumption
  DEF HoldersKnown, LinkTypes, DaemonTypes, Nobody, Other, Hello, Disturbed
<1>4. ClaimRuns'
  BY <1>s, <1>u, BookAssumption
  DEF ClaimRuns, DaemonTypes, Nobody, Hello, Disturbed
<1>5. BookRuns'
  BY <1>s, <1>u, <1>b DEF BookRuns, BookTypes, DaemonTypes, Out
<1>6. EntryRuns'
  BY <1>s, <1>u, <1>b DEF EntryRuns, EntryTypes, Entries, DaemonTypes
<1> QED BY <1>v, <1>1, <1>c, <1>w, <1>2, <1>3, <1>4, <1>5, <1>6 DEF Shape, Types

LEMMA OtherTakesShape == ASSUME Shape, NEW t \in Tabs, OtherTakes(t) PROVE Shape'
<1>s. /\ DaemonTypes /\ LinkTypes /\ EntryTypes /\ BookTypes /\ CallTypes /\ Asks(asks)
      /\ Answers(answers) /\ LinkStaged /\ LinksUnused /\ LinksCut /\ HoldersKnown /\ LinkServed
      /\ EntriesSane /\ CallsSane /\ ClaimRuns /\ BookRuns /\ CallRuns /\ EntryRuns
  BY DEF Shape, Types
<1>u. UNCHANGED <<browser, run, serving, asks, answers, cut, last, link, stage, todo, asking, book,
        call, made, doubt>>
  BY DEF OtherTakes, daemon, linking, calling
<1>w. Asks(asks') /\ Answers(answers')
  BY <1>s DEF OtherTakes
<1>v. /\ LinkTypes' /\ EntryTypes' /\ BookTypes' /\ CallTypes' /\ Asks(asks)' /\ Answers(answers)'
      /\ LinkStaged' /\ LinksUnused' /\ LinksCut' /\ LinkServed' /\ EntriesSane' /\ CallsSane'
      /\ BookRuns' /\ CallRuns' /\ EntryRuns'
  BY <1>s, <1>u DEF LinkTypes, EntryTypes, BookTypes, CallTypes, Asks, Answers, LinkStaged,
     LinksUnused, LinksCut, LinkServed, EntriesSane, CallsSane, BookRuns, CallRuns, EntryRuns,
     Fresh, Busy
<1>1. DaemonTypes'
  BY <1>s, <1>u, BookAssumption
  DEF DaemonTypes, LinkTypes, Links, Other, Nobody, OtherTakes
<1>2. HoldersKnown'
  BY <1>s, <1>u, BookAssumption
  DEF HoldersKnown, LinkTypes, DaemonTypes, Nobody, Other, OtherTakes
<1>3. ClaimRuns'
  BY <1>s, <1>u, BookAssumption
  DEF ClaimRuns, DaemonTypes, Nobody, OtherTakes
<1> QED BY <1>v, <1>1, <1>2, <1>3 DEF Shape, Types

LEMMA OtherLeavesShape == ASSUME Shape, NEW t \in Tabs, OtherLeaves(t) PROVE Shape'
<1>s. /\ DaemonTypes /\ LinkTypes /\ EntryTypes /\ BookTypes /\ CallTypes /\ Asks(asks)
      /\ Answers(answers) /\ LinkStaged /\ LinksUnused /\ LinksCut /\ HoldersKnown /\ LinkServed
      /\ EntriesSane /\ CallsSane /\ ClaimRuns /\ BookRuns /\ CallRuns /\ EntryRuns
  BY DEF Shape, Types
<1>u. UNCHANGED <<browser, run, serving, asks, answers, cut, last, link, stage, todo, asking, book,
        call, made, doubt>>
  BY DEF OtherLeaves, daemon, linking, calling
<1>w. Asks(asks') /\ Answers(answers')
  BY <1>s DEF OtherLeaves
<1>v. /\ LinkTypes' /\ EntryTypes' /\ BookTypes' /\ CallTypes' /\ Asks(asks)' /\ Answers(answers)'
      /\ LinkStaged' /\ LinksUnused' /\ LinksCut' /\ LinkServed' /\ EntriesSane' /\ CallsSane'
      /\ BookRuns' /\ CallRuns' /\ EntryRuns'
  BY <1>s, <1>u DEF LinkTypes, EntryTypes, BookTypes, CallTypes, Asks, Answers, LinkStaged,
     LinksUnused, LinksCut, LinkServed, EntriesSane, CallsSane, BookRuns, CallRuns, EntryRuns,
     Fresh, Busy
<1>1. DaemonTypes'
  BY <1>s, <1>u, BookAssumption
  DEF DaemonTypes, LinkTypes, Links, Other, Nobody, OtherLeaves
<1>2. HoldersKnown'
  BY <1>s, <1>u, BookAssumption
  DEF HoldersKnown, LinkTypes, DaemonTypes, Nobody, Other, OtherLeaves
<1>3. ClaimRuns'
  BY <1>s, <1>u, BookAssumption
  DEF ClaimRuns, DaemonTypes, Nobody, OtherLeaves
<1> QED BY <1>v, <1>1, <1>2, <1>3 DEF Shape, Types

LEMMA CutShape == ASSUME Shape, Cut PROVE Shape'
<1>s. /\ DaemonTypes /\ LinkTypes /\ EntryTypes /\ BookTypes /\ CallTypes /\ Asks(asks)
      /\ Answers(answers) /\ LinkStaged /\ LinksUnused /\ LinksCut /\ HoldersKnown /\ LinkServed
      /\ EntriesSane /\ CallsSane /\ ClaimRuns /\ BookRuns /\ CallRuns /\ EntryRuns
  BY DEF Shape, Types
<1>u. UNCHANGED <<browser, run, claims, serving, asks, answers, last, link, stage, todo, asking,
        book, call, made, doubt>>
  BY DEF Cut, daemon, linking, calling
<1>w. Asks(asks') /\ Answers(answers')
  BY <1>s DEF Cut
<1>v. /\ DaemonTypes' /\ EntryTypes' /\ BookTypes' /\ CallTypes' /\ Asks(asks)' /\ Answers(answers)'
      /\ LinkStaged' /\ LinksUnused' /\ HoldersKnown' /\ EntriesSane' /\ CallsSane' /\ ClaimRuns'
      /\ BookRuns' /\ CallRuns' /\ EntryRuns'
  BY <1>s, <1>u DEF DaemonTypes, EntryTypes, BookTypes, CallTypes, Asks, Answers, LinkStaged,
     LinksUnused, HoldersKnown, EntriesSane, CallsSane, ClaimRuns, BookRuns, CallRuns, EntryRuns,
     Busy
<1>1. LinkTypes'
  BY <1>s, <1>u, BookAssumption
  DEF LinkTypes, Cut
<1>2. LinksCut'
  BY <1>s, <1>u, BookAssumption
  DEF LinksCut, LinkTypes, LinkStaged, Cut
<1>3. LinkServed'
  BY <1>s, <1>u, BookAssumption
  DEF LinkServed, Fresh, LinkTypes, Cut
<1> QED BY <1>v, <1>1, <1>2, <1>3 DEF Shape, Types

LEMMA RestartShape == ASSUME Shape, Restart PROVE Shape'
<1>s. /\ DaemonTypes /\ LinkTypes /\ EntryTypes /\ BookTypes /\ CallTypes /\ Asks(asks)
      /\ Answers(answers) /\ LinkStaged /\ LinksUnused /\ LinksCut /\ HoldersKnown /\ LinkServed
      /\ EntriesSane /\ CallsSane /\ ClaimRuns /\ BookRuns /\ CallRuns /\ EntryRuns
  BY DEF Shape, Types
<1>u. UNCHANGED <<browser, answers, last, link, stage, todo, asking, book, call, made, doubt>>
  BY DEF Restart, daemon, linking, calling
<1>w. Asks(asks') /\ Answers(answers')
  BY <1>s DEF Restart, Asks
<1>v. /\ EntryTypes' /\ BookTypes' /\ CallTypes' /\ Answers(answers)' /\ LinkStaged' /\ EntriesSane'
      /\ CallsSane' /\ BookRuns' /\ CallRuns' /\ EntryRuns'
  BY <1>s, <1>u DEF EntryTypes, BookTypes, CallTypes, Answers, LinkStaged, EntriesSane, CallsSane,
     BookRuns, CallRuns, EntryRuns, Busy
<1>1. DaemonTypes'
  BY <1>s, <1>u, BookAssumption
  DEF DaemonTypes, LinkTypes, Links, Other, Nobody, Restart
<1>2. LinkTypes'
  BY <1>s, <1>u, BookAssumption
  DEF LinkTypes, Restart
<1>3. Asks(asks)'
  BY <1>w, <1>u DEF Asks
<1>4. LinksUnused'
  BY <1>s, <1>u, BookAssumption
  DEF LinksUnused, LinkTypes, Links, Restart
<1>5. LinksCut'
  BY <1>s, <1>u, BookAssumption
  DEF LinksCut, LinkTypes, LinkStaged, Restart
<1>6. HoldersKnown'
  BY <1>s, <1>u, BookAssumption
  DEF HoldersKnown, LinkTypes, DaemonTypes, Nobody, Other, Restart
<1>7. LinkServed'
  BY <1>s, <1>u, BookAssumption
  DEF LinkServed, Fresh, LinkTypes, Restart
<1>8. ClaimRuns'
  BY <1>s, <1>u, BookAssumption
  DEF ClaimRuns, DaemonTypes, Nobody, Restart
<1> QED BY <1>v, <1>1, <1>2, <1>3, <1>4, <1>5, <1>6, <1>7, <1>8 DEF Shape, Types

LEMMA DialShape == ASSUME Shape, Dial PROVE Shape'
<1>s. /\ DaemonTypes /\ LinkTypes /\ EntryTypes /\ BookTypes /\ CallTypes /\ Asks(asks)
      /\ Answers(answers) /\ LinkStaged /\ LinksUnused /\ LinksCut /\ HoldersKnown /\ LinkServed
      /\ EntriesSane /\ CallsSane /\ ClaimRuns /\ BookRuns /\ CallRuns /\ EntryRuns
  BY DEF Shape, Types
<1>u. UNCHANGED <<browser, run, claims, answers, cut, todo, asking, book, call, made, doubt>>
  BY DEF Dial, daemon, linking, calling
<1>w. Asks(asks') /\ Answers(answers')
  <2> DEFINE f == [kind |-> "status", tab |-> "none", id |-> 0, run |-> 0]
  <2>1. f \in AskFrames /\ f.run <= browser
    BY <1>s, BookAssumption DEF AskFrames, DaemonTypes
  <2>2. <<f>> \in Seq(AskFrames) /\ Len(<<f>>) = 1 /\ <<f>>[1] = f
    BY <1>s, <2>1
  <2> HIDE DEF f
  <2>3. last' \in Links /\ asks' = [asks EXCEPT ![last'] = <<f>>]
    BY <1>s, BookAssumption DEF Dial, LinkTypes, Links, f
  <2>4. \A c \in Links : asks'[c] = asks[c] \/ asks'[c] = <<f>>
    BY <1>s, <2>3 DEF Asks
  <2>5. f.kind = "status"
    BY DEF f
  <2>6. asks' \in [Links -> Seq(AskFrames)]
    BY <1>s, <2>2, <2>3 DEF Asks
  <2>7. \A c \in Links : \A i \in 1..Len(asks'[c]) :
          asks'[c][i] = f \/ (i \in 1..Len(asks[c]) /\ asks'[c][i] = asks[c][i])
    BY <2>2, <2>4
  <2>8. \A c \in Links : \A i \in 1..Len(asks'[c]) :
          asks'[c][i].run <= browser /\ (asks'[c][i].kind # "status" => asks'[c][i].tab \in Tabs)
    BY <1>s, <2>1, <2>5, <2>7 DEF Asks
  <2> QED BY <1>s, <1>u, <2>6, <2>8 DEF Asks
<1>v. /\ EntryTypes' /\ BookTypes' /\ CallTypes' /\ Answers(answers)' /\ CallsSane' /\ ClaimRuns'
      /\ BookRuns' /\ CallRuns' /\ EntryRuns'
  BY <1>s, <1>u DEF EntryTypes, BookTypes, CallTypes, Answers, CallsSane, ClaimRuns, BookRuns,
     CallRuns, EntryRuns, Busy
<1>1. DaemonTypes'
  BY <1>s, <1>u, BookAssumption
  DEF DaemonTypes, LinkTypes, Links, Other, Nobody, Dial
<1>2. LinkTypes'
  BY <1>s, <1>u, BookAssumption
  DEF LinkTypes, Dial
<1>3. Asks(asks)'
  BY <1>w, <1>u DEF Asks
<1>4. LinkStaged'
  BY <1>s, <1>u, BookAssumption
  DEF LinkTypes, LinkStaged, Dial
<1>5. LinksUnused'
  BY <1>s, <1>u, BookAssumption
  DEF LinksUnused, LinkTypes, Links, Dial
<1>6. LinksCut'
  BY <1>s, <1>u, BookAssumption
  DEF LinksCut, LinkTypes, LinkStaged, Dial
<1>7. HoldersKnown'
  BY <1>s, <1>u, BookAssumption
  DEF HoldersKnown, LinkTypes, DaemonTypes, Nobody, Other, Dial
<1>8. LinkServed'
  BY <1>s, <1>u, BookAssumption
  DEF LinkServed, Fresh, LinkTypes, Dial
<1>9. EntriesSane'
  BY <1>s, <1>u, BookAssumption
  DEF EntriesSane, Dial
<1> QED BY <1>v, <1>1, <1>2, <1>3, <1>4, <1>5, <1>6, <1>7, <1>8, <1>9 DEF Shape, Types

LEMMA ReadStateShape == ASSUME Shape, ReadState PROVE Shape'
<1>s. /\ DaemonTypes /\ LinkTypes /\ EntryTypes /\ BookTypes /\ CallTypes /\ Asks(asks)
      /\ Answers(answers) /\ LinkStaged /\ LinksUnused /\ LinksCut /\ HoldersKnown /\ LinkServed
      /\ EntriesSane /\ CallsSane /\ ClaimRuns /\ BookRuns /\ CallRuns /\ EntryRuns
  BY DEF Shape, Types
<1>u. UNCHANGED <<browser, run, claims, serving, asks, cut, last, link, asking, made>>
  BY DEF ReadState, Disturbed, daemon, linking, calling
<1>w. Asks(asks') /\ Answers(answers')
  <2>1. link \in Links
    BY <1>s DEF ReadState, LinkTypes, Links
  <2> QED BY <2>1, <1>s, Reading DEF ReadState
<1>c. CallTypes' /\ CallsSane' /\ CallRuns'
  <2>1. CASE UNCHANGED call
    BY <1>s, <1>u, <2>1 DEF CallTypes, CallsSane, CallRuns, Busy
  <2>2. ASSUME NEW T, call' = Disturbed(T) PROVE CallTypes' /\ CallsSane' /\ CallRuns'
    <3>1. call' \in [Tabs -> CallStates] /\ \A x \in Tabs : CallKept(x)
      BY <1>s, <1>u, <2>2, Disturbing DEF CallKept, CallRuns, CallTypes, CallStates, DaemonTypes
    <3> QED BY <1>s, <1>u, <3>1, KeepingCalls
  <2> QED BY <2>1, <2>2 DEF ReadState
<1>f. /\ link \in Links
      /\ Head(answers[link]).run \in 0..MaxRuns /\ Head(answers[link]).run <= browser
  <2>1. link \in Links /\ answers[link] # <<>>
    BY <1>s DEF ReadState, LinkTypes, Links
  <2>2. Head(answers[link]) \in StateFrames \cup ReplyFrames /\ Head(answers[link]).run <= browser
    BY <1>s, <2>1, Reading
  <2> QED BY <2>1, <2>2 DEF StateFrames, ReplyFrames
<1>b. BookTypes' /\ BookRuns'
  <2> DEFINE r == Head(answers[link]).run
  <2>1. book' = Applied(r) /\ doubt' \subseteq Tabs
    BY <1>s DEF ReadState, BookTypes
  <2> HIDE DEF r
  <2>2. book' \in [Tabs -> 0..Out] /\ (\A t \in Tabs : book'[t] \in {book[t], Out, r})
    BY <1>s, <1>f, <2>1, BookAssumption DEF BookTypes, Applied, Out, r
  <2> QED BY <1>s, <1>u, <1>f, <2>1, <2>2 DEF BookTypes, BookRuns, r
<1>e. EntryTypes' /\ EntriesSane' /\ EntryRuns'
  <2>1. CASE UNCHANGED <<stage, todo>>
    BY <1>s, <1>u, <2>1 DEF EntryTypes, EntriesSane, EntryRuns
  <2>2. CASE stage = "status" /\ stage' = "assert" /\ todo' = Remembered(book')
    <3>1. /\ todo' \subseteq Entries /\ \A e, f \in todo' : e.tab = f.tab => e = f
          /\ \A e \in todo' : book'[e.tab] = e.run /\ book'[e.tab] # Out
      BY <1>b, <2>2, Remembering DEF BookTypes
    <3>2. asking' = {} /\ \A e \in todo' : e.tab \in Tabs
      BY <1>s, <1>u, <2>2, <3>1 DEF EntriesSane, Entries
    <3>3. \A e \in todo' : e.run <= browser'
      BY <1>b, <3>1, <3>2 DEF BookRuns
    <3> QED BY <2>2, <3>1, <3>2, <3>3 DEF EntryTypes, EntriesSane, EntryRuns
  <2> QED BY <2>1, <2>2 DEF ReadState
<1>v. /\ DaemonTypes' /\ Asks(asks)' /\ LinksCut' /\ HoldersKnown' /\ LinkServed' /\ ClaimRuns'
  BY <1>s, <1>u DEF DaemonTypes, Asks, LinksCut, HoldersKnown, LinkServed, ClaimRuns, Fresh
<1>1. LinkTypes'
  BY <1>s, <1>u, BookAssumption
  DEF LinkTypes, ReadState, Disturbed
<1>2. Answers(answers)'
  BY <1>w, <1>u DEF Answers
<1>3. LinkStaged'
  BY <1>s, <1>u, BookAssumption
  DEF LinkTypes, LinkStaged, ReadState, Disturbed
<1>4. LinksUnused'
  BY <1>s, <1>u, BookAssumption
  DEF LinksUnused, LinkTypes, Links, ReadState, Disturbed
<1> QED BY <1>v, <1>1, <1>e, <1>b, <1>c, <1>2, <1>3, <1>4 DEF Shape, Types

LEMMA AssertShape == ASSUME Shape, Assert PROVE Shape'
<1>s. /\ DaemonTypes /\ LinkTypes /\ EntryTypes /\ BookTypes /\ CallTypes /\ Asks(asks)
      /\ Answers(answers) /\ LinkStaged /\ LinksUnused /\ LinksCut /\ HoldersKnown /\ LinkServed
      /\ EntriesSane /\ CallsSane /\ ClaimRuns /\ BookRuns /\ CallRuns /\ EntryRuns
  BY DEF Shape, Types
<1>u. UNCHANGED <<browser, run, claims, serving, answers, cut, last, link, book, made, doubt>>
  BY DEF Assert, Disturbed, daemon, linking, calling
<1>w. Asks(asks') /\ Answers(answers')
  <2>1. link \in Links
    BY <1>s DEF Assert, LinkTypes, Links, LinkStaged
  <2>2. ASSUME NEW e \in todo, asks' = Sent(link, Claim(e.tab, 0, e.run)) PROVE Asks(asks')
    <3>1. e \in Entries /\ e.run <= browser
      BY <1>s DEF EntryTypes, EntryRuns
    <3>2. Claim(e.tab, 0, e.run) \in AskFrames /\ Claim(e.tab, 0, e.run).run <= browser
            /\ Claim(e.tab, 0, e.run).tab \in Tabs
      BY <1>s, <3>1 DEF Claim, AskFrames, Entries
    <3> QED BY <1>s, <2>1, <2>2, <3>2, Sending
  <2> QED BY <2>2, <1>s DEF Assert
<1>c. CallTypes' /\ CallsSane' /\ CallRuns'
  <2>1. CASE UNCHANGED call
    BY <1>s, <1>u, <2>1 DEF CallTypes, CallsSane, CallRuns, Busy
  <2>2. ASSUME NEW T, call' = Disturbed(T) PROVE CallTypes' /\ CallsSane' /\ CallRuns'
    <3>1. call' \in [Tabs -> CallStates] /\ \A x \in Tabs : CallKept(x)
      BY <1>s, <1>u, <2>2, Disturbing DEF CallKept, CallRuns, CallTypes, CallStates, DaemonTypes
    <3> QED BY <1>s, <1>u, <3>1, KeepingCalls
  <2> QED BY <2>1, <2>2 DEF Assert
<1>v. /\ DaemonTypes' /\ BookTypes' /\ Answers(answers)' /\ LinksCut' /\ HoldersKnown'
      /\ LinkServed' /\ ClaimRuns' /\ BookRuns'
  BY <1>s, <1>u DEF DaemonTypes, BookTypes, Answers, LinksCut, HoldersKnown, LinkServed, ClaimRuns,
     BookRuns, Fresh
<1>1. LinkTypes'
  BY <1>s, <1>u, BookAssumption
  DEF LinkTypes, Assert, Disturbed
<1>2. EntryTypes'
  BY <1>s, <1>u, BookAssumption
  DEF EntryTypes, Assert, Disturbed
<1>3. Asks(asks)'
  BY <1>w, <1>u DEF Asks
<1>4. LinkStaged'
  BY <1>s, <1>u, BookAssumption
  DEF LinkTypes, LinkStaged, Assert, Disturbed
<1>5. LinksUnused'
  <2>1. \A f : \A x \in Links : x # link => Sent(link, f)[x] = asks[x]
    BY <1>s DEF Sent, Asks
  <2>2. \A x \in Links : x # link => asks'[x] = asks[x]
    BY <2>1 DEF Assert
  <2> QED BY <1>s, <1>u, <2>2, BookAssumption DEF LinksUnused, LinkTypes, Links
<1>6. EntriesSane'
  BY <1>s, <1>u, BookAssumption
  DEF EntriesSane, Assert, Disturbed
<1>7. EntryRuns'
  BY <1>s, <1>u, BookAssumption
  DEF EntryRuns, Assert, Disturbed
<1> QED BY <1>v, <1>1, <1>2, <1>c, <1>3, <1>4, <1>5, <1>6, <1>7 DEF Shape, Types

LEMMA ReadReplyShape == ASSUME Shape, ReadReply PROVE Shape'
<1>s. /\ DaemonTypes /\ LinkTypes /\ EntryTypes /\ BookTypes /\ CallTypes /\ Asks(asks)
      /\ Answers(answers) /\ LinkStaged /\ LinksUnused /\ LinksCut /\ HoldersKnown /\ LinkServed
      /\ EntriesSane /\ CallsSane /\ ClaimRuns /\ BookRuns /\ CallRuns /\ EntryRuns
  BY DEF Shape, Types
<1>u. UNCHANGED <<browser, run, claims, serving, asks, cut, last, link, stage, todo, made, doubt>>
  BY DEF ReadReply, AssertAnswered, CallAnswered, daemon, linking, calling
<1>w. Asks(asks') /\ Answers(answers')
  <2>1. link \in Links
    BY <1>s DEF ReadReply, LinkTypes, Links
  <2> QED BY <2>1, <1>s, Reading DEF ReadReply
<1>f. /\ link \in Links
      /\ Head(answers[link]) \in ReplyFrames /\ Head(answers[link]).run <= browser
  <2>1. link \in Links /\ answers[link] # <<>> /\ Head(answers[link]).kind = "reply"
    BY <1>s DEF ReadReply, LinkTypes, Links
  <2>2. Head(answers[link]) \in StateFrames \cup ReplyFrames /\ Head(answers[link]).run <= browser
    BY <1>s, <2>1, Reading
  <2> QED BY <2>1, <2>2 DEF StateFrames
<1>c. CallTypes' /\ CallsSane' /\ CallRuns'
  <2> DEFINE f == Head(answers[link])
  <2>1. CASE UNCHANGED call
    BY <1>s, <1>u, <2>1 DEF CallTypes, CallsSane, CallRuns, Busy
  <2>2. CASE /\ Busy(f.tab)
             /\ call' = [call EXCEPT ![f.tab] = [@ EXCEPT !.at = "told", !.granted = f.granted,
                  !.run = f.run]]
    <3> DEFINE d == [call[f.tab] EXCEPT !.at = "told", !.granted = f.granted, !.run = f.run]
    <3>1. f.tab \in Tabs /\ f.granted \in BOOLEAN /\ f.run \in 0..MaxRuns /\ f.run <= browser
      BY <1>f DEF ReplyFrames
    <3>2. d \in CallStates /\ d.run <= browser /\ d.at # "idle" /\ d.kind = call[f.tab].kind
      <4>1. call[f.tab] \in CallStates
        BY <1>s, <3>1 DEF CallTypes
      <4> HIDE DEF f
      <4> QED BY <3>1, <4>1 DEF CallStates
    <3>3. call[f.tab].kind # "none" /\ made[f.tab] # 0
      BY <1>s, <2>2, <3>1 DEF CallsSane, Busy
    <3>4. call' = [call EXCEPT ![f.tab] = d]
      BY <1>s, <2>2, <3>1 DEF CallTypes
    <3> HIDE DEF d, f
    <3> QED BY <1>s, <1>u, <3>1, <3>2, <3>3, <3>4, OneCall DEF BookTypes
  <2> QED BY <2>1, <2>2 DEF ReadReply, AssertAnswered, CallAnswered
<1>b. BookTypes' /\ BookRuns'
  <2> DEFINE f == Head(answers[link])
  <2>1. f.tab \in Tabs /\ f.run \in 0..MaxRuns /\ f.run <= browser
    BY <1>f DEF ReplyFrames
  <2>2. CASE UNCHANGED book
    BY <1>s, <1>u, <2>2 DEF BookTypes, BookRuns
  <2>3. CASE f.id = 0 /\ asking # {}
    <3> DEFINE e == CHOOSE x \in asking : TRUE
    <3>1. e \in asking /\ e.run \in 0..MaxRuns /\ e.run <= browser
      BY <1>s, <2>3 DEF EntryTypes, Entries, EntryRuns
    <3>2. book' = [book EXCEPT ![f.tab] = IF ~f.granted \/ @ = Out THEN Out
                                          ELSE IF f.run # 0 THEN f.run ELSE e.run]
      BY <2>3 DEF ReadReply, AssertAnswered, CallAnswered
    <3> HIDE DEF e, f
    <3>3. book' \in [Tabs -> 0..Out] /\ (\A t \in Tabs : book'[t] \in {book[t], Out, f.run, e.run})
      BY <1>s, <2>1, <3>1, <3>2, BookAssumption DEF BookTypes, Out
    <3> QED BY <1>s, <1>u, <2>1, <3>1, <3>3 DEF BookTypes, BookRuns
  <2> QED BY <2>2, <2>3 DEF ReadReply, AssertAnswered, CallAnswered
<1>v. /\ DaemonTypes' /\ LinkTypes' /\ Asks(asks)' /\ LinkStaged' /\ LinksCut' /\ HoldersKnown'
      /\ LinkServed' /\ ClaimRuns'
  BY <1>s, <1>u DEF DaemonTypes, LinkTypes, Asks, LinkStaged, LinksCut, HoldersKnown, LinkServed,
     ClaimRuns, Fresh
<1>1. EntryTypes'
  BY <1>s, <1>u, BookAssumption
  DEF EntryTypes, ReadReply, AssertAnswered, CallAnswered
<1>2. Answers(answers)'
  BY <1>w, <1>u DEF Answers
<1>3. LinksUnused'
  BY <1>s, <1>u, BookAssumption
  DEF LinksUnused, LinkTypes, Links, ReadReply, AssertAnswered, CallAnswered
<1>4. EntriesSane'
  BY <1>s, <1>u, BookAssumption
  DEF EntriesSane, ReadReply, AssertAnswered, CallAnswered
<1>5. EntryRuns'
  BY <1>s, <1>u, BookAssumption
  DEF EntryRuns, ReadReply, AssertAnswered, CallAnswered
<1> QED BY <1>v, <1>1, <1>b, <1>c, <1>2, <1>3, <1>4, <1>5 DEF Shape, Types

LEMMA AssertTimeoutShape == ASSUME Shape, AssertTimeout PROVE Shape'
<1>s. /\ DaemonTypes /\ LinkTypes /\ EntryTypes /\ BookTypes /\ CallTypes /\ Asks(asks)
      /\ Answers(answers) /\ LinkStaged /\ LinksUnused /\ LinksCut /\ HoldersKnown /\ LinkServed
      /\ EntriesSane /\ CallsSane /\ ClaimRuns /\ BookRuns /\ CallRuns /\ EntryRuns
  BY DEF Shape, Types
<1>u. UNCHANGED <<browser, run, claims, serving, asks, answers, cut, last, link, book, call, made>>
  BY DEF AssertTimeout, daemon, linking, calling
<1>w. Asks(asks') /\ Answers(answers')
  BY <1>s DEF AssertTimeout
<1>v. /\ DaemonTypes' /\ CallTypes' /\ Asks(asks)' /\ Answers(answers)' /\ LinksUnused' /\ LinksCut'
      /\ HoldersKnown' /\ LinkServed' /\ CallsSane' /\ ClaimRuns' /\ BookRuns' /\ CallRuns'
  BY <1>s, <1>u DEF DaemonTypes, CallTypes, Asks, Answers, LinksUnused, LinksCut, HoldersKnown,
     LinkServed, CallsSane, ClaimRuns, BookRuns, CallRuns, Fresh, Busy
<1>1. LinkTypes'
  BY <1>s, <1>u, BookAssumption
  DEF LinkTypes, AssertTimeout
<1>2. EntryTypes'
  BY <1>s, <1>u, BookAssumption
  DEF EntryTypes, AssertTimeout
<1>3. BookTypes'
  <2>1. {e.tab : e \in asking \cup todo} \subseteq Tabs
    BY <1>s DEF EntryTypes, Entries
  <2> QED BY <1>s, <1>u, <2>1 DEF AssertTimeout, BookTypes
<1>4. LinkStaged'
  BY <1>s, <1>u, BookAssumption
  DEF LinkTypes, LinkStaged, AssertTimeout
<1>5. EntriesSane'
  BY <1>s, <1>u, BookAssumption
  DEF EntriesSane, AssertTimeout
<1>6. EntryRuns'
  BY <1>s, <1>u, BookAssumption
  DEF EntryRuns, AssertTimeout
<1> QED BY <1>v, <1>1, <1>2, <1>3, <1>4, <1>5, <1>6 DEF Shape, Types

LEMMA LinkEndsShape == ASSUME Shape, LinkEnds PROVE Shape'
<1>s. /\ DaemonTypes /\ LinkTypes /\ EntryTypes /\ BookTypes /\ CallTypes /\ Asks(asks)
      /\ Answers(answers) /\ LinkStaged /\ LinksUnused /\ LinksCut /\ HoldersKnown /\ LinkServed
      /\ EntriesSane /\ CallsSane /\ ClaimRuns /\ BookRuns /\ CallRuns /\ EntryRuns
  BY DEF Shape, Types
<1>u. UNCHANGED <<browser, run, claims, serving, asks, cut, last, book, made, doubt>>
  BY DEF LinkEnds, daemon, linking, calling
<1>w. Asks(asks') /\ Answers(answers')
  <2>1. <<>> \in Seq(StateFrames \cup ReplyFrames) /\ Len(<<>>) = 0
    OBVIOUS
  <2>2. answers' = [answers EXCEPT ![link] = <<>>]
    BY DEF LinkEnds
  <2>3. \A c \in Links : answers'[c] \in {answers[c], <<>>}
    BY <1>s, <2>2 DEF Answers
  <2>4. answers' \in [Links -> Seq(StateFrames \cup ReplyFrames)]
    BY <1>s, <2>1, <2>2 DEF Answers
  <2>5. \A c \in Links : \A i \in 1..Len(answers'[c]) : answers'[c][i].run <= browser
    BY <1>s, <2>1, <2>3 DEF Answers
  <2> QED BY <1>s, <1>u, <2>4, <2>5 DEF Answers
<1>c. CallTypes' /\ CallsSane' /\ CallRuns'
  <2>1. PICK lost \in SUBSET {t \in Tabs : call[t].at = "told"} :
          call' = [t \in Tabs |->
                      IF Busy(t) /\ call[t].link = link /\ (call[t].at = "sent" \/ t \in lost)
                      THEN [call[t] EXCEPT !.at = "failed", !.clean = FALSE]
                      ELSE Disturbed(Tabs)[t]]
    BY DEF LinkEnds
  <2>2. ASSUME NEW t \in Tabs PROVE call'[t] \in CallStates /\ CallKept(t)
    <3>1. call[t] \in CallStates /\ call[t].run <= browser /\ (~Busy(t) => call[t] = Idle)
      BY <1>s DEF CallTypes, CallRuns, CallsSane
    <3>2. CASE Busy(t) /\ call[t].link = link /\ (call[t].at = "sent" \/ t \in lost)
      <4>1. call'[t] = [call[t] EXCEPT !.at = "failed", !.clean = FALSE]
        BY <2>1, <3>2
      <4> QED BY <1>u, <3>1, <3>2, <4>1 DEF CallKept, CallStates
    <3>3. CASE ~(Busy(t) /\ call[t].link = link /\ (call[t].at = "sent" \/ t \in lost))
      <4>1. call'[t] = Disturbed(Tabs)[t]
        BY <2>1, <3>3
      <4> QED BY <1>s, <1>u, <3>1, <4>1, Disturbing DEF CallKept
    <3> QED BY <3>2, <3>3
  <2>3. call' \in [Tabs -> CallStates]
    BY <2>1, <2>2
  <2> QED BY <1>s, <1>u, <2>2, <2>3, KeepingCalls
<1>v. /\ DaemonTypes' /\ BookTypes' /\ Asks(asks)' /\ HoldersKnown' /\ ClaimRuns' /\ BookRuns'
  BY <1>s, <1>u DEF DaemonTypes, BookTypes, Asks, HoldersKnown, ClaimRuns, BookRuns
<1>1. LinkTypes'
  BY <1>s, <1>u, BookAssumption
  DEF LinkTypes, LinkEnds
<1>2. EntryTypes'
  BY <1>s, <1>u, BookAssumption
  DEF EntryTypes, LinkEnds
<1>3. Answers(answers)'
  BY <1>w, <1>u DEF Answers
<1>4. LinkStaged'
  BY <1>s, <1>u, BookAssumption
  DEF LinkTypes, LinkStaged, LinkEnds
<1>5. LinksUnused'
  <2>1. \A x \in Links : answers[x] = <<>> => answers'[x] = <<>>
    BY <1>s DEF LinkEnds, Answers
  <2> QED BY <1>s, <1>u, <2>1 DEF LinksUnused
<1>6. LinksCut'
  BY <1>s, <1>u, BookAssumption
  DEF LinksCut, LinkTypes, LinkStaged, LinkEnds
<1>7. LinkServed'
  BY <1>s, <1>u, BookAssumption
  DEF LinkServed, Fresh, LinkTypes, LinkEnds
<1>8. EntriesSane'
  BY <1>s, <1>u, BookAssumption
  DEF EntriesSane, LinkEnds
<1>9. EntryRuns'
  BY <1>s, <1>u, BookAssumption
  DEF EntryRuns, LinkEnds
<1> QED BY <1>v, <1>1, <1>2, <1>c, <1>3, <1>4, <1>5, <1>6, <1>7, <1>8, <1>9 DEF Shape, Types

LEMMA ClaimTabShape == ASSUME Shape, NEW t \in Tabs, ClaimTab(t) PROVE Shape'
<1>s. /\ DaemonTypes /\ LinkTypes /\ EntryTypes /\ BookTypes /\ CallTypes /\ Asks(asks)
      /\ Answers(answers) /\ LinkStaged /\ LinksUnused /\ LinksCut /\ HoldersKnown /\ LinkServed
      /\ EntriesSane /\ CallsSane /\ ClaimRuns /\ BookRuns /\ CallRuns /\ EntryRuns
  BY DEF Shape, Types
<1>u. UNCHANGED <<browser, run, claims, serving, answers, cut, last, link, stage, todo, asking,
        book, doubt>>
  BY DEF ClaimTab, Begin, daemon, linking, calling
<1>w. Asks(asks') /\ Answers(answers')
  <2> DEFINE f == Claim(t, made'[t], 0)
  <2>1. link \in Links
    BY <1>s DEF ClaimTab, LinkTypes, Links
  <2>2. f \in AskFrames /\ f.run <= browser /\ f.tab \in Tabs
    BY <1>s, BookAssumption DEF ClaimTab, Claim, AskFrames, LinkTypes, DaemonTypes, BookTypes
  <2>3. asks' = Sent(link, f)
    BY <1>s DEF ClaimTab
  <2> QED BY <2>1, <2>2, <2>3, <1>s, Sending DEF ClaimTab
<1>c. CallTypes' /\ CallsSane' /\ CallRuns'
  <2> DEFINE b == ~\E e \in todo : e.tab = t
  <2> DEFINE d == [Idle EXCEPT !.kind = "claim", !.at = "sent", !.link = link, !.clean = b]
  <2>2. call' = [call EXCEPT ![t] = d]
    BY <1>s DEF ClaimTab, Begin, End, CallTypes
  <2>3. made' \in [Tabs -> Nat] /\ (\A x \in Tabs : x # t => made'[x] = made[x])
          /\ (d = Idle \/ made'[t] # 0)
    BY <1>s, <1>u DEF ClaimTab, BookTypes, CallsSane, Busy, Idle
  <2>4. d = Idle \/ (d.kind # "none" /\ d.at # "idle")
    BY <1>s DEF ClaimTab, CallsSane, Busy, Idle
  <2>5. b \in BOOLEAN
    OBVIOUS
  <2> HIDE DEF b
  <2>6. Idle.run = 0 /\ Idle \in CallStates /\ link \in 0..MaxLinks /\ 0 \in 0..MaxLinks
          /\ 0 <= browser
    BY <1>s, IdleTyped, BookAssumption DEF Idle, LinkTypes, DaemonTypes
  <2>1. d \in CallStates /\ d.run <= browser
    BY <2>5, <2>6 DEF CallStates
  <2> HIDE DEF d
  <2> QED BY <1>s, <1>u, <2>1, <2>2, <2>3, <2>4, OneCall
<1>v. /\ DaemonTypes' /\ LinkTypes' /\ EntryTypes' /\ Answers(answers)' /\ LinkStaged' /\ LinksCut'
      /\ HoldersKnown' /\ LinkServed' /\ EntriesSane' /\ ClaimRuns' /\ BookRuns' /\ EntryRuns'
  BY <1>s, <1>u DEF DaemonTypes, LinkTypes, EntryTypes, Answers, LinkStaged, LinksCut, HoldersKnown,
     LinkServed, EntriesSane, ClaimRuns, BookRuns, EntryRuns, Fresh
<1>1. BookTypes'
  BY <1>s, <1>u, BookAssumption
  DEF BookTypes, Out, ClaimTab, Begin
<1>2. Asks(asks)'
  BY <1>w, <1>u DEF Asks
<1>3. LinksUnused'
  <2>1. \A x \in Links : x # link => asks'[x] = asks[x]
    BY <1>s DEF ClaimTab, Sent, Asks
  <2> QED BY <1>s, <1>u, <2>1, BookAssumption DEF LinksUnused, LinkTypes, Links
<1> QED BY <1>v, <1>1, <1>c, <1>2, <1>3 DEF Shape, Types

LEMMA ReleaseTabShape == ASSUME Shape, NEW t \in Tabs, ReleaseTab(t) PROVE Shape'
<1>s. /\ DaemonTypes /\ LinkTypes /\ EntryTypes /\ BookTypes /\ CallTypes /\ Asks(asks)
      /\ Answers(answers) /\ LinkStaged /\ LinksUnused /\ LinksCut /\ HoldersKnown /\ LinkServed
      /\ EntriesSane /\ CallsSane /\ ClaimRuns /\ BookRuns /\ CallRuns /\ EntryRuns
  BY DEF Shape, Types
<1>u. UNCHANGED <<browser, run, claims, serving, asks, answers, cut, last, link, stage, todo,
        asking, doubt>>
  BY DEF ReleaseTab, Begin, daemon, linking, calling
<1>w. Asks(asks') /\ Answers(answers')
  BY <1>s DEF ReleaseTab
<1>c. CallTypes' /\ CallsSane' /\ CallRuns'
  <2> DEFINE b == ~\E e \in todo : e.tab = t
  <2> DEFINE d == [Idle EXCEPT !.kind = "release", !.at = "begun", !.link = 0, !.clean = b]
  <2>2. call' = [call EXCEPT ![t] = d]
    BY <1>s DEF ReleaseTab, Begin, End, CallTypes
  <2>3. made' \in [Tabs -> Nat] /\ (\A x \in Tabs : x # t => made'[x] = made[x])
          /\ (d = Idle \/ made'[t] # 0)
    BY <1>s, <1>u DEF ReleaseTab, BookTypes, CallsSane, Busy, Idle
  <2>4. d = Idle \/ (d.kind # "none" /\ d.at # "idle")
    BY <1>s DEF ReleaseTab, CallsSane, Busy, Idle
  <2>5. b \in BOOLEAN
    OBVIOUS
  <2> HIDE DEF b
  <2>6. Idle.run = 0 /\ Idle \in CallStates /\ link \in 0..MaxLinks /\ 0 \in 0..MaxLinks
          /\ 0 <= browser
    BY <1>s, IdleTyped, BookAssumption DEF Idle, LinkTypes, DaemonTypes
  <2>1. d \in CallStates /\ d.run <= browser
    BY <2>5, <2>6 DEF CallStates
  <2> HIDE DEF d
  <2> QED BY <1>s, <1>u, <2>1, <2>2, <2>3, <2>4, OneCall
<1>v. /\ DaemonTypes' /\ LinkTypes' /\ EntryTypes' /\ Asks(asks)' /\ Answers(answers)'
      /\ LinkStaged' /\ LinksUnused' /\ LinksCut' /\ HoldersKnown' /\ LinkServed' /\ EntriesSane'
      /\ ClaimRuns' /\ EntryRuns'
  BY <1>s, <1>u DEF DaemonTypes, LinkTypes, EntryTypes, Asks, Answers, LinkStaged, LinksUnused,
     LinksCut, HoldersKnown, LinkServed, EntriesSane, ClaimRuns, EntryRuns, Fresh
<1>1. BookTypes'
  BY <1>s, <1>u, BookAssumption
  DEF BookTypes, Out, ReleaseTab, Begin
<1>2. BookRuns'
  BY <1>s, <1>u, BookAssumption
  DEF BookRuns, ReleaseTab, Begin
<1> QED BY <1>v, <1>1, <1>c, <1>2 DEF Shape, Types

LEMMA AskReleaseShape == ASSUME Shape, NEW t \in Tabs, AskRelease(t) PROVE Shape'
<1>s. /\ DaemonTypes /\ LinkTypes /\ EntryTypes /\ BookTypes /\ CallTypes /\ Asks(asks)
      /\ Answers(answers) /\ LinkStaged /\ LinksUnused /\ LinksCut /\ HoldersKnown /\ LinkServed
      /\ EntriesSane /\ CallsSane /\ ClaimRuns /\ BookRuns /\ CallRuns /\ EntryRuns
  BY DEF Shape, Types
<1>u. UNCHANGED <<browser, run, claims, serving, answers, cut, last, link, stage, todo, asking,
        book, made>>
  BY DEF AskRelease, End, daemon, linking, calling
<1>w. Asks(asks') /\ Answers(answers')
  <2> DEFINE f == [kind |-> "release", tab |-> t, id |-> made[t], run |-> 0]
  <2>1. CASE link # 0
    <3>1. link \in Links
      BY <1>s, <2>1 DEF LinkTypes, Links
    <3>2. f \in AskFrames /\ f.run <= browser /\ f.tab \in Tabs
      BY <1>s, BookAssumption DEF AskFrames, LinkTypes, DaemonTypes, BookTypes
    <3>3. asks' = Sent(link, f)
      BY <1>s, <2>1 DEF AskRelease
    <3> QED BY <3>1, <3>2, <3>3, <1>s, Sending DEF AskRelease
  <2> QED BY <2>1, <1>s DEF AskRelease
<1>c. CallTypes' /\ CallsSane' /\ CallRuns'
  <2>1. CASE link = 0
    <3>1. call' = [call EXCEPT ![t] = Idle]
      BY <2>1 DEF AskRelease, End
    <3> QED BY <1>s, <1>u, <3>1, IdleTyped, OneCall DEF BookTypes
  <2>2. CASE link # 0
    <3> DEFINE d == [call[t] EXCEPT !.at = "sent", !.link = link]
    <3>1. call' = [call EXCEPT ![t] = d]
      BY <1>s, <2>2 DEF AskRelease, CallTypes
    <3>2. /\ d \in CallStates /\ d.run <= browser /\ d.at # "idle" /\ d.kind = call[t].kind
      <4>1. call[t] \in CallStates /\ call[t].run <= browser /\ link \in 0..MaxLinks
        BY <1>s, BookAssumption DEF CallTypes, CallRuns, LinkTypes
      <4> QED BY <4>1 DEF CallStates
    <3>3. call[t].kind # "none" /\ made[t] # 0
      BY <1>s DEF AskRelease, CallsSane, Busy, Idle
    <3> HIDE DEF d
    <3> QED BY <1>s, <1>u, <3>1, <3>2, <3>3, OneCall DEF BookTypes
  <2> QED BY <2>1, <2>2
<1>v. /\ DaemonTypes' /\ LinkTypes' /\ EntryTypes' /\ Answers(answers)' /\ LinkStaged' /\ LinksCut'
      /\ HoldersKnown' /\ LinkServed' /\ EntriesSane' /\ ClaimRuns' /\ BookRuns' /\ EntryRuns'
  BY <1>s, <1>u DEF DaemonTypes, LinkTypes, EntryTypes, Answers, LinkStaged, LinksCut, HoldersKnown,
     LinkServed, EntriesSane, ClaimRuns, BookRuns, EntryRuns, Fresh
<1>1. BookTypes'
  BY <1>s, <1>u, BookAssumption
  DEF BookTypes, Out, AskRelease, End
<1>2. Asks(asks)'
  BY <1>w, <1>u DEF Asks
<1>3. LinksUnused'
  <2>1. \A x \in Links : x # link => asks'[x] = asks[x]
    BY <1>s DEF AskRelease, Sent, Asks
  <2> QED BY <1>s, <1>u, <2>1, BookAssumption DEF LinksUnused, LinkTypes, Links
<1> QED BY <1>v, <1>1, <1>c, <1>2, <1>3 DEF Shape, Types

LEMMA WakesShape == ASSUME Shape, NEW t \in Tabs, Wakes(t) PROVE Shape'
<1>s. /\ DaemonTypes /\ LinkTypes /\ EntryTypes /\ BookTypes /\ CallTypes /\ Asks(asks)
      /\ Answers(answers) /\ LinkStaged /\ LinksUnused /\ LinksCut /\ HoldersKnown /\ LinkServed
      /\ EntriesSane /\ CallsSane /\ ClaimRuns /\ BookRuns /\ CallRuns /\ EntryRuns
  BY DEF Shape, Types
<1>u. UNCHANGED <<browser, run, claims, serving, asks, answers, cut, last, link, stage, todo,
        asking, made>>
  BY DEF Wakes, End, daemon, linking, calling
<1>w. Asks(asks') /\ Answers(answers')
  BY <1>s DEF Wakes
<1>c. CallTypes' /\ CallsSane' /\ CallRuns'
  <2> DEFINE d == Idle
  <2>1. d \in CallStates /\ d.run <= browser
    BY <1>s, <1>u, BookAssumption DEF CallTypes, CallRuns, CallStates, DaemonTypes, LinkTypes, Idle
  <2>2. call' = [call EXCEPT ![t] = d]
    BY <1>s DEF Wakes, Begin, End, CallTypes
  <2>3. made' \in [Tabs -> Nat] /\ (\A x \in Tabs : x # t => made'[x] = made[x])
          /\ (d = Idle \/ made'[t] # 0)
    BY <1>s, <1>u DEF Wakes, BookTypes, CallsSane, Busy, Idle
  <2>4. d = Idle \/ (d.kind # "none" /\ d.at # "idle")
    BY <1>s DEF Wakes, CallsSane, Busy, Idle
  <2> HIDE DEF d
  <2> QED BY <1>s, <1>u, <2>1, <2>2, <2>3, <2>4, OneCall
<1>v. /\ DaemonTypes' /\ LinkTypes' /\ EntryTypes' /\ Asks(asks)' /\ Answers(answers)'
      /\ LinkStaged' /\ LinksUnused' /\ LinksCut' /\ HoldersKnown' /\ LinkServed' /\ EntriesSane'
      /\ ClaimRuns' /\ EntryRuns'
  BY <1>s, <1>u DEF DaemonTypes, LinkTypes, EntryTypes, Asks, Answers, LinkStaged, LinksUnused,
     LinksCut, HoldersKnown, LinkServed, EntriesSane, ClaimRuns, EntryRuns, Fresh
<1>1. BookTypes'
  <2>1. call[t].run \in 0..MaxRuns /\ doubt' \subseteq Tabs
    BY <1>s DEF Wakes, End, CallTypes, CallStates, BookTypes
  <2> QED BY <1>s, <1>u, <2>1, BookAssumption DEF Wakes, BookTypes, Out
<1>2. BookRuns'
  <2>1. call[t].run <= browser
    BY <1>s DEF CallRuns
  <2> QED BY <1>s, <1>u, <2>1 DEF Wakes, BookTypes, BookRuns
<1> QED BY <1>v, <1>1, <1>c, <1>2 DEF Shape, Types

LEMMA UnavailableShape == ASSUME Shape, NEW t \in Tabs, Unavailable(t) PROVE Shape'
<1>s. /\ DaemonTypes /\ LinkTypes /\ EntryTypes /\ BookTypes /\ CallTypes /\ Asks(asks)
      /\ Answers(answers) /\ LinkStaged /\ LinksUnused /\ LinksCut /\ HoldersKnown /\ LinkServed
      /\ EntriesSane /\ CallsSane /\ ClaimRuns /\ BookRuns /\ CallRuns /\ EntryRuns
  BY DEF Shape, Types
<1>u. UNCHANGED <<browser, run, claims, serving, asks, answers, cut, last, link, stage, todo,
        asking, book, made>>
  BY DEF Unavailable, daemon, linking, calling
<1>w. Asks(asks') /\ Answers(answers')
  BY <1>s DEF Unavailable
<1>c. CallTypes' /\ CallsSane' /\ CallRuns'
  <2> DEFINE d == Idle
  <2>1. d \in CallStates /\ d.run <= browser
    BY <1>s, <1>u, BookAssumption DEF CallTypes, CallRuns, CallStates, DaemonTypes, LinkTypes, Idle
  <2>2. call' = [call EXCEPT ![t] = d]
    BY <1>s DEF Unavailable, Begin, End, CallTypes
  <2>3. made' \in [Tabs -> Nat] /\ (\A x \in Tabs : x # t => made'[x] = made[x])
          /\ (d = Idle \/ made'[t] # 0)
    BY <1>s, <1>u DEF Unavailable, BookTypes, CallsSane, Busy, Idle
  <2>4. d = Idle \/ (d.kind # "none" /\ d.at # "idle")
    BY <1>s DEF Unavailable, CallsSane, Busy, Idle
  <2> HIDE DEF d
  <2> QED BY <1>s, <1>u, <2>1, <2>2, <2>3, <2>4, OneCall
<1>v. /\ DaemonTypes' /\ LinkTypes' /\ EntryTypes' /\ Asks(asks)' /\ Answers(answers)'
      /\ LinkStaged' /\ LinksUnused' /\ LinksCut' /\ HoldersKnown' /\ LinkServed' /\ EntriesSane'
      /\ ClaimRuns' /\ BookRuns' /\ EntryRuns'
  BY <1>s, <1>u DEF DaemonTypes, LinkTypes, EntryTypes, Asks, Answers, LinkStaged, LinksUnused,
     LinksCut, HoldersKnown, LinkServed, EntriesSane, ClaimRuns, BookRuns, EntryRuns, Fresh
<1>1. BookTypes'
  BY <1>s, <1>u, BookAssumption
  DEF BookTypes, Out, Unavailable
<1> QED BY <1>v, <1>1, <1>c DEF Shape, Types

-----------------------------------------------------------------------------
(* A call that nothing disturbed began as it had to. *)

\* A step that takes no undisturbed call where it may not be.
LEMMA CleanKept ==
    ASSUME CleanCalls,
           \A t \in Tabs : Clean(t)' =>
              \/ CleanCall(t)'
              \/ /\ Clean(t) /\ call'[t].kind = call[t].kind /\ call'[t].at = call[t].at
                 /\ call'[t].link = call[t].link
                 /\ In(t, todo)' => In(t, todo)
                 /\ book[t] = Out => book'[t] = Out
                 /\ call[t].at = "begun" \/ link' = link
    PROVE  CleanCalls'
BY DEF CleanCalls, CleanCall

\* Every step keeps the undisturbed calls what they are.
LEMMA CleanNext ==
    ASSUME Shape, CleanCalls, BookNext PROVE CleanCalls'
<1>s. /\ EntryTypes /\ BookTypes /\ CallTypes /\ LinkTypes /\ LinkStaged /\ CallsSane
           /\ Answers(answers)
  BY DEF Shape, Types
<1>u. \A T : call' = Disturbed(T) => \A t \in Tabs : Clean(t)' => /\ Clean(t)
                                                                       /\ call'[t].kind = call[t].kind
             /\ call'[t].at = call[t].at /\ call'[t].link = call[t].link /\ t \notin T
  BY <1>s, Disturbing DEF Clean, Busy
<1>1. ASSUME NEW c \in Links, Serve(c) PROVE CleanCalls'
  <2>1. UNCHANGED call \/ \E T : call' = Disturbed(T)
    BY <1>1 DEF Serve
  <2>2. UNCHANGED <<todo, book, link>>
    BY <1>1 DEF Serve, linking
  <2> QED BY <1>u, <2>1, <2>2, CleanKept DEF In, Clean, Busy
<1>2. ASSUME NEW c \in Links, Drop(c) PROVE CleanCalls'
  BY <1>2, CleanKept DEF Drop, linking, calling, Clean, Busy, In
<1>3. ASSUME Hello PROVE CleanCalls'
  BY <1>u, <1>3, CleanKept DEF Hello, linking, In
<1>4. ASSUME NEW t \in Tabs, OtherTakes(t) \/ OtherLeaves(t) PROVE CleanCalls'
  BY <1>4, CleanKept DEF OtherTakes, OtherLeaves, linking, calling, Clean, Busy, In
<1>5. ASSUME Cut \/ Restart PROVE CleanCalls'
  BY <1>5, CleanKept DEF Cut, Restart, linking, calling, Clean, Busy, In
<1>6. ASSUME Dial PROVE CleanCalls'
  <2>1. \A t \in Tabs : Clean(t) => call[t].at = "begun"
    BY <1>s, <1>6 DEF Dial, LinkStaged, CleanCalls, CleanCall
  <2> QED BY <1>6, <2>1, CleanKept DEF Dial, calling, Clean, Busy, In
<1>7. ASSUME ReadState PROVE CleanCalls'
  <2>1. UNCHANGED link /\ \A t \in Tabs : book[t] = Out => book'[t] = Out
    BY <1>7 DEF ReadState, Applied
  <2>2. CASE UNCHANGED <<todo, call>>
    BY <2>1, <2>2, CleanKept DEF Clean, Busy, In
  <2>3. CASE /\ todo' = Remembered(book')
             /\ call' = Disturbed({t \in Tabs : book'[t] # Out})
    <3>1. \A t \in Tabs : In(t, todo') => book'[t] # Out
      <4>1. book' \in [Tabs -> 0..Out]
        BY ReadStateShape, <1>7 DEF Shape, Types, BookTypes
      <4> QED BY <2>3, <4>1, Remembering DEF In
    <3>2. \A t \in Tabs : Clean(t)' => ~In(t, todo)'
      BY <1>u, <2>3, <3>1 DEF In
    <3> QED BY <1>u, <2>1, <2>3, <3>2, CleanKept
  <2> QED BY <1>7, <2>2, <2>3 DEF ReadState
<1>8. ASSUME Assert PROVE CleanCalls'
  <2>1. UNCHANGED <<book, link>> /\ todo' \subseteq todo
    BY <1>8 DEF Assert
  <2>2. UNCHANGED call \/ \E T : call' = Disturbed(T)
    BY <1>8 DEF Assert
  <2> QED BY <1>u, <2>1, <2>2, CleanKept DEF In, Clean, Busy
<1>9. ASSUME ReadReply PROVE CleanCalls'
  <2> DEFINE f == Head(answers[link])
  <2>1. UNCHANGED <<todo, link>> /\ f.kind = "reply" /\ (AssertAnswered(f) \/ CallAnswered(f))
    BY <1>9 DEF ReadReply
  <2> HIDE DEF f
  <2>2. CASE AssertAnswered(f)
    <3>1. \A t \in Tabs : book[t] = Out => book'[t] = Out
      BY <1>s, <2>2 DEF AssertAnswered, BookTypes
    <3> QED BY <2>1, <2>2, <3>1, CleanKept DEF AssertAnswered, In, Clean, Busy
  <2>3. CASE CallAnswered(f)
    <3>1. UNCHANGED book
      BY <2>3 DEF CallAnswered
    <3>2. CASE UNCHANGED call
      BY <2>1, <3>1, <3>2, CleanKept DEF In, Clean, Busy
    <3>3. CASE /\ Busy(f.tab) /\ call[f.tab].at = "sent"
               /\ call' = [call EXCEPT ![f.tab] = [@ EXCEPT !.at = "told", !.granted = f.granted,
                    !.run = f.run]]
      <4>1. ASSUME NEW t \in Tabs, Clean(t)', t # f.tab PROVE call'[t] = call[t] /\ Clean(t)
        BY <1>s, <3>3, <4>1 DEF CallTypes, Clean, Busy
      <4>2. ASSUME NEW t \in Tabs, Clean(t)', t = f.tab PROVE CleanCall(t)'
        <5>1. call[t] \in CallStates
          BY <1>s DEF CallTypes
        <5>2. /\ call'[t].kind = call[t].kind /\ call'[t].at = "told"
                   /\ call'[t].link = call[t].link
              /\ call'[t].clean = call[t].clean
          BY <1>s, <3>3, <4>2, <5>1 DEF CallTypes, CallStates
        <5>3. Clean(t)
          BY <4>2, <5>2 DEF Clean, Busy
        <5> QED BY <2>1, <3>1, <3>3, <4>2, <5>2, <5>3 DEF CleanCalls, CleanCall, In
      <4> QED BY <2>1, <3>1, <4>1, <4>2, CleanKept DEF In
    <3> QED BY <2>3, <3>2, <3>3 DEF CallAnswered
  <2> QED BY <2>1, <2>2, <2>3
<1>10. ASSUME AssertTimeout PROVE CleanCalls'
  BY <1>10, CleanKept DEF AssertTimeout, calling, Clean, Busy, In
<1>11. ASSUME LinkEnds PROVE CleanCalls'
  <2>1. ASSUME NEW t \in Tabs PROVE ~Clean(t)'
    <3>1. PICK lost \in SUBSET {x \in Tabs : call[x].at = "told"} :
            call' = [x \in Tabs |->
                      IF Busy(x) /\ call[x].link = link /\ (call[x].at = "sent" \/ x \in lost)
                      THEN [call[x] EXCEPT !.at = "failed", !.clean = FALSE]
                      ELSE Disturbed(Tabs)[x]]
      BY <1>11 DEF LinkEnds
    <3>2. call[t] \in CallStates
      BY <1>s DEF CallTypes
    <3>3. CASE call'[t] = [call[t] EXCEPT !.at = "failed", !.clean = FALSE]
      BY <3>2, <3>3 DEF Clean, CallStates
    <3>4. CASE call'[t] = Disturbed(Tabs)[t]
      BY <1>s, <3>4, Disturbing DEF Clean, Busy
    <3> QED BY <3>1, <3>3, <3>4
  <2> QED BY <2>1 DEF CleanCalls
<1>12. ASSUME NEW t \in Tabs, ClaimTab(t) PROVE CleanCalls'
  <2>1. UNCHANGED <<todo, link, book>> /\ link # 0
    BY <1>12 DEF ClaimTab, linking
  <2>2. \A x \in Tabs : x # t => call'[x] = call[x]
    BY <1>s, <1>12 DEF ClaimTab, Begin, CallTypes
  <2>3. /\ call'[t].kind = "claim" /\ call'[t].at = "sent" /\ call'[t].link = link
        /\ call'[t].clean => ~In(t, todo)
    BY <1>s, <1>12 DEF ClaimTab, Begin, CallTypes, Idle, In
  <2> QED BY <2>1, <2>2, <2>3, CleanKept DEF Clean, Busy, CleanCall, In
<1>13. ASSUME NEW t \in Tabs, ReleaseTab(t) PROVE CleanCalls'
  <2>1. UNCHANGED <<todo, link>> /\ book' = [book EXCEPT ![t] = Out]
    BY <1>13 DEF ReleaseTab, linking
  <2>2. \A x \in Tabs : x # t => call'[x] = call[x]
    BY <1>s, <1>13 DEF ReleaseTab, Begin, CallTypes
  <2>3. /\ call'[t].kind = "release" /\ call'[t].at = "begun"
        /\ call'[t].clean => ~In(t, todo)
    BY <1>s, <1>13 DEF ReleaseTab, Begin, CallTypes, Idle, In
  <2> QED BY <1>s, <2>1, <2>2, <2>3, CleanKept DEF Clean, Busy, CleanCall, In, BookTypes
<1>14. ASSUME NEW t \in Tabs, AskRelease(t) PROVE CleanCalls'
  <2>1. UNCHANGED <<todo, link, book>>
    BY <1>14 DEF AskRelease, linking
  <2>2. \A x \in Tabs : x # t => call'[x] = call[x]
    BY <1>s, <1>14 DEF AskRelease, End, CallTypes
  <2>3. CASE link = 0
    BY <1>s, <1>14, <2>1, <2>2, <2>3, CleanKept DEF AskRelease, End, Idle, CallTypes, Clean, Busy,
      In
  <2>4. CASE link # 0
    <3>1. /\ call'[t].kind = call[t].kind /\ call'[t].at = "sent" /\ call'[t].link = link
          /\ call'[t].clean = call[t].clean
      BY <1>s, <1>14, <2>4 DEF AskRelease, CallTypes, CallStates
    <3> QED BY <2>1, <2>2, <2>4, <3>1, CleanKept DEF CleanCalls, Clean, Busy, CleanCall, In
  <2> QED BY <2>3, <2>4
<1>15. ASSUME NEW t \in Tabs, Wakes(t) PROVE CleanCalls'
  <2>1. UNCHANGED <<todo, link>> /\ (\A x \in Tabs : x # t => book'[x] = book[x])
    BY <1>s, <1>15 DEF Wakes, linking, BookTypes
  <2>2. call' = [call EXCEPT ![t] = Idle]
    BY <1>15 DEF Wakes, End
  <2> QED BY <1>s, <2>1, <2>2, CleanKept DEF Idle, CallTypes, Clean, Busy, In
<1>16. ASSUME NEW t \in Tabs, Unavailable(t) PROVE CleanCalls'
  BY <1>s, <1>16, CleanKept DEF Unavailable, linking, Idle, CallTypes, Clean, Busy, In
<1> QED
  BY <1>1, <1>2, <1>3, <1>4, <1>5, <1>6, <1>7, <1>8, <1>9, <1>10, <1>11, <1>12, <1>13, <1>14, <1>15,
     <1>16 DEF BookNext, Threads

-----------------------------------------------------------------------------
(* Steps that say nothing on the link. *)

\* What a step leaves as it was, as far as the tab t is concerned.
SameCall(t) == /\ call'[t].kind = call[t].kind /\ call'[t].at = call[t].at
               /\ call'[t].granted = call[t].granted /\ call'[t].run = call[t].run
SameClaim(t) == /\ claims'[t].by = link <=> claims[t].by = link
                /\ claims[t].by = link => claims'[t].run = claims[t].run

\* A step that changes neither the frames of the link nor what they are about.
LEMMA Elsewhere ==
    ASSUME LinkInv, UNCHANGED <<run, link, stage, todo, asking, book, made>>,
           asks'[link] = asks[link], answers'[link] = answers[link],
           todo \cup asking \subseteq Entries,
           \A t \in Tabs : /\ SameCall(t) /\ (Sure(t)' => Sure(t)) /\ (Clean(t)' => Clean(t))
                           /\ Sure(t)' \/ Clean(t)' => SameClaim(t)
    PROVE  LinkInv'
<1>1. Asked' = Asked /\ Said' = Said
  BY DEF Asked, Said
<1>2. /\ States' = States /\ Pushes' = Pushes
      /\ \A t : AskAbout(t)' = AskAbout(t) /\ Replies(t)' = Replies(t) /\ Quiet(t)' = Quiet(t)
  BY <1>1 DEF States, Pushes, AskAbout, Replies, Quiet
<1>3. StatesInOrder' /\ StatusFirst'
  BY <1>1, <1>2 DEF LinkInv, StatesInOrder, StatusFirst, StatusAsked, StatusSaid
<1>4. Elder'
  BY <1>1, <1>2 DEF LinkInv, Elder, SameCall
<1>5. AssertPending'
  <2>1. AskedBare' = AskedBare /\ SaidBare' = SaidBare
    BY <1>1 DEF AskedBare, SaidBare
  <2> QED BY <1>1, <2>1 DEF LinkInv, AssertPending, In
<1>6. ASSUME NEW t \in Tabs PROVE Starting(t)' /\ Steady(t)'
  BY <1>1, <1>2 DEF LinkInv, Starting, Steady, SameClaim, Ours, Agrees, In
<1>7. ASSUME NEW t \in Tabs PROVE Numbered(t)'
  BY <1>1, <1>2 DEF LinkInv, Numbered, SameCall
<1>8. ASSUME NEW t \in Tabs PROVE CallHeard(t)'
  <2>1. Clean(t)' => Clean(t) /\ SameClaim(t) /\ SameCall(t) /\ CallHeard(t)
    BY DEF LinkInv
  <2>2. SameClaim(t) /\ SameCall(t) => \A g, r : Outcome(t, g, r)' = Outcome(t, g, r)
    BY DEF SameClaim, SameCall, Outcome, Ours
  <2>3. SameClaim(t) /\ SameCall(t) /\ CallAsked(t) => CallAsked(t)'
    BY <1>1, <1>2 DEF SameCall, CallAsked
  <2>4. SameClaim(t) /\ SameCall(t) /\ CallReplied(t) => CallReplied(t)'
    BY <1>1, <1>2, <2>2 DEF SameCall, CallReplied
  <2>5. SameClaim(t) /\ SameCall(t) /\ CallTold(t) => CallTold(t)'
    BY <1>1, <1>2, <2>2 DEF SameCall, CallTold
  <2> QED BY <2>1, <2>3, <2>4, <2>5 DEF CallHeard, SameCall
<1>9. ASSUME NEW e \in todo PROVE ToAssert(e)'
  BY <1>1, <1>2 DEF LinkInv, ToAssert, Entries, SameClaim, Ours, Carried
<1>10. ASSUME NEW e \in asking PROVE Asserting(e)'
  <2>1. e.tab \in Tabs
    BY DEF Entries
  <2>2. Carried(e)' = Carried(e)
    BY DEF Carried
  <2>3. SameClaim(e.tab) /\ AssertAsked(e) => AssertAsked(e)'
    BY <1>1, <1>2 DEF AssertAsked, SameClaim, Ours
  <2>4. SameClaim(e.tab) /\ AssertReplied(e) => AssertReplied(e)'
    BY <1>1, <1>2 DEF AssertReplied, AssertGranted, Agrees, SameClaim, Ours
  <2> QED BY <2>1, <2>2, <2>3, <2>4 DEF LinkInv, Asserting
<1> QED BY <1>3, <1>4, <1>5, <1>6, <1>7, <1>8, <1>9, <1>10 DEF LinkInv

\* A frame of an older link disturbs the tab that it is about.
LEMMA ServeOldLink ==
    ASSUME Shape, Fresh, LinkInv, NEW c \in Links, Serve(c), c # link PROVE LinkInv'
<1> DEFINE a == Head(asks[c])
<1>s. /\ EntryTypes /\ CallTypes /\ LinkTypes /\ LinksCut /\ DaemonTypes /\ Asks(asks)
           /\ Answers(answers)
  BY DEF Shape, Types
<1>1. c \in cut /\ link \in Links
  BY <1>s DEF Serve, DaemonTypes, LinkTypes, LinksCut, Fresh, Links
<1>2. UNCHANGED <<run, link, stage, todo, asking, book, made>>
  BY DEF Serve, linking
<1>3. \A f : Answered(c, f) = answers
  BY <1>1 DEF Answered
<1>4. a.kind \in {"status", "claim", "release"}
  BY <1>s, Handling DEF Serve, AskFrames
<1>5. asks'[link] = asks[link] /\ answers' = answers
  BY <1>s, <1>1, <1>3, <1>4 DEF Serve, Asks
<1>6. CASE a.kind = "status"
  BY <1>s, <1>2, <1>5, <1>6, Elsewhere
  DEF Serve, SameCall, SameClaim, Sure, Clean, Busy, EntryTypes
<1>7. CASE a.kind # "status"
  <2>1. call' = Disturbed({a.tab}) /\ doubt' = doubt \cup {a.tab}
    BY <1>7 DEF Serve
  <2>2. ASSUME NEW t \in Tabs PROVE /\ SameCall(t) /\ (Sure(t)' => Sure(t))
                                         /\ (Clean(t)' => Clean(t))
                                    /\ Sure(t)' \/ Clean(t)' => t # a.tab
    BY <1>s, <2>1, Disturbing DEF SameCall, Sure, Clean, Busy
  <2>3. ASSUME NEW t \in Tabs, t # a.tab PROVE claims'[t] = claims[t]
    BY <1>s, <1>4, <1>7, <2>3 DEF Serve, DaemonTypes
  <2> QED BY <1>s, <1>2, <1>5, <2>2, <2>3, Elsewhere DEF SameClaim, EntryTypes
<1> QED BY <1>6, <1>7

\* What becomes of older links and of other agents is nothing to this link.
LEMMA DropOthers ==
    ASSUME Shape, Fresh, LinkInv,
           (\E c \in Links : Drop(c)) \/ (\E t \in Tabs : OtherTakes(t) \/ OtherLeaves(t))
    PROVE  LinkInv'
<1>s. /\ EntryTypes /\ CallTypes /\ LinkTypes /\ DaemonTypes /\ Asks(asks) /\ Answers(answers)
  BY DEF Shape, Types
<1>1. link \in Links /\ link # Nobody /\ link # Other
  BY <1>s, BookAssumption DEF Fresh, LinkTypes, Links, Nobody, Other
<1>2. UNCHANGED <<run, link, stage, todo, asking, book, made, call, doubt, answers>>
  BY DEF Drop, OtherTakes, OtherLeaves, linking, calling
<1>3. CASE \E c \in Links : Drop(c)
  <2> PICK c \in Links : Drop(c)
    BY <1>3
  <2>1. c # link /\ asks'[link] = asks[link]
    BY <1>s, <1>1 DEF Drop, Fresh, Asks
  <2>2. \A t \in Tabs : SameClaim(t)
    BY <1>s, <1>1, <2>1 DEF Drop, SameClaim
  <2> QED BY <1>s, <1>2, <2>1, <2>2, Elsewhere DEF SameCall, Sure, Clean, Busy, EntryTypes
<1>4. CASE \E t \in Tabs : OtherTakes(t) \/ OtherLeaves(t)
  <2>1. UNCHANGED asks
    BY <1>4 DEF OtherTakes, OtherLeaves
  <2>2. \A t \in Tabs : SameClaim(t)
    BY <1>s, <1>1, <1>4 DEF OtherTakes, OtherLeaves, SameClaim, DaemonTypes
  <2> QED BY <1>s, <1>2, <2>1, <2>2, Elsewhere DEF SameCall, Sure, Clean, Busy, EntryTypes
<1> QED BY <1>3, <1>4

-----------------------------------------------------------------------------
(* Steps of a caller that send nothing, and the assertion that takes too long. *)

\* The frames that are numbered by A in a are those that B numbers in b, d places on.
Shifted(A, a, B, b, d) ==
    /\ \A i \in A : i - d \in B /\ b[i - d] = a[i]
    /\ \A i \in B : i + d \in A /\ b[i] = a[i + d]

\* What was asked about t, and said about it and of the state, moved at most one place on.
Moved(t, d, g) ==
    /\ Shifted(AskAbout(t), Asked, AskAbout(t)', Asked', d)
    /\ Shifted(Replies(t), Said, Replies(t)', Said', g)
    /\ Shifted(States, Said, States', Said', g)

\* Places on the wire are numbers.
LEMMA Indices ==
    /\ States \subseteq Nat /\ Pushes \subseteq Nat /\ States' \subseteq Nat
         /\ Pushes' \subseteq Nat
    /\ \A t : /\ AskAbout(t) \subseteq Nat /\ Replies(t) \subseteq Nat
             /\ AskAbout(t)' \subseteq Nat /\ Replies(t)' \subseteq Nat
BY DEF States, Pushes, AskAbout, Replies

LEMMA PushesMoved ==
    ASSUME NEW t, NEW d, NEW g \in {0, 1}, Moved(t, d, g)
    PROVE  /\ Shifted(Pushes, Said, Pushes', Said', g)
           /\ Quiet(t) <=> Quiet(t)'
<1>1. Pushes = {i \in States : Said[i].kind = "push"}
        /\ Pushes' = {i \in States' : Said'[i].kind = "push"}
  BY DEF Pushes, States
<1>2. Quiet(t) <=> Quiet(t)'
  BY DEF Moved, Shifted, Quiet
<1> QED BY <1>1, <1>2, Indices DEF Moved, Shifted

\* What the states that are to be read make of a tab does not depend on their places.
LEMMA AgreesMoved ==
    ASSUME NEW t, NEW b, UNCHANGED link, claims'[t] = claims[t], NEW P, NEW R, NEW g,
           Shifted(P, Said, R, Said', g), Agrees(t, b, P)
    PROVE  Agrees(t, b, R)'
BY DEF Agrees, Ours, Shifted

\* The tab t is as it was.
LEMMA TabKept ==
    ASSUME LinkInv, UNCHANGED link, stage = "status" <=> stage' = "status",
           NEW t \in Tabs, claims'[t] = claims[t],
           Sure(t)' /\ In(t, todo \cup asking) => In(t, todo \cup asking)',
           NEW d \in {0, 1}, NEW g \in {0, 1}, Moved(t, d, g),
           book'[t] = book[t], made'[t] = made[t], call'[t] = call[t], t \in doubt => t \in doubt'
    PROVE  Starting(t)' /\ Steady(t)' /\ Numbered(t)' /\ CallHeard(t)'
<1>1. Sure(t)' => Sure(t)
  BY DEF Sure, Busy
<1>2. Starting(t)' /\ Steady(t)'
  BY <1>1, PushesMoved, AgreesMoved DEF LinkInv, Starting, Steady, Ours
<1>3. Numbered(t)'
  BY DEF LinkInv, Numbered, Moved, Shifted
<1>4. CallHeard(t)'
  <2>1. Clean(t)' = Clean(t)
    BY DEF Clean, Busy
  <2>2. \A x, r : Outcome(t, x, r)' = Outcome(t, x, r)
    BY DEF Outcome, Ours
  <2>3. ASSUME CallAsked(t) PROVE CallAsked(t)'
    <3>1. PICK i \in AskAbout(t) :
            /\ Asked[i].id = made[t] /\ Asked[i].kind = call[t].kind /\ Asked[i].run = 0
            /\ \A k \in AskAbout(t) : k # i => k < i /\ Asked[k].id # made[t]
            /\ \A j \in Replies(t) : Said[j].id # made[t]
      BY <2>3 DEF CallAsked
    <3>2. i - d \in AskAbout(t)' /\ Asked'[i - d] = Asked[i]
      BY DEF Moved, Shifted
    <3>3. \A k \in AskAbout(t)' : k # i - d => k < i - d /\ Asked'[k].id # made[t]
      BY <3>1, Indices DEF Moved, Shifted
    <3>4. \A j \in Replies(t)' : Said'[j].id # made[t]
      BY <3>1 DEF Moved, Shifted
    <3> QED BY <3>1, <3>2, <3>3, <3>4 DEF CallAsked
  <2>4. ASSUME CallReplied(t) PROVE CallReplied(t)'
    <3>1. PICK j \in Replies(t) : /\ Said[j].id = made[t]
                                  /\ \A k \in Replies(t) \cup States : k <= j
                                  /\ \A k \in Replies(t) : Said[k].id = made[t] => k = j
                                  /\ Outcome(t, Said[j].granted, Said[j].run)
      BY <2>4 DEF CallReplied
    <3>2. j - g \in Replies(t)' /\ Said'[j - g] = Said[j]
      BY DEF Moved, Shifted
    <3>3. ASSUME NEW k \in Replies(t)' \cup States' PROVE k <= j - g
      <4>1. k + g \in Replies(t) \cup States
        BY DEF Moved, Shifted
      <4>2. k + g <= j /\ k \in Nat /\ j \in Nat
        BY <3>1, <4>1, Indices
      <4> QED BY <4>2
    <3>4. ASSUME NEW k \in Replies(t)', Said'[k].id = made[t] PROVE k = j - g
      <4>1. k + g \in Replies(t) /\ Said'[k] = Said[k + g]
        BY DEF Moved, Shifted
      <4>2. k + g = j
        BY <3>1, <3>4, <4>1
      <4> QED BY <4>2, Indices
    <3>5. AskAbout(t)' = {}
      BY <2>4 DEF CallReplied, Moved, Shifted
    <3> QED BY <2>2, <3>1, <3>2, <3>3, <3>4, <3>5 DEF CallReplied
  <2>5. ASSUME CallTold(t) PROVE CallTold(t)'
    <3>1. States' = {}
      BY <2>5 DEF CallTold, Moved, Shifted
    <3> QED BY <2>2, <2>5, <3>1, PushesMoved DEF CallTold
  <2> QED BY <2>1, <2>3, <2>4, <2>5 DEF LinkInv, CallHeard
<1> QED BY <1>2, <1>3, <1>4

\* What is asserted is as it was, too, for tabs that nobody was sure of or that are as they were.
LEMMA EntriesKept ==
    ASSUME UNCHANGED <<run, link>>, NEW e, NEW d \in {0, 1}, NEW g \in {0, 1},
           Sure(e.tab)' => /\ Sure(e.tab) /\ book'[e.tab] = book[e.tab]
                                /\ claims'[e.tab] = claims[e.tab]
                           /\ Moved(e.tab, d, g)
    PROVE  (ToAssert(e) => ToAssert(e)') /\ (Asserting(e) => Asserting(e)')
<1> SUFFICES ASSUME Sure(e.tab)', Sure(e.tab), Moved(e.tab, d, g),
                    book'[e.tab] = book[e.tab], claims'[e.tab] = claims[e.tab]
             PROVE  (ToAssert(e) => ToAssert(e)') /\ (Asserting(e) => Asserting(e)')
  BY DEF ToAssert, Asserting
<1>1. (Quiet(e.tab) <=> Quiet(e.tab)') /\ Shifted(Pushes, Said, Pushes', Said', g)
  BY PushesMoved
<1>2. Ours(e.tab)' = Ours(e.tab) /\ (Carried(e) => Carried(e)')
  BY DEF Ours, Carried
<1>3. ASSUME AssertAsked(e) PROVE AssertAsked(e)'
  <2>1. PICK i \in AskAbout(e.tab) : AskAbout(e.tab) = {i} /\ Asked[i] = Claim(e.tab, 0, e.run)
    BY <1>3 DEF AssertAsked
  <2>2. i - d \in AskAbout(e.tab)' /\ Asked'[i - d] = Asked[i] /\ AskAbout(e.tab)' = {i - d}
    BY <2>1, Indices DEF Moved, Shifted
  <2>3. Replies(e.tab)' = {}
    BY <1>3 DEF AssertAsked, Moved, Shifted
  <2> QED BY <1>2, <1>3, <2>1, <2>2, <2>3 DEF AssertAsked, Claim
<1>4. ASSUME AssertReplied(e) PROVE AssertReplied(e)'
  <2>1. PICK j \in Replies(e.tab) : /\ Replies(e.tab) = {j} /\ Said[j].id = 0
                                    /\ IF Said[j].granted THEN AssertGranted(e, j) ELSE ~Ours(e.tab)
    BY <1>4 DEF AssertReplied
  <2>2. AskAbout(e.tab)' = {}
    BY <1>4 DEF AssertReplied, Moved, Shifted
  <2>3. j - g \in Replies(e.tab)' /\ Replies(e.tab)' = {j - g} /\ Said'[j - g] = Said[j]
          /\ j \in Nat
    BY <2>1, Indices DEF Moved, Shifted
  <2> DEFINE P == {i \in Pushes : i > j}
             R == {i \in Pushes : i > j - g}
  <2>4. Shifted(P, Said, R', Said', g)
    <3>1. /\ \A i \in Pushes : i - g \in Pushes' /\ Said'[i - g] = Said[i] /\ i \in Nat
          /\ \A i \in Pushes' : i + g \in Pushes /\ Said'[i] = Said[i + g] /\ i \in Nat
      BY <1>1, Indices DEF Shifted
    <3>2. \A i \in P : i - g \in R' /\ Said'[i - g] = Said[i]
      BY <2>3, <3>1
    <3>3. \A i \in R' : i + g \in P /\ Said'[i] = Said[i + g]
      BY <2>3, <3>1
    <3> QED BY <3>2, <3>3 DEF Shifted
  <2>5. ASSUME AssertGranted(e, j) PROVE AssertGranted(e, j - g)'
    <3>1. PICK b : b = Said[j].run
      OBVIOUS
    <3>2. Agrees(e.tab, b, P)
      BY <2>5, <3>1 DEF AssertGranted
    <3>3. e.run # 0 => /\ book'[e.tab] = e.run /\ Said'[j - g].run = e.run
                       /\ \A i \in Pushes' : i < j - g => Said'[i].run = e.run
      BY <1>1, <2>3, <2>5, Indices DEF AssertGranted, Shifted
    <3> HIDE DEF P, R
    <3>4. Agrees(e.tab, b, R)'
      BY <2>4, <3>2, AgreesMoved
    <3> QED BY <2>3, <2>5, <3>1, <3>3, <3>4 DEF AssertGranted, R
  <2> QED BY <1>2, <2>1, <2>2, <2>3, <2>5 DEF AssertReplied
<1> QED BY <1>1, <1>2, <1>3, <1>4 DEF ToAssert, Asserting

\* Nothing is asked or said.
LEMMA NothingMoved ==
    ASSUME Asked' = Asked, Said' = Said PROVE \A t : Moved(t, 0, 0)
<1>1. States' = States /\ \A t : AskAbout(t)' = AskAbout(t) /\ Replies(t)' = Replies(t)
  BY DEF States, AskAbout, Replies
<1> QED BY <1>1, Indices DEF Moved, Shifted

\* What could not be asserted in time is left in doubt.
LEMMA AssertTimeoutLink == ASSUME Shape, LinkInv, AssertTimeout PROVE LinkInv'
<1>1. /\ UNCHANGED <<run, link, claims, book, made, call>> /\ Asked' = Asked /\ Said' = Said
      /\ stage = "assert" /\ stage' = "up" /\ todo' = {} /\ asking' = {}
      /\ doubt' = doubt \cup {e.tab : e \in asking \cup todo}
  BY DEF AssertTimeout, daemon, calling, Asked, Said
<1>2. States' = States /\ Pushes' = Pushes
  BY <1>1 DEF States, Pushes
<1>3. StatesInOrder' /\ StatusFirst' /\ Elder' /\ AssertPending'
  BY <1>1, <1>2 DEF LinkInv, StatesInOrder, StatusFirst, Elder, AssertPending
<1>4. ASSUME NEW t \in Tabs PROVE Starting(t)' /\ Steady(t)' /\ Numbered(t)' /\ CallHeard(t)'
  <2>1. ~(Sure(t)' /\ In(t, todo \cup asking))
    BY <1>1 DEF Sure, In
  <2> QED BY <1>1, <2>1, NothingMoved, TabKept
<1> QED BY <1>1, <1>3, <1>4 DEF LinkInv

\* The book lets go of a tab before the daemon is asked.
LEMMA ReleaseTabLink == ASSUME Shape, Fresh, LinkInv, NEW t \in Tabs, ReleaseTab(t) PROVE LinkInv'
<1>s. BookTypes /\ CallTypes /\ EntryTypes
  BY DEF Shape, Types
<1>1. UNCHANGED <<run, link, claims, stage, todo, asking, doubt>> /\ Asked' = Asked /\ Said' = Said
  BY DEF ReleaseTab, daemon, linking, Asked, Said
<1>2. /\ \A x \in Tabs : x # t => book'[x] = book[x] /\ made'[x] = made[x] /\ call'[x] = call[x]
      /\ book'[t] = Out /\ made'[t] = made[t] + 1 /\ made[t] \in Nat
      /\ call'[t].kind = "release" /\ call'[t].at = "begun"
  BY <1>s DEF ReleaseTab, Begin, BookTypes, CallTypes, Idle
<1>3. Busy(t)' /\ ~Sure(t)'
  BY <1>2 DEF Busy, Sure
<1>4. /\ States' = States /\ Pushes' = Pushes
      /\ \A x : AskAbout(x)' = AskAbout(x) /\ Replies(x)' = Replies(x)
  BY <1>1 DEF States, Pushes, AskAbout, Replies
<1>5. StatesInOrder' /\ StatusFirst' /\ Elder'
  BY <1>1, <1>2, <1>4 DEF LinkInv, StatesInOrder, StatusFirst, StatusAsked, StatusSaid, Elder
<1>6. AssertPending'
  <2>1. AskedBare' = AskedBare /\ SaidBare' = SaidBare
    BY <1>1 DEF AskedBare, SaidBare
  <2> QED BY <1>1, <2>1 DEF LinkInv, AssertPending, In
<1>7. Starting(t)' /\ Steady(t)' /\ CallHeard(t)'
  BY <1>2, <1>3 DEF Starting, Steady, CallHeard
<1>8. Numbered(t)'
  <2>1. FramesTyped
    BY Framing DEF Shape, Types, Fresh
  <2>2. /\ \A i \in AskAbout(t) : Asked[i].id \in Nat
        /\ \A j \in Replies(t) : Said[j].id \in Nat
    BY <2>1 DEF FramesTyped, AskAbout, Replies
  <2>3. /\ \A i \in AskAbout(t) : Asked[i].id <= made[t]
        /\ \A j \in Replies(t) : Said[j].id <= made[t]
    BY DEF LinkInv, Numbered
  <2> QED BY <1>1, <1>2, <1>4, <2>2, <2>3 DEF Numbered
<1>9. ASSUME NEW x \in Tabs, x # t PROVE Starting(x)' /\ Steady(x)' /\ Numbered(x)' /\ CallHeard(x)'
  BY <1>1, <1>2, <1>9, NothingMoved, TabKept
<1>10. ASSUME NEW e \in todo \cup asking PROVE Sure(e.tab)' => Sure(e.tab)
         /\ book'[e.tab] = book[e.tab]
  BY <1>s, <1>1, <1>2, <1>3 DEF EntryTypes, Entries, Sure, Busy
<1> QED BY <1>1, <1>5, <1>6, <1>7, <1>8, <1>9, <1>10, NothingMoved, EntriesKept DEF LinkInv

\* A caller wakes with an answer that nothing disturbed, or leaves the tab in doubt.
LEMMA WakesLink == ASSUME Shape, CleanCalls, Fresh, LinkInv, NEW t \in Tabs, Wakes(t) PROVE LinkInv'
<1>s. BookTypes /\ CallTypes /\ EntryTypes /\ DaemonTypes /\ EntriesSane /\ FramesTyped /\ CallsSane
  BY Framing DEF Shape, Types, Fresh
<1>1. UNCHANGED <<run, link, claims, stage, todo, asking, made>> /\ Asked' = Asked /\ Said' = Said
  BY DEF Wakes, daemon, linking, Asked, Said
<1>2. /\ \A x \in Tabs : x # t => book'[x] = book[x] /\ call'[x] = call[x]
           /\ (x \in doubt => x \in doubt')
      /\ call'[t] = Idle /\ call[t].at = "told" /\ call[t].run \in 0..MaxRuns
      /\ book'[t] \in {book[t], call[t].run, Out} /\ Busy(t) /\ ~Busy(t)'
      /\ t \notin doubt' => Clean(t)
  BY <1>s DEF Wakes, End, BookTypes, CallTypes, CallStates, CallsSane, Busy, Idle, Clean
<1>3. /\ States' = States /\ Pushes' = Pushes
      /\ \A x : AskAbout(x)' = AskAbout(x) /\ Replies(x)' = Replies(x) /\ Quiet(x)' = Quiet(x)
  BY <1>1 DEF States, Pushes, AskAbout, Replies, Quiet
<1>4. StatesInOrder' /\ StatusFirst' /\ Elder'
  <2>1. StatesInOrder'
    BY <1>1, <1>3 DEF LinkInv, StatesInOrder
  <2>2. StatusFirst'
    BY <1>1 DEF LinkInv, StatusFirst, StatusAsked, StatusSaid
  <2>3. ASSUME stage = "status", NEW x \in Tabs, NEW i \in Pushes
        PROVE  /\ book'[x] # Out => book'[x] <= Said[i].run
               /\ call'[x].at = "told" => call'[x].run <= Said[i].run
    <3>1. /\ book[x] # Out => book[x] <= Said[i].run
          /\ call[x].at = "told" => call[x].run <= Said[i].run
      BY <2>3 DEF LinkInv, Elder
    <3>2. CASE x # t
      BY <1>2, <3>1, <3>2
    <3>3. CASE x = t
      BY <1>2, <3>1, <3>3 DEF Idle
    <3> QED BY <3>2, <3>3
  <2>4. Elder'
    BY <1>1, <1>3, <2>3 DEF LinkInv, Elder
  <2> QED BY <2>1, <2>2, <2>4
<1>5. AssertPending'
  <2>1. AskedBare' = AskedBare /\ SaidBare' = SaidBare
    BY <1>1 DEF AskedBare, SaidBare
  <2> QED BY <1>1, <2>1 DEF LinkInv, AssertPending, In
\* The caller's answer is the last word on the tab, if nothing disturbed the call.
<1>6. Sure(t)' => /\ Quiet(t) /\ Pushes = {} /\ stage # "status" /\ ~In(t, todo)
                  /\ IF Ours(t) THEN book'[t] = claims[t].run ELSE book'[t] = Out
  <2>1. SUFFICES ASSUME Clean(t) PROVE /\ Quiet(t) /\ Pushes = {} /\ stage # "status"
                                            /\ ~In(t, todo)
                                       /\ IF Ours(t) THEN book'[t] = claims[t].run
                                            ELSE book'[t] = Out
    BY <1>2 DEF Sure
  <2>2. CallTold(t) /\ CleanCall(t)
    BY <1>2, <2>1 DEF LinkInv, CallHeard, CleanCalls
  <2>3. Pushes = {}
    BY <2>2 DEF CallTold, States, Pushes
  <2>4. call[t].kind \in {"claim", "release"}
    BY <1>s, <1>2 DEF CallTypes, CallStates, Busy
  <2>5. Outcome(t, call[t].granted, call[t].run)
    BY <2>2 DEF CallTold
  <2>6. book'[t] = IF call[t].kind = "claim" THEN IF call[t].granted THEN call[t].run ELSE Out
                   ELSE book[t]
    BY <1>s DEF Wakes, BookTypes
  <2>7. IF Ours(t) THEN book'[t] = claims[t].run ELSE book'[t] = Out
    BY <2>2, <2>4, <2>5, <2>6 DEF Outcome, CleanCall
  <2> QED BY <2>2, <2>3, <2>7 DEF CallTold, CleanCall
<1>7. Starting(t)' /\ CallHeard(t)'
  BY <1>1, <1>2, <1>6 DEF Starting, CallHeard, Clean
<1>8. Steady(t)'
  <2>1. claims[t].run \in 0..MaxRuns
    BY <1>s DEF DaemonTypes
  <2>2. claims[t].run # Out
    BY <2>1, BookAssumption DEF Out
  <2> QED BY <1>1, <1>3, <1>6, <2>2 DEF Steady, Agrees, Ours
<1>9. Numbered(t)'
  BY <1>1, <1>2, <1>3 DEF LinkInv, Numbered, Idle
<1>10. ASSUME NEW x \in Tabs, x # t PROVE Starting(x)' /\ Steady(x)' /\ Numbered(x)'
         /\ CallHeard(x)'
  BY <1>1, <1>2, <1>10, NothingMoved, TabKept
<1>11. ASSUME NEW e \in todo PROVE ToAssert(e)'
  BY <1>s, <1>1, <1>2, <1>6, NothingMoved, EntriesKept DEF EntryTypes, Entries, Sure, Busy, In,
    LinkInv, ToAssert
<1>12. ASSUME NEW e \in asking PROVE Asserting(e)'
  <2>1. ~Quiet(e.tab)
    BY <1>s DEF LinkInv, AssertPending, AskedBare, SaidBare, Quiet, AskAbout, Replies
  <2>2. Sure(e.tab)' => e.tab # t
    BY <1>6, <2>1
  <2> QED BY <1>s, <1>1, <1>2, <2>2, NothingMoved, EntriesKept DEF EntryTypes, Entries, Sure, Busy,
        LinkInv
<1> QED BY <1>1, <1>4, <1>5, <1>7, <1>8, <1>9, <1>10, <1>11, <1>12 DEF LinkInv

\* A caller that gives up leaves the tab in doubt.
LEMMA UnavailableLink == ASSUME Shape, Fresh, LinkInv, NEW t \in Tabs, Unavailable(t) PROVE LinkInv'
<1>s. CallTypes /\ EntryTypes
  BY DEF Shape, Types
<1>1. UNCHANGED <<run, link, claims, stage, todo, asking, made, book>> /\ Asked' = Asked
        /\ Said' = Said
  BY DEF Unavailable, daemon, linking, Asked, Said
<1>2. /\ \A x \in Tabs : x # t => call'[x] = call[x]
      /\ call'[t] = Idle /\ doubt' = doubt \cup {t}
  BY <1>s DEF Unavailable, CallTypes
<1>3. ~Sure(t)' /\ ~Clean(t)' /\ \A x \in Tabs : x # t => (Sure(x)' => Sure(x))
  BY <1>2 DEF Sure, Clean, Busy, Idle
<1>4. /\ States' = States /\ Pushes' = Pushes
      /\ \A x : AskAbout(x)' = AskAbout(x) /\ Replies(x)' = Replies(x)
  BY <1>1 DEF States, Pushes, AskAbout, Replies
<1>5. StatesInOrder' /\ StatusFirst' /\ Elder'
  BY <1>1, <1>2, <1>4 DEF LinkInv, StatesInOrder, StatusFirst, StatusAsked, StatusSaid, Elder, Idle
<1>6. AssertPending'
  <2>1. AskedBare' = AskedBare /\ SaidBare' = SaidBare
    BY <1>1 DEF AskedBare, SaidBare
  <2> QED BY <1>1, <2>1 DEF LinkInv, AssertPending, In
<1>7. Starting(t)' /\ Steady(t)' /\ CallHeard(t)' /\ Numbered(t)'
  BY <1>1, <1>2, <1>3, <1>4 DEF LinkInv, Starting, Steady, CallHeard, Numbered, Idle
<1>8. ASSUME NEW x \in Tabs, x # t PROVE Starting(x)' /\ Steady(x)' /\ Numbered(x)' /\ CallHeard(x)'
  BY <1>1, <1>2, <1>8, NothingMoved, TabKept
<1>9. ASSUME NEW e \in todo \cup asking PROVE Sure(e.tab)' => Sure(e.tab)
        /\ book'[e.tab] = book[e.tab]
  BY <1>s, <1>1, <1>3 DEF EntryTypes, Entries
<1> QED BY <1>1, <1>5, <1>6, <1>7, <1>8, <1>9, NothingMoved, EntriesKept DEF LinkInv

-----------------------------------------------------------------------------
(* Steps that ask for something. *)

\* A frame about a tab that is sent on the link leaves all others where they are.
LEMMA Asking ==
    ASSUME FramesTyped, NEW f, Pushed(Asked, f, Asked'), f.kind # "status", Said' = Said
    PROVE  /\ States' = States /\ Pushes' = Pushes /\ SaidBare' = SaidBare
           /\ AskedBare' = IF f.id = 0 THEN AskedBare \cup {Len(Asked) + 1} ELSE AskedBare
           /\ \A t : /\ Replies(t)' = Replies(t)
                     /\ AskAbout(t)' = IF f.tab = t THEN AskAbout(t) \cup {Len(Asked) + 1}
                          ELSE AskAbout(t)
                     /\ f.tab # t => Moved(t, 0, 0)
<1>1. /\ Len(Asked) \in Nat /\ Len(Asked') = Len(Asked) + 1 /\ Asked'[Len(Asked) + 1] = f
      /\ \A i \in 1..Len(Asked) : Asked'[i] = Asked[i]
  BY DEF FramesTyped, Pushed
<1>2. States' = States /\ Pushes' = Pushes /\ SaidBare' = SaidBare
        /\ \A t : Replies(t)' = Replies(t)
  BY DEF States, Pushes, SaidBare, Replies
<1>3. AskedBare' = IF f.id = 0 THEN AskedBare \cup {Len(Asked) + 1} ELSE AskedBare
  BY <1>1 DEF AskedBare
<1>4. ASSUME NEW t
      PROVE  AskAbout(t)' = IF f.tab = t THEN AskAbout(t) \cup {Len(Asked) + 1} ELSE AskAbout(t)
  BY <1>1 DEF AskAbout
<1>5. ASSUME NEW t, f.tab # t PROVE Moved(t, 0, 0)
  <2>1. AskAbout(t)' = AskAbout(t) /\ \A i \in AskAbout(t) : Asked'[i] = Asked[i]
    BY <1>1, <1>4, <1>5 DEF AskAbout
  <2> QED BY <1>2, <2>1, Indices DEF Moved, Shifted
<1> QED BY <1>2, <1>3, <1>4, <1>5

\* What a fresh link sends arrives.
LEMMA SendingFresh ==
    ASSUME Asks(asks), link \in Links, Fresh, NEW f \in AskFrames, asks' = Sent(link, f),
      UNCHANGED link
    PROVE  Pushed(Asked, f, Asked')
<1>1. asks[link] \in Seq(AskFrames)
  BY DEF Asks
<1>2. asks'[link] = Append(asks[link], f)
  BY DEF Sent, Fresh, Asks
<1> QED BY <1>1, <1>2, Pushing DEF Asked

\* A frame about a tab comes after the question for the status.
LEMMA AskingOrder ==
    ASSUME FramesTyped, NEW f, Pushed(Asked, f, Asked'), f.kind # "status", Said' = Said,
           UNCHANGED <<run, stage>>, StatesInOrder, StatusFirst
    PROVE  StatesInOrder' /\ StatusFirst'
<1>1. States' = States /\ Pushes' = Pushes
  BY Asking
<1>2. /\ Len(Asked) \in Nat /\ Len(Asked') = Len(Asked) + 1 /\ Asked'[Len(Asked) + 1] = f
      /\ \A i \in 1..Len(Asked) : Asked'[i] = Asked[i]
  BY DEF FramesTyped, Pushed
<1>3. StatesInOrder'
  BY <1>1 DEF StatesInOrder
<1>4. \A i \in 1..Len(Asked') : Asked'[i].kind = "status" => i \in 1..Len(Asked)
        /\ Asked[i].kind = "status"
  BY <1>2
<1>5. StatusAsked \/ StatusSaid => StatusAsked' \/ StatusSaid'
  BY <1>2 DEF StatusAsked, StatusSaid
<1> QED BY <1>3, <1>4, <1>5 DEF StatusFirst

\* The next tab is asserted, or none is left.
LEMMA AssertLink == ASSUME Shape, Fresh, LinkInv, Assert PROVE LinkInv'
<1>s. /\ BookTypes /\ CallTypes /\ EntryTypes /\ EntriesSane /\ FramesTyped /\ CallsSane
           /\ Asks(asks) /\ link \in Links
  BY Framing DEF Shape, Types, Fresh
<1>1. UNCHANGED <<run, link, claims, book, made, doubt>> /\ Said' = Said /\ stage = "assert"
        /\ asking = {}
  BY DEF Assert, daemon, Said
<1>2. CASE todo = {} /\ stage' = "up" /\ UNCHANGED <<todo, asking, asks, call>>
  <2>1. Asked' = Asked
    BY <1>1, <1>2 DEF Asked
  <2>2. States' = States /\ Pushes' = Pushes
    BY <1>1 DEF States, Pushes
  <2>3. StatesInOrder' /\ StatusFirst' /\ Elder' /\ AssertPending'
    BY <1>1, <1>2, <2>1, <2>2 DEF LinkInv, StatesInOrder, StatusFirst, Elder, AssertPending
  <2>4. ASSUME NEW t \in Tabs PROVE Starting(t)' /\ Steady(t)' /\ Numbered(t)' /\ CallHeard(t)'
    BY <1>1, <1>2, <2>1, NothingMoved, TabKept DEF In
  <2> QED BY <1>1, <1>2, <2>3, <2>4 DEF LinkInv
<1>3. ASSUME NEW e \in todo, todo' = todo \ {e}, asking' = {e},
        asks' = Sent(link, Claim(e.tab, 0, e.run)),
             call' = Disturbed({e.tab}), UNCHANGED stage
      PROVE  LinkInv'
  <2> DEFINE f == Claim(e.tab, 0, e.run)
  <2>1. /\ f \in AskFrames /\ e.tab \in Tabs
        /\ f.kind = "claim" /\ f.tab = e.tab /\ f.id = 0
    BY <1>s DEF EntryTypes, Entries, Claim, AskFrames
  <2> HIDE DEF f
  <2>2. Pushed(Asked, f, Asked')
    BY <1>s, <1>1, <1>3, <2>1, SendingFresh DEF f
  <2>3. AskedBare = {} /\ SaidBare = {}
    BY <1>1 DEF LinkInv, AssertPending, In
  <2>4. StatesInOrder' /\ StatusFirst'
    BY <1>s, <1>1, <1>3, <2>1, <2>2, AskingOrder DEF LinkInv
  <2>5. Elder'
    BY <1>s, <1>1, <1>3, <2>1, <2>2, Asking DEF LinkInv, Elder
  <2>6. AskedBare' = {Len(Asked) + 1} /\ SaidBare' = {} /\ Asked'[Len(Asked) + 1] = f
    BY <1>s, <1>1, <2>1, <2>2, <2>3, Asking DEF Pushed
  <2>7. AssertPending'
    BY <1>3, <2>1, <2>6 DEF AssertPending, In
  <2>8. \A x \in Tabs : x # e.tab => call'[x] = call[x]
    BY <1>s, <1>3, Disturbing
  <2>9. ASSUME NEW x \in Tabs, x # e.tab PROVE Starting(x)' /\ Steady(x)' /\ Numbered(x)'
          /\ CallHeard(x)'
    <3>1. Moved(x, 0, 0)
      BY <1>s, <1>1, <2>1, <2>2, <2>9, Asking
    <3> QED BY <1>1, <1>3, <2>8, <2>9, <3>1, TabKept DEF In
  <2>10. Starting(e.tab)' /\ Steady(e.tab)' /\ CallHeard(e.tab)'
    BY <1>s, <1>1, <1>3, <2>1, Disturbing DEF Starting, Steady, CallHeard, Clean, Busy, In
  <2>11. Numbered(e.tab)'
    <3>1. /\ Replies(e.tab)' = Replies(e.tab)
               /\ AskAbout(e.tab)' = AskAbout(e.tab) \cup {Len(Asked) + 1}
          /\ \A i \in AskAbout(e.tab) : Asked'[i] = Asked[i]
      BY <1>s, <1>1, <2>1, <2>2, Asking DEF Pushed, AskAbout
    <3>2. /\ made[e.tab] \in Nat /\ (call[e.tab].at = "begun" => made[e.tab] # 0)
          /\ call'[e.tab].at = call[e.tab].at
      BY <1>s, <1>3, <2>1, Disturbing DEF BookTypes, CallsSane, Busy, Idle
    <3> QED BY <1>1, <2>1, <2>6, <3>1, <3>2 DEF LinkInv, Numbered
  <2>12. ASSUME NEW x \in todo' PROVE ToAssert(x)'
    <3>1. x.tab # e.tab /\ x \in todo /\ x.tab \in Tabs
      BY <1>s, <1>3 DEF EntriesSane, EntryTypes, Entries
    <3>2. Moved(x.tab, 0, 0)
      BY <1>s, <1>1, <2>1, <2>2, <3>1, Asking
    <3> QED BY <1>1, <2>8, <3>1, <3>2, EntriesKept DEF LinkInv, Sure, Busy
  <2>13. Asserting(e)'
    <3> SUFFICES ASSUME Sure(e.tab)' PROVE Asserting(e)'
      BY DEF Asserting
    <3>1. Sure(e.tab)
      BY <1>s, <1>1, <1>3, <2>1, Disturbing DEF Sure, Busy
    <3>2. Quiet(e.tab) /\ ~Ours(e.tab) /\ Carried(e)
      BY <3>1 DEF LinkInv, ToAssert
    <3>3. AskAbout(e.tab)' = {Len(Asked) + 1} /\ Replies(e.tab)' = {}
      BY <1>s, <1>1, <2>1, <2>2, <3>2, Asking DEF Quiet
    <3> QED BY <1>1, <2>6, <3>2, <3>3 DEF Asserting, AssertAsked, Ours, Carried, f
  <2> QED BY <1>3, <2>1, <2>4, <2>5, <2>7, <2>9, <2>10, <2>11, <2>12, <2>13 DEF LinkInv
<1> QED BY <1>2, <1>3 DEF Assert

\* A call asks about its tab: no other frame about the tab carries its number.
LEMMA CallAsks ==
    ASSUME Shape, Fresh, LinkInv, NEW t \in Tabs, NEW f \in AskFrames,
           f.kind # "status", f.tab = t, f.id = made'[t], f.run = 0, f.id # 0, Clean(t)'
             => f.kind = call'[t].kind,
           asks' = Sent(link, f), Said' = Said,
           UNCHANGED <<run, link, claims, stage, todo, asking, book, doubt>>,
           Busy(t)', call'[t].at = "sent", made' \in [Tabs -> Nat],
           \A x \in Tabs : x # t => call'[x] = call[x] /\ made'[x] = made[x],
           made'[t] = made[t] + 1 \/ (made'[t] = made[t] /\ call[t].at = "begun")
    PROVE  LinkInv'
<1>s. /\ EntryTypes /\ BookTypes /\ FramesTyped /\ Asks(asks) /\ link \in Links
  BY Framing DEF Shape, Types, Fresh
<1>1. Pushed(Asked, f, Asked')
  BY <1>s, SendingFresh
<1>2. StatesInOrder' /\ StatusFirst'
  BY <1>s, <1>1, AskingOrder DEF LinkInv
<1>3. Elder'
  BY <1>s, <1>1, Asking DEF LinkInv, Elder
<1>4. /\ AskedBare' = AskedBare /\ SaidBare' = SaidBare
      /\ \A i \in AskedBare : Asked'[i] = Asked[i]
  BY <1>s, <1>1, Asking DEF Pushed, AskedBare
<1>5. AssertPending'
  BY <1>4 DEF LinkInv, AssertPending, In
<1>6. ASSUME NEW x \in Tabs, x # t PROVE Starting(x)' /\ Steady(x)' /\ Numbered(x)' /\ CallHeard(x)'
  <2>1. Moved(x, 0, 0)
    BY <1>s, <1>1, <1>6, Asking
  <2> QED BY <1>6, <2>1, TabKept DEF In
<1>7. /\ Replies(t)' = Replies(t) /\ AskAbout(t)' = AskAbout(t) \cup {Len(Asked) + 1}
      /\ Asked'[Len(Asked) + 1] = f
      /\ \A i \in AskAbout(t) : Asked'[i] = Asked[i] /\ i < Len(Asked) + 1 /\ Asked[i].id \in Nat
      /\ \A j \in Replies(t) : Said[j].id \in Nat
  BY <1>s, <1>1, Asking DEF Pushed, AskAbout, Replies, FramesTyped
<1>8. /\ \A i \in AskAbout(t) : Asked[i].id <= made'[t] /\ Asked[i].id # made'[t]
      /\ \A j \in Replies(t) : Said[j].id <= made'[t] /\ Said[j].id # made'[t]
  <2>1. /\ \A i \in AskAbout(t) : Asked[i].id <= made[t]
             /\ (call[t].at = "begun" => Asked[i].id # made[t])
        /\ \A j \in Replies(t) : Said[j].id <= made[t]
             /\ (call[t].at = "begun" => Said[j].id # made[t])
    BY DEF LinkInv, Numbered
  <2>2. made[t] \in Nat
    BY <1>s DEF BookTypes
  <2> QED BY <1>7, <2>1, <2>2
<1>9. Numbered(t)'
  BY <1>7, <1>8 DEF Numbered
<1>10. CallHeard(t)'
  <2>1. Clean(t)' => CallAsked(t)'
    BY <1>7, <1>8 DEF CallAsked
  <2> QED BY <2>1 DEF CallHeard
<1>11. ~Sure(t)'
  BY DEF Sure
<1>12. ASSUME NEW e \in todo \cup asking
       PROVE  (ToAssert(e) => ToAssert(e)') /\ (Asserting(e) => Asserting(e)')
  <2>1. CASE e.tab = t
    BY <1>11, <2>1 DEF ToAssert, Asserting
  <2>2. CASE e.tab # t
    <3>1. Moved(e.tab, 0, 0) /\ e.tab \in Tabs
      BY <1>s, <1>1, <2>2, Asking DEF EntryTypes, Entries
    <3> QED BY <2>2, <3>1, EntriesKept DEF Sure, Busy
  <2> QED BY <2>1, <2>2
<1> QED BY <1>2, <1>3, <1>5, <1>6, <1>9, <1>10, <1>11, <1>12 DEF LinkInv, Starting, Steady

\* A caller claims a tab.
LEMMA ClaimTabLink == ASSUME Shape, Fresh, LinkInv, NEW t \in Tabs, ClaimTab(t) PROVE LinkInv'
<1>s. BookTypes /\ CallTypes /\ DaemonTypes
  BY DEF Shape, Types
<1>1. /\ UNCHANGED <<run, link, claims, stage, todo, asking, book, doubt>> /\ Said' = Said
      /\ made' = [made EXCEPT ![t] = @ + 1] /\ asks' = Sent(link, Claim(t, made'[t], 0))
  BY DEF ClaimTab, daemon, linking, Said
<1>2. /\ made' \in [Tabs -> Nat] /\ made'[t] = made[t] + 1 /\ made[t] \in Nat
      /\ \A x \in Tabs : x # t => call'[x] = call[x] /\ made'[x] = made[x]
      /\ call'[t].kind = "claim" /\ call'[t].at = "sent" /\ Busy(t)'
  BY <1>s, <1>1 DEF ClaimTab, Begin, BookTypes, CallTypes, Idle, Busy
<1> DEFINE f == Claim(t, made'[t], 0)
<1>3. /\ f \in AskFrames /\ f.kind = "claim" /\ f.tab = t /\ f.id = made'[t] /\ f.run = 0
           /\ f.id # 0
  BY <1>s, <1>2, BookAssumption DEF Claim, AskFrames
<1> HIDE DEF f
<1> QED BY <1>1, <1>2, <1>3, CallAsks DEF f

\* A caller asks the daemon to release a tab.
LEMMA AskReleaseLink ==
    ASSUME Shape, CleanCalls, Fresh, LinkInv, NEW t \in Tabs, AskRelease(t) PROVE LinkInv'
<1>s. BookTypes /\ CallTypes /\ DaemonTypes /\ CallsSane /\ link # 0
  BY DEF Shape, Types, Fresh
<1> DEFINE f == [kind |-> "release", tab |-> t, id |-> made[t], run |-> 0]
<1>1. /\ UNCHANGED <<run, link, claims, stage, todo, asking, book, made, doubt>> /\ Said' = Said
      /\ call[t].at = "begun" /\ asks' = Sent(link, f)
  BY <1>s DEF AskRelease, daemon, linking, Said
<1>2. /\ made[t] \in Nat \ {0} /\ Busy(t) /\ call[t].kind \in {"claim", "release"}
      /\ \A x \in Tabs : x # t => call'[x] = call[x]
      /\ call'[t].kind = call[t].kind /\ call'[t].at = "sent"
      /\ call'[t].clean => call[t].clean
  BY <1>s, <1>1 DEF AskRelease, BookTypes, CallTypes, CallStates, CallsSane, Busy, Idle
<1>3. /\ f \in AskFrames /\ f.kind = "release" /\ f.tab = t /\ f.id = made'[t] /\ f.run = 0
           /\ f.id # 0
  BY <1>s, <1>1, <1>2, BookAssumption DEF AskFrames
<1>4. Clean(t)' => call'[t].kind = "release"
  BY <1>1, <1>2 DEF CleanCalls, CleanCall, Clean, Busy
<1> HIDE DEF f
<1> QED BY <1>s, <1>1, <1>2, <1>3, <1>4, CallAsks DEF Busy, BookTypes

-----------------------------------------------------------------------------
(* A fresh link, and another browser. *)

\* A fresh link starts with the question for the status and no claim.
LEMMA DialLink == ASSUME Shape, CleanCalls, Dial PROVE LinkInv'
<1>s. /\ DaemonTypes /\ LinkTypes /\ LinkStaged /\ LinksUnused /\ HoldersKnown /\ EntriesSane
      /\ Asks(asks) /\ CallTypes
  BY DEF Shape, Types
<1>1. /\ link' = last + 1 /\ link' \in Links /\ last \in Nat /\ last < MaxLinks
           /\ stage' = "status" /\ link = 0
      /\ UNCHANGED <<todo, asking, claims, call, made, doubt, answers, book>> /\ todo = {}
           /\ asking = {}
  BY <1>s, BookAssumption DEF Dial, LinkTypes, LinkStaged, EntriesSane, calling, Links
<1>2. Said' = <<>> /\ Len(Said') = 0
  BY <1>s, <1>1 DEF Said, LinksUnused
<1>3. Len(Asked') = 1 /\ Asked'[1].kind = "status"
  BY <1>s, <1>1 DEF Dial, Asked, Asks
<1>4. /\ States' = {} /\ Pushes' = {} /\ AskedBare' = {} /\ SaidBare' = {}
      /\ \A t : AskAbout(t)' = {} /\ Replies(t)' = {}
  BY <1>2, <1>3 DEF States, Pushes, AskedBare, SaidBare, AskAbout, Replies
<1>5. \A t \in Tabs : ~Ours(t)'
  BY <1>s, <1>1, BookAssumption DEF HoldersKnown, DaemonTypes, Ours, Other
<1>6. \A t \in Tabs : Clean(t)' => call'[t].at = "begun"
  BY <1>1 DEF CleanCalls, CleanCall, Clean, Busy
<1>7. StatesInOrder' /\ Elder' /\ AssertPending'
  BY <1>1, <1>4 DEF StatesInOrder, Elder, AssertPending
<1>8. StatusFirst'
  BY <1>1, <1>2, <1>3 DEF StatusFirst, StatusAsked
<1>9. ASSUME NEW t \in Tabs PROVE Starting(t)' /\ Steady(t)' /\ Numbered(t)' /\ CallHeard(t)'
  BY <1>1, <1>4, <1>5, <1>6 DEF Starting, Steady, Numbered, CallHeard, Quiet
<1> QED BY <1>1, <1>7, <1>8, <1>9 DEF LinkInv

\* The push that tells of the new run comes after all that was said.
HelloSaid(n) ==
    /\ n = Len(Said) + 1 /\ Len(Said) \in Nat /\ Len(Said') = n
    /\ \A i \in 1..Len(Said) : Said'[i] = Said[i]
    /\ Said'[n].kind = "push" /\ Said'[n].run = run'

LEMMA HelloView ==
    ASSUME Shape, Fresh, Hello
    PROVE  /\ \E n : HelloSaid(n)
           /\ browser \in Nat /\ run' \in 1..MaxRuns /\ run < run' /\ browser <= run' /\ run \in Nat
           /\ UNCHANGED <<link, stage, todo, asking, book, made, doubt>> /\ Asked' = Asked
           /\ \A t \in Tabs : ~Clean(t)' /\ call'[t].at = call[t].at /\ call'[t].run = call[t].run
                              /\ (Busy(t)' <=> Busy(t))
<1>s. /\ DaemonTypes /\ LinkTypes /\ CallTypes /\ LinkServed /\ Answers(answers)
  BY DEF Shape, Types
<1>1. UNCHANGED <<link, stage, todo, asking, book, made, doubt>> /\ Asked' = Asked
  BY DEF Hello, linking, Asked
<1>2. browser \in Nat /\ run' \in 1..MaxRuns /\ run < run' /\ browser <= run' /\ run \in Nat
  BY <1>s, BookAssumption DEF Hello, DaemonTypes
<1>3. \A t \in Tabs : ~Clean(t)' /\ call'[t].at = call[t].at /\ call'[t].run = call[t].run
        /\ (Busy(t)' <=> Busy(t))
  BY <1>s, Disturbing DEF Hello, Clean, Busy
<1> DEFINE f == [kind |-> "push", run |-> run']
<1>4. f \in StateFrames \cup ReplyFrames /\ f.kind = "push" /\ f.run = run'
  BY <1>2 DEF StateFrames
<1>5. link \in Links /\ link \in serving \ cut
  BY <1>s DEF Fresh, LinkServed, LinkTypes, Links
<1>6. answers'[link] = Append(answers[link], f)
        /\ answers[link] \in Seq(StateFrames \cup ReplyFrames)
  BY <1>s, <1>5 DEF Hello, Answers
<1> HIDE DEF f
<1>7. Pushed(Said, f, Said') /\ Len(Said) \in Nat
  BY <1>1, <1>4, <1>6, Pushing DEF Said
<1>8. HelloSaid(Len(Said) + 1)
  BY <1>4, <1>7 DEF HelloSaid, Pushed
<1> QED BY <1>1, <1>2, <1>3, <1>8

\* What the states make of a tab when the browser changes: a claim is adopted or dropped.
LEMMA AgreesHello ==
    ASSUME Shape, Fresh, StatesInOrder, Hello, NEW n, HelloSaid(n), NEW t \in Tabs,
      NEW b \in 0..Out,
           NEW P, P \subseteq Pushes, Agrees(t, b, P)
    PROVE  Agrees(t, b, P \cup {n})'
<1>s. /\ DaemonTypes /\ LinkTypes /\ ClaimRuns
  BY DEF Shape, Types
<1>1. run' \in 1..MaxRuns /\ run < run' /\ run \in Nat /\ UNCHANGED link
  BY HelloView
<1>2. link \in Links /\ link # Nobody
  BY <1>s, BookAssumption DEF Fresh, LinkTypes, Links, Nobody
<1>3. /\ claims[t].run \in 0..MaxRuns
      /\ Ours(t) => claims'[t] = IF claims[t].run \in {0, run'} THEN [claims[t] EXCEPT !.run = run']
                                 ELSE [by |-> Nobody, run |-> 0]
      /\ ~Ours(t) => ~Ours(t)'
      /\ Ours(t) /\ run # 0 => claims[t].run = run
  BY <1>s, <1>1, <1>2 DEF Hello, DaemonTypes, Ours, ClaimRuns
<1>4. /\ \A i \in P : Said'[i] = Said[i] /\ Said[i].run # 0 /\ Said[i].run <= run
      /\ Said'[n].run = run'
  BY DEF HelloSaid, Pushes, StatesInOrder, States
<1>5. FramesTyped
  BY Framing DEF Shape, Types, Fresh
<1>6. \A i \in P : Said[i].run \in 0..MaxRuns
  BY <1>5 DEF FramesTyped, Pushes
<1>7. run = 0 => P = {}
  BY <1>4, <1>6
<1>8. CASE b = Out
  BY <1>3, <1>8 DEF Agrees
<1>9. CASE b # Out /\ ~Ours(t)
  BY <1>3, <1>4, <1>9 DEF Agrees
<1>10. CASE b # Out /\ Ours(t)
  <2>1. (\A i \in P : Said[i].run = claims[t].run) /\ (b = claims[t].run \/ (b = 0 /\ P # {}))
    BY <1>10 DEF Agrees
  <2>2. CASE claims[t].run \in {0, run'}
    <3>1. run = 0 /\ P = {} /\ b = claims[t].run
      BY <1>1, <1>3, <1>7, <1>10, <2>1, <2>2
    <3>2. Ours(t)' /\ claims'[t].run = run'
      BY <1>s, <1>1, <1>3, <1>10, <2>2 DEF Ours, DaemonTypes
    <3> QED BY <1>4, <1>10, <2>2, <3>1, <3>2 DEF Agrees
  <2>3. CASE claims[t].run \notin {0, run'}
    <3>1. ~Ours(t)'
      BY <1>1, <1>2, <1>3, <1>10, <2>3 DEF Ours
    <3>2. CASE b = 0
      <4>1. PICK i \in P : TRUE
        BY <2>1, <2>3, <3>2
      <4>2. Said'[i].run # Said'[n].run
        BY <1>4, <2>1, <2>3, <4>1
      <4> QED BY <1>10, <3>1, <3>2, <4>1, <4>2 DEF Agrees
    <3>3. CASE b # 0
      BY <1>4, <1>10, <2>1, <2>3, <3>1, <3>3 DEF Agrees
    <3> QED BY <3>2, <3>3
  <2> QED BY <2>2, <2>3
<1> QED BY <1>8, <1>9, <1>10

\* The companion says hello with another browser: claims and pushes change together.
LEMMA HelloLink == ASSUME Shape, Fresh, LinkInv, Hello PROVE LinkInv'
<1>s. /\ FramesTyped /\ EntryTypes /\ EntryRuns /\ BookTypes /\ BookRuns /\ CallTypes /\ CallRuns
           /\ DaemonTypes
  BY Framing DEF Shape, Types, Fresh
<1>1. PICK n : HelloSaid(n)
  BY HelloView
<1>2. /\ browser \in Nat /\ run' \in 1..MaxRuns /\ run < run' /\ browser <= run' /\ run \in Nat
      /\ UNCHANGED <<link, stage, todo, asking, book, made, doubt>> /\ Asked' = Asked
      /\ \A t \in Tabs : ~Clean(t)' /\ call'[t].at = call[t].at /\ call'[t].run = call[t].run
           /\ (Busy(t)' <=> Busy(t))
  BY HelloView
<1>3. /\ States' = States \cup {n} /\ Pushes' = Pushes \cup {n} /\ SaidBare' = SaidBare
           /\ AskedBare' = AskedBare
      /\ \A t : AskAbout(t)' = AskAbout(t) /\ Replies(t)' = Replies(t) /\ Quiet(t)' = Quiet(t)
  <2>1. /\ n \in 1..Len(Said') /\ Said'[n].kind = "push"
        /\ \A i \in 1..Len(Said) : i \in 1..Len(Said') /\ i # n /\ Said'[i] = Said[i]
        /\ \A i \in 1..Len(Said') : i # n => i \in 1..Len(Said)
    BY <1>1 DEF HelloSaid
  <2>2. States' = States \cup {n} /\ Pushes' = Pushes \cup {n}
    BY <2>1 DEF States, Pushes
  <2>3. SaidBare' = SaidBare /\ \A t : Replies(t)' = Replies(t)
    BY <2>1 DEF SaidBare, Replies
  <2>4. AskedBare' = AskedBare /\ \A t : AskAbout(t)' = AskAbout(t)
    BY <1>2 DEF AskedBare, AskAbout
  <2> QED BY <2>2, <2>3, <2>4 DEF Quiet
<1>4. /\ \A i \in States : /\ Said'[i] = Said[i] /\ i < n /\ Said[i].run \in Nat
                                /\ Said[i].run < run'
                           /\ Said[i].run <= run /\ (Said[i].kind = "push" => Said[i].run # 0)
      /\ n \notin States /\ n \in Nat /\ Said'[n].run = run' /\ Said'[n].kind = "push"
           /\ Pushes \subseteq States
      /\ \A t : \A j \in Replies(t) : Said'[j] = Said[j] /\ j < n
  BY <1>s, <1>1, <1>2 DEF HelloSaid, States, Pushes, Replies, FramesTyped, LinkInv, StatesInOrder
<1>5. StatesInOrder'
  <2>1. \A i, j \in States : i < j => Said[i].run <= Said[j].run
    BY DEF LinkInv, StatesInOrder
  <2>2. \A i, j \in Pushes : i < j => Said[i].run < Said[j].run
    BY DEF LinkInv, StatesInOrder
  <2> QED BY <1>2, <1>3, <1>4, <2>1, <2>2, Indices DEF StatesInOrder
<1>6. StatusFirst'
  <2>h. /\ \A i \in 1..Len(Said) : i \in 1..Len(Said') /\ i < n /\ Said'[i] = Said[i]
        /\ \A i \in 1..Len(Said') : i # n => i \in 1..Len(Said)
        /\ Said'[n].kind = "push"
    BY <1>1 DEF HelloSaid
  <2>a. StatusAsked => StatusAsked'
    BY <1>2, <2>h DEF StatusAsked
  <2>b. StatusSaid => StatusSaid'
    BY <2>h DEF StatusSaid
  <2>1. StatusAsked \/ StatusSaid => StatusAsked' \/ StatusSaid'
    BY <2>a, <2>b
  <2>2. \A i \in 1..Len(Said') : Said'[i].kind = "status" => i \in 1..Len(Said)
          /\ Said[i].kind = "status"
    BY <1>1 DEF HelloSaid
  <2> QED BY <1>2, <2>1, <2>2 DEF LinkInv, StatusFirst
<1>7. Elder'
  <2>1. \A e \in todo \cup asking : e.run <= run'
    BY <1>s, <1>2 DEF EntryRuns, EntryTypes, Entries
  <2>2. \A t \in Tabs : (book[t] # Out => book[t] <= run') /\ call[t].run <= run'
    BY <1>s, <1>2 DEF BookRuns, BookTypes, CallRuns, CallTypes, CallStates, Out
  <2> QED BY <1>2, <1>3, <1>4, <2>1, <2>2 DEF LinkInv, Elder
<1>8. AssertPending'
  BY <1>1, <1>2, <1>3 DEF LinkInv, AssertPending, SaidBare, HelloSaid, In
<1>9. \A t \in Tabs : ~Ours(t) => ~Ours(t)'
  BY <1>s, <1>2 DEF Hello, Ours, DaemonTypes, Fresh, Nobody
<1>10. ASSUME NEW t \in Tabs PROVE Starting(t)' /\ Steady(t)' /\ Numbered(t)' /\ CallHeard(t)'
  <2>1. Sure(t)' <=> Sure(t)
    BY <1>2 DEF Sure
  <2>2. Starting(t)'
    BY <1>2, <1>3, <1>9, <2>1 DEF LinkInv, Starting
  <2>3. Numbered(t)' /\ CallHeard(t)'
    BY <1>2, <1>3, <1>4 DEF LinkInv, Numbered, CallHeard
  <2>4. PICK b \in 0..Out : b = book[t]
    BY <1>s DEF BookTypes
  <2>5. PICK P : P = Pushes
    OBVIOUS
  <2>6. Agrees(t, b, P) => Agrees(t, b, P \cup {n})'
    BY <1>1, <2>5, AgreesHello DEF LinkInv
  <2> QED BY <1>2, <1>3, <2>1, <2>2, <2>3, <2>4, <2>5, <2>6 DEF LinkInv, Steady
<1>11. ASSUME NEW e \in todo \cup asking PROVE Carried(e) => Carried(e)'
  BY <1>s, <1>2 DEF Carried, EntryTypes, Entries
<1>12. ASSUME NEW e \in todo PROVE ToAssert(e)'
  BY <1>s, <1>2, <1>3, <1>9, <1>11 DEF LinkInv, ToAssert, Sure, EntryTypes, Entries
<1>13. ASSUME NEW e \in asking PROVE Asserting(e)'
  <2>1. e.tab \in Tabs /\ e.run \in 0..MaxRuns
    BY <1>s DEF EntryTypes, Entries
  <2>2. AssertAsked(e) => AssertAsked(e)'
    BY <1>2, <1>3, <1>9, <2>1 DEF AssertAsked
  <2>3. ASSUME AssertReplied(e) PROVE AssertReplied(e)'
    <3>1. PICK j \in Replies(e.tab) : /\ Replies(e.tab) = {j} /\ Said[j].id = 0
                                      /\ IF Said[j].granted THEN AssertGranted(e, j)
                                           ELSE ~Ours(e.tab)
      BY <2>3 DEF AssertReplied
    <3>2. Said'[j] = Said[j] /\ j < n /\ Said[j].run \in 0..MaxRuns
      BY <1>s, <1>4 DEF FramesTyped, Replies
    <3>3. ASSUME AssertGranted(e, j) PROVE AssertGranted(e, j)'
      <4>1. PICK b \in 0..Out : b = Said[j].run
        BY <3>2, BookAssumption DEF Out
      <4>2. PICK P : P = {i \in Pushes : i > j}
        OBVIOUS
      <4>3. Agrees(e.tab, b, P \cup {n})'
        BY <1>1, <2>1, <3>3, <4>1, <4>2, AgreesHello DEF AssertGranted, LinkInv
      <4>4. P \cup {n} = {i \in Pushes' : i > j}
        BY <1>3, <3>2, <4>2
      <4>5. e.run # 0 => /\ book'[e.tab] = e.run /\ Said'[j].run = e.run
                         /\ \A i \in Pushes' : i < j => Said'[i].run = e.run
        <5>1. \A i \in Pushes' : i < j => i \in Pushes /\ Said'[i] = Said[i]
          BY <1>3, <1>4, <3>2, Indices
        <5> QED BY <1>2, <3>2, <3>3, <5>1 DEF AssertGranted
      <4>6. Agrees(e.tab, b, {i \in Pushes : i > j})'
        BY <4>3, <4>4
      <4> QED BY <3>2, <3>3, <4>1, <4>5, <4>6 DEF AssertGranted
    <3> QED BY <1>3, <1>9, <2>1, <2>3, <3>1, <3>2, <3>3 DEF AssertReplied
  <2> QED BY <1>2, <1>11, <2>1, <2>2, <2>3 DEF LinkInv, Asserting, Sure
<1> QED BY <1>2, <1>5, <1>6, <1>7, <1>8, <1>10, <1>12, <1>13 DEF LinkInv

-----------------------------------------------------------------------------
(* Answers that are read. *)

\* What is left of the answers moves one place on.
LEMMA Hearing ==
    ASSUME FramesTyped, Popped(Said, Said')
    PROVE  /\ Shifted(States \ {1}, Said, States', Said', 1)
                /\ Shifted(Pushes \ {1}, Said, Pushes', Said', 1)
           /\ Shifted(SaidBare \ {1}, Said, SaidBare', Said', 1)
           /\ \A t : Shifted(Replies(t) \ {1}, Said, Replies(t)', Said', 1)
           /\ 1 \in 1..Len(Said) /\ Len(Said') \in Nat
           /\ \A i \in 1..Len(Said') : i + 1 \in 1..Len(Said) /\ Said'[i] = Said[i + 1]
<1>1. /\ Len(Said') \in Nat /\ Len(Said) = Len(Said') + 1 /\ 1 \in 1..Len(Said)
      /\ \A i \in 2..Len(Said) : Said[i] = Said'[i - 1]
      /\ \A i \in 1..Len(Said') : Said'[i] = Said[i + 1]
  BY DEF FramesTyped, Popped
<1> QED BY <1>1 DEF Shifted, States, Pushes, SaidBare, Replies

\* An answer that is not the last word for the call about its tab.
LEMMA ReplyDropped ==
    ASSUME FramesTyped, LinkInv, Popped(Said, Said'), Asked' = Asked, NEW t \in Tabs,
      1 \in Replies(t),
           UNCHANGED link, claims'[t] = claims[t], call'[t] = call[t], made'[t] = made[t],
           Said[1].id # made[t] \/ call[t].at # "sent"
    PROVE  CallHeard(t)'
<1>1. /\ AskAbout(t)' = AskAbout(t) /\ Shifted(Replies(t) \ {1}, Said, Replies(t)', Said', 1)
      /\ Shifted(States \ {1}, Said, States', Said', 1)
  BY Hearing DEF AskAbout
<1>2. Clean(t)' = Clean(t) /\ \A x, r : Outcome(t, x, r)' = Outcome(t, x, r)
  BY DEF Clean, Busy, Outcome, Ours
<1>3. ASSUME CallAsked(t) PROVE CallAsked(t)'
  BY <1>1, <1>3 DEF CallAsked, Shifted
<1>4. ASSUME CallReplied(t), call[t].at = "sent" PROVE CallReplied(t)'
  <2>1. PICK j \in Replies(t) : /\ Said[j].id = made[t]
                                /\ \A k \in Replies(t) \cup States : k <= j
                                /\ \A k \in Replies(t) : Said[k].id = made[t] => k = j
                                /\ Outcome(t, Said[j].granted, Said[j].run)
    BY <1>4 DEF CallReplied
  <2>2. j # 1 /\ j \in Nat
    BY <1>4, <2>1, Indices
  <2>3. j - 1 \in Replies(t)' /\ Said'[j - 1] = Said[j]
    BY <1>1, <2>2 DEF Shifted
  <2>4. ASSUME NEW k \in Replies(t)' \cup States' PROVE k <= j - 1
    <3>1. k + 1 \in Replies(t) \cup States
      BY <1>1 DEF Shifted
    <3>2. k + 1 <= j /\ k \in Nat
      BY <2>1, <3>1, Indices
    <3> QED BY <2>2, <3>2
  <2>5. ASSUME NEW k \in Replies(t)', Said'[k].id = made[t] PROVE k = j - 1
    <3>1. k + 1 \in Replies(t) /\ Said'[k] = Said[k + 1]
      BY <1>1 DEF Shifted
    <3>2. k + 1 = j
      BY <2>1, <2>5, <3>1
    <3> QED BY <3>2, Indices
  <2> QED BY <1>1, <1>2, <1>4, <2>1, <2>3, <2>4, <2>5 DEF CallReplied
<1>5. ~CallTold(t)
  BY DEF CallTold, Quiet
<1> QED BY <1>2, <1>3, <1>4, <1>5 DEF LinkInv, CallHeard

\* An answer is read: for the assertion under way, for a call, or for nobody.
LEMMA ReadReplyLink == ASSUME Shape, Fresh, LinkInv, ReadReply PROVE LinkInv'
<1>s. /\ FramesTyped /\ EntryTypes /\ BookTypes /\ CallTypes /\ DaemonTypes /\ EntriesSane
           /\ CallsSane
      /\ LinkTypes /\ LinkStaged /\ Answers(answers) /\ link \in Links
  BY Framing DEF Shape, Types, Fresh
<1>1. /\ UNCHANGED <<run, link, stage, todo, claims, made, doubt>> /\ Asked' = Asked
  BY DEF ReadReply, daemon, Asked
<1>2. PICK f : f = Head(answers[link])
  OBVIOUS
<1>3. answers[link] \in Seq(StateFrames \cup ReplyFrames)
  BY <1>s DEF Answers
<1>4. f = Said[1] /\ Popped(Said, Said') /\ f.kind = "reply"
  BY <1>s, <1>1, <1>2, <1>3, Popping DEF ReadReply, Said, Answers
<1>5. AssertAnswered(f) \/ CallAnswered(f)
  BY <1>2 DEF ReadReply
<1>6. /\ Shifted(States, Said, States', Said', 1) /\ Shifted(Pushes, Said, Pushes', Said', 1)
      /\ Shifted(SaidBare \ {1}, Said, SaidBare', Said', 1)
      /\ \A t : /\ AskAbout(t)' = AskAbout(t)
                     /\ Shifted(Replies(t) \ {1}, Said, Replies(t)', Said', 1)
                /\ t # f.tab => Moved(t, 0, 1)
      /\ 1 \in Replies(f.tab) /\ 1 \notin States /\ 1 \notin Pushes /\ AskedBare' = AskedBare
  <2>1. 1 \in 1..Len(Said) /\ 1 \notin States /\ 1 \notin Pushes /\ 1 \in Replies(f.tab)
    BY <1>s, <1>4, Hearing DEF States, Pushes, Replies
  <2>2. \A t : t # f.tab => 1 \notin Replies(t)
    BY <1>4 DEF Replies
  <2>3. AskedBare' = AskedBare /\ \A t : AskAbout(t)' = AskAbout(t)
    BY <1>1 DEF AskedBare, AskAbout
  <2>4. \A t : t # f.tab => Moved(t, 0, 1)
    BY <1>s, <1>1, <1>4, <2>1, <2>2, <2>3, Hearing, Indices DEF Moved, Shifted
  <2> QED BY <1>s, <1>4, <2>1, <2>3, <2>4, Hearing DEF Shifted
<1>7. stage # "status" /\ f.tab \in Tabs /\ f.id \in Nat /\ f.run \in 0..MaxRuns
        /\ f.granted \in BOOLEAN
  <2>1. 1 \in 1..Len(Said)
    BY <1>s, <1>4, Hearing
  <2>2. ~StatusAsked /\ ~StatusSaid
    BY <1>4, <2>1 DEF StatusAsked, StatusSaid
  <2> QED BY <1>s, <1>4, <2>1, <2>2 DEF LinkInv, StatusFirst, FramesTyped
<1>8. StatesInOrder' /\ StatusFirst'
  <2>1. /\ \A i \in States : Said[i].run <= run /\ (Said[i].kind = "push" => Said[i].run # 0)
        /\ \A i, j \in States : i < j => Said[i].run <= Said[j].run
        /\ \A i, j \in Pushes : i < j => Said[i].run < Said[j].run
    BY DEF LinkInv, StatesInOrder
  <2>2. StatesInOrder'
    BY <1>1, <1>6, <2>1, Indices DEF StatesInOrder, Shifted
  <2>3. \A i \in 1..Len(Said') : Said'[i].kind # "status"
    BY <1>s, <1>4, <1>7, Hearing DEF LinkInv, StatusFirst
  <2> QED BY <1>1, <1>7, <2>2, <2>3 DEF LinkInv, StatusFirst
<1>9. asking' \subseteq asking
  BY <1>5 DEF AssertAnswered, CallAnswered
<1>10. Elder'
  BY <1>1, <1>6, <1>7, <1>9 DEF LinkInv, Elder, Shifted
<1>11. \A t \in Tabs : Starting(t)'
  BY <1>1, <1>7 DEF Starting
<1>12. Numbered(f.tab)'
  <2>1. call'[f.tab].at = "begun" => call[f.tab].at = "begun"
    <3>1. call[f.tab] \in CallStates
      BY <1>s, <1>7 DEF CallTypes
    <3>2. CASE UNCHANGED call
      BY <3>2
    <3>3. CASE call' = [call EXCEPT ![f.tab] = [@ EXCEPT !.at = "told", !.granted = f.granted,
            !.run = f.run]]
      BY <1>s, <1>7, <3>1, <3>3 DEF CallTypes, CallStates
    <3> QED BY <1>5, <3>2, <3>3 DEF AssertAnswered, CallAnswered
  <2> QED BY <1>1, <1>6, <1>7, <2>1 DEF LinkInv, Numbered, Shifted
<1>13. CASE f.id # 0 /\ CallAnswered(f)
  <2>1. UNCHANGED <<asking, book>>
    BY <1>13 DEF CallAnswered
  <2>2. \A x \in Tabs : /\ x # f.tab => call'[x] = call[x]
                        /\ Busy(x)' <=> Busy(x)
    <3>1. \A x \in Tabs : call[x] \in CallStates
      BY <1>s DEF CallTypes
    <3> QED BY <1>s, <1>13, <3>1 DEF CallAnswered, CallTypes, CallStates, Busy
  <2>3. AssertPending'
    <3>1. 1 \notin SaidBare /\ SaidBare \subseteq Nat /\ SaidBare' \subseteq Nat
      BY <1>4, <1>13 DEF SaidBare
    <3>2. Shifted(SaidBare, Said, SaidBare', Said', 1)
      BY <1>6, <3>1 DEF Shifted
    <3>3. \A j, k \in SaidBare' : (\A x, y \in SaidBare : x = y) => j = k
      <4>1. \A j, k \in SaidBare' : j + 1 \in SaidBare /\ k + 1 \in SaidBare /\ j \in Nat
              /\ k \in Nat
        BY <3>1, <3>2 DEF Shifted
      <4>2. \A j, k \in Nat : j + 1 = k + 1 => j = k
        OBVIOUS
      <4> QED BY <4>1, <4>2
    <3> QED BY <1>1, <1>6, <2>1, <3>2, <3>3 DEF LinkInv, AssertPending, Shifted, In
  <2>4. ASSUME NEW t \in Tabs, t # f.tab PROVE Starting(t)' /\ Steady(t)' /\ Numbered(t)'
          /\ CallHeard(t)'
    BY <1>1, <1>6, <2>1, <2>2, <2>4, TabKept DEF In
  <2>5. /\ ~Quiet(f.tab)
        /\ \A e \in todo \cup asking : e.tab = f.tab => ~Sure(f.tab)
    <3>1. ~Quiet(f.tab)
      BY <1>6 DEF Quiet
    <3>2. \A e \in asking : e.tab = f.tab => ~AssertAsked(e) /\ ~AssertReplied(e)
      BY <1>4, <1>6, <1>13 DEF AssertAsked, AssertReplied
    <3> QED BY <3>1, <3>2 DEF LinkInv, ToAssert, Asserting
  <2>6. Sure(f.tab)' <=> Sure(f.tab)
    BY <1>1, <1>7, <2>2 DEF Sure
  <2>7. Steady(f.tab)'
    BY <1>1, <1>7, <2>1, <2>5, <2>6 DEF LinkInv, Steady, In
  <2>8. CallHeard(f.tab)'
    <3>1. CASE call' = call /\ (Said[1].id # made[f.tab] \/ call[f.tab].at # "sent")
      BY <1>s, <1>1, <1>4, <1>6, <1>7, <3>1, ReplyDropped
    <3>2. CASE call' # call \/ ~(Said[1].id # made[f.tab] \/ call[f.tab].at # "sent")
      <4>0. ~Busy(f.tab) => call[f.tab].at = "idle"
        BY <1>s, <1>7 DEF CallsSane, Idle
      <4>1. Busy(f.tab) /\ call[f.tab].at = "sent" /\ made[f.tab] = f.id
        BY <1>4, <1>13, <3>2, <4>0 DEF CallAnswered
      <4>2. /\ call'[f.tab].at = "told" /\ call'[f.tab].granted = f.granted
                 /\ call'[f.tab].run = f.run
            /\ call'[f.tab].kind = call[f.tab].kind /\ call'[f.tab].clean = call[f.tab].clean
        <5>1. call[f.tab] \in CallStates
          BY <1>s, <1>7 DEF CallTypes
        <5> QED BY <1>s, <1>7, <1>13, <4>1, <5>1 DEF CallAnswered, CallTypes, CallStates
      <4> SUFFICES ASSUME Clean(f.tab) PROVE CallTold(f.tab)'
        BY <2>2, <1>7, <4>2 DEF CallHeard, Clean
      <4>3. CallReplied(f.tab)
        BY <1>4, <1>6, <1>7, <4>1 DEF LinkInv, CallHeard, CallAsked
      <4>4. /\ \A k \in Replies(f.tab) \cup States : k <= 1
            /\ Outcome(f.tab, f.granted, f.run) /\ AskAbout(f.tab) = {}
        BY <1>4, <1>6, <4>1, <4>3 DEF CallReplied
      <4>5. Replies(f.tab) = {1} /\ States = {}
        <5>1. \A k \in Replies(f.tab) \cup States : k \in Nat \ {0}
          BY <1>s DEF Replies, States, FramesTyped
        <5> QED BY <1>6, <4>4, <5>1
      <4>6. Quiet(f.tab)' /\ States' = {}
        BY <1>1, <1>6, <4>4, <4>5 DEF Shifted, Quiet
      <4>7. Outcome(f.tab, f.granted, f.run)'
        BY <1>1, <4>2, <4>4 DEF Outcome, Ours
      <4> QED BY <1>1, <1>7, <4>2, <4>6, <4>7 DEF CallTold
    <3> QED BY <3>1, <3>2
  <2>9. ASSUME NEW e \in todo \cup asking
        PROVE  (ToAssert(e) => ToAssert(e)') /\ (Asserting(e) => Asserting(e)')
    <3>1. e.tab \in Tabs
      BY <1>s DEF EntryTypes, Entries
    <3>2. Sure(e.tab)' => e.tab # f.tab /\ Sure(e.tab)
      BY <1>1, <2>2, <2>5, <3>1 DEF Sure
    <3> QED BY <1>1, <1>6, <2>1, <3>1, <3>2, EntriesKept
  <2> QED BY <1>1, <1>8, <1>10, <1>11, <1>12, <2>1, <2>3, <2>4, <2>7, <2>8, <2>9 DEF LinkInv
<1>14. CASE f.id = 0 /\ AssertAnswered(f)
  <2>1. UNCHANGED call /\ 1 \in SaidBare
    BY <1>s, <1>4, <1>14, Hearing DEF AssertAnswered, SaidBare
  <2>2. \A t \in Tabs : Sure(t)' <=> Sure(t)
    BY <1>1, <2>1 DEF Sure, Busy
  <2>3. CallHeard(f.tab)'
    <3>1. call[f.tab].at = "sent" => made[f.tab] # 0
      BY <1>s, <1>7 DEF CallsSane, Busy, Idle
    <3> QED BY <1>s, <1>1, <1>4, <1>6, <1>7, <1>14, <2>1, <3>1, ReplyDropped
  <2>4. CASE asking = {}
    <3>1. UNCHANGED <<asking, book>> /\ stage = "up" /\ todo = {}
      BY <1>s, <1>4, <1>14, <2>1, <2>4 DEF AssertAnswered, LinkInv, AssertPending, In, EntriesSane
    <3>2. AssertPending'
      BY <1>1, <2>4, <3>1 DEF AssertPending
    <3>3. ASSUME NEW t \in Tabs, t # f.tab PROVE Starting(t)' /\ Steady(t)' /\ Numbered(t)'
            /\ CallHeard(t)'
      BY <1>1, <1>6, <2>1, <3>1, <3>3, TabKept DEF In
    <3>4. Steady(f.tab)'
      BY <1>1, <1>6, <1>7, <2>2, <2>4, <3>1 DEF LinkInv, Steady, In, Quiet
    <3> QED BY <1>1, <1>8, <1>10, <1>11, <1>12, <2>3, <2>4, <3>1, <3>2, <3>3, <3>4 DEF LinkInv
  <2>5. CASE asking # {}
    <3> DEFINE e == CHOOSE x \in asking : TRUE
    <3>1. /\ asking = {e} /\ e \in Entries /\ asking' = {}
          /\ book' = [book EXCEPT ![f.tab] = IF ~f.granted \/ @ = Out THEN Out
                                             ELSE IF f.run # 0 THEN f.run ELSE e.run]
      BY <1>s, <1>14, <2>5 DEF AssertAnswered, EntriesSane, EntryTypes
    <3> HIDE DEF e
    <3>2. stage = "assert" /\ f.tab = e.tab /\ SaidBare = {1} /\ AskedBare = {}
      BY <1>s, <1>4, <1>7, <2>1, <2>5, <3>1 DEF EntriesSane, LinkInv, AssertPending, In
    <3>3. AssertPending'
      BY <1>6, <3>1, <3>2 DEF AssertPending, Shifted
    <3>4. \A t \in Tabs : t # f.tab => book'[t] = book[t]
      BY <1>s, <3>1 DEF BookTypes
    <3>5. ASSUME NEW t \in Tabs, t # f.tab PROVE Starting(t)' /\ Steady(t)' /\ Numbered(t)'
            /\ CallHeard(t)'
      BY <1>1, <1>6, <2>1, <3>1, <3>2, <3>4, <3>5, TabKept DEF In
    <3>6. Steady(f.tab)'
      <4> SUFFICES ASSUME Sure(f.tab) PROVE Quiet(f.tab)' /\ Agrees(f.tab, book[f.tab], Pushes)'
        BY <1>7, <2>2 DEF Steady
      <4>1. Carried(e) /\ AssertReplied(e)
        BY <1>6, <3>1, <3>2 DEF LinkInv, Asserting, AssertAsked
      <4>2. /\ AskAbout(f.tab) = {} /\ Replies(f.tab) = {1}
            /\ IF f.granted THEN AssertGranted(e, 1) ELSE ~Ours(f.tab)
        BY <1>4, <1>6, <3>2, <4>1 DEF AssertReplied
      <4>3. Quiet(f.tab)'
        BY <1>6, <4>2 DEF Quiet, Shifted
      <4>4. CASE ~f.granted
        <5>1. book'[f.tab] = Out /\ ~Ours(f.tab)'
          BY <1>s, <1>1, <1>7, <3>1, <4>2, <4>4 DEF Ours, BookTypes
        <5> QED BY <4>3, <5>1 DEF Agrees
      <4>5. CASE f.granted
        <5>1. AssertGranted(e, 1)
          BY <4>2, <4>5
        <5>2. book[f.tab] # Out
          <6>1. e.run \in 0..MaxRuns /\ run \in 0..MaxRuns
            BY <1>s, <3>1, BookAssumption DEF Entries, DaemonTypes
          <6> QED BY <3>2, <4>1, <5>1, <6>1, BookAssumption DEF Carried, AssertGranted, Out
        <5>3. book'[f.tab] = f.run
          BY <1>s, <1>4, <1>7, <3>1, <4>5, <5>1, <5>2 DEF BookTypes, AssertGranted
        <5>4. PICK b, P : b = f.run /\ P = {i \in Pushes : i > 1}
          OBVIOUS
        <5>5. P = Pushes
          BY <1>s, <1>6, <5>4 DEF Pushes, FramesTyped
        <5>6. Agrees(f.tab, b, P)
          BY <1>4, <3>2, <5>1, <5>4 DEF AssertGranted
        <5>7. PICK R : R = Pushes'
          OBVIOUS
        <5>8. Agrees(f.tab, b, R)'
          BY <1>1, <1>6, <5>5, <5>6, <5>7, AgreesMoved
        <5> QED BY <4>3, <5>3, <5>4, <5>7, <5>8
      <4> QED BY <1>7, <4>4, <4>5
    <3>7. ASSUME NEW x \in todo PROVE ToAssert(x)'
      <4>1. x.tab \in Tabs /\ x.tab # f.tab
        BY <1>s, <3>1, <3>2 DEF EntryTypes, Entries, EntriesSane
      <4> QED BY <1>1, <1>6, <2>2, <3>4, <4>1, EntriesKept DEF LinkInv
    <3> QED BY <1>1, <1>8, <1>10, <1>11, <1>12, <2>3, <3>1, <3>3, <3>5, <3>6, <3>7 DEF LinkInv
  <2> QED BY <2>4, <2>5
<1> QED BY <1>5, <1>13, <1>14 DEF AssertAnswered, CallAnswered

-----------------------------------------------------------------------------
(* States that are read. *)

\* A state is no answer: calls are as far as they were.
LEMMA StateRead ==
    ASSUME FramesTyped, LinkInv, Popped(Said, Said'), Asked' = Asked, 1 \in States,
           UNCHANGED link, NEW t \in Tabs, claims'[t] = claims[t], made'[t] = made[t],
           call'[t].kind = call[t].kind, call'[t].at = call[t].at, Clean(t)' => Clean(t)
    PROVE  Numbered(t)' /\ CallHeard(t)'
<1>1. /\ AskAbout(t)' = AskAbout(t) /\ Shifted(Replies(t), Said, Replies(t)', Said', 1)
      /\ Shifted(States \ {1}, Said, States', Said', 1) /\ 1 \notin Replies(t)
  <2>1. AskAbout(t)' = AskAbout(t) /\ 1 \notin Replies(t)
    BY DEF AskAbout, Replies, States
  <2> QED BY <2>1, Hearing DEF Shifted
<1>2. Numbered(t)'
  BY <1>1 DEF LinkInv, Numbered, Shifted
<1>3. \A x, r : Outcome(t, x, r)' = Outcome(t, x, r)
  BY DEF Outcome, Ours
<1>4. ASSUME CallAsked(t) PROVE CallAsked(t)'
  BY <1>1, <1>4 DEF CallAsked, Shifted
<1>5. ASSUME CallReplied(t) PROVE CallReplied(t)'
  <2>1. PICK j \in Replies(t) : /\ Said[j].id = made[t]
                                /\ \A k \in Replies(t) \cup States : k <= j
                                /\ \A k \in Replies(t) : Said[k].id = made[t] => k = j
                                /\ Outcome(t, Said[j].granted, Said[j].run)
    BY <1>5 DEF CallReplied
  <2>2. j - 1 \in Replies(t)' /\ Said'[j - 1] = Said[j] /\ j \in Nat
    BY <1>1, <2>1, Indices DEF Shifted
  <2>3. ASSUME NEW k \in Replies(t)' \cup States' PROVE k <= j - 1
    <3>1. k + 1 \in Replies(t) \cup States
      BY <1>1 DEF Shifted
    <3>2. k + 1 <= j /\ k \in Nat
      BY <2>1, <3>1, Indices
    <3> QED BY <2>2, <3>2
  <2>4. ASSUME NEW k \in Replies(t)', Said'[k].id = made[t] PROVE k = j - 1
    <3>1. k + 1 \in Replies(t) /\ Said'[k] = Said[k + 1]
      BY <1>1 DEF Shifted
    <3>2. k + 1 = j
      BY <2>1, <2>4, <3>1
    <3> QED BY <3>2, Indices
  <2> QED BY <1>1, <1>3, <1>5, <2>1, <2>2, <2>3, <2>4 DEF CallReplied
<1>6. ~CallTold(t)
  BY DEF CallTold
<1>7. CallHeard(t)'
  BY <1>4, <1>5, <1>6 DEF LinkInv, CallHeard
<1> QED BY <1>2, <1>7

\* The book, after the state r was read.
AfterRead(b, r) == IF r = 0 \/ b \in {Out, r} THEN b ELSE IF b = 0 THEN r ELSE Out

\* The push that is read does to the book what was expected of it.
LEMMA AgreesRead ==
    ASSUME NEW t, NEW b \in 0..Out, NEW P, NEW R, NEW r \in 1..MaxRuns, 1 \in P, Said[1].run = r,
           UNCHANGED link, claims'[t] = claims[t], Shifted(P \ {1}, Said, R, Said', 1),
             Agrees(t, b, P)
    PROVE  Agrees(t, AfterRead(b, r), R)'
<1>1. r # 0 /\ r # Out /\ Ours(t)' = Ours(t)
  BY BookAssumption DEF Out, Ours
<1>2. PICK c : c = AfterRead(b, r)
  OBVIOUS
<1>3. \A i \in R : i + 1 \in P /\ Said'[i] = Said[i + 1]
  BY DEF Shifted
<1>4. \A i \in P : Said[i].run # r => i - 1 \in R /\ Said'[i - 1] = Said[i]
  BY DEF Shifted
<1>5. CASE b = Out
  BY <1>1, <1>2, <1>5 DEF Agrees, AfterRead
<1>6. CASE b # Out /\ Ours(t)
  <2>1. r = claims[t].run /\ (b = r \/ b = 0)
    BY <1>6 DEF Agrees
  <2>2. c = r
    BY <1>1, <1>2, <1>6, <2>1 DEF AfterRead
  <2>3. \A i \in R : Said'[i].run = claims[t].run
    BY <1>3, <1>6 DEF Agrees
  <2>4. Agrees(t, c, R)'
    BY <1>1, <1>6, <2>1, <2>2, <2>3 DEF Agrees
  <2> QED BY <1>2, <2>4
<1>7. CASE b = 0 /\ b # Out /\ ~Ours(t)
  <2>1. c = r
    BY <1>1, <1>2, <1>7 DEF AfterRead
  <2>2. \E i \in P : Said[i].run # r
    BY <1>7 DEF Agrees
  <2>3. \E i \in R : Said'[i].run # r
    BY <1>4, <2>2
  <2>4. Agrees(t, c, R)'
    BY <1>1, <1>7, <2>1, <2>3 DEF Agrees
  <2> QED BY <1>2, <2>4
<1>8. CASE b # 0 /\ b # Out /\ ~Ours(t)
  <2>1. CASE b = r
    <3>1. c = b
      BY <1>2, <2>1 DEF AfterRead
    <3>2. \E i \in R : Said'[i].run # r
      BY <1>4, <1>8, <2>1 DEF Agrees
    <3>3. Agrees(t, c, R)'
      BY <1>1, <1>8, <2>1, <3>1, <3>2 DEF Agrees
    <3> QED BY <1>2, <3>3
  <2>2. CASE b # r
    <3>1. c = Out
      BY <1>1, <1>2, <1>8, <2>2 DEF AfterRead
    <3>2. Agrees(t, c, R)'
      BY <1>1, <1>8, <3>1 DEF Agrees
    <3> QED BY <1>2, <3>2
  <2> QED BY <2>1, <2>2
<1> QED BY <1>5, <1>6, <1>7, <1>8

\* A state is read: the first makes the assertions, later ones take tabs out of the book.
LEMMA ReadStateLink == ASSUME Shape, Fresh, LinkInv, ReadState PROVE LinkInv'
<1>s. /\ FramesTyped /\ EntryTypes /\ BookTypes /\ CallTypes /\ DaemonTypes /\ EntriesSane
      /\ Answers(answers) /\ link \in Links
  BY Framing DEF Shape, Types, Fresh
<1>1. UNCHANGED <<run, link, claims, made, asking>> /\ Asked' = Asked
  BY DEF ReadState, daemon, Asked
<1>2. PICK f : f = Head(answers[link])
  OBVIOUS
<1>3. answers[link] \in Seq(StateFrames \cup ReplyFrames)
  BY <1>s DEF Answers
<1>4. f = Said[1] /\ Popped(Said, Said') /\ f.kind \in {"status", "push"}
  BY <1>s, <1>1, <1>2, <1>3, Popping DEF ReadState, Said, Answers
<1>5. /\ 1 \in 1..Len(Said) /\ 1 \in States /\ (f.kind = "push" => 1 \in Pushes)
      /\ f.run \in 0..MaxRuns /\ f.run <= run /\ run \in 0..MaxRuns
      /\ f.kind = "push" => f.run # 0
  <2>1. 1 \in 1..Len(Said)
    BY <1>s, <1>4, Hearing
  <2> QED BY <1>s, <1>4, <2>1, BookAssumption DEF States, Pushes, FramesTyped, LinkInv,
        StatesInOrder, DaemonTypes
<1>6. /\ Shifted(States \ {1}, Said, States', Said', 1)
           /\ Shifted(Pushes \ {1}, Said, Pushes', Said', 1)
      /\ Shifted(SaidBare, Said, SaidBare', Said', 1) /\ AskedBare' = AskedBare
      /\ \A t : /\ AskAbout(t)' = AskAbout(t) /\ Shifted(Replies(t), Said, Replies(t)', Said', 1)
                /\ 1 \notin Replies(t)
                /\ Quiet(t)' <=> Quiet(t)
  <2>1. 1 \notin SaidBare /\ \A t : 1 \notin Replies(t)
    BY <1>4 DEF SaidBare, Replies
  <2>2. AskedBare' = AskedBare /\ \A t : AskAbout(t)' = AskAbout(t)
    BY <1>1 DEF AskedBare, AskAbout
  <2>3. /\ Shifted(States \ {1}, Said, States', Said', 1)
             /\ Shifted(Pushes \ {1}, Said, Pushes', Said', 1)
        /\ Shifted(SaidBare \ {1}, Said, SaidBare', Said', 1)
        /\ \A t : Shifted(Replies(t) \ {1}, Said, Replies(t)', Said', 1)
    BY <1>s, <1>4, Hearing
  <2>4. SaidBare \ {1} = SaidBare /\ \A t : Replies(t) \ {1} = Replies(t)
    BY <2>1
  <2>5. Shifted(SaidBare, Said, SaidBare', Said', 1)
          /\ \A t : Shifted(Replies(t), Said, Replies(t)', Said', 1)
    BY <2>3, <2>4
  <2> QED BY <2>1, <2>2, <2>3, <2>5 DEF Quiet, Shifted
<1>7. /\ \A i \in States' : i + 1 \in States /\ i + 1 # 1 /\ Said'[i] = Said[i + 1]
           /\ f.run <= Said'[i].run
      /\ Pushes' \subseteq States'
  <2>1. \A i \in States : 1 < i => Said[1].run <= Said[i].run
    BY <1>5 DEF LinkInv, StatesInOrder
  <2>2. \A i \in States' : i + 1 \in States /\ i + 1 # 1 /\ Said'[i] = Said[i + 1]
    BY <1>6 DEF Shifted
  <2>3. \A i \in States' : i \in Nat \ {0}
    BY DEF States
  <2> QED BY <1>4, <2>1, <2>2, <2>3 DEF States, Pushes
<1>8. StatesInOrder'
  <2>1. /\ \A i \in States : Said[i].run <= run /\ (Said[i].kind = "push" => Said[i].run # 0)
        /\ \A i, j \in States : i < j => Said[i].run <= Said[j].run
        /\ \A i, j \in Pushes : i < j => Said[i].run < Said[j].run
    BY DEF LinkInv, StatesInOrder
  <2> QED BY <1>1, <1>6, <2>1, Indices DEF StatesInOrder, Shifted
<1>9. /\ book' \in [Tabs -> 0..Out]
      /\ \A t \in Tabs : book'[t] = AfterRead(book[t], f.run)
  <2>1. book' = Applied(f.run)
    BY <1>2 DEF ReadState
  <2> QED BY <1>s, <1>5, <2>1, BookAssumption DEF Applied, AfterRead, BookTypes, Out
<1>10. /\ doubt \subseteq doubt'
       /\ \A t \in Tabs : book'[t] = Out /\ [tab |-> t, run |-> 0] \in todo \cup asking
            => t \in doubt'
  BY DEF ReadState
<1>11. AssertPending' \/ stage' # stage
  <2>1. \A j, k \in SaidBare' : (\A x, y \in SaidBare : x = y) => j = k
    <3>1. \A j, k \in SaidBare' : j + 1 \in SaidBare /\ k + 1 \in SaidBare /\ j \in Nat /\ k \in Nat
      <4>1. \A j \in SaidBare' : j \in Nat
        BY Indices DEF SaidBare
      <4>2. \A j \in SaidBare' : j + 1 \in SaidBare
        BY <1>6 DEF Shifted
      <4> QED BY <4>1, <4>2
    <3>2. \A j, k \in Nat : j + 1 = k + 1 => j = k
      OBVIOUS
    <3> QED BY <3>1, <3>2
  <2> QED BY <1>1, <1>6, <2>1 DEF LinkInv, AssertPending, Shifted, In
<1>12. CASE stage = "status" /\ f.kind = "status"
  <2>1. stage' = "assert" /\ todo' = Remembered(book')
          /\ call' = Disturbed({t \in Tabs : book'[t] # Out})
    BY <1>2, <1>12 DEF ReadState
  <2>2. asking = {}
    BY <1>s, <1>12 DEF EntriesSane
  <2>3. \A t \in Tabs : (Sure(t)' => Sure(t)) /\ (Clean(t)' => Clean(t))
                        /\ call'[t].kind = call[t].kind /\ call'[t].at = call[t].at
    BY <1>s, <1>10, <2>1, Disturbing DEF Sure, Clean, Busy
  <2>4. StatusFirst'
    <3>1. \A i \in 1..Len(Said') : Said'[i].kind # "status"
      <4>1. \A i \in 1..Len(Said') : i + 1 \in 1..Len(Said) /\ i + 1 # 1 /\ Said'[i] = Said[i + 1]
        BY <1>s, <1>4, Hearing
      <4> QED BY <1>4, <1>5, <1>12, <4>1 DEF LinkInv, StatusFirst
    <3>2. \A k \in 1..Len(Asked) : Asked[k].kind # "status"
      BY <1>4, <1>5, <1>12 DEF LinkInv, StatusFirst
    <3> QED BY <1>1, <2>1, <3>1, <3>2 DEF StatusFirst
  <2>5. \A e \in todo' : book'[e.tab] = e.run /\ book'[e.tab] # Out /\ e.tab \in Tabs
    BY <1>9, <2>1, Remembering DEF Entries
  <2>6. Elder'
    <3>1. \A i \in States' : i + 1 \in Pushes
      BY <1>s, <1>4, <1>5, <1>7, <1>12 DEF LinkInv, StatusFirst, States, Pushes, FramesTyped
    <3>2. \A e \in todo', i \in States' : e.run <= Said'[i].run
      BY <1>7, <1>9, <1>12, <2>5, <3>1 DEF LinkInv, Elder, AfterRead
    <3> QED BY <2>1, <1>1, <2>2, <3>2 DEF Elder
  <2>7. AssertPending'
    BY <1>1, <1>6, <1>12, <2>1, <2>2 DEF LinkInv, AssertPending, Shifted, In
  <2>8. ASSUME NEW t \in Tabs PROVE Starting(t)' /\ Steady(t)' /\ Numbered(t)' /\ CallHeard(t)'
    <3>1. Numbered(t)' /\ CallHeard(t)'
      BY <1>s, <1>1, <1>4, <1>5, <2>3, StateRead
    <3>2. Sure(t)' => Quiet(t)' /\ ~Ours(t)'
      BY <1>1, <1>6, <1>12, <2>3 DEF LinkInv, Starting, Ours
    <3>3. ~In(t, todo)' => book'[t] = Out
      BY <1>9, <2>1, Remembering DEF In
    <3>4. Steady(t)'
      BY <3>2, <3>3 DEF Steady, Agrees, In
    <3> QED BY <2>1, <3>1, <3>4 DEF Starting
  <2>9. ASSUME NEW e \in todo' PROVE ToAssert(e)'
    BY <1>1, <1>6, <1>12, <2>3, <2>5 DEF LinkInv, Starting, ToAssert, Carried, Ours
  <2> QED BY <1>1, <1>8, <2>2, <2>4, <2>6, <2>7, <2>8, <2>9 DEF LinkInv
<1>13. CASE ~(stage = "status" /\ f.kind = "status")
  <2>1. UNCHANGED <<stage, todo, call>>
    BY <1>2, <1>13 DEF ReadState
  <2>2. f.kind = "push" /\ 1 \in Pushes /\ f.run \in 1..MaxRuns
    BY <1>4, <1>5, <1>13 DEF LinkInv, StatusFirst
  <2>3. \A t \in Tabs : (Sure(t)' => Sure(t)) /\ (Clean(t)' <=> Clean(t))
    BY <1>10, <2>1 DEF Sure, Clean, Busy
  <2>4. StatusFirst'
    <3>1. /\ \A i \in 1..Len(Said') : i + 1 \in 1..Len(Said) /\ Said'[i] = Said[i + 1]
          /\ Len(Said') \in Nat /\ Len(Said) = Len(Said') + 1
      BY <1>s, <1>4, Hearing DEF Popped
    <3>2. StatusAsked => StatusAsked'
      BY <1>1, <3>1 DEF StatusAsked
    <3>3. StatusSaid => StatusSaid'
      <4> SUFFICES ASSUME NEW j \in 1..Len(Said), Said[j].kind = "status",
            \A i \in 1..j : Said[i].kind # "reply"
                   PROVE  StatusSaid'
        BY DEF StatusSaid
      <4>1. j # 1
        BY <1>4, <2>2
      <4>2. j - 1 \in 1..Len(Said') /\ Said'[j - 1] = Said[j]
        BY <1>s, <1>4, <4>1, <3>1 DEF Popped
      <4>3. \A i \in 1..(j - 1) : Said'[i].kind # "reply"
        BY <3>1, <4>2
      <4> QED BY <4>2, <4>3 DEF StatusSaid
    <3>4. \A i \in 1..Len(Said') : Said'[i].kind = "status" =>
            /\ stage = "status" /\ \A k \in 1..Len(Asked) : Asked[k].kind # "status"
            /\ \A j \in 1..Len(Said') : Said'[j].kind = "status" => j = i
      <4>1. \A i, j \in 1..Len(Said') : i + 1 = j + 1 => i = j
        OBVIOUS
      <4> QED BY <3>1, <4>1 DEF LinkInv, StatusFirst
    <3> QED BY <1>1, <2>1, <3>2, <3>3, <3>4 DEF LinkInv, StatusFirst
  <2>5. Elder'
    <3>1. \A e \in todo \cup asking, i \in States' : e.run <= Said'[i].run
      BY <1>7 DEF LinkInv, Elder
    <3>2. ASSUME stage = "status", NEW t \in Tabs, NEW i \in Pushes'
          PROVE  (book'[t] # Out => book'[t] <= Said'[i].run)
            /\ (call[t].at = "told" => call[t].run <= Said'[i].run)
      <4>1. i + 1 \in Pushes /\ Said'[i] = Said[i + 1] /\ f.run <= Said'[i].run
        BY <1>6, <1>7 DEF Shifted
      <4> QED BY <1>9, <3>2, <4>1 DEF LinkInv, Elder, AfterRead
    <3> QED BY <1>1, <2>1, <3>1, <3>2 DEF Elder
  <2>6. ASSUME NEW t \in Tabs PROVE Starting(t)' /\ Steady(t)' /\ Numbered(t)' /\ CallHeard(t)'
    <3>1. Numbered(t)' /\ CallHeard(t)'
      BY <1>s, <1>1, <1>4, <1>5, <2>1, <2>3, StateRead
    <3>2. Starting(t)'
      BY <1>1, <1>6, <2>1, <2>3 DEF LinkInv, Starting, Ours
    <3>3. Steady(t)'
      <4>p. PICK P, R : P = Pushes /\ R = Pushes'
        OBVIOUS
      <4>1. PICK b \in 0..Out, r \in 1..MaxRuns :
                b = book[t] /\ r = f.run /\ P = Pushes /\ R = Pushes'
        BY <1>s, <2>2, <4>p DEF BookTypes
      <4>2. Agrees(t, b, P) => Agrees(t, AfterRead(b, r), R)'
        BY <1>1, <1>4, <1>6, <2>2, <4>1, AgreesRead
      <4>3. PICK c : c = AfterRead(b, r)
        OBVIOUS
      <4>4. Agrees(t, b, P) => Agrees(t, c, R)'
        BY <4>2, <4>3
      <4> QED BY <1>1, <1>4, <1>6, <1>9, <2>1, <2>3, <4>1, <4>3, <4>4 DEF LinkInv, Steady, In
    <3> QED BY <3>1, <3>2, <3>3
  <2>7. ASSUME NEW e \in todo \cup asking, Sure(e.tab)', Carried(e) PROVE Carried(e)'
    <3>1. e.tab \in Tabs /\ e.run \in 0..MaxRuns /\ e = [tab |-> e.tab, run |-> e.run]
      BY <1>s DEF EntryTypes, Entries
    <3>2. e.run <= f.run
      BY <1>4, <1>5 DEF LinkInv, Elder
    <3>3. e.run = 0 => book'[e.tab] # Out
      BY <1>10, <2>7, <3>1 DEF Sure
    <3> QED BY <1>1, <1>5, <1>9, <2>2, <2>7, <3>1, <3>2, <3>3, BookAssumption DEF Carried,
          AfterRead, Out
  <2>8. ASSUME NEW e \in todo PROVE ToAssert(e)'
    <3>1. e.tab \in Tabs
      BY <1>s DEF EntryTypes, Entries
    <3> QED BY <1>1, <1>6, <2>3, <2>7, <3>1 DEF LinkInv, ToAssert, Ours
  <2>9. ASSUME NEW e \in asking PROVE Asserting(e)'
    <3>1. e.tab \in Tabs
      BY <1>s DEF EntryTypes, Entries
    <3>2. ASSUME AssertAsked(e) PROVE AssertAsked(e)'
      BY <1>1, <1>6, <3>2 DEF AssertAsked, Shifted, Ours
    <3>3. ASSUME AssertReplied(e) PROVE AssertReplied(e)'
      <4>1. PICK j \in Replies(e.tab) : /\ Replies(e.tab) = {j} /\ Said[j].id = 0
                                        /\ IF Said[j].granted THEN AssertGranted(e, j)
                                             ELSE ~Ours(e.tab)
        BY <3>3 DEF AssertReplied
      <4>2. j \in Nat /\ j > 1
        <5>1. j # 1
          BY <1>6
        <5>2. j \in 1..Len(Said)
          BY DEF Replies
        <5> QED BY <1>s, <5>1, <5>2 DEF FramesTyped
      <4>3. j - 1 \in Replies(e.tab)' /\ Said'[j - 1] = Said[j] /\ Replies(e.tab)' = {j - 1}
        BY <1>6, <4>1, <4>2, Indices DEF Shifted
      <4>4. ASSUME AssertGranted(e, j) PROVE AssertGranted(e, j - 1)'
        <5>1. PICK b, P, R : b = Said[j].run /\ P = {i \in Pushes : i > j}
                /\ R = {i \in Pushes' : i > j - 1}
          OBVIOUS
        <5>2. Shifted(P, Said, R, Said', 1)
          BY <1>6, <4>2, <5>1, Indices DEF Shifted
        <5>3. Agrees(e.tab, b, R)'
          BY <1>1, <4>4, <5>1, <5>2, AgreesMoved DEF AssertGranted
        <5>4. e.run # 0 => /\ book'[e.tab] = e.run /\ Said'[j - 1].run = e.run
                           /\ \A i \in Pushes' : i < j - 1 => Said'[i].run = e.run
          <6> SUFFICES ASSUME e.run # 0
                       PROVE  /\ book'[e.tab] = e.run /\ Said'[j - 1].run = e.run
                              /\ \A i \in Pushes' : i < j - 1 => Said'[i].run = e.run
            OBVIOUS
          <6>1. book[e.tab] = e.run /\ Said[j].run = e.run /\ \A i \in Pushes : i < j
                  => Said[i].run = e.run
            BY <4>4 DEF AssertGranted
          <6>2. f.run = e.run
            BY <1>4, <2>2, <4>2, <6>1
          <6>3. \A i \in Pushes' : i < j - 1 => i + 1 \in Pushes /\ i + 1 < j
                  /\ Said'[i] = Said[i + 1]
            BY <1>6, <4>2, Indices DEF Shifted
          <6> QED BY <1>9, <3>1, <4>3, <6>1, <6>2, <6>3 DEF AfterRead
        <5> QED BY <4>3, <4>4, <5>1, <5>3, <5>4 DEF AssertGranted
      <4> QED BY <1>1, <1>6, <3>3, <4>1, <4>3, <4>4 DEF AssertReplied, Ours
    <3> QED BY <2>3, <2>7, <3>1, <3>2, <3>3 DEF LinkInv, Asserting
  <2> QED BY <1>1, <1>8, <1>11, <2>1, <2>4, <2>5, <2>6, <2>8, <2>9 DEF LinkInv
<1> QED BY <1>12, <1>13

-----------------------------------------------------------------------------
(* The daemon serves a frame of the link. *)

\* What is left of the frames moves one place on; what is said comes last.
LEMMA Serving ==
    ASSUME FramesTyped, Asked # <<>>, Popped(Asked, Asked'), NEW g, Pushed(Said, g, Said')
    PROVE  LET n == Len(Said) + 1 IN
           /\ 1 \in 1..Len(Asked) /\ Len(Said) \in Nat /\ Len(Asked') \in Nat /\ Said'[n] = g
           /\ \A i \in 1..Len(Asked') : i + 1 \in 1..Len(Asked) /\ i + 1 # 1
                /\ Asked'[i] = Asked[i + 1]
           /\ \A i \in 1..Len(Said) : i \in 1..Len(Said') /\ i < n /\ Said'[i] = Said[i]
           /\ \A i \in 1..Len(Said') : i # n => i \in 1..Len(Said)
           /\ n \in 1..Len(Said')
           /\ Shifted(AskedBare \ {1}, Asked, AskedBare', Asked', 1)
           /\ \A t : Shifted(AskAbout(t) \ {1}, Asked, AskAbout(t)', Asked', 1)
           /\ States' = IF g.kind # "reply" THEN States \cup {n} ELSE States
           /\ Pushes' = IF g.kind = "push" THEN Pushes \cup {n} ELSE Pushes
           /\ SaidBare' = IF g.kind = "reply" /\ g.id = 0 THEN SaidBare \cup {n} ELSE SaidBare
           /\ \A t : Replies(t)' = IF g.kind = "reply" /\ g.tab = t THEN Replies(t) \cup {n}
                ELSE Replies(t)
<1> DEFINE n == Len(Said) + 1
<1>1. /\ Len(Asked') \in Nat /\ Len(Asked) = Len(Asked') + 1 /\ 1 \in 1..Len(Asked)
      /\ \A i \in 2..Len(Asked) : Asked[i] = Asked'[i - 1]
      /\ \A i \in 1..Len(Asked') : Asked'[i] = Asked[i + 1]
  BY DEF FramesTyped, Popped
<1>2. /\ Len(Said) \in Nat /\ Len(Said') = n /\ Said'[n] = g
      /\ \A i \in 1..Len(Said) : Said'[i] = Said[i]
  BY DEF FramesTyped, Pushed
<1>3. /\ \A i \in 1..Len(Asked') : i + 1 \in 1..Len(Asked) /\ i + 1 # 1 /\ Asked'[i] = Asked[i + 1]
      /\ \A i \in 1..Len(Said) : i \in 1..Len(Said') /\ i < n /\ Said'[i] = Said[i]
      /\ \A i \in 1..Len(Said') : i # n => i \in 1..Len(Said)
      /\ n \in 1..Len(Said')
  BY <1>1, <1>2
<1>4. /\ Shifted(AskedBare \ {1}, Asked, AskedBare', Asked', 1)
      /\ \A t : Shifted(AskAbout(t) \ {1}, Asked, AskAbout(t)', Asked', 1)
  BY <1>1 DEF Shifted, AskedBare, AskAbout
<1> HIDE DEF n
<1>5. States' = IF g.kind # "reply" THEN States \cup {n} ELSE States
  BY <1>2, <1>3 DEF States
<1>6. Pushes' = IF g.kind = "push" THEN Pushes \cup {n} ELSE Pushes
  BY <1>2, <1>3 DEF Pushes
<1>7. SaidBare' = IF g.kind = "reply" /\ g.id = 0 THEN SaidBare \cup {n} ELSE SaidBare
  BY <1>2, <1>3 DEF SaidBare
<1>8. ASSUME NEW t
      PROVE  Replies(t)' = IF g.kind = "reply" /\ g.tab = t THEN Replies(t) \cup {n} ELSE Replies(t)
  BY <1>2, <1>3 DEF Replies
<1> QED BY <1>1, <1>2, <1>3, <1>4, <1>5, <1>6, <1>7, <1>8 DEF n

\* The status is served, the first thing said on the link.
LEMMA ServeStatusLink ==
    ASSUME Shape, Fresh, LinkInv, Asked # <<>>, Popped(Asked, Asked'), Asked[1].kind = "status",
           NEW g, Pushed(Said, g, Said'), g.kind = "status", g.run = run,
           UNCHANGED <<run, link, stage, todo, asking, claims, book, made, call, doubt>>
    PROVE  LinkInv'
<1>s. FramesTyped /\ EntriesSane /\ DaemonTypes
  BY Framing DEF Shape, Types, Fresh
<1>1. PICK n : n = Len(Said) + 1
  OBVIOUS
<1>2. /\ 1 \in 1..Len(Asked) /\ Said'[n] = g
      /\ \A i \in 1..Len(Asked') : i + 1 \in 1..Len(Asked) /\ i + 1 # 1 /\ Asked'[i] = Asked[i + 1]
      /\ \A i \in 1..Len(Said) : i \in 1..Len(Said') /\ i < n /\ Said'[i] = Said[i]
      /\ \A i \in 1..Len(Said') : i # n => i \in 1..Len(Said)
      /\ n \in 1..Len(Said')
      /\ Shifted(AskedBare \ {1}, Asked, AskedBare', Asked', 1)
      /\ \A t : Shifted(AskAbout(t) \ {1}, Asked, AskAbout(t)', Asked', 1)
      /\ States' = States \cup {n} /\ Pushes' = Pushes /\ SaidBare' = SaidBare
      /\ \A t : Replies(t)' = Replies(t)
  BY <1>s, <1>1, Serving
<1>3. /\ stage = "status" /\ todo = {} /\ asking = {}
      /\ \A i \in 1..Len(Asked') : Asked'[i].kind # "status"
      /\ \A i \in 1..Len(Said) : Said[i].kind # "reply" /\ Said[i].kind # "status"
  <2>1. \A i \in 1..Len(Asked) : Asked[i].kind = "status" => stage = "status" /\ i = 1
    BY DEF LinkInv, StatusFirst
  <2>2. \A i \in 1..Len(Said) : Said[i].kind # "status"
    BY <1>2 DEF LinkInv, StatusFirst
  <2>3. stage = "status"
    BY <1>2, <2>1
  <2>4. StatusAsked
    BY <2>2, <2>3 DEF LinkInv, StatusFirst, StatusSaid
  <2>5. \A i \in 1..Len(Asked') : Asked'[i].kind # "status"
    BY <1>2, <2>1
  <2> QED BY <1>s, <2>2, <2>3, <2>4, <2>5 DEF EntriesSane, StatusAsked
<1>4. \A i \in States : Said'[i] = Said[i] /\ i < n /\ Said[i].run <= run
        /\ (Said[i].kind = "push" => Said[i].run # 0)
  BY <1>2 DEF LinkInv, StatesInOrder, States
<1>5. Pushes \subseteq States /\ n \notin States /\ \A t : 1 \notin AskAbout(t) /\ Replies(t) = {}
  BY <1>1, <1>2, <1>3, <1>4 DEF Pushes, States, AskAbout, Replies, FramesTyped
<1>6. StatesInOrder'
  <2>1. /\ \A i, j \in States : i < j => Said[i].run <= Said[j].run
        /\ \A i, j \in Pushes : i < j => Said[i].run < Said[j].run
    BY DEF LinkInv, StatesInOrder
  <2>2. run <= run /\ n \in Nat /\ States \subseteq Nat
    BY <1>s, <1>1, Indices DEF DaemonTypes, FramesTyped
  <2>3. \A i, j \in States' : i < j => i \in States
    BY <1>2, <1>4, <2>2
  <2> QED BY <1>2, <1>4, <1>5, <2>1, <2>2, <2>3 DEF StatesInOrder
<1>7. StatusFirst'
  <2>1. \A i \in 1..Len(Said') : Said'[i].kind # "reply" /\ (Said'[i].kind = "status" => i = n)
    BY <1>2, <1>3
  <2>2. StatusSaid'
    <3>1. \A i \in 1..n : i \in 1..Len(Said')
      BY <1>2, <1>1, <1>s DEF Pushed, FramesTyped
    <3> QED BY <1>2, <2>1, <3>1 DEF StatusSaid
  <2> QED BY <1>3, <2>1, <2>2 DEF StatusFirst
<1>8. Elder'
  BY <1>2, <1>3, <1>4, <1>5 DEF LinkInv, Elder
<1>9. AssertPending'
  <2>1. AskedBare = {} /\ SaidBare = {}
    BY <1>3 DEF LinkInv, AssertPending, In
  <2> QED BY <1>2, <1>3, <2>1 DEF AssertPending, Shifted
<1>10. ASSUME NEW t \in Tabs PROVE Starting(t)' /\ Steady(t)' /\ Numbered(t)' /\ CallHeard(t)'
  <2>1. Shifted(AskAbout(t), Asked, AskAbout(t)', Asked', 1) /\ Replies(t)' = {}
    <3>1. AskAbout(t) \ {1} = AskAbout(t)
      BY <1>5
    <3>2. Shifted(AskAbout(t) \ {1}, Asked, AskAbout(t)', Asked', 1)
      BY <1>2
    <3> QED BY <1>2, <1>5, <3>1, <3>2
  <2>2. Starting(t)' /\ Steady(t)'
    BY <1>3, <2>1 DEF LinkInv, Starting, Steady, Quiet, Shifted, Sure, Busy, Ours
  <2>3. Numbered(t)'
    BY <2>1 DEF LinkInv, Numbered, Shifted
  <2>4. CallAsked(t) => CallAsked(t)'
    <3> SUFFICES ASSUME NEW i \in AskAbout(t), Asked[i].id = made[t], Asked[i].kind = call[t].kind,
          Asked[i].run = 0,
                        \A k \in AskAbout(t) : k # i => k < i /\ Asked[k].id # made[t]
                 PROVE  CallAsked(t)'
      BY DEF CallAsked
    <3>1. i - 1 \in AskAbout(t)' /\ Asked'[i - 1] = Asked[i] /\ i \in Nat
      BY <2>1, Indices DEF Shifted
    <3>2. \A k \in AskAbout(t)' : k # i - 1 => k < i - 1 /\ Asked'[k].id # made[t]
      <4>1. \A k \in AskAbout(t)' : k \in Nat /\ k + 1 \in AskAbout(t) /\ Asked'[k] = Asked[k + 1]
        BY <2>1, Indices DEF Shifted
      <4> QED BY <3>1, <4>1
    <3> QED BY <2>1, <3>1, <3>2 DEF CallAsked
  <2>5. ~CallReplied(t) /\ ~CallTold(t)
    BY <1>3, <1>5 DEF CallReplied, CallTold
  <2>6. CallHeard(t)'
    BY <2>4, <2>5 DEF LinkInv, CallHeard, Clean, Busy
  <2> QED BY <2>2, <2>3, <2>6
<1> QED BY <1>3, <1>6, <1>7, <1>8, <1>9, <1>10 DEF LinkInv

\* A frame about t is served: its answer is the newest word about it.
LEMMA ServeTabLink ==
    ASSUME Shape, Fresh, LinkInv, Asked # <<>>, Popped(Asked, Asked'), NEW t \in Tabs, NEW a,
      a = Asked[1],
           a.kind \in {"claim", "release"}, a.tab = t,
           NEW g, Pushed(Said, g, Said'), g.kind = "reply", g.tab = t, g.id = a.id,
           UNCHANGED <<run, link, stage, todo, asking, book, made, call, doubt>>,
           \A x \in Tabs : x # t => claims'[x] = claims[x],
           g.run \in 0..MaxRuns,
           a.kind = "release" => ~Ours(t)',
           a.kind = "claim" =>
              IF g.granted THEN /\ a.run = 0 \/ run = 0 \/ a.run = run
                                /\ Ours(t)' /\ claims'[t].run = g.run /\ g.run = Recorded(a)
                           ELSE /\ claims' = claims
                                /\ a.run = 0 => ~Ours(t)
    PROVE  LinkInv'
<1>s. /\ FramesTyped /\ EntryTypes /\ BookTypes /\ EntriesSane /\ DaemonTypes
  BY Framing DEF Shape, Types, Fresh
<1>1. PICK n : n = Len(Said) + 1
  OBVIOUS
<1>2. /\ 1 \in 1..Len(Asked) /\ Said'[n] = g
      /\ \A i \in 1..Len(Asked') : i + 1 \in 1..Len(Asked) /\ i + 1 # 1 /\ Asked'[i] = Asked[i + 1]
      /\ \A i \in 1..Len(Said) : i \in 1..Len(Said') /\ i < n /\ Said'[i] = Said[i]
      /\ \A i \in 1..Len(Said') : i # n => i \in 1..Len(Said)
      /\ n \in 1..Len(Said')
      /\ Shifted(AskedBare \ {1}, Asked, AskedBare', Asked', 1)
      /\ \A x : Shifted(AskAbout(x) \ {1}, Asked, AskAbout(x)', Asked', 1)
      /\ States' = States /\ Pushes' = Pushes
      /\ SaidBare' = IF g.id = 0 THEN SaidBare \cup {n} ELSE SaidBare
      /\ \A x : Replies(x)' = IF t = x THEN Replies(x) \cup {n} ELSE Replies(x)
  <2>1. g.kind # "push" /\ g.kind = "reply"
    OBVIOUS
  <2>2. /\ 1 \in 1..Len(Asked) /\ Said'[n] = g
        /\ \A i \in 1..Len(Asked') : i + 1 \in 1..Len(Asked) /\ i + 1 # 1 /\ Asked'[i] = Asked[i + 1]
        /\ \A i \in 1..Len(Said) : i \in 1..Len(Said') /\ i < n /\ Said'[i] = Said[i]
        /\ \A i \in 1..Len(Said') : i # n => i \in 1..Len(Said)
        /\ n \in 1..Len(Said')
        /\ Shifted(AskedBare \ {1}, Asked, AskedBare', Asked', 1)
        /\ \A x : Shifted(AskAbout(x) \ {1}, Asked, AskAbout(x)', Asked', 1)
    BY ONLY <1>s, <1>1, Asked # <<>>, Popped(Asked, Asked'), Pushed(Said, g, Said'), Serving
  <2>3. /\ States' = States /\ Pushes' = Pushes
        /\ SaidBare' = IF g.id = 0 THEN SaidBare \cup {n} ELSE SaidBare
        /\ \A x : Replies(x)' = IF t = x THEN Replies(x) \cup {n} ELSE Replies(x)
    BY ONLY <1>s, <1>1, <2>1, Asked # <<>>, Popped(Asked, Asked'), Pushed(Said, g, Said'),
        g.tab = t, Serving
  <2> QED BY ONLY <2>2, <2>3
<1>3. /\ \A i \in States : Said'[i] = Said[i] /\ i < n
      /\ \A i \in SaidBare : Said'[i] = Said[i] /\ i < n
      /\ \A x : \A i \in Replies(x) : Said'[i] = Said[i] /\ i < n
      /\ Pushes \subseteq States /\ n \in Nat
  BY <1>s, <1>1, <1>2 DEF States, Pushes, Replies, SaidBare, FramesTyped
<1>4. 1 \in AskAbout(t) /\ ~Quiet(t)
  BY <1>2 DEF AskAbout, Quiet
<1>5. \A x : x # t => Moved(x, 1, 0)
  <2>1. ASSUME NEW x, x # t PROVE Moved(x, 1, 0)
    <3>1. AskAbout(x) \ {1} = AskAbout(x)
      BY <2>1 DEF AskAbout
    <3>2. Shifted(AskAbout(x), Asked, AskAbout(x)', Asked', 1)
      BY <1>2, <3>1
    <3>3. Replies(x)' = Replies(x) /\ \A i \in Replies(x) : Said'[i] = Said[i]
      BY <1>2, <1>3, <2>1
    <3> QED BY <1>2, <1>3, <3>2, <3>3, Indices DEF Moved, Shifted
  <2> QED BY <2>1
<1>6. StatesInOrder' /\ Elder'
  <2>1. /\ \A i \in States : Said'[i] = Said[i]
        /\ \A i \in Pushes : Said'[i] = Said[i]
    BY <1>3
  <2>2. StatesInOrder'
    BY <1>2, <2>1 DEF LinkInv, StatesInOrder
  <2>3. Elder'
    BY <1>2, <2>1 DEF LinkInv, Elder
  <2> QED BY <2>2, <2>3
<1>7. StatusFirst'
  <2>1. \A i \in 1..Len(Asked) : Asked[i].kind # "status"
    BY <1>2 DEF LinkInv, StatusFirst
  <2>2. \A i \in 1..Len(Said') : Said'[i].kind = "status" => i \in 1..Len(Said)
          /\ Said[i].kind = "status"
    BY <1>2
  <2>3. StatusSaid => StatusSaid'
    <3> SUFFICES ASSUME NEW j \in 1..Len(Said), Said[j].kind = "status",
          \A i \in 1..j : Said[i].kind # "reply"
                 PROVE  StatusSaid'
      BY DEF StatusSaid
    <3>1. \A i \in 1..j : i \in 1..Len(Said)
      BY <1>s DEF FramesTyped
    <3> QED BY <1>2, <3>1 DEF StatusSaid
  <2>4. \A i \in 1..Len(Asked') : Asked'[i].kind # "status"
    BY <1>2, <2>1
  <2>5. stage = "status" => StatusSaid'
    BY <1>2, <2>1, <2>3 DEF LinkInv, StatusFirst, StatusAsked
  <2>6. \A i \in 1..Len(Said') : Said'[i].kind = "status" =>
          /\ stage = "status" /\ \A j \in 1..Len(Said') : Said'[j].kind = "status" => j = i
    BY <1>2, <2>2 DEF LinkInv, StatusFirst
  <2> QED BY <2>4, <2>5, <2>6 DEF StatusFirst
<1>8. AssertPending'
  <2>1. CASE a.id = 0
    <3>1. 1 \in AskedBare /\ SaidBare' = SaidBare \cup {n}
      BY <1>2, <2>1 DEF AskedBare
    <3>2. ASSUME NEW e \in asking
          PROVE  (\E i \in AskedBare' : Asked'[i].tab = e.tab)
            \/ (\E j \in SaidBare' : Said'[j].tab = e.tab)
      BY <1>2, <1>3, <3>1 DEF LinkInv, AssertPending, Shifted
    <3>3. stage # "up" => AskedBare = {1} /\ SaidBare = {} /\ In(t, asking)
      BY <3>1 DEF LinkInv, AssertPending
    <3>4. stage # "up" => AskedBare' = {} /\ SaidBare' = {n}
      BY <1>2, <3>1, <3>3 DEF Shifted
    <3> QED BY <1>2, <3>2, <3>3, <3>4 DEF AssertPending, In
  <2>2. CASE a.id # 0
    <3>1. 1 \notin AskedBare /\ SaidBare' = SaidBare
      BY <1>2, <2>2 DEF AskedBare
    <3>2. AskedBare \ {1} = AskedBare
      BY <3>1
    <3>3. Shifted(AskedBare, Asked, AskedBare', Asked', 1)
      BY <1>2, <3>2
    <3>4. \A i, k \in AskedBare' : (\A x, y \in AskedBare : x = y) => i = k
      <4>1. \A i, k \in AskedBare' : i + 1 \in AskedBare /\ k + 1 \in AskedBare /\ i \in Nat
              /\ k \in Nat
        BY <3>3 DEF Shifted, AskedBare
      <4>2. \A i, k \in Nat : i + 1 = k + 1 => i = k
        OBVIOUS
      <4> QED BY <4>1, <4>2
    <3> QED BY <1>3, <3>1, <3>3, <3>4 DEF LinkInv, AssertPending, Shifted, In
  <2> QED BY <2>1, <2>2
<1>9. ASSUME NEW x \in Tabs, x # t PROVE Starting(x)' /\ Steady(x)' /\ Numbered(x)' /\ CallHeard(x)'
  BY <1>5, <1>9, TabKept DEF In
<1>10. Starting(t)' /\ Steady(t)'
  BY <1>4 DEF LinkInv, Starting, Steady, Sure, Busy, In
<1>11. Numbered(t)'
  <2>1. \A i \in AskAbout(t)' : i + 1 \in AskAbout(t) /\ Asked'[i] = Asked[i + 1]
    BY <1>2 DEF Shifted
  <2>2. \A j \in Replies(t)' : j = n \/ (j \in Replies(t) /\ Said'[j] = Said[j])
    BY <1>2, <1>3
  <2>3. /\ \A i \in AskAbout(t) : Asked[i].id <= made[t]
             /\ (call[t].at = "begun" => Asked[i].id # made[t])
        /\ \A j \in Replies(t) : Said[j].id <= made[t]
             /\ (call[t].at = "begun" => Said[j].id # made[t])
    BY DEF LinkInv, Numbered
  <2>4. Said'[n].id <= made[t] /\ (call[t].at = "begun" => Said'[n].id # made[t])
    BY <1>2, <1>4, <2>3
  <2> QED BY <2>1, <2>2, <2>3, <2>4 DEF Numbered
<1>12. CallHeard(t)'
  <2>1. ~CallReplied(t) /\ ~CallTold(t)
    BY <1>4 DEF CallReplied, CallTold
  <2>2. ASSUME CallAsked(t) PROVE CallAsked(t)' \/ CallReplied(t)'
    <3>1. PICK i \in AskAbout(t) : /\ Asked[i].id = made[t] /\ Asked[i].kind = call[t].kind
                                        /\ Asked[i].run = 0
                                   /\ \A k \in AskAbout(t) : k # i => k < i /\ Asked[k].id # made[t]
                                   /\ \A j \in Replies(t) : Said[j].id # made[t]
      BY <2>2 DEF CallAsked
    <3>2. AskAbout(t) \subseteq Nat \ {0}
      BY <1>s DEF AskAbout, FramesTyped
    <3>3. CASE i = 1
      <4>1. AskAbout(t) = {1}
        BY <3>1, <3>2, <3>3
      <4>2. AskAbout(t)' = {}
        BY <1>2, <4>1 DEF Shifted
      <4>3. Outcome(t, g.granted, g.run)'
        BY <3>1, <3>3 DEF Outcome, Ours
      <4>4. \A k \in Replies(t)' \cup States' : k <= n
        <5>1. \A k \in Replies(t) \cup States : k < n /\ k \in Nat
          BY <1>3, Indices
        <5>2. n <= n
          BY <1>3
        <5> QED BY <1>2, <1>3, <5>1, <5>2
      <4>5. \A k \in Replies(t)' : Said'[k].id = made[t] => k = n
        BY <1>2, <1>3, <3>1
      <4> QED BY <1>2, <3>1, <3>3, <4>2, <4>3, <4>4, <4>5 DEF CallReplied
    <3>4. CASE i # 1
      <4>1. i - 1 \in AskAbout(t)' /\ Asked'[i - 1] = Asked[i] /\ a.id # made[t]
        BY <1>2, <1>4, <3>1, <3>4 DEF Shifted
      <4>2. \A k \in AskAbout(t)' : k # i - 1 => k < i - 1 /\ Asked'[k].id # made[t]
        <5>1. \A k \in AskAbout(t)' : k \in Nat /\ k + 1 \in AskAbout(t) /\ Asked'[k] = Asked[k + 1]
          BY <1>2, Indices DEF Shifted
        <5> QED BY <3>1, <3>2, <5>1
      <4>3. \A j \in Replies(t)' : Said'[j].id # made[t]
        <5>1. Replies(t)' = Replies(t) \cup {n} /\ Said'[n].id = a.id
          BY <1>2
        <5>2. \A j \in Replies(t) : Said'[j] = Said[j]
          BY <1>3
        <5> QED BY <3>1, <4>1, <5>1, <5>2
      <4> QED BY <3>1, <4>1, <4>2, <4>3 DEF CallAsked
    <3> QED BY <3>3, <3>4
  <2> QED BY <2>1, <2>2 DEF LinkInv, CallHeard, Clean, Busy
<1>13. ASSUME NEW e \in todo \cup asking, e.tab # t
       PROVE  (ToAssert(e) => ToAssert(e)') /\ (Asserting(e) => Asserting(e)')
  <2>1. e.tab \in Tabs
    BY <1>s DEF EntryTypes, Entries
  <2> QED BY <1>5, <1>13, <2>1, EntriesKept DEF Sure, Busy
<1>14. ASSUME NEW e \in todo, e.tab = t PROVE ToAssert(e)'
  BY <1>4, <1>14 DEF LinkInv, ToAssert, Sure, Busy
<1>15. ASSUME NEW e \in asking, e.tab = t PROVE Asserting(e)'
  <2> SUFFICES ASSUME Sure(t) PROVE Carried(e)' /\ AssertReplied(e)'
    BY <1>15 DEF Asserting, Sure, Busy
  <2>1. Carried(e) /\ AssertAsked(e)
    BY <1>4, <1>15 DEF LinkInv, Asserting, AssertReplied
  <2>2. AskAbout(t) = {1} /\ a = Claim(t, 0, e.run) /\ Replies(t) = {} /\ ~Ours(t)
    BY <1>4, <1>15, <2>1 DEF AssertAsked
  <2>3. AskAbout(t)' = {} /\ Replies(t)' = {n}
    BY <1>2, <2>2 DEF Shifted
  <2>4. a.kind = "claim" /\ a.id = 0 /\ a.run = e.run /\ e.run \in 0..MaxRuns /\ run \in 0..MaxRuns
    BY <1>s, <2>2, BookAssumption DEF Claim, EntryTypes, Entries, DaemonTypes
  <2>5. CASE ~g.granted
    BY <1>2, <1>15, <2>1, <2>2, <2>3, <2>4, <2>5 DEF AssertReplied, Carried, Ours
  <2>6. CASE g.granted
    <3>1. /\ e.run = 0 \/ run = 0 \/ e.run = run
          /\ Ours(t)' /\ claims'[t].run = g.run /\ g.run = IF run # 0 THEN run ELSE e.run
      BY <2>4, <2>6 DEF Recorded
    <3>2. \A i \in Pushes : /\ Said[i].run <= run /\ Said[i].run # 0 /\ e.run <= Said[i].run
                            /\ Said[i].run \in 0..MaxRuns
      BY <1>s, <1>3 DEF LinkInv, StatesInOrder, Elder, FramesTyped, States, Pushes
    <3>3. e.run # 0 => book[t] = e.run /\ g.run = e.run /\ \A i \in Pushes : Said[i].run = e.run
      BY <1>15, <2>1, <2>4, <3>1, <3>2 DEF Carried
    <3>4. {i \in Pushes' : i > n} = {}
      <4>1. \A i \in Pushes : i < n /\ i \in Nat
        BY <1>3, Indices
      <4>2. \A i \in Pushes : ~(i > n)
        BY <1>3, <4>1
      <4> QED BY <1>2, <4>2
    <3>5. Agrees(t, g.run, {})'
      BY <3>1, BookAssumption DEF Agrees, Out
    <3>6. AssertGranted(e, n)'
      BY <1>2, <1>3, <1>15, <2>4, <3>1, <3>3, <3>4, <3>5 DEF AssertGranted
    <3> QED BY <1>2, <1>15, <2>1, <2>3, <2>4, <2>6, <3>6 DEF AssertReplied, Carried
  <2> QED BY <2>5, <2>6
<1> QED BY <1>6, <1>7, <1>8, <1>9, <1>10, <1>11, <1>12, <1>13, <1>14, <1>15 DEF LinkInv

\* Whatever frame of the link the daemon serves, the invariant is kept.
LEMMA ServeLink == ASSUME Shape, Fresh, LinkInv, Serve(link) PROVE LinkInv'
<1>s. /\ Asks(asks) /\ Answers(answers) /\ DaemonTypes /\ link \in Links /\ FramesTyped
  BY Framing DEF Shape, Types, Fresh
<1>1. PICK a : a = Head(asks[link])
  OBVIOUS
<1>2. /\ UNCHANGED <<run, link, stage, todo, asking, book, made, call, doubt>> /\ link \notin cut
      /\ asks[link] \in Seq(AskFrames) /\ answers[link] \in Seq(StateFrames \cup ReplyFrames)
  BY <1>s DEF Serve, linking, Fresh, Asks, Answers
<1>3. /\ Asked # <<>> /\ a = Asked[1] /\ Popped(Asked, Asked') /\ a \in AskFrames
      /\ a.kind # "status" => a.tab \in Tabs
  <2>1. asks[link] # <<>> /\ asks'[link] = Tail(asks[link])
    BY <1>s DEF Serve, Asks
  <2>2. /\ Tail(asks[link]) \in Seq(AskFrames) /\ Head(asks[link]) = asks[link][1]
        /\ Head(asks[link]) \in AskFrames /\ Popped(asks[link], Tail(asks[link]))
    BY <1>2, <2>1, Popping
  <2> QED BY <1>s, <1>1, <1>2, <2>1, <2>2, Handling DEF Asked
<1>4. ASSUME NEW g \in StateFrames \cup ReplyFrames, answers' = Answered(link, g)
        PROVE Pushed(Said, g, Said')
  BY <1>s, <1>2, <1>4, Pushing DEF Answered, Answers, Said
<1>5. CASE a.kind = "status"
  <2> DEFINE g == [kind |-> "status", run |-> run]
  <2>1. g \in StateFrames /\ g.kind = "status" /\ g.run = run
    BY <1>s, BookAssumption DEF DaemonTypes, StateFrames
  <2>2. answers' = Answered(link, g) /\ UNCHANGED claims
    BY <1>1, <1>5 DEF Serve
  <2> HIDE DEF g
  <2> QED BY <1>2, <1>3, <1>4, <1>5, <2>1, <2>2, ServeStatusLink
<1>6. CASE a.kind = "claim"
  <2> DEFINE r == IF Grants(a) THEN Recorded(a) ELSE run
             g == [kind |-> "reply", tab |-> a.tab, id |-> a.id, granted |-> Grants(a), run |-> r]
  <2>1. r \in 0..MaxRuns /\ a.tab \in Tabs /\ a.id \in Nat /\ Grants(a) \in BOOLEAN
    BY <1>s, <1>3, <1>6, BookAssumption DEF DaemonTypes, AskFrames, Recorded, Grants
  <2>2. answers' = Answered(link, g)
    BY <1>1, <1>6 DEF Serve
  <2>3. claims' = IF Grants(a) THEN [claims EXCEPT ![a.tab] = [by |-> link, run |-> Recorded(a)]]
          ELSE claims
    BY <1>1, <1>6 DEF Serve
  <2>4. /\ \A x \in Tabs : x # a.tab => claims'[x] = claims[x]
        /\ IF Grants(a) THEN Ours(a.tab)' /\ claims'[a.tab].run = Recorded(a) /\ r = Recorded(a)
                        ELSE claims' = claims /\ (a.run = 0 => ~Ours(a.tab))
    <3>1. link # Other
      BY <1>s, BookAssumption DEF Links, Other
    <3> QED BY <1>s, <1>2, <2>1, <2>3, <3>1 DEF DaemonTypes, Ours, Grants
  <2>5. g \in ReplyFrames /\ g.kind = "reply" /\ g.tab = a.tab /\ g.id = a.id
          /\ g.granted = Grants(a) /\ g.run = r
    BY <2>1 DEF ReplyFrames
  <2>6. Grants(a) => a.run = 0 \/ run = 0 \/ a.run = run
    BY DEF Grants
  <2> HIDE DEF g, r
  <2> QED BY <1>2, <1>3, <1>4, <1>6, <2>1, <2>2, <2>4, <2>5, <2>6, ServeTabLink
<1>7. CASE a.kind = "release"
  <2> DEFINE g == [kind |-> "reply", tab |-> a.tab, id |-> a.id, granted |-> TRUE, run |-> 0]
  <2>1. a.tab \in Tabs /\ a.id \in Nat
    BY <1>3, <1>7 DEF AskFrames
  <2>2. answers' = Answered(link, g)
    BY <1>1, <1>7 DEF Serve
  <2>3. (\A x \in Tabs : x # a.tab => claims'[x] = claims[x]) /\ ~Ours(a.tab)'
    <3>1. claims' = IF claims[a.tab].by \in Links
                    THEN [claims EXCEPT ![a.tab] = [by |-> Nobody, run |-> 0]] ELSE claims
      BY <1>1, <1>7 DEF Serve
    <3>2. link # Nobody
      BY <1>s DEF Links, Nobody
    <3> QED BY <1>s, <1>2, <2>1, <3>1, <3>2 DEF DaemonTypes, Ours
  <2>4. g \in ReplyFrames /\ g.kind = "reply" /\ g.tab = a.tab /\ g.id = a.id /\ g.run = 0
          /\ 0 \in 0..MaxRuns
    BY <2>1, BookAssumption DEF ReplyFrames
  <2> HIDE DEF g
  <2> QED BY <1>2, <1>3, <1>4, <1>7, <2>1, <2>2, <2>3, <2>4, ServeTabLink
<1> QED BY <1>3, <1>5, <1>6, <1>7 DEF AskFrames

-----------------------------------------------------------------------------
(* Every step keeps the invariant. *)

\* It holds before the first link.
LEMMA InitBook == ASSUME BookInit PROVE BookInv
<1>1. /\ browser = 1 /\ run \in {0, 1} /\ claims = [t \in Tabs |-> [by |-> Nobody, run |-> 0]]
      /\ serving = {} /\ asks = [c \in Links |-> <<>>] /\ answers = [c \in Links |-> <<>>]
      /\ cut = {} /\ last = 0 /\ link = 0 /\ stage = "down" /\ todo = {} /\ asking = {}
      /\ book = [t \in Tabs |-> Out] /\ call = [t \in Tabs |-> Idle]
      /\ made = [t \in Tabs |-> 0] /\ doubt = {}
  BY DEF BookInit
<1>2. DaemonTypes /\ ClaimRuns /\ HoldersKnown
  BY <1>1, BookAssumption DEF DaemonTypes, ClaimRuns, HoldersKnown, Nobody, Other
<1>3. LinkTypes /\ EntryTypes /\ LinkStaged /\ LinksCut /\ LinkServed /\ EntriesSane /\ EntryRuns
  BY <1>1, BookAssumption DEF LinkTypes, EntryTypes, LinkStaged, LinksCut, LinkServed, Fresh,
    EntriesSane, EntryRuns
<1>4. BookTypes /\ BookRuns
  BY <1>1, BookAssumption DEF BookTypes, BookRuns, Out
<1>5. CallTypes /\ CallsSane /\ CallRuns
  BY <1>1, <1>2, IdleTyped DEF CallTypes, CallsSane, CallRuns, Busy, Idle
<1>6. Asks(asks) /\ Answers(answers) /\ LinksUnused
  BY <1>1 DEF Asks, Answers, LinksUnused
<1>7. CleanCalls
  BY <1>1 DEF CleanCalls, Clean, Busy, Idle
<1> QED BY <1>1, <1>2, <1>3, <1>4, <1>5, <1>6, <1>7 DEF BookInv, Shape, Types, Fresh

\* Every step keeps the shape of the state.
LEMMA ShapeNext == ASSUME Shape, BookNext PROVE Shape'
BY ServeShape, DropShape, HelloShape, OtherTakesShape, OtherLeavesShape, CutShape, RestartShape,
  DialShape,
   ReadStateShape, AssertShape, ReadReplyShape, AssertTimeoutShape, LinkEndsShape, ClaimTabShape,
   ReleaseTabShape, AskReleaseShape, WakesShape, UnavailableShape DEF BookNext, Threads

\* A step after which the link is not broken keeps what holds of its frames.
LEMMA LinkNext == ASSUME BookInv, BookNext, Fresh' PROVE LinkInv'
<1>s. Shape /\ CleanCalls /\ LinkTypes /\ LinkStaged /\ (Fresh => LinkInv)
  BY DEF BookInv, Shape, Types
<1>1. CASE Dial
  BY <1>s, <1>1, DialLink
<1>2. CASE Cut \/ Restart \/ LinkEnds
  <2>1. CASE Cut
    BY <2>1 DEF Cut, Fresh, linking
  <2>2. CASE Restart
    <3>1. link' = last /\ last # 0 /\ last \in Nat /\ cut' = 1..last
      BY <1>s, <2>2, BookAssumption DEF Restart, linking, LinkTypes
    <3> QED BY <3>1 DEF Fresh
  <2>3. CASE LinkEnds
    BY <2>3 DEF LinkEnds, Fresh
  <2> QED BY <1>2, <2>1, <2>2, <2>3
<1>3. CASE UNCHANGED <<link, cut>>
  <2> Fresh /\ LinkInv
    BY <1>s, <1>3 DEF Fresh
  <2>1. ASSUME NEW c \in Links, Serve(c) PROVE LinkInv'
    BY <1>s, <2>1, ServeLink, ServeOldLink
  <2>2. CASE (\E c \in Links : Drop(c)) \/ (\E t \in Tabs : OtherTakes(t) \/ OtherLeaves(t))
    BY <1>s, <2>2, DropOthers
  <2>3. CASE Hello
    BY <1>s, <2>3, HelloLink
  <2>4. CASE ReadState \/ ReadReply
    BY <1>s, <2>4, ReadStateLink, ReadReplyLink
  <2>5. CASE Assert \/ AssertTimeout
    BY <1>s, <2>5, AssertLink, AssertTimeoutLink
  <2>6. ASSUME NEW t \in Tabs, ClaimTab(t) \/ ReleaseTab(t) PROVE LinkInv'
    BY <1>s, <2>6, ClaimTabLink, ReleaseTabLink
  <2>7. ASSUME NEW t \in Tabs, AskRelease(t) \/ Wakes(t) \/ Unavailable(t) PROVE LinkInv'
    BY <1>s, <2>7, AskReleaseLink, WakesLink, UnavailableLink
  <2>8. CASE Dial \/ Cut \/ Restart \/ LinkEnds
    BY <1>1, <1>2, <2>8
  <2> QED BY <2>1, <2>2, <2>3, <2>4, <2>5, <2>6, <2>7, <2>8 DEF BookNext, Threads
<1>4. (Dial \/ Cut \/ Restart \/ LinkEnds) \/ UNCHANGED <<link, cut>>
  BY DEF BookNext, Threads, Serve, Drop, Hello, OtherTakes, OtherLeaves, ReadState, Assert,
    ReadReply, AssertTimeout,
         ClaimTab, ReleaseTab, AskRelease, Wakes, Unavailable, linking
<1> QED BY <1>1, <1>2, <1>3, <1>4

\* The invariant is inductive.
LEMMA BookStep == ASSUME BookInv, [BookNext]_bookVars PROVE BookInv'
<1>1. CASE BookNext
  BY <1>1, ShapeNext, CleanNext, LinkNext DEF BookInv
<1>2. CASE UNCHANGED bookVars
  <2> USE <1>2 DEF bookVars
  <2>1. Shape /\ CleanCalls /\ (Fresh => LinkInv)
    BY DEF BookInv
  <2>2. Types'
    <3>1. DaemonTypes' /\ LinkTypes' /\ EntryTypes' /\ BookTypes' /\ CallTypes'
      BY <2>1 DEF Shape, Types, DaemonTypes, LinkTypes, EntryTypes, BookTypes, CallTypes
    <3>2. Asks(asks)' /\ Answers(answers)'
      BY <2>1 DEF Shape, Types, Asks, Answers
    <3> QED BY <3>1, <3>2 DEF Types
  <2>3. LinkStaged' /\ LinksUnused' /\ LinksCut' /\ HoldersKnown' /\ LinkServed'
    BY <2>1 DEF Shape, LinkStaged, LinksUnused, LinksCut, HoldersKnown, LinkServed, Fresh
  <2>4. EntriesSane' /\ CallsSane' /\ ClaimRuns' /\ BookRuns' /\ CallRuns' /\ EntryRuns'
    BY <2>1 DEF Shape, EntriesSane, CallsSane, Busy, ClaimRuns, BookRuns, CallRuns, EntryRuns
  <2>5. CleanCalls'
    BY <2>1, CleanKept DEF Clean, Busy, In
  <2>6. Fresh' => LinkInv'
    BY <2>1, Elsewhere DEF Fresh, Shape, Types, EntryTypes, SameCall, SameClaim, Sure, Clean, Busy
  <2> QED BY <2>2, <2>3, <2>4, <2>5, <2>6 DEF BookInv, Shape
<1> QED BY <1>1, <1>2

\* However links break, browsers change and calls cross, the frames on the wire of a
\* link that is not broken lead the book to what the daemon holds (claim_tab, release_tab,
\* _reassert_claims, _apply_state; _claim_tab, _adopt_browser_run, _drop_claims_of).
THEOREM BookKept == BookSpec => []BookInv
<1>1. BookInit => BookInv
  BY InitBook
<1>2. BookInv /\ [BookNext]_bookVars => BookInv'
  BY BookStep
<1> QED BY <1>1, <1>2, PTL DEF BookSpec

\* It says what BookTrue says, once all that was said is read.
LEMMA BookInvTrue == ASSUME BookInv PROVE BookTrue
<1> SUFFICES ASSUME NEW t \in Tabs, Linked, ~Busy(t), t \notin doubt
             PROVE  /\ book[t] # Out <=> claims[t].by = link
                    /\ book[t] # Out => book[t] = claims[t].run
  BY DEF BookTrue
<1>1. Fresh /\ LinkInv /\ Said = <<>> /\ stage = "up" /\ todo = {} /\ asking = {}
  BY DEF BookInv, Shape, LinkStaged, EntriesSane, Linked, Fresh, Said
<1>2. Pushes = {}
  BY <1>1 DEF Pushes
<1>3. Agrees(t, book[t], {})
  BY <1>1, <1>2 DEF LinkInv, Steady, Sure, In
<1>4. claims[t].run # Out
  BY BookAssumption DEF BookInv, Shape, Types, DaemonTypes, Out
<1> QED BY <1>3, <1>4 DEF Agrees, Ours

\* Once a link is up and everything said on it was read, the book and the daemon agree
\* on every tab that no call left in doubt.
THEOREM BookAlwaysTrue == BookSpec => []BookTrue
BY BookKept, BookInvTrue, PTL

================================================================================
