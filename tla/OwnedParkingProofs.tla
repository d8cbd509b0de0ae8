------------------------- MODULE OwnedParkingProofs -------------------------
(***************************************************************************)
(* Theorems about parked browsers, for any number of servers, watchdogs,   *)
(* browsers and tokens, of which any may end at every step: a browser has  *)
(* one holder, none that is held is retired, and none that runs is lost    *)
(* from the record but for the causes that `fate` names.                   *)
(*                                                                         *)
(* They have one hypothesis, OneCallEach: a record names its server and    *)
(* not the call, so two calls of one server about one id undo each other.  *)
(*                                                                         *)
(* The inductive invariant is ParkingInv.  Most actions change the record, *)
(* a table or the browsers in one branch only; that branch has a lemma     *)
(* with a step for each part of the invariant, and every other branch is   *)
(* a case of QuietInv.                                                     *)
(***************************************************************************)
EXTENDS OwnedParking, TLAPS

\* One call of a server at a time is about the session id.
OneCallEach == \A c, d \in Calls : Of[c] = Of[d] => c = d

\* The places in the code that a call or a watchdog can be at.
Steps == {"idle", "look", "launch", "claim", "register", "giveBack", "force", "record",
          "write", "clean", "retire", "finish", "forget", "drop", "parkWrite", "poll"}
Tasks == [at : Steps, then : {"idle", "look", "launch"}, token : (0..MaxToken) \cup Calls,
          browser : Browsers \cup {NoBrowser}]

\* The shape of the state.
ParkingTypes ==
    /\ record \in Records /\ tokens \in 0..MaxToken
    /\ up \in [Servers -> {"up", "exiting", "gone"}]
    /\ table \in [Servers -> Browsers \cup {NoBrowser}]
    /\ running \subseteq Browsers
    /\ task \in [Actors -> Tasks] /\ fate \in [Browsers -> Fates]

Numbered(t) == t \in 1..tokens
Known(b) == b # NoBrowser => fate[b] # "new"

\* What the state of the record says about its other fields.
RecordSane ==
    /\ record.token \in Calls \cup 0..tokens
    /\ record.state \in {"live", "parked"} => Numbered(record.token)
    /\ record.state = "none" => record = NoRecord
    /\ record.state # "none" => record.browser # NoBrowser
    /\ record.state = "live" => record.owner # Nobody
    /\ record.state = "parked" /\ record.owner # Nobody => up[record.owner] = "gone"
    /\ record.state = "retiring" => fate[record.browser] = "lost"

\* What a call or a watchdog has read, at each place.
TasksSane ==
    /\ \A t \in Watchdogs :
          /\ task[t].at # "idle" => t <= tokens /\ task[t].at \in {"poll", "retire", "forget"}
          /\ task[t].then = "idle"
    /\ \A a \in Actors :
          /\ task[a].at \in {"retire", "finish", "write", "register", "giveBack"} =>
                task[a].browser # NoBrowser
          /\ task[a].at = "idle" => task[a] = Idle
    /\ \A c \in Calls : At(c, "claim") => task[c].token \in Calls \cup 0..tokens

\* A browser that is named anywhere was launched.
AllKnown ==
    /\ Known(record.browser)
    /\ \A s \in Servers : Known(table[s])
    /\ \A a \in Actors : Known(task[a].browser)

\* A server that is gone has no table and no calls; one in its atexit hook has the
\* one call that parks.
Ends ==
    /\ \A s \in Servers : up[s] = "gone" => table[s] = NoBrowser
    /\ \A c \in Calls : /\ up[Of[c]] = "gone" => task[c] = Idle
                        /\ up[Of[c]] = "exiting" <=> At(c, "parkWrite")
                        /\ At(c, "parkWrite") => Mine(c) # NoBrowser

\* A call that is about to get a browser has none.
Empty == \A c \in Calls :
    /\ task[c].at \in {"claim", "register", "giveBack", "force"} => Mine(c) = NoBrowser
    /\ At(c, "write") => Mine(c) \in {NoBrowser, task[c].browser}

\* A browser that a server holds, if it is on record, is there as that server's.
Held == \A s \in Servers, b \in Browsers :
    Holds(s, b) /\ record.browser = b => record.state = "live" /\ record.owner = s

\* A call whose claim will succeed has read a record that it may continue.
Claiming == \A c \in Calls :
    At(c, "claim") /\ record.token = task[c].token /\ record.state \in {"parked", "live"}
        => record.state = "parked" \/ record.owner = Of[c] \/ ~owner_alive(record)

\* A browser about to be recorded for the first time is nobody else's.
Writing == \A c \in Calls : At(c, "write") =>
    /\ record.browser # task[c].browser
    /\ \A s \in Servers : Holds(s, task[c].browser) => s = Of[c]
    /\ \A d \in Calls : At(d, "write") /\ task[d].browser = task[c].browser => d = c

\* The token that a call drew for its claim, or parks by, has no watchdog at work,
\* and while it is on record the browser is that server's.
OursStill(c, b) == record.state = "live" /\ record.owner = Of[c] /\ record.browser = b
Adopting == \A c \in Calls : task[c].at \in {"register", "giveBack"} =>
    /\ Numbered(task[c].token) /\ task[task[c].token] = Idle
    /\ record.token = task[c].token => OursStill(c, task[c].browser)
Parking == \A c \in Calls : At(c, "parkWrite") /\ task[c].token # 0 =>
    /\ Numbered(task[c].token) /\ task[task[c].token].at \in {"idle", "poll"}
    /\ record.token = task[c].token => OursStill(c, Mine(c))

\* No two calls carry one token.
OwnTokens == \A c, d \in Calls :
    {task[c].at, task[d].at} \subseteq {"register", "giveBack", "parkWrite"}
    /\ task[c].token = task[d].token /\ task[c].token # 0 => c = d

\* A record that names a server is about the browser in its table, or the one that
\* its call is registering.
OnRecord == \A c \in Calls : record.owner = Of[c] =>
    /\ Mine(c) # NoBrowser /\ task[c].at \notin {"record", "write"} => record.browser = Mine(c)
    /\ At(c, "register") => record.browser = task[c].browser

\* A browser about to be stopped is in no table and about to be in none.
Retiring == \A a \in Actors : task[a].at \in {"retire", "finish"} =>
    /\ \A s \in Servers : ~Holds(s, task[a].browser)
    /\ \A c \in Calls : At(c, "write") => task[c].browser # task[a].browser
    /\ record.browser = task[a].browser =>
          record.state = "retiring" \/ (record.state = "live" /\ record.owner = ServerOf(a))

\* A record under the name of who retires it stays a retirement until it is dropped.
Forgetting == \A a \in Actors :
    task[a].at \in {"retire", "forget"} /\ record.token = a => record.state = "retiring"

\* The inductive invariant.
ParkingInv ==
    /\ ParkingTypes /\ RecordSane /\ TasksSane /\ AllKnown /\ Ends /\ Empty /\ Held /\ Claiming
    /\ Writing /\ Adopting /\ Parking /\ OwnTokens /\ OnRecord /\ Retiring /\ Forgetting
    /\ OneHolder /\ KeptOnRecord

-----------------------------------------------------------------------------
\* What may be taken is no other server's live session; one's own only by force.
LEMMA MayTakeMeans ==
    ASSUME NEW s, NEW force \in BOOLEAN, MayTake(record, s, force)
    PROVE  /\ record.state # "none" /\ ~LiveElsewhere(record, s)
           /\ record.state = "live" /\ owner_alive(record) => force
BY Zenon DEF MayTake, reapable, retire_is_stale

\* The actor a moves itself to v, and v is a place from which nothing is taken.
QuietTo(a, v) ==
    /\ task' = [task EXCEPT ![a] = v] /\ v \in Tasks /\ Known(v.browser)
    /\ v.at \in {"idle", "look", "launch", "record", "clean", "force", "giveBack",
                "forget", "drop"}
    /\ v.at = "idle" => v = Idle
    /\ v.at = "forget" => At(a, "retire")
    /\ a \in Watchdogs => At(a, "poll") \/ At(a, "retire") \/ At(a, "forget")
    /\ a \in Watchdogs => v.at \in {"idle", "forget"} /\ v.then = "idle"
    /\ a \in Calls =>
        /\ up[Of[a]] = "up"
        /\ v.at = "force" => Mine(a) = NoBrowser
        /\ v.at = "giveBack" => At(a, "register") /\ v = [task[a] EXCEPT !.at = "giveBack"]
        /\ At(a, "record") \/ At(a, "write") =>
              \/ Mine(a) = NoBrowser \/ v.at = "record"
              \/ record.owner # Of[a] \/ record.browser = Mine(a)

\* _ensure_watchdog moves the call, and no other than the watchdog of the token.
LEMMA WatchedMeans ==
    ASSUME ParkingTypes, NEW c \in Calls, NEW t \in Watchdogs, NEW at \in Steps,
           Watched(c, at, t)
    PROVE  /\ task' \in [Actors -> Tasks]
           /\ task'[c] = Becomes(c, at)
           /\ \A d \in Calls \ {c} : task'[d] = task[d]
           /\ \A x \in Watchdogs : task'[x] = task[x] \/ (x = t /\ task'[x] = Polling)
<1>1. Calls \cap Watchdogs = {}  BY ParkingAssumption DEF Watchdogs
<1>2. Becomes(c, at) \in Tasks
  BY ParkingAssumption DEF ParkingTypes, Becomes, Tasks, Idle, Steps, Actors
<1>3. Polling \in Tasks  BY ParkingAssumption DEF Polling, Tasks, Idle, Steps
<1>4. QED  BY <1>1, <1>2, <1>3 DEF Watched, ParkingTypes, Actors

\* A step of the caller or watchdog that moves only itself, or stops a browser.
LEMMA QuietInv ==
    ASSUME OneCallEach, ParkingInv, NEW a \in Actors, NEW v, QuietTo(a, v),
           running' \subseteq running, UNCHANGED <<record, tokens, up, table, fate>>
    PROVE  ParkingInv'
<1> USE ParkingAssumption DEF ParkingInv, ParkingTypes, QuietTo, Mine, Known, Idle, Actors,
       Watchdogs, At, NoRecord, Numbered, OursStill, Holds, owner_alive, Records, Tasks, Steps,
       ServerOf, LiveElsewhere
<1>1. ParkingTypes'  BY DEF Fates
<1>2. RecordSane'  BY DEF RecordSane
<1>3. TasksSane'  BY DEF TasksSane
<1>4. AllKnown'  BY DEF AllKnown
<1>5. Ends'  BY DEF Ends
<1>6. Empty'  BY DEF Empty
<1>7. Held'  BY DEF Held
<1>8. Claiming'  BY DEF Claiming
<1>9. Writing'  BY DEF Writing
<1>10. Adopting'  BY DEF Adopting
<1>11. Parking'  BY DEF Parking
<1>12. OwnTokens'  BY DEF OwnTokens
<1>13. OnRecord'  BY DEF OnRecord
<1>14. Retiring'  BY DEF Retiring
<1>15. Forgetting'  BY DEF Forgetting
<1>16. OneHolder'  BY DEF OneHolder
<1>17. KeptOnRecord'  BY DEF KeptOnRecord
<1> QED  BY <1>1, <1>2, <1>3, <1>4, <1>5, <1>6, <1>7, <1>8, <1>9, <1>10, <1>11, <1>12, <1>13,
    <1>14, <1>15, <1>16, <1>17

\* retire_and_forget has claimed the record for a.
LEMMA TakenInv ==
    ASSUME OneCallEach, ParkingInv, NEW a \in Actors,
           NEW then \in {"idle", "look", "launch"}, TakeFor(a, then), record.state # "none",
           record.state = "live" /\ owner_alive(record) =>
               a \in Calls /\ record.owner = Of[a] /\ At(a, "force"),
           a \in Calls => up[Of[a]] = "up" /\ (At(a, "idle") \/ At(a, "force")),
           a \in Watchdogs => At(a, "poll") /\ record.token = a /\ then = "idle"
    PROVE  ParkingInv'
<1> USE ParkingAssumption DEF ParkingInv, ParkingTypes, TakeFor, With, Lost, owner_alive,
       ServerOf, Mine, Known, Idle, Actors, Watchdogs, At, NoRecord, Numbered, OursStill, Holds,
       Records, Tasks, Steps, LiveElsewhere
<1>1. ParkingTypes'
  <2>1. record' \in Records
    BY DEF RecordSane
  <2>2. task' \in [Actors -> Tasks]
    BY DEF RecordSane
  <2>3. QED  BY <2>1, <2>2 DEF Fates
<1>2. RecordSane'  BY DEF RecordSane
<1>3. TasksSane'  BY DEF TasksSane, RecordSane
<1>4. AllKnown'  BY DEF AllKnown
<1>5. Ends'  BY DEF Ends
<1>6. Empty'  BY DEF Empty
<1>7. Held'  BY DEF Held, Empty, OneCallEach
<1>8. Claiming'  BY DEF Claiming
<1>9. Writing'  BY DEF Writing
<1>10. Adopting'  BY DEF Adopting
<1>11. Parking'  BY DEF Parking, Ends
<1>12. OwnTokens'  BY DEF OwnTokens
<1>13. OnRecord'  BY DEF OnRecord
<1>14. Retiring'  BY DEF Retiring, Held, Empty, OneCallEach, Writing, RecordSane
<1>15. Forgetting'  BY DEF Forgetting
<1>16. OneHolder'  BY DEF OneHolder
<1>17. KeptOnRecord'  BY DEF KeptOnRecord
<1> QED  BY <1>1, <1>2, <1>3, <1>4, <1>5, <1>6, <1>7, <1>8, <1>9, <1>10, <1>11, <1>12, <1>13,
    <1>14, <1>15, <1>16, <1>17

\* A retirement, or _finish, drops the record.
LEMMA DroppedInv ==
    ASSUME OneCallEach, ParkingInv, NEW a \in Actors, NEW v, QuietTo(a, v),
           v.at \in {"idle", "look", "launch"}, At(a, "forget") \/ At(a, "drop"),
           record' = NoRecord, fate' = Lost({record.browser}),
           UNCHANGED <<tokens, up, table, running>>
    PROVE  ParkingInv'
<1> USE ParkingAssumption DEF ParkingInv, ParkingTypes, QuietTo, Lost, Mine, Known, Idle,
       Actors, Watchdogs, At, NoRecord, Numbered, OursStill, Holds, owner_alive, Records, Tasks,
       Steps, ServerOf, LiveElsewhere
<1>1. ParkingTypes'  BY DEF Fates
<1>2. RecordSane'  BY DEF RecordSane
<1>3. TasksSane'  BY DEF TasksSane
<1>4. AllKnown'  BY DEF AllKnown
<1>5. Ends'  BY DEF Ends
<1>6. Empty'  BY DEF Empty
<1>7. Held'  BY DEF Held
<1>8. Claiming'  BY DEF Claiming
<1>9. Writing'  BY DEF Writing, TasksSane
<1>10. Adopting'  BY DEF Adopting
<1>11. Parking'  BY DEF Parking
<1>12. OwnTokens'  BY DEF OwnTokens
<1>13. OnRecord'  BY DEF OnRecord
<1>14. Retiring'  BY DEF Retiring, TasksSane
<1>15. Forgetting'  BY DEF Forgetting
<1>16. OneHolder'  BY DEF OneHolder
<1>17. KeptOnRecord'  BY DEF KeptOnRecord
<1> QED  BY <1>1, <1>2, <1>3, <1>4, <1>5, <1>6, <1>7, <1>8, <1>9, <1>10, <1>11, <1>12, <1>13,
    <1>14, <1>15, <1>16, <1>17

\* The call goes to claim the record it has read.
LEMMA LookClaims ==
    ASSUME OneCallEach, ParkingInv, NEW c \in Calls, At(c, "look"), Mine(c) = NoBrowser,
           record # NoRecord, ~RetiredBySomeone(record), ~LiveElsewhere(record, Of[c]),
           With(c, "claim", task[c].then, record.token, record.browser),
           UNCHANGED <<record, tokens, up, table, running, fate>>
    PROVE  ParkingInv'
<1> USE ParkingAssumption DEF ParkingInv, ParkingTypes, With, LiveElsewhere, owner_alive, Mine,
       Known, Idle, Actors, Watchdogs, At, NoRecord, Numbered, OursStill, Holds, Records, Tasks,
       Steps, ServerOf
<1>1. ParkingTypes'  BY DEF Fates
<1>2. RecordSane'  BY DEF RecordSane
<1>3. TasksSane'  BY DEF TasksSane, RecordSane
<1>4. AllKnown'  BY DEF AllKnown
<1>5. Ends'  BY DEF Ends
<1>6. Empty'  BY DEF Empty
<1>7. Held'  BY DEF Held
<1>8. Claiming'  BY DEF Claiming
<1>9. Writing'  BY DEF Writing
<1>10. Adopting'  BY DEF Adopting
<1>11. Parking'  BY DEF Parking
<1>12. OwnTokens'  BY DEF OwnTokens
<1>13. OnRecord'  BY DEF OnRecord
<1>14. Retiring'  BY DEF Retiring
<1>15. Forgetting'  BY DEF Forgetting
<1>16. OneHolder'  BY DEF OneHolder
<1>17. KeptOnRecord'  BY DEF KeptOnRecord
<1> QED  BY <1>1, <1>2, <1>3, <1>4, <1>5, <1>6, <1>7, <1>8, <1>9, <1>10, <1>11, <1>12, <1>13,
    <1>14, <1>15, <1>16, <1>17

\* The claim: the record is this server's, under a new token.
LEMMA AdoptClaims ==
    ASSUME OneCallEach, ParkingInv, NEW c \in Calls, At(c, "claim"),
           record.token = task[c].token, record.state \in {"parked", "live"},
           Claimed(c), UNCHANGED <<up, table, running, fate>>
    PROVE  ParkingInv'
<1> USE ParkingAssumption DEF ParkingInv, ParkingTypes, Claimed, NewToken, With, owner_alive,
       Mine, Known, Idle, Actors, Watchdogs, At, NoRecord, Numbered, OursStill, Holds, Records,
       Tasks, Steps, ServerOf, LiveElsewhere
<1>1. ParkingTypes'
  <2>1. tokens' \in 0..MaxToken /\ tokens' = tokens + 1
    OBVIOUS
  <2>2. Of[c] \in Servers
    OBVIOUS
  <2>3. record' = [record EXCEPT !.state = "live", !.token = tokens', !.owner = Of[c]]
    BY <2>1
  <2>4. record' \in Records
    BY <2>1, <2>2, <2>3
  <2>5. task' \in [Actors -> Tasks]
    BY <2>1
  <2>6. QED  BY <2>1, <2>4, <2>5
<1>2. RecordSane'  BY DEF RecordSane
<1>3. TasksSane'  BY DEF TasksSane, RecordSane
<1>4. AllKnown'  BY DEF AllKnown
<1>5. Ends'  BY DEF Ends
<1>6. Empty'  BY DEF Empty
<1>7. Held'  BY DEF Held, Claiming
<1>8. Claiming'
  <2>1. record'.token = tokens + 1 /\ tokens + 1 \in 0..MaxToken
    OBVIOUS
  <2>2. \A d \in Calls : At(d, "claim")' => task'[d].token \in Calls \cup 0..tokens
    BY DEF TasksSane
  <2>3. \A d \in Calls : At(d, "claim")' => task'[d].token # tokens + 1
    BY <2>1, <2>2
  <2>4. QED  BY <2>1, <2>3 DEF Claiming
<1>9. Writing'  BY DEF Writing
<1>10. Adopting'  BY DEF Adopting, TasksSane
<1>11. Parking'  BY DEF Parking
<1>12. OwnTokens'  BY DEF OwnTokens, Adopting, Parking
<1>13. OnRecord'  BY DEF OnRecord, Empty, OneCallEach
<1>14. Retiring'  BY DEF Retiring, Ends, OneCallEach, Claiming, RecordSane
<1>15. Forgetting'  BY DEF Forgetting, TasksSane
<1>16. OneHolder'  BY DEF OneHolder, Held, Claiming
<1>17. KeptOnRecord'  BY DEF KeptOnRecord
<1> QED  BY <1>1, <1>2, <1>3, <1>4, <1>5, <1>6, <1>7, <1>8, <1>9, <1>10, <1>11, <1>12, <1>13,
    <1>14, <1>15, <1>16, <1>17

\* The adopted browser comes into the table, and may get its watchdog.
LEMMA RegisterTakes ==
    ASSUME OneCallEach, ParkingInv, NEW c \in Calls, At(c, "register"), Mine(c) = NoBrowser,
           table' = [table EXCEPT ![Of[c]] = task[c].browser],
           Watched(c, task[c].then, task[c].token),
           UNCHANGED <<record, tokens, up, running, fate>>
    PROVE  ParkingInv'
<1> USE ParkingAssumption DEF ParkingInv
<1>1. /\ task' \in [Actors -> Tasks] /\ task'[c].at \in {"idle", "look", "launch"}
      /\ task'[c].at = "idle" => task'[c] = Idle
      /\ task'[c].browser \in {NoBrowser, task[c].browser}
      /\ \A d \in Calls \ {c} : task'[d] = task[d]
      /\ \A x \in Watchdogs :
            \/ task'[x] = task[x]
            \/ /\ x = task[c].token /\ task'[x].at = "poll" /\ task'[x].then = "idle"
               /\ task'[x].browser = NoBrowser
  <2>1. task[c].token \in Watchdogs /\ task[c].then \in Steps
    BY DEF Adopting, Numbered, ParkingTypes, Tasks, Steps, Watchdogs, Actors, At
  <2>2. /\ task' \in [Actors -> Tasks] /\ task'[c] = Becomes(c, task[c].then)
        /\ \A d \in Calls \ {c} : task'[d] = task[d]
        /\ \A x \in Watchdogs : task'[x] = task[x] \/ (x = task[c].token /\ task'[x] = Polling)
    BY <2>1, WatchedMeans DEF Adopting, Numbered, ParkingTypes
  <2>3. Polling.at = "poll" /\ Polling.then = "idle" /\ Polling.browser = NoBrowser
    BY DEF Polling, Idle
  <2>4. task'[c].at \in {"idle", "look", "launch"} /\ (task'[c].at = "idle" => task'[c] = Idle)
      /\ task'[c].browser \in {NoBrowser, task[c].browser}
    BY <2>2 DEF Becomes, Tasks, ParkingTypes, Actors, Idle
  <2>5. QED  BY <2>2, <2>3, <2>4
<1> USE ParkingAssumption DEF ParkingInv, ParkingTypes, Becomes, Polling, Mine, Known, Idle,
       Actors, Watchdogs, At, NoRecord, Numbered, OursStill, owner_alive, Records, Tasks, Steps,
       ServerOf, LiveElsewhere
<1>2. \A x \in Servers, b \in Browsers : Holds(x, b)' => Holds(x, b)
  BY <1>1 DEF Holds
<1>3. ParkingTypes'  BY <1>1 DEF Fates
<1>4. RecordSane'  BY <1>1 DEF RecordSane
<1>5. TasksSane'
  <2>1. \A x \in Watchdogs :
           /\ task'[x].at # "idle" =>
                 x <= tokens' /\ task'[x].at \in {"poll", "retire", "forget"}
           /\ task'[x].then = "idle"
    BY <1>1 DEF TasksSane, Adopting
  <2>2. \A a \in Actors :
           /\ task'[a].at \in {"retire", "finish", "write", "register", "giveBack"} =>
                 task'[a].browser # NoBrowser
           /\ task'[a].at = "idle" => task'[a] = Idle
    <3>1. \A a \in Actors : a = c \/ task'[a] = task[a] \/ task'[a].at = "poll"  BY <1>1
    <3>2. QED  BY <1>1, <3>1 DEF TasksSane
  <2>3. \A d \in Calls : task'[d].at = "claim" => task'[d].token \in Calls \cup 0..tokens'
    BY <1>1 DEF TasksSane
  <2>4. QED  BY ONLY <2>1, <2>2, <2>3 DEF TasksSane, At, Idle, Actors, Watchdogs
<1>6. AllKnown'  BY <1>1 DEF AllKnown
<1>7. Ends'  BY <1>1 DEF Ends
<1>8. Empty'  BY <1>1 DEF Empty, OneCallEach
<1>9. Held'  BY <1>1, <1>2 DEF Held
<1>10. Claiming'  BY <1>1 DEF Claiming
<1>11. Writing'
  <2> SUFFICES ASSUME NEW d \in Calls, At(d, "write")'
               PROVE  /\ record'.browser # task'[d].browser
                      /\ \A s \in Servers : Holds(s, task[d].browser)' => s = Of[d]
                      /\ \A e \in Calls :
                            At(e, "write")' /\ task'[e].browser = task'[d].browser => e = d
    BY DEF Writing
  <2>1. \A e \in Calls : At(e, "write")' => At(e, "write") /\ task'[e] = task[e] /\ e # c
    BY <1>1
  <2>2. task[d].browser \in Browsers  BY <2>1 DEF TasksSane
  <2>3. PICK b \in Browsers : b = task[d].browser  BY <2>2
  <2>4. \A s \in Servers : Holds(s, b)' => s = Of[d]
    BY <1>2, <2>1, <2>3 DEF Writing
  <2>5. record' = record  OBVIOUS
  <2>6. record'.browser # task'[d].browser
    BY <2>1, <2>5 DEF Writing, OneCallEach, Holds, Ends
  <2>7. QED  BY <2>1, <2>3, <2>4, <2>6 DEF Writing
<1>12. Adopting'  BY <1>1 DEF Adopting, OwnTokens
<1>13. Parking'  BY <1>1 DEF Parking, OnRecord
<1>14. OwnTokens'  BY <1>1 DEF OwnTokens
<1>15. OnRecord'  BY <1>1 DEF OnRecord
<1>16. Retiring'
  <2> SUFFICES ASSUME NEW a \in Actors, (task[a].at \in {"retire", "finish"})'
               PROVE  /\ \A s \in Servers : ~Holds(s, task[a].browser)'
                      /\ \A d \in Calls : At(d, "write")' => task'[d].browser # task'[a].browser
                      /\ record'.browser = task'[a].browser =>
                           \/ record'.state = "retiring"
                           \/ record'.state = "live" /\ record'.owner = ServerOf(a)
    BY DEF Retiring
  <2>1. task'[a] = task[a] /\ task[a].at \in {"retire", "finish"} /\ a # c  BY <1>1
  <2>2. \A e \in Calls : At(e, "write")' => At(e, "write") /\ task'[e] = task[e]
    BY <1>1
  <2>3. PICK b \in Browsers : b = task[a].browser  BY <2>1 DEF TasksSane
  <2>4. \A s \in Servers : ~Holds(s, b)'
    BY <1>2, <2>1, <2>3 DEF Retiring
  <2>5. record' = record  OBVIOUS
  <2>6. record'.browser = b =>
           record'.state = "retiring" \/ (record'.state = "live" /\ record'.owner = ServerOf(a))
    BY <2>1, <2>3, <2>5 DEF Retiring
  <2>7. QED  BY <2>1, <2>2, <2>3, <2>4, <2>6 DEF Retiring
<1>17. Forgetting'  BY <1>1 DEF Forgetting
<1>18. OneHolder'  BY <1>1, <1>2 DEF OneHolder
<1>19. KeptOnRecord'  BY <1>1 DEF KeptOnRecord
<1> QED  BY <1>3, <1>4, <1>5, <1>6, <1>7, <1>8, <1>9, <1>10, <1>11, <1>12, <1>13, <1>14, <1>15,
    <1>16, <1>17, <1>18, <1>19

\* What was adopted is parked again.
LEMMA GiveBackInv ==
    ASSUME OneCallEach, ParkingInv, NEW c \in Calls, GiveBack(c)
    PROVE  ParkingInv'
<1> USE ParkingAssumption DEF ParkingInv, ParkingTypes, GiveBack, Goto, Becomes, Mine, Known,
       Idle, Actors, Watchdogs, At, NoRecord, Numbered, OursStill, Holds, owner_alive, Records,
       Tasks, Steps, ServerOf, LiveElsewhere
<1>1. ParkingTypes'
  <2>1. record' \in Records
    BY DEF RecordSane
  <2>2. task' \in [Actors -> Tasks]
    BY DEF RecordSane
  <2>3. QED  BY <2>1, <2>2 DEF Lost, Fates
<1>2. RecordSane'  BY DEF RecordSane, Adopting
<1>3. TasksSane'  BY DEF TasksSane
<1>4. AllKnown'  BY DEF AllKnown
<1>5. Ends'  BY DEF Ends
<1>6. Empty'  BY DEF Empty
<1>7. Held'
  <2>1. \A s \in Servers, b \in Browsers : Holds(s, b)' => Holds(s, b)
    OBVIOUS
  <2>2. CASE record.token = task[c].token
    <3>1. record.owner = Of[c] /\ record'.browser = record.browser  BY <2>2 DEF Adopting
    <3>2. \A b \in Browsers : ~Holds(Of[c], b)  BY DEF Empty, OneCallEach
    <3>3. \A s \in Servers, b \in Browsers : Holds(s, b)' => record'.browser # b
      BY <2>1, <3>1, <3>2 DEF Held
    <3>4. QED  BY ONLY <3>3 DEF Held
  <2>3. CASE record.token # task[c].token
    <3>1. record' = record /\ up' = up  BY <2>3
    <3>2. QED  BY ONLY <2>1, <3>1, Held DEF Held
  <2>4. QED  BY <2>2, <2>3
<1>8. Claiming'  BY DEF Claiming
<1>9. Writing'  BY DEF Writing
<1>10. Adopting'  BY DEF Adopting, OneCallEach
<1>11. Parking'  BY DEF Parking, OneCallEach, Adopting
<1>12. OwnTokens'  BY DEF OwnTokens
<1>13. OnRecord'  BY DEF OnRecord
<1>14. Retiring'  BY DEF Retiring, OneCallEach, Adopting
<1>15. Forgetting'  BY DEF Forgetting, Adopting
<1>16. OneHolder'
  <2>1. \A s \in Servers, b \in Browsers : Holds(s, b)' => Holds(s, b)
    OBVIOUS
  <2>2. QED  BY ONLY <2>1, OneHolder DEF OneHolder
<1>17. KeptOnRecord'  BY DEF KeptOnRecord
<1> QED  BY <1>1, <1>2, <1>3, <1>4, <1>5, <1>6, <1>7, <1>8, <1>9, <1>10, <1>11, <1>12, <1>13,
    <1>14, <1>15, <1>16, <1>17

\* open_page launches a browser.
LEMMA LaunchNew ==
    ASSUME OneCallEach, ParkingInv, NEW c \in Calls, NEW b \in Browsers,
           At(c, "launch"), Mine(c) = NoBrowser, fate[b] = "new",
           table' = [table EXCEPT ![Of[c]] = b], running' = running \cup {b},
           fate' = [fate EXCEPT ![b] = "launched"], Goto(c, "record"),
           UNCHANGED <<record, tokens, up>>
    PROVE  ParkingInv'
<1> USE ParkingAssumption DEF ParkingInv, ParkingTypes, Goto, Becomes, Mine, Known, Idle,
       Actors, Watchdogs, At, NoRecord, Numbered, OursStill, Holds, owner_alive, Records, Tasks,
       Steps, ServerOf, LiveElsewhere
<1>1. ParkingTypes'  BY DEF Fates
<1>2. RecordSane'  BY DEF RecordSane
<1>3. TasksSane'  BY DEF TasksSane
<1>4. AllKnown'  BY DEF AllKnown
<1>5. Ends'  BY DEF Ends
<1>6. Empty'  BY DEF Empty, OneCallEach
<1>7. Held'  BY DEF Held, AllKnown
<1>8. Claiming'  BY DEF Claiming
<1>9. Writing'  BY DEF Writing, AllKnown
<1>10. Adopting'  BY DEF Adopting
<1>11. Parking'  BY DEF Parking, OneCallEach
<1>12. OwnTokens'  BY DEF OwnTokens
<1>13. OnRecord'  BY DEF OnRecord, OneCallEach
<1>14. Retiring'  BY DEF Retiring, AllKnown
<1>15. Forgetting'  BY DEF Forgetting
<1>16. OneHolder'  BY DEF OneHolder, AllKnown
<1>17. KeptOnRecord'  BY DEF KeptOnRecord
<1> QED  BY <1>1, <1>2, <1>3, <1>4, <1>5, <1>6, <1>7, <1>8, <1>9, <1>10, <1>11, <1>12, <1>13,
    <1>14, <1>15, <1>16, <1>17

\* open_page fails and closes the session.
LEMMA LaunchFails ==
    ASSUME OneCallEach, ParkingInv, NEW c \in Calls, At(c, "launch"),
           table' = [table EXCEPT ![Of[c]] = NoBrowser], running' = running \ {Mine(c)},
           fate' = Lost({Mine(c)}), Goto(c, "clean"), UNCHANGED <<record, tokens, up>>
    PROVE  ParkingInv'
<1> USE ParkingAssumption DEF ParkingInv, ParkingTypes, Goto, Becomes, Lost, Mine, Known, Idle,
       Actors, Watchdogs, At, NoRecord, Numbered, OursStill, Holds, owner_alive, Records, Tasks,
       Steps, ServerOf, LiveElsewhere
<1>1. ParkingTypes'  BY DEF Fates
<1>2. RecordSane'  BY DEF RecordSane
<1>3. TasksSane'  BY DEF TasksSane
<1>4. AllKnown'  BY DEF AllKnown
<1>5. Ends'  BY DEF Ends
<1>6. Empty'  BY DEF Empty
<1>7. Held'  BY DEF Held
<1>8. Claiming'  BY DEF Claiming
<1>9. Writing'  BY DEF Writing, TasksSane
<1>10. Adopting'  BY DEF Adopting
<1>11. Parking'  BY DEF Parking, OneCallEach
<1>12. OwnTokens'  BY DEF OwnTokens
<1>13. OnRecord'  BY DEF OnRecord
<1>14. Retiring'  BY DEF Retiring, TasksSane
<1>15. Forgetting'  BY DEF Forgetting
<1>16. OneHolder'  BY DEF OneHolder
<1>17. KeptOnRecord'  BY DEF KeptOnRecord
<1> QED  BY <1>1, <1>2, <1>3, <1>4, <1>5, <1>6, <1>7, <1>8, <1>9, <1>10, <1>11, <1>12, <1>13,
    <1>14, <1>15, <1>16, <1>17

\* record_live has read the record and goes to write its own.
LEMMA RecordWrites ==
    ASSUME OneCallEach, ParkingInv, NEW c \in Calls, At(c, "record"), Mine(c) # NoBrowser,
           ~(record.owner = Of[c] /\ record.state = "live" /\ record.browser = Mine(c)),
           With(c, "write", "idle", 0, Mine(c)),
           UNCHANGED <<record, tokens, up, table, running, fate>>
    PROVE  ParkingInv'
<1> USE ParkingAssumption DEF ParkingInv, ParkingTypes, With, Mine, Known, Idle, Actors,
       Watchdogs, At, NoRecord, Numbered, OursStill, Holds, owner_alive, Records, Tasks, Steps,
       ServerOf, LiveElsewhere
<1>1. ParkingTypes'  BY DEF Fates
<1>2. RecordSane'  BY DEF RecordSane
<1>3. TasksSane'  BY DEF TasksSane
<1>4. AllKnown'  BY DEF AllKnown
<1>5. Ends'  BY DEF Ends
<1>6. Empty'  BY DEF Empty
<1>7. Held'  BY DEF Held
<1>8. Claiming'  BY DEF Claiming
<1>9. Writing'  BY DEF Writing, Held, OneHolder, Ends, OneCallEach
<1>10. Adopting'  BY DEF Adopting
<1>11. Parking'  BY DEF Parking
<1>12. OwnTokens'  BY DEF OwnTokens
<1>13. OnRecord'  BY DEF OnRecord
<1>14. Retiring'  BY DEF Retiring, Ends
<1>15. Forgetting'  BY DEF Forgetting
<1>16. OneHolder'  BY DEF OneHolder
<1>17. KeptOnRecord'  BY DEF KeptOnRecord
<1> QED  BY <1>1, <1>2, <1>3, <1>4, <1>5, <1>6, <1>7, <1>8, <1>9, <1>10, <1>11, <1>12, <1>13,
    <1>14, <1>15, <1>16, <1>17

\* record_live writes the record.
LEMMA WriteLiveInv ==
    ASSUME OneCallEach, ParkingInv, NEW c \in Calls, WriteLive(c)
    PROVE  ParkingInv'
<1> USE ParkingAssumption DEF ParkingInv
<1>1. /\ task' \in [Actors -> Tasks] /\ task'[c] = Idle
      /\ \A d \in Calls \ {c} : task'[d] = task[d]
      /\ \A x \in Watchdogs :
            \/ task'[x] = task[x]
            \/ /\ x = tokens + 1 /\ task'[x].at = "poll" /\ task'[x].then = "idle"
               /\ task'[x].browser = NoBrowser
  <2>1. tokens + 1 \in Watchdogs /\ "idle" \in Steps
    BY DEF WriteLive, NewToken, ParkingTypes, Tasks, Steps, Watchdogs, Actors, At
  <2>2. /\ task' \in [Actors -> Tasks] /\ task'[c] = Becomes(c, "idle")
        /\ \A d \in Calls \ {c} : task'[d] = task[d]
        /\ \A x \in Watchdogs : task'[x] = task[x] \/ (x = tokens + 1 /\ task'[x] = Polling)
    BY <2>1, WatchedMeans DEF WriteLive, ParkingTypes
  <2>3. Polling.at = "poll" /\ Polling.then = "idle" /\ Polling.browser = NoBrowser
    BY DEF Polling, Idle
  <2>4. task'[c] = Idle
    BY <2>2 DEF Becomes, Tasks, ParkingTypes, Actors, Idle
  <2>5. QED  BY <2>2, <2>3, <2>4
<1> USE ParkingAssumption DEF ParkingInv, ParkingTypes, WriteLive, NewToken, Put, Becomes,
       Polling, Mine, Known, Idle, Actors, Watchdogs, At, NoRecord, Numbered, OursStill,
       owner_alive, Records, Tasks, Steps, ServerOf, LiveElsewhere
<1>2. \A x \in Servers, b \in Browsers : Holds(x, b)' => Holds(x, b)
  BY <1>1 DEF Holds
<1>3. ParkingTypes'  BY <1>1 DEF Fates
<1>4. RecordSane'  BY <1>1 DEF RecordSane, TasksSane
<1>5. TasksSane'
  <2>1. tokens' = tokens + 1 /\ tokens + 1 \in 1..MaxToken
    OBVIOUS
  <2>2. \A x \in Watchdogs :
           /\ task'[x].at # "idle" =>
                 x <= tokens' /\ task'[x].at \in {"poll", "retire", "forget"}
           /\ task'[x].then = "idle"
    BY <1>1, <2>1 DEF TasksSane
  <2>3. \A a \in Actors :
           /\ task'[a].at \in {"retire", "finish", "write", "register", "giveBack"} =>
                 task'[a].browser # NoBrowser
           /\ task'[a].at = "idle" => task'[a] = Idle
    BY <1>1 DEF TasksSane
  <2>4. \A d \in Calls : task'[d].at = "claim" => task'[d].token \in Calls \cup 0..tokens'
    BY <1>1, <2>1 DEF TasksSane
  <2>5. QED  BY ONLY <2>2, <2>3, <2>4 DEF TasksSane, At, Idle, Actors, Watchdogs
<1>6. AllKnown'  BY <1>1 DEF AllKnown
<1>7. Ends'  BY <1>1 DEF Ends
<1>8. Empty'  BY <1>1 DEF Empty
<1>9. Held'  BY <1>1, <1>2 DEF Held, Writing
<1>10. Claiming'  BY <1>1 DEF Claiming, TasksSane
<1>11. Writing'
  <2> SUFFICES ASSUME NEW d \in Calls, At(d, "write")'
               PROVE  /\ record'.browser # task'[d].browser
                      /\ \A s \in Servers : Holds(s, task[d].browser)' => s = Of[d]
                      /\ \A e \in Calls :
                            At(e, "write")' /\ task'[e].browser = task'[d].browser => e = d
    BY DEF Writing
  <2>1. \A e \in Calls : At(e, "write")' => At(e, "write") /\ task'[e] = task[e] /\ e # c
    BY <1>1
  <2>2. task[d].browser \in Browsers  BY <2>1 DEF TasksSane
  <2>3. PICK b \in Browsers : b = task[d].browser  BY <2>2
  <2>4. \A s \in Servers : Holds(s, b)' => s = Of[d]
    BY <1>2, <2>1, <2>3 DEF Writing
  <2>5. record'.browser = task[c].browser /\ record'.state = "live" /\ record'.owner = Of[c]
    OBVIOUS
  <2>6. record'.browser # task'[d].browser
    BY <2>1, <2>5 DEF Writing, OneCallEach, Holds, Ends
  <2>7. QED  BY <2>1, <2>3, <2>4, <2>6 DEF Writing
<1>12. Adopting'  BY <1>1 DEF Adopting
<1>13. Parking'  BY <1>1 DEF Parking
<1>14. OwnTokens'  BY <1>1 DEF OwnTokens
<1>15. OnRecord'  BY <1>1 DEF OnRecord, Empty, OneCallEach
<1>16. Retiring'
  <2> SUFFICES ASSUME NEW a \in Actors, (task[a].at \in {"retire", "finish"})'
               PROVE  /\ \A s \in Servers : ~Holds(s, task[a].browser)'
                      /\ \A d \in Calls : At(d, "write")' => task'[d].browser # task'[a].browser
                      /\ record'.browser = task'[a].browser =>
                           \/ record'.state = "retiring"
                           \/ record'.state = "live" /\ record'.owner = ServerOf(a)
    BY DEF Retiring
  <2>1. task'[a] = task[a] /\ task[a].at \in {"retire", "finish"} /\ a # c  BY <1>1
  <2>2. \A e \in Calls : At(e, "write")' => At(e, "write") /\ task'[e] = task[e]
    BY <1>1
  <2>3. PICK b \in Browsers : b = task[a].browser  BY <2>1 DEF TasksSane
  <2>4. \A s \in Servers : ~Holds(s, b)'
    BY <1>2, <2>1, <2>3 DEF Retiring
  <2>5. record'.browser = task[c].browser /\ record'.state = "live" /\ record'.owner = Of[c]
    OBVIOUS
  <2>6. record'.browser = b =>
           record'.state = "retiring" \/ (record'.state = "live" /\ record'.owner = ServerOf(a))
    <3>1. task[c].browser # b  BY <2>1, <2>3 DEF Retiring
    <3>2. QED  BY ONLY <2>5, <3>1
  <2>7. QED  BY <2>1, <2>2, <2>3, <2>4, <2>6 DEF Retiring
<1>17. Forgetting'  BY <1>1 DEF Forgetting, TasksSane
<1>18. OneHolder'  BY <1>1, <1>2 DEF OneHolder
<1>19. KeptOnRecord'  BY <1>1 DEF KeptOnRecord
<1> QED  BY <1>3, <1>4, <1>5, <1>6, <1>7, <1>8, <1>9, <1>10, <1>11, <1>12, <1>13, <1>14, <1>15,
    <1>16, <1>17, <1>18, <1>19

\* After a close or a failed open, _finish has the record.
LEMMA CleanFinishes ==
    ASSUME OneCallEach, ParkingInv, NEW c \in Calls, At(c, "clean"),
           record.owner = Of[c], Mine(c) = NoBrowser,
           With(c, "finish", "idle", 0, record.browser), fate' = Lost({record.browser}),
           UNCHANGED <<record, tokens, up, table, running>>
    PROVE  ParkingInv'
<1> USE ParkingAssumption DEF ParkingInv, ParkingTypes, With, Lost, ServerOf, Mine, Known, Idle,
       Actors, Watchdogs, At, NoRecord, Numbered, OursStill, Holds, owner_alive, Records, Tasks,
       Steps, LiveElsewhere
<1>1. ParkingTypes'  BY DEF Fates
<1>2. RecordSane'  BY DEF RecordSane
<1>3. TasksSane'  BY DEF TasksSane, RecordSane
<1>4. AllKnown'  BY DEF AllKnown
<1>5. Ends'  BY DEF Ends
<1>6. Empty'  BY DEF Empty
<1>7. Held'  BY DEF Held
<1>8. Claiming'  BY DEF Claiming
<1>9. Writing'  BY DEF Writing
<1>10. Adopting'  BY DEF Adopting
<1>11. Parking'  BY DEF Parking
<1>12. OwnTokens'  BY DEF OwnTokens
<1>13. OnRecord'  BY DEF OnRecord
<1>14. Retiring'  BY DEF Retiring, Held, Ends, OneCallEach, Writing, RecordSane
<1>15. Forgetting'  BY DEF Forgetting
<1>16. OneHolder'  BY DEF OneHolder
<1>17. KeptOnRecord'  BY DEF KeptOnRecord
<1> QED  BY <1>1, <1>2, <1>3, <1>4, <1>5, <1>6, <1>7, <1>8, <1>9, <1>10, <1>11, <1>12, <1>13,
    <1>14, <1>15, <1>16, <1>17

\* close takes the session from the table.
LEMMA CloseInv ==
    ASSUME OneCallEach, ParkingInv, NEW c \in Calls, Close(c)
    PROVE  ParkingInv'
<1> USE ParkingAssumption DEF ParkingInv, ParkingTypes, Close, Goto, Becomes, Lost, Mine, Known,
       Idle, Actors, Watchdogs, At, NoRecord, Numbered, OursStill, Holds, owner_alive, Records,
       Tasks, Steps, ServerOf, LiveElsewhere
<1>1. ParkingTypes'  BY DEF Fates
<1>2. RecordSane'  BY DEF RecordSane
<1>3. TasksSane'  BY DEF TasksSane
<1>4. AllKnown'  BY DEF AllKnown
<1>5. Ends'  BY DEF Ends
<1>6. Empty'  BY DEF Empty
<1>7. Held'  BY DEF Held
<1>8. Claiming'  BY DEF Claiming
<1>9. Writing'  BY DEF Writing, TasksSane
<1>10. Adopting'  BY DEF Adopting
<1>11. Parking'  BY DEF Parking, OneCallEach
<1>12. OwnTokens'  BY DEF OwnTokens
<1>13. OnRecord'  BY DEF OnRecord
<1>14. Retiring'  BY DEF Retiring, TasksSane
<1>15. Forgetting'  BY DEF Forgetting
<1>16. OneHolder'  BY DEF OneHolder
<1>17. KeptOnRecord'  BY DEF KeptOnRecord
<1> QED  BY <1>1, <1>2, <1>3, <1>4, <1>5, <1>6, <1>7, <1>8, <1>9, <1>10, <1>11, <1>12, <1>13,
    <1>14, <1>15, <1>16, <1>17

\* _park_at_exit reads the record and goes to park the browser.
LEMMA ExitParks ==
    ASSUME OneCallEach, ParkingInv, NEW c \in Calls, up[Of[c]] = "up",
           \A d \in Calls : Of[d] = Of[c] => At(d, "idle"),
           Mine(c) # NoBrowser, up' = [up EXCEPT ![Of[c]] = "exiting"],
           With(c, "parkWrite", "idle",
                IF record.owner = Of[c] THEN record.token ELSE 0, NoBrowser),
           UNCHANGED <<record, tokens, table, running, fate>>
    PROVE  ParkingInv'
<1> USE ParkingAssumption DEF ParkingInv, ParkingTypes, With, owner_alive, Mine, Known, Idle,
       Actors, Watchdogs, At, NoRecord, Numbered, OursStill, Holds, Records, Tasks, Steps,
       ServerOf, LiveElsewhere
<1>1. ParkingTypes'  BY DEF Fates
<1>2. RecordSane'  BY DEF RecordSane
<1>3. TasksSane'  BY DEF TasksSane
<1>4. AllKnown'  BY DEF AllKnown
<1>5. Ends'  BY DEF Ends, OneCallEach
<1>6. Empty'  BY DEF Empty
<1>7. Held'  BY DEF Held
<1>8. Claiming'  BY DEF Claiming
<1>9. Writing'  BY DEF Writing
<1>10. Adopting'  BY DEF Adopting
<1>11. Parking'  BY DEF Parking, TasksSane, RecordSane, OnRecord, Held, Forgetting
<1>12. OwnTokens'  BY DEF OwnTokens, Adopting, Parking
<1>13. OnRecord'  BY DEF OnRecord
<1>14. Retiring'  BY DEF Retiring
<1>15. Forgetting'  BY DEF Forgetting
<1>16. OneHolder'  BY DEF OneHolder
<1>17. KeptOnRecord'  BY DEF KeptOnRecord
<1> QED  BY <1>1, <1>2, <1>3, <1>4, <1>5, <1>6, <1>7, <1>8, <1>9, <1>10, <1>11, <1>12, <1>13,
    <1>14, <1>15, <1>16, <1>17

\* _park_at_exit closes the session, or there is none.
LEMMA ExitCloses ==
    ASSUME OneCallEach, ParkingInv, NEW c \in Calls, up[Of[c]] = "up",
           \A d \in Calls : Of[d] = Of[c] => At(d, "idle"),
           up' = [up EXCEPT ![Of[c]] = "gone"], table' = [table EXCEPT ![Of[c]] = NoBrowser],
           running' = running \ {Mine(c)}, fate' = Lost({Mine(c)}),
           UNCHANGED <<record, tokens, task>>
    PROVE  ParkingInv'
<1> USE ParkingAssumption DEF ParkingInv, ParkingTypes, Lost, owner_alive, Mine, Known, Idle,
       Actors, Watchdogs, At, NoRecord, Numbered, OursStill, Holds, Records, Tasks, Steps,
       ServerOf, LiveElsewhere
<1>1. ParkingTypes'  BY DEF Fates
<1>2. RecordSane'  BY DEF RecordSane
<1>3. TasksSane'  BY DEF TasksSane
<1>4. AllKnown'  BY DEF AllKnown
<1>5. Ends'  BY DEF Ends, TasksSane
<1>6. Empty'  BY DEF Empty
<1>7. Held'  BY DEF Held
<1>8. Claiming'  BY DEF Claiming
<1>9. Writing'  BY DEF Writing
<1>10. Adopting'  BY DEF Adopting
<1>11. Parking'  BY DEF Parking
<1>12. OwnTokens'  BY DEF OwnTokens
<1>13. OnRecord'  BY DEF OnRecord
<1>14. Retiring'  BY DEF Retiring
<1>15. Forgetting'  BY DEF Forgetting
<1>16. OneHolder'  BY DEF OneHolder
<1>17. KeptOnRecord'  BY DEF KeptOnRecord
<1> QED  BY <1>1, <1>2, <1>3, <1>4, <1>5, <1>6, <1>7, <1>8, <1>9, <1>10, <1>11, <1>12, <1>13,
    <1>14, <1>15, <1>16, <1>17

\* _park_at_exit writes the parked record.
LEMMA ParkWriteInv ==
    ASSUME OneCallEach, ParkingInv, NEW c \in Calls, ParkWrite(c)
    PROVE  ParkingInv'
<1> USE ParkingAssumption DEF ParkingInv
<1>1. /\ task' \in [Actors -> Tasks] /\ task'[c] = Idle
      /\ \A d \in Calls \ {c} : task'[d] = task[d]
      /\ \A x \in Watchdogs :
            \/ task'[x] = task[x]
            \/ /\ x = (IF task[c].token # 0 THEN task[c].token ELSE tokens + 1)
               /\ task'[x].at = "poll" /\ task'[x].then = "idle"
               /\ task'[x].browser = NoBrowser
  <2>1. (IF task[c].token # 0 THEN task[c].token ELSE tokens + 1) \in Watchdogs /\ "idle" \in Steps
    BY DEF ParkWrite, NewToken, Parking, Numbered, ParkingTypes, Tasks, Steps, Watchdogs,
           Actors, At
  <2>2. /\ task' \in [Actors -> Tasks] /\ task'[c] = Becomes(c, "idle")
        /\ \A d \in Calls \ {c} : task'[d] = task[d]
        /\ \A x \in Watchdogs :
              \/ task'[x] = task[x]
              \/ /\ x = (IF task[c].token # 0 THEN task[c].token ELSE tokens + 1)
                 /\ task'[x] = Polling
    BY <2>1, WatchedMeans DEF ParkWrite, NewToken, Parking, Numbered, ParkingTypes
  <2>3. Polling.at = "poll" /\ Polling.then = "idle" /\ Polling.browser = NoBrowser
    BY DEF Polling, Idle
  <2>4. task'[c] = Idle
    BY <2>2 DEF Becomes, Tasks, ParkingTypes, Actors, Idle
  <2>5. QED  BY <2>2, <2>3, <2>4
<1> USE ParkingAssumption DEF ParkingInv, ParkingTypes, ParkWrite, NewToken, Put, Becomes,
       Polling, Mine, Known, Idle, Actors, Watchdogs, At, NoRecord, Numbered, OursStill,
       owner_alive, Records, Tasks, Steps, ServerOf, LiveElsewhere
<1>2. \A x \in Servers, b \in Browsers : Holds(x, b)' => Holds(x, b)
  BY <1>1 DEF Holds
<1>3. ParkingTypes'  BY <1>1 DEF Fates
<1>4. RecordSane'  BY <1>1 DEF RecordSane, Ends, Parking
<1>5. TasksSane'
  <2>1. \A x \in Watchdogs :
           /\ task'[x].at # "idle" =>
                 x <= tokens' /\ task'[x].at \in {"poll", "retire", "forget"}
           /\ task'[x].then = "idle"
    BY <1>1 DEF TasksSane, Parking
  <2>2. tokens <= tokens'  OBVIOUS
  <2>3. \A d \in Calls : task'[d] = task[d] \/ task'[d] = Idle  BY <1>1
  <2>4. \A a \in Actors : task'[a] = task[a] \/ task'[a] = Idle \/ (task'[a].at = "poll")
    BY <1>1
  <2>5. \A a \in Actors :
           /\ task'[a].at \in {"retire", "finish", "write", "register", "giveBack"} =>
                 task'[a].browser # NoBrowser
           /\ task'[a].at = "idle" => task'[a] = Idle
    BY <2>4 DEF TasksSane
  <2>6. \A d \in Calls : task'[d].at = "claim" => task'[d].token \in Calls \cup 0..tokens'
    BY <2>2, <2>3 DEF TasksSane
  <2>7. QED  BY ONLY <2>1, <2>5, <2>6 DEF TasksSane, At, Idle, Actors, Watchdogs
<1>6. AllKnown'  BY <1>1 DEF AllKnown
<1>7. Ends'  BY <1>1 DEF Ends, OneCallEach
<1>8. Empty'  BY <1>1 DEF Empty
<1>9. Held'
  <2>1. PICK b \in Browsers : b = Mine(c)
    BY DEF Ends
  <2>2. record'.browser = b  BY <2>1
  <2>3. Holds(Of[c], b)
    BY <2>1 DEF Holds, Ends
  <2>4. ~Holds(Of[c], b)'
    BY DEF Holds
  <2>5. \A s \in Servers : ~Holds(s, b)'
    BY <1>2, <2>3, <2>4 DEF OneHolder
  <2>6. QED  BY <2>2, <2>5 DEF Held
<1>10. Claiming'  BY <1>1 DEF Claiming
<1>11. Writing'
  <2> SUFFICES ASSUME NEW d \in Calls, At(d, "write")'
               PROVE  /\ record'.browser # task'[d].browser
                      /\ \A s \in Servers : Holds(s, task[d].browser)' => s = Of[d]
                      /\ \A e \in Calls :
                            At(e, "write")' /\ task'[e].browser = task'[d].browser => e = d
    BY DEF Writing
  <2>1. \A e \in Calls : At(e, "write")' => At(e, "write") /\ task'[e] = task[e] /\ e # c
    BY <1>1
  <2>2. task[d].browser \in Browsers  BY <2>1 DEF TasksSane
  <2>3. PICK b \in Browsers : b = task[d].browser  BY <2>2
  <2>4. \A s \in Servers : Holds(s, b)' => s = Of[d]
    BY <1>2, <2>1, <2>3 DEF Writing
  <2>5. record'.browser = Mine(c)  OBVIOUS
  <2>6. record'.browser # task'[d].browser
    BY <2>1, <2>5 DEF Writing, OneCallEach, Holds, Ends
  <2>7. QED  BY <2>1, <2>3, <2>4, <2>6 DEF Writing
<1>12. Adopting'  BY <1>1 DEF Adopting, OwnTokens
<1>13. Parking'  BY <1>1 DEF Parking, OwnTokens
<1>14. OwnTokens'  BY <1>1 DEF OwnTokens
<1>15. OnRecord'  BY <1>1 DEF OnRecord
<1>16. Retiring'
  <2> SUFFICES ASSUME NEW a \in Actors, (task[a].at \in {"retire", "finish"})'
               PROVE  /\ \A s \in Servers : ~Holds(s, task[a].browser)'
                      /\ \A d \in Calls : At(d, "write")' => task'[d].browser # task'[a].browser
                      /\ record'.browser = task'[a].browser =>
                           \/ record'.state = "retiring"
                           \/ record'.state = "live" /\ record'.owner = ServerOf(a)
    BY DEF Retiring
  <2>1. task'[a] = task[a] /\ task[a].at \in {"retire", "finish"} /\ a # c  BY <1>1
  <2>2. \A e \in Calls : At(e, "write")' => At(e, "write") /\ task'[e] = task[e]
    BY <1>1
  <2>3. PICK b \in Browsers : b = task[a].browser  BY <2>1 DEF TasksSane
  <2>4. \A s \in Servers : ~Holds(s, b)'
    BY <1>2, <2>1, <2>3 DEF Retiring
  <2>5. record'.browser = Mine(c)  OBVIOUS
  <2>6. record'.browser = b =>
           record'.state = "retiring" \/ (record'.state = "live" /\ record'.owner = ServerOf(a))
    <3>1. Holds(Of[c], Mine(c))  BY DEF Ends, Holds
    <3>2. ~Holds(Of[c], b)  BY ONLY <2>1, <2>3, Retiring, Of[c] \in Servers DEF Retiring
    <3>3. QED  BY ONLY <2>5, <3>1, <3>2
  <2>7. QED  BY <2>1, <2>2, <2>3, <2>4, <2>6 DEF Retiring
<1>17. Forgetting'  BY <1>1 DEF Forgetting, TasksSane, Parking
<1>18. OneHolder'  BY <1>1, <1>2 DEF OneHolder
<1>19. KeptOnRecord'  BY <1>1 DEF KeptOnRecord
<1> QED  BY <1>3, <1>4, <1>5, <1>6, <1>7, <1>8, <1>9, <1>10, <1>11, <1>12, <1>13, <1>14, <1>15,
    <1>16, <1>17, <1>18, <1>19

\* The watchdog parks the browser of a server that died.
LEMMA ParkForTheDeadInv ==
    ASSUME OneCallEach, ParkingInv, NEW t \in Watchdogs, ParkForTheDead(t)
    PROVE  ParkingInv'
<1> USE ParkingAssumption DEF ParkingInv, ParkingTypes, ParkForTheDead, Look1, owner_alive,
       Mine, Known, Idle, Actors, Watchdogs, At, NoRecord, Numbered, OursStill, Holds, Records,
       Tasks, Steps, ServerOf, LiveElsewhere
<1>1. ParkingTypes'  BY DEF Fates
<1>2. RecordSane'  BY DEF RecordSane
<1>3. TasksSane'  BY DEF TasksSane
<1>4. AllKnown'  BY DEF AllKnown
<1>5. Ends'  BY DEF Ends
<1>6. Empty'  BY DEF Empty
<1>7. Held'  BY DEF Held
<1>8. Claiming'  BY DEF Claiming
<1>9. Writing'  BY DEF Writing
<1>10. Adopting'  BY DEF Adopting
<1>11. Parking'  BY DEF Parking, Ends
<1>12. OwnTokens'  BY DEF OwnTokens
<1>13. OnRecord'  BY DEF OnRecord
<1>14. Retiring'  BY DEF Retiring, Ends, RecordSane
<1>15. Forgetting'  BY DEF Forgetting
<1>16. OneHolder'  BY DEF OneHolder
<1>17. KeptOnRecord'  BY DEF KeptOnRecord
<1> QED  BY <1>1, <1>2, <1>3, <1>4, <1>5, <1>6, <1>7, <1>8, <1>9, <1>10, <1>11, <1>12, <1>13,
    <1>14, <1>15, <1>16, <1>17

\* The session leaves the table by browser_tools alone.
LEMMA SweptAwayInv ==
    ASSUME OneCallEach, ParkingInv, NEW s \in Servers, SweptAway(s)
    PROVE  ParkingInv'
<1> USE ParkingAssumption DEF ParkingInv, ParkingTypes, SweptAway, Lost, Mine, Known, Idle,
       Actors, Watchdogs, At, NoRecord, Numbered, OursStill, Holds, owner_alive, Records, Tasks,
       Steps, ServerOf, LiveElsewhere
<1>1. ParkingTypes'  BY DEF Fates
<1>2. RecordSane'  BY DEF RecordSane
<1>3. TasksSane'  BY DEF TasksSane
<1>4. AllKnown'  BY DEF AllKnown
<1>5. Ends'  BY DEF Ends
<1>6. Empty'  BY DEF Empty
<1>7. Held'  BY DEF Held
<1>8. Claiming'  BY DEF Claiming
<1>9. Writing'  BY DEF Writing, TasksSane
<1>10. Adopting'  BY DEF Adopting
<1>11. Parking'  BY DEF Parking, Ends
<1>12. OwnTokens'  BY DEF OwnTokens
<1>13. OnRecord'  BY DEF OnRecord
<1>14. Retiring'  BY DEF Retiring, TasksSane
<1>15. Forgetting'  BY DEF Forgetting
<1>16. OneHolder'  BY DEF OneHolder
<1>17. KeptOnRecord'  BY DEF KeptOnRecord
<1> QED  BY <1>1, <1>2, <1>3, <1>4, <1>5, <1>6, <1>7, <1>8, <1>9, <1>10, <1>11, <1>12, <1>13,
    <1>14, <1>15, <1>16, <1>17

\* A server is killed.
LEMMA CrashInv ==
    ASSUME OneCallEach, ParkingInv, NEW s \in Servers, Crash(s)
    PROVE  ParkingInv'
<1> USE ParkingAssumption DEF ParkingInv, ParkingTypes, Crash, ServerOf, owner_alive, Mine,
       Known, Idle, Actors, Watchdogs, At, NoRecord, Numbered, OursStill, Holds, Records, Tasks,
       Steps, LiveElsewhere
<1>1. ParkingTypes'  BY DEF Fates
<1>2. RecordSane'  BY DEF RecordSane
<1>3. TasksSane'  BY DEF TasksSane
<1>4. AllKnown'  BY DEF AllKnown
<1>5. Ends'  BY DEF Ends
<1>6. Empty'  BY DEF Empty
<1>7. Held'  BY DEF Held
<1>8. Claiming'  BY DEF Claiming
<1>9. Writing'  BY DEF Writing
<1>10. Adopting'  BY DEF Adopting
<1>11. Parking'  BY DEF Parking
<1>12. OwnTokens'  BY DEF OwnTokens
<1>13. OnRecord'  BY DEF OnRecord
<1>14. Retiring'  BY DEF Retiring
<1>15. Forgetting'  BY DEF Forgetting
<1>16. OneHolder'  BY DEF OneHolder
<1>17. KeptOnRecord'  BY DEF KeptOnRecord
<1> QED  BY <1>1, <1>2, <1>3, <1>4, <1>5, <1>6, <1>7, <1>8, <1>9, <1>10, <1>11, <1>12, <1>13,
    <1>14, <1>15, <1>16, <1>17

\* A browser ends by itself.
LEMMA BrowserDiesInv ==
    ASSUME OneCallEach, ParkingInv, NEW b \in Browsers, BrowserDies(b)
    PROVE  ParkingInv'
<1> USE ParkingAssumption DEF ParkingInv, ParkingTypes, BrowserDies, Lost, Mine, Known, Idle,
       Actors, Watchdogs, At, NoRecord, Numbered, OursStill, Holds, owner_alive, Records, Tasks,
       Steps, ServerOf, LiveElsewhere
<1>1. ParkingTypes'  BY DEF Fates
<1>2. RecordSane'  BY DEF RecordSane
<1>3. TasksSane'  BY DEF TasksSane
<1>4. AllKnown'  BY DEF AllKnown
<1>5. Ends'  BY DEF Ends
<1>6. Empty'  BY DEF Empty
<1>7. Held'  BY DEF Held
<1>8. Claiming'  BY DEF Claiming
<1>9. Writing'  BY DEF Writing
<1>10. Adopting'  BY DEF Adopting
<1>11. Parking'  BY DEF Parking
<1>12. OwnTokens'  BY DEF OwnTokens
<1>13. OnRecord'  BY DEF OnRecord
<1>14. Retiring'  BY DEF Retiring
<1>15. Forgetting'  BY DEF Forgetting
<1>16. OneHolder'  BY DEF OneHolder
<1>17. KeptOnRecord'  BY DEF KeptOnRecord
<1> QED  BY <1>1, <1>2, <1>3, <1>4, <1>5, <1>6, <1>7, <1>8, <1>9, <1>10, <1>11, <1>12, <1>13,
    <1>14, <1>15, <1>16, <1>17

\* The TTL passes.
LEMMA TtlRunsOutInv ==
    ASSUME OneCallEach, ParkingInv, TtlRunsOut
    PROVE  ParkingInv'
<1> USE ParkingAssumption DEF ParkingInv, ParkingTypes, TtlRunsOut, Mine, Known, Idle, Actors,
       Watchdogs, At, NoRecord, Numbered, OursStill, Holds, owner_alive, Records, Tasks, Steps,
       ServerOf, LiveElsewhere
<1>1. ParkingTypes'  BY DEF Fates
<1>2. RecordSane'  BY DEF RecordSane
<1>3. TasksSane'  BY DEF TasksSane
<1>4. AllKnown'  BY DEF AllKnown
<1>5. Ends'  BY DEF Ends
<1>6. Empty'  BY DEF Empty
<1>7. Held'  BY DEF Held
<1>8. Claiming'  BY DEF Claiming
<1>9. Writing'  BY DEF Writing
<1>10. Adopting'  BY DEF Adopting
<1>11. Parking'  BY DEF Parking
<1>12. OwnTokens'  BY DEF OwnTokens
<1>13. OnRecord'  BY DEF OnRecord
<1>14. Retiring'  BY DEF Retiring
<1>15. Forgetting'  BY DEF Forgetting
<1>16. OneHolder'  BY DEF OneHolder
<1>17. KeptOnRecord'  BY DEF KeptOnRecord
<1> QED  BY <1>1, <1>2, <1>3, <1>4, <1>5, <1>6, <1>7, <1>8, <1>9, <1>10, <1>11, <1>12, <1>13,
    <1>14, <1>15, <1>16, <1>17

\* A retirement grows stale.
LEMMA RetirementDragsInv ==
    ASSUME OneCallEach, ParkingInv, RetirementDrags
    PROVE  ParkingInv'
<1> USE ParkingAssumption DEF ParkingInv, ParkingTypes, RetirementDrags, RetiredBySomeone, Mine,
       Known, Idle, Actors, Watchdogs, At, NoRecord, Numbered, OursStill, Holds, owner_alive,
       Records, Tasks, Steps, ServerOf, LiveElsewhere
<1>1. ParkingTypes'  BY DEF Fates
<1>2. RecordSane'  BY DEF RecordSane
<1>3. TasksSane'  BY DEF TasksSane
<1>4. AllKnown'  BY DEF AllKnown
<1>5. Ends'  BY DEF Ends
<1>6. Empty'  BY DEF Empty
<1>7. Held'  BY DEF Held
<1>8. Claiming'  BY DEF Claiming
<1>9. Writing'  BY DEF Writing
<1>10. Adopting'  BY DEF Adopting
<1>11. Parking'  BY DEF Parking
<1>12. OwnTokens'  BY DEF OwnTokens
<1>13. OnRecord'  BY DEF OnRecord
<1>14. Retiring'  BY DEF Retiring
<1>15. Forgetting'  BY DEF Forgetting
<1>16. OneHolder'  BY DEF OneHolder
<1>17. KeptOnRecord'  BY DEF KeptOnRecord
<1> QED  BY <1>1, <1>2, <1>3, <1>4, <1>5, <1>6, <1>7, <1>8, <1>9, <1>10, <1>11, <1>12, <1>13,
    <1>14, <1>15, <1>16, <1>17

-----------------------------------------------------------------------------
\* A call that is at work and not parking has its server up.
LEMMA Awake ==
    ASSUME ParkingInv, NEW c \in Calls, task[c].at \notin {"idle", "parkWrite"}
    PROVE  up[Of[c]] = "up"
BY ParkingAssumption DEF ParkingInv, ParkingTypes, Ends, At, Idle

\* A call is no watchdog, and a watchdog is in no server.
LEMMA CallsAreNoWatchdogs ==
    /\ Calls \cap Watchdogs = {} /\ Calls \subseteq Actors /\ Watchdogs \subseteq Actors
    /\ \A t \in Watchdogs : ServerOf(t) = Nobody
BY ParkingAssumption DEF Actors, Watchdogs, ServerOf

\* Where a call goes on to, as a place that is quiet.
LEMMA GoesOn ==
    ASSUME ParkingInv, NEW a \in Actors, NEW at \in Steps
    PROVE  /\ Becomes(a, at) \in Tasks /\ Known(Becomes(a, at).browser)
           /\ Becomes(a, at).at = at
           /\ at = "idle" => Becomes(a, at) = Idle
           /\ task[a].then \in {"idle", "look", "launch"}
           /\ a \in Watchdogs => task[a].then = "idle" /\ Becomes(a, at).then = "idle"
<1>1. task[a] \in Tasks /\ Known(task[a].browser)
  BY DEF ParkingInv, ParkingTypes, AllKnown
<1>2. Idle \in Tasks /\ Known(Idle.browser) /\ Idle.then = "idle" /\ Idle.at = "idle"
  BY ParkingAssumption DEF Idle, Tasks, Steps, Known
<1>3. a \in Watchdogs => task[a].then = "idle"
  BY DEF ParkingInv, TasksSane
<1>4. CASE at = "idle"  BY <1>1, <1>2, <1>3, <1>4 DEF Becomes, Tasks
<1>5. CASE at # "idle"  BY <1>1, <1>3, <1>5 DEF Becomes, Tasks
<1> QED  BY <1>4, <1>5

\* reap_expired claims the record, or the call goes on to look at it.
LEMMA ReapInv ==
    ASSUME OneCallEach, ParkingInv, NEW c \in Calls,
           NEW op \in {"open", "reattach", "status"}, Reap(c, op)
    PROVE  ParkingInv'
<1>1. c \in Actors /\ c \notin Watchdogs  BY CallsAreNoWatchdogs
<1>2. CASE MayTake(record, Of[c], FALSE)
  <2>1. record.state # "none" /\ ~(record.state = "live" /\ owner_alive(record))
    BY <1>2, MayTakeMeans
  <2> DEFINE then == IF op = "open" THEN "look" ELSE "idle"
  <2>2. TakeFor(c, then) /\ At(c, "idle") /\ up[Of[c]] = "up"  BY <1>2 DEF Reap
  <2>3. then \in {"idle", "look", "launch"}  OBVIOUS
  <2> HIDE DEF then
  <2>4. QED  BY <1>1, <2>1, <2>2, <2>3, TakenInv
<1>3. CASE ~MayTake(record, Of[c], FALSE)
  <2> DEFINE v == [at |-> "look", then |-> IF op = "open" THEN "launch" ELSE "idle",
                   token |-> 0, browser |-> NoBrowser]
  <2>1. /\ task' = [task EXCEPT ![c] = v] /\ At(c, "idle") /\ up[Of[c]] = "up"
        /\ UNCHANGED <<record, tokens, up, table, running, fate>>
    BY <1>3 DEF Reap, With
  <2>2. v \in Tasks /\ Known(v.browser)
    BY ParkingAssumption DEF Tasks, Steps, Known
  <2>3. QuietTo(c, v)
    BY <1>1, <2>1, <2>2 DEF QuietTo, At
  <2> HIDE DEF v
  <2>4. QED  BY <1>1, <2>1, <2>3, QuietInv
<1>4. QED  BY <1>2, <1>3

\* retire_and_forget by force.
LEMMA TakeByForceInv ==
    ASSUME OneCallEach, ParkingInv, NEW c \in Calls, TakeByForce(c)
    PROVE  ParkingInv'
<1>1. c \in Actors /\ c \notin Watchdogs /\ up[Of[c]] = "up" /\ At(c, "force")
  BY CallsAreNoWatchdogs, Awake DEF TakeByForce, At
<1>2. task[c].then \in {"idle", "look", "launch"}
  BY <1>1, GoesOn DEF Steps
<1>3. CASE MayTake(record, Of[c], TRUE)
  <2>1. record.state # "none" /\ ~LiveElsewhere(record, Of[c])
    BY <1>3, MayTakeMeans
  <2>2. TakeFor(c, task[c].then)  BY <1>3 DEF TakeByForce
  <2>3. record.state = "live" /\ owner_alive(record) => record.owner = Of[c]
    BY <2>1 DEF LiveElsewhere
  <2>4. QED  BY <1>1, <1>2, <2>1, <2>2, <2>3, TakenInv
<1>4. CASE ~MayTake(record, Of[c], TRUE)
  <2>1. /\ task' = [task EXCEPT ![c] = Becomes(c, task[c].then)]
        /\ UNCHANGED <<record, tokens, up, table, running, fate>>
    BY <1>4 DEF TakeByForce, Goto
  <2>2. QuietTo(c, Becomes(c, task[c].then))
    BY <1>1, <1>2, <2>1, GoesOn DEF QuietTo, Steps, At
  <2>3. QED  BY <1>1, <2>1, <2>2, QuietInv
<1>5. QED  BY <1>3, <1>4

\* retire stops the browser, or does not.
LEMMA RetireInv ==
    ASSUME OneCallEach, ParkingInv, NEW a \in Actors, Retire(a)
    PROVE  ParkingInv'
<1> DEFINE v == [at |-> IF At(a, "retire") THEN "forget" ELSE "drop", then |-> task[a].then,
                 token |-> 0, browser |-> NoBrowser]
<1>1. /\ task' = [task EXCEPT ![a] = v] /\ running' \subseteq running
      /\ UNCHANGED <<record, tokens, up, table, fate>>
  BY DEF Retire, With
<1>2. At(a, "retire") \/ At(a, "finish")  BY DEF Retire
<1>3. a \in Watchdogs => At(a, "retire") /\ task[a].then = "idle"
  BY <1>2 DEF ParkingInv, TasksSane, At
<1>4. a \in Calls => a \notin Watchdogs /\ up[Of[a]] = "up"
  BY <1>2, Awake, CallsAreNoWatchdogs DEF At
<1>5. v \in Tasks /\ Known(v.browser)
  BY GoesOn, ParkingAssumption DEF Tasks, Steps, Known
<1>6. QuietTo(a, v)
  BY <1>1, <1>2, <1>3, <1>4, <1>5 DEF QuietTo, At
<1> HIDE DEF v
<1>7. QED  BY <1>1, <1>6, QuietInv

\* forget and _finish drop the record, if it is still theirs to drop.
LEMMA ForgetInv ==
    ASSUME OneCallEach, ParkingInv, NEW a \in Actors, Forget(a)
    PROVE  ParkingInv'
<1> DEFINE v == IF task[a].then = "look"
                THEN [at |-> "look", then |-> "launch", token |-> 0, browser |-> NoBrowser]
                ELSE Becomes(a, task[a].then)
<1>1. task' = [task EXCEPT ![a] = v] /\ UNCHANGED <<tokens, up, table, running>>
  BY DEF Forget, AfterRetiring, With, Goto
<1>2. At(a, "forget") \/ At(a, "drop")  BY DEF Forget
<1>3. a \in Watchdogs => At(a, "forget") /\ task[a].then = "idle"
  BY <1>2 DEF ParkingInv, TasksSane, At
<1>4. a \in Calls => a \notin Watchdogs /\ up[Of[a]] = "up"
  BY <1>2, Awake, CallsAreNoWatchdogs DEF At
<1>5. /\ v \in Tasks /\ Known(v.browser) /\ v.at \in {"idle", "look", "launch"}
      /\ v.at = "idle" => v = Idle
      /\ a \in Watchdogs => v.at = "idle" /\ v.then = "idle"
  <2>1. task[a].then \in {"idle", "look", "launch"} /\ task[a].then \in Steps
    BY GoesOn DEF Steps
  <2>2. CASE task[a].then = "look"
    BY <1>3, <2>2, ParkingAssumption DEF Tasks, Steps, Known
  <2>3. CASE task[a].then # "look"
    BY <1>3, <2>1, <2>3, GoesOn
  <2>4. QED  BY <2>2, <2>3
<1>6. QuietTo(a, v)
  BY <1>1, <1>2, <1>3, <1>4, <1>5 DEF QuietTo, At
<1> HIDE DEF v
<1>7. CASE record' = NoRecord /\ fate' = Lost({record.browser})
  BY <1>1, <1>2, <1>5, <1>6, <1>7, DroppedInv
<1>8. CASE record' = record /\ fate' = fate
  BY <1>1, <1>6, <1>8, QuietInv
<1>9. At(a, "forget") /\ record.token = a => fate = Lost({record.browser})
  BY DEF ParkingInv, ParkingTypes, Forgetting, RecordSane, Lost, At, Fates
<1>10. QED
  BY <1>2, <1>7, <1>8, <1>9 DEF Forget, At

\* A call that just goes on.
LEMMA QuietGoto ==
    ASSUME OneCallEach, ParkingInv, NEW c \in Calls, task[c].at \notin {"idle", "parkWrite"},
           NEW at \in {"idle", "look", "launch", "record", "clean", "force", "giveBack"},
           Goto(c, at), at = "force" => Mine(c) = NoBrowser,
           at = "giveBack" => At(c, "register"),
           At(c, "record") \/ At(c, "write") =>
               Mine(c) = NoBrowser \/ record.owner # Of[c] \/ record.browser = Mine(c),
           running' \subseteq running, UNCHANGED <<record, tokens, up, table, fate>>
    PROVE  ParkingInv'
<1>1. c \in Actors /\ c \notin Watchdogs /\ up[Of[c]] = "up" /\ at \in Steps
  BY CallsAreNoWatchdogs, Awake DEF Steps
<1>2. task' = [task EXCEPT ![c] = Becomes(c, at)]  BY DEF Goto
<1>3. at = "giveBack" => Becomes(c, at) = [task[c] EXCEPT !.at = "giveBack"]
  BY DEF Becomes
<1>4. QuietTo(c, Becomes(c, at))
  BY <1>1, <1>2, <1>3, GoesOn DEF QuietTo
<1>5. QED  BY <1>1, <1>2, <1>4, QuietInv

\* adopt looks at the record.
LEMMA LookInv ==
    ASSUME OneCallEach, ParkingInv, NEW c \in Calls, Look(c)
    PROVE  ParkingInv'
<1>1. At(c, "look") /\ UNCHANGED <<record, tokens, up, table, running, fate>>
  BY DEF Look
<1>2. task[c].then \in {"idle", "look", "launch"}
  BY GoesOn, CallsAreNoWatchdogs DEF Steps
<1>3. CASE Goto(c, task[c].then) \/ Goto(c, "idle")
  BY <1>1, <1>2, <1>3, QuietGoto DEF At
<1>4. CASE Mine(c) = NoBrowser /\ Goto(c, "force")
  BY <1>1, <1>4, QuietGoto DEF At
<1>5. CASE /\ Mine(c) = NoBrowser /\ record # NoRecord
           /\ ~RetiredBySomeone(record) /\ ~LiveElsewhere(record, Of[c])
           /\ With(c, "claim", task[c].then, record.token, record.browser)
  BY <1>1, <1>5, LookClaims
<1>6. QED  BY <1>3, <1>4, <1>5 DEF Look

\* adopt claims it, or finds it changed.
LEMMA AdoptInv ==
    ASSUME OneCallEach, ParkingInv, NEW c \in Calls, Adopt(c)
    PROVE  ParkingInv'
<1>1. At(c, "claim") /\ UNCHANGED <<up, table, running, fate>>
  BY DEF Adopt
<1>2. CASE record.token = task[c].token /\ record.state \in {"parked", "live"} /\ Claimed(c)
  BY <1>1, <1>2, AdoptClaims
<1>3. CASE Goto(c, task[c].then) /\ UNCHANGED <<record, tokens>>
  <2>1. task[c].then \in {"idle", "look", "launch"}
    BY GoesOn, CallsAreNoWatchdogs DEF Steps
  <2>2. QED  BY <1>1, <1>3, <2>1, QuietGoto DEF At
<1>4. QED  BY <1>2, <1>3 DEF Adopt

\* _register takes the browser into the table, or refuses.
LEMMA RegisterInv ==
    ASSUME OneCallEach, ParkingInv, NEW c \in Calls, Register(c)
    PROVE  ParkingInv'
<1>1. At(c, "register") /\ UNCHANGED <<record, tokens, up, running, fate>>
  BY DEF Register
<1>2. Mine(c) = NoBrowser
  BY <1>1 DEF ParkingInv, Empty, At
<1>3. CASE (Goto(c, "giveBack") \/ Goto(c, "force")) /\ UNCHANGED table
  BY <1>1, <1>2, <1>3, QuietGoto DEF At
<1>4. CASE /\ table' = [table EXCEPT ![Of[c]] = task[c].browser]
           /\ Watched(c, task[c].then, task[c].token)
  BY <1>1, <1>2, <1>4, RegisterTakes
<1>5. QED  BY <1>3, <1>4 DEF Register

\* open_page launches a browser, finds the one it has, or fails.
LEMMA LaunchInv ==
    ASSUME OneCallEach, ParkingInv, NEW c \in Calls, Launch(c)
    PROVE  ParkingInv'
<1>1. At(c, "launch") /\ UNCHANGED <<record, tokens, up>>
  BY DEF Launch
<1>2. ASSUME NEW b \in Browsers, Mine(c) = NoBrowser, fate[b] = "new",
             table' = [table EXCEPT ![Of[c]] = b], running' = running \cup {b},
             fate' = [fate EXCEPT ![b] = "launched"], Goto(c, "record")
      PROVE  ParkingInv'
  BY <1>1, <1>2, LaunchNew
<1>3. CASE Goto(c, "record") /\ UNCHANGED <<table, running, fate>>
  BY <1>1, <1>3, QuietGoto DEF At
<1>4. CASE /\ table' = [table EXCEPT ![Of[c]] = NoBrowser]
           /\ running' = running \ {Mine(c)} /\ fate' = Lost({Mine(c)})
           /\ Goto(c, "clean")
  BY <1>1, <1>4, LaunchFails
<1>5. QED  BY <1>2, <1>3, <1>4 DEF Launch

\* record_live reads the record.
LEMMA RecordLiveInv ==
    ASSUME OneCallEach, ParkingInv, NEW c \in Calls, RecordLive(c)
    PROVE  ParkingInv'
<1>1. At(c, "record") /\ UNCHANGED <<record, tokens, up, table, running, fate>>
  BY DEF RecordLive
<1> DEFINE ours == record.owner = Of[c] /\ record.state = "live" /\ record.browser = Mine(c)
<1>2. CASE Mine(c) = NoBrowser \/ ours \/ held_elsewhere(record, Of[c])
  <2>1. Goto(c, "idle")  BY <1>2 DEF RecordLive
  <2>2. Mine(c) = NoBrowser \/ record.owner # Of[c] \/ record.browser = Mine(c)
    BY <1>2 DEF held_elsewhere
  <2>3. QED  BY <1>1, <2>1, <2>2, QuietGoto DEF At
<1>3. CASE ~(Mine(c) = NoBrowser \/ ours \/ held_elsewhere(record, Of[c]))
  BY <1>1, <1>3, RecordWrites DEF RecordLive
<1>4. QED  BY <1>2, <1>3

\* After a close or a failed open, _finish has the record or leaves it.
LEMMA CleanInv ==
    ASSUME OneCallEach, ParkingInv, NEW c \in Calls, Clean(c)
    PROVE  ParkingInv'
<1>1. At(c, "clean") /\ UNCHANGED <<record, tokens, up, table, running>>
  BY DEF Clean
<1>2. CASE record.owner = Of[c] /\ Mine(c) = NoBrowser
  BY <1>1, <1>2, CleanFinishes DEF Clean
<1>3. CASE ~(record.owner = Of[c] /\ Mine(c) = NoBrowser)
  BY <1>1, <1>3, QuietGoto DEF Clean, At
<1>4. QED  BY <1>2, <1>3

\* _park_at_exit parks or closes.
LEMMA ExitInv ==
    ASSUME OneCallEach, ParkingInv, NEW c \in Calls, Exit(c)
    PROVE  ParkingInv'
BY ExitParks, ExitCloses DEF Exit

\* A watchdog finds that its token is no longer on record.
LEMMA WatchOverInv ==
    ASSUME OneCallEach, ParkingInv, NEW t \in Watchdogs, WatchOver(t)
    PROVE  ParkingInv'
<1>1. /\ task' = [task EXCEPT ![t] = Becomes(t, "idle")] /\ At(t, "poll")
      /\ UNCHANGED <<record, tokens, up, table, running, fate>>
  BY DEF WatchOver, Look1, Goto
<1>2. t \in Actors /\ t \notin Calls  BY CallsAreNoWatchdogs
<1>3. QuietTo(t, Becomes(t, "idle"))
  BY <1>1, <1>2, GoesOn DEF QuietTo, Steps
<1>4. QED  BY <1>1, <1>2, <1>3, QuietInv

\* A watchdog claims the record of its token to retire it.
LEMMA WatchdogRetiresInv ==
    ASSUME OneCallEach, ParkingInv, NEW t \in Watchdogs, WatchdogRetires(t)
    PROVE  ParkingInv'
<1>1. t \in Actors /\ t \notin Calls  BY CallsAreNoWatchdogs
<1>2. /\ At(t, "poll") /\ record.token = t /\ TakeFor(t, "idle")
      /\ MayTake(record, Nobody, FALSE)
  BY DEF WatchdogRetires
<1>3. record.state # "none" /\ ~(record.state = "live" /\ owner_alive(record))
  BY <1>2, MayTakeMeans
<1>4. QED  BY <1>1, <1>2, <1>3, TakenInv

-----------------------------------------------------------------------------
\* Nobody is at work but perhaps one watchdog, over a record that a server left.
LEMMA InitInv == ParkingInit => ParkingInv
<1> SUFFICES ASSUME ParkingInit PROVE ParkingInv
  OBVIOUS
<1> DEFINE b == CHOOSE x \in Browsers : TRUE
<1>1. b \in Browsers  BY ParkingAssumption
<1> HIDE DEF b
<1>2. /\ up = [s \in Servers |-> "up"] /\ table = [s \in Servers |-> NoBrowser]
      /\ \/ /\ record = NoRecord /\ tokens = 0 /\ running = {}
            /\ task = [a \in Actors |-> Idle] /\ fate = [x \in Browsers |-> "new"]
         \/ /\ record = [state |-> "parked", token |-> 1, owner |-> Nobody, browser |-> b,
                          fresh |-> TRUE, stale |-> FALSE]
            /\ tokens = 1 /\ running = {b}
            /\ task = [a \in Actors |-> IF a = 1 THEN Polling ELSE Idle]
            /\ fate = [x \in Browsers |-> IF x = b THEN "recorded" ELSE "new"]
  BY DEF ParkingInit, NoRecord, b
<1>3. 1 \in 0..MaxToken /\ 0 \in 0..MaxToken /\ 1 \notin Calls  BY ParkingAssumption
<1>4. Idle \in Tasks /\ Polling \in Tasks
  BY ParkingAssumption DEF Idle, Polling, Tasks, Steps
<1>5. ParkingTypes
  <2>1. record \in Records
    <3>1. NoRecord \in Records  BY <1>3 DEF NoRecord, Records
    <3>2. [state |-> "parked", token |-> 1, owner |-> Nobody, browser |-> b,
           fresh |-> TRUE, stale |-> FALSE] \in Records
      BY <1>1, <1>3 DEF Records
    <3>3. QED  BY <1>2, <3>1, <3>2
  <2>2. task \in [Actors -> Tasks] /\ fate \in [Browsers -> Fates]
    BY <1>2, <1>4 DEF Fates
  <2>3. QED  BY <1>1, <1>2, <1>3, <2>1, <2>2 DEF ParkingTypes
<1>6. /\ \A c \in Calls : task[c] = Idle
      /\ \A t \in Watchdogs : task[t] = Idle \/ (t = 1 /\ tokens = 1 /\ task[t] = Polling)
      /\ \A s \in Servers, x \in Browsers : ~Holds(s, x)
  BY <1>2, <1>3, ParkingAssumption DEF Actors, Watchdogs, Holds, At, Idle
<1>7. Idle.at = "idle" /\ Idle.browser = NoBrowser /\ Idle.then = "idle"
  BY DEF Idle
<1>8. Polling.at = "poll" /\ Polling.browser = NoBrowser /\ Polling.then = "idle"
  BY DEF Polling, Idle
<1>9. \A a \in Actors : task[a].browser = NoBrowser /\ task[a].at \in {"idle", "poll"}
  BY <1>6, <1>7, <1>8 DEF Actors
<1>10. RecordSane
  BY <1>1, <1>2, <1>3, ParkingAssumption DEF RecordSane, NoRecord, Numbered
<1>11. TasksSane
  BY <1>6, <1>7, <1>8, <1>9 DEF TasksSane, At, Actors
<1>12. AllKnown
  BY <1>1, <1>2, <1>9 DEF AllKnown, Known, NoRecord
<1>13. Ends
  BY <1>2, <1>6, <1>7, ParkingAssumption DEF Ends, At
<1>14. /\ Empty /\ Held /\ Claiming /\ Writing /\ Adopting /\ Parking /\ OwnTokens /\ Retiring
       /\ OneHolder
  BY <1>6, <1>7, <1>9 DEF Empty, Held, Claiming, Writing, Adopting, Parking, OwnTokens,
                          Retiring, OneHolder, At
<1>15. OnRecord
  BY <1>2, <1>3, ParkingAssumption DEF OnRecord, NoRecord
<1>16. Forgetting
  BY <1>9 DEF Forgetting
<1>17. KeptOnRecord
  BY <1>2 DEF KeptOnRecord
<1>18. QED
  BY <1>5, <1>10, <1>11, <1>12, <1>13, <1>14, <1>15, <1>16, <1>17 DEF ParkingInv

\* The invariant is inductive.
LEMMA NextInv ==
    ASSUME OneCallEach, ParkingInv, [ParkingNext]_parkingVars
    PROVE  ParkingInv'
<1>1. ASSUME NEW c \in Calls, CallStep(c) PROVE ParkingInv'
  BY <1>1, CallsAreNoWatchdogs, ReapInv, TakeByForceInv, RetireInv, ForgetInv, LookInv,
     AdoptInv, RegisterInv, GiveBackInv, LaunchInv, RecordLiveInv, WriteLiveInv, CleanInv,
     CloseInv, ExitInv, ParkWriteInv DEF CallStep
<1>2. ASSUME NEW t \in Watchdogs, WatchdogStep(t) PROVE ParkingInv'
  BY <1>2, CallsAreNoWatchdogs, WatchOverInv, ParkForTheDeadInv, WatchdogRetiresInv, RetireInv,
     ForgetInv DEF WatchdogStep
<1>3. ASSUME NEW s \in Servers, SweptAway(s) \/ Crash(s) PROVE ParkingInv'
  BY <1>3, SweptAwayInv, CrashInv
<1>4. ASSUME NEW b \in Browsers, BrowserDies(b) PROVE ParkingInv'
  BY <1>4, BrowserDiesInv
<1>5. CASE TtlRunsOut \/ RetirementDrags
  BY <1>5, TtlRunsOutInv, RetirementDragsInv
<1>6. CASE UNCHANGED parkingVars
  BY <1>6 DEF parkingVars, ParkingInv, ParkingTypes, RecordSane, TasksSane, AllKnown, Known, Ends,
              Empty, Held, Claiming, Writing, Adopting, Parking, OwnTokens, OnRecord, Retiring,
              Forgetting, OneHolder, KeptOnRecord, Holds, At, Mine, Numbered, OursStill,
              owner_alive, ServerOf
<1>7. QED  BY <1>1, <1>2, <1>3, <1>4, <1>5, <1>6 DEF ParkingNext

\* In every state of the parked browsers the inductive invariant holds.
THEOREM ParkingInvariant ==
    ASSUME OneCallEach
    PROVE  ParkingSpec => []ParkingInv
<1>1. ParkingInit => ParkingInv  BY InitInv
<1>2. ParkingInv /\ [ParkingNext]_parkingVars => ParkingInv'  BY NextInv
<1>3. QED  BY <1>1, <1>2, PTL DEF ParkingSpec

\* A persisted browser is never driven by two servers.
THEOREM OneHolderAlways ==
    ASSUME OneCallEach
    PROVE  ParkingSpec => []OneHolder
<1>1. ParkingInv => OneHolder  BY DEF ParkingInv
<1>2. QED  BY <1>1, ParkingInvariant, PTL

\* A retirement that has its browser still to stop is never about one that another
\* server drives: what _watch_once, reap_expired and _finish go on to stop was
\* claimed, and a claim is refused while somebody holds the browser.
THEOREM HeldNeverRetired ==
    ASSUME OneCallEach
    PROVE  ParkingSpec => []HeldIsNotRetired
<1>1. ParkingInv => HeldIsNotRetired
  BY DEF ParkingInv, ParkingTypes, TasksSane, Retiring, HeldIsNotRetired, Tasks
<1>2. QED  BY <1>1, ParkingInvariant, PTL

\* A running browser that was recorded stays the one on record until it is claimed
\* for retirement, or a write or a drop of the registry that names no token.
THEOREM AlwaysOnRecord ==
    ASSUME OneCallEach
    PROVE  ParkingSpec => []KeptOnRecord
<1>1. ParkingInv => KeptOnRecord  BY DEF ParkingInv
<1>2. QED  BY <1>1, ParkingInvariant, PTL
=============================================================================
