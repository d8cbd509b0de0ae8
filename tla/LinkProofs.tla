------------------------------ MODULE LinkProofs ------------------------------
(***************************************************************************)
(* Theorems about the companion's connection to the daemon, for any number *)
(* of sockets, connect() calls and disturbances; and about the daemon's    *)
(* broadcasts, for any number of companions and clients and any room on    *)
(* the wires.                                                              *)
(***************************************************************************)
EXTENDS CompanionLink, StateBroadcast, SequenceTheorems, TLAPS

-----------------------------------------------------------------------------
(* The connection of the companion. *)

LinkStates == {"free", "opening", "open", "answered", "accepted", "acked", "closing", "gone"}

\* The shape of the companion's state: its flags, and all the rest.
Flags ==
    {on, ahead, alarm, beat, enabled, connecting, verified, timer, minted, beating}
        \subseteq BOOLEAN
Data ==
    /\ boot \in {"dead", "booting", "resuming", "done"}
    /\ startup \in {"due", "asked", "minting", "done"}
    /\ shelf \in 0..2 /\ toggling \in Nat
    /\ calls \in [ask : Nat, read : Nat] /\ hashing \in [RunIds -> Nat]
    /\ socket \in Sockets \cup {NoSocket} /\ link \in [Sockets -> LinkStates]
LinkTypes == Flags /\ Data

\* The id of a browser run is drawn once more at most: the start of the browser is
\* heard of once, and an id that this worker drew itself is not replaced.
RunsFit == startup \in {"due", "asked"} /\ ~minted => shelf # 2

\* A worker that has not loaded the switch has made nothing yet.
Asleep ==
    ~Loaded => /\ socket = NoSocket /\ ~verified /\ ~connecting /\ toggling = 0
               /\ PastAsking = 0

\* `connecting` is up only while a call is past its first await.
AttemptUnderWay == connecting => PastAsking > 0

\* The inductive invariant of the companion's connection.
LinkInv ==
    /\ LinkTypes /\ RunsFit /\ Asleep /\ AttemptUnderWay
    /\ VerifiedIsCurrent /\ QuietWhenOff /\ ChainUnbroken

\* Only a socket that is free is taken for a new connection.
LEMMA UnusedSockets == Unused \subseteq Sockets /\ \A s \in Unused : link[s] = "free"
BY DEF Unused

\* The shape of `calls`.
CallTypes == [ask : Nat, read : Nat]
\* What the shared pieces of the handlers leave in the calls and in the flags.
LEMMA StartConnectData ==
    ASSUME Data, StartConnect
    PROVE  calls' \in CallTypes
BY DEF Data, StartConnect, CallTypes

LEMMA ConnectNowData ==
    ASSUME Data, ConnectNow
    PROVE  calls' \in CallTypes
BY StartConnectData DEF Data, ConnectNow, CallTypes

LEMMA ConnectNowFlags ==
    ASSUME Flags, ConnectNow
    PROVE  {timer', alarm', ahead'} \subseteq BOOLEAN
BY Zenon DEF Flags, ConnectNow, StartConnect, ClearReconnect

\* The states of the worker, its calls, sockets and the browser run keep their shape.
LEMMA DataStep == Data /\ RunsFit /\ [LinkNext]_linkVars => Data'
<1> SUFFICES ASSUME Data, RunsFit, LinkNext PROVE Data'
  BY DEF Data, linkVars
<1>1. CASE Ask
  BY <1>1 DEF Ask, kept, alarms, outside, Live, Held, Shaking, LinkStates, Data
<1>2. CASE Read
  BY <1>2 DEF Read, alarms, outside, Mint, OldRun, LinkStates, RunsFit, RunIds, Data
<1>3. ASSUME NEW r \in RunIds, Open(r) PROVE Data'
  BY <1>3, UnusedSockets DEF Open, kept, alarms, LinkStates, RunIds, Data
<1>4. ASSUME NEW r \in RunIds, Broken(r) PROVE Data'
  BY <1>4 DEF Broken, CallTypes, ScheduleReconnect, kept, outside, LinkStates, RunIds, Data
<1>5. ASSUME NEW s \in Sockets, Opened(s) PROVE Data'
    BY <1>5 DEF Opened, Ended, Becomes, Inside, Lines, Released, kept, alarms, work,
     LinkStates, Data
<1>6. ASSUME NEW s \in Sockets, Answer(s) PROVE Data'
    BY <1>6 DEF Answer, Ended, Becomes, Inside, Lines, Released, kept, alarms, work,
     LinkStates, Data
<1>7. ASSUME NEW s \in Sockets, Accept(s) PROVE Data'
  BY <1>7 DEF Accept, Lines, Inside, kept, alarms, work, LinkStates, Data
<1>8. ASSUME NEW s \in Sockets, Replaced(s) PROVE Data'
    BY <1>8 DEF Replaced, Ended, Becomes, Inside, Held, Lines, Released, kept, alarms,
     work, LinkStates, Data
<1>9. ASSUME NEW s \in Sockets, Ack(s) PROVE Data'
  BY <1>9 DEF Ack, ClearReconnect, Becomes, kept, work, Lines, LinkStates, Data
<1>10. ASSUME NEW s \in Sockets, CommandTooEarly(s) PROVE Data'
    BY <1>10 DEF CommandTooEarly, Ended, Becomes, Inside, Held, Lines, Released, kept,
     alarms, work, LinkStates, Data
<1>11. ASSUME NEW s \in Sockets, Refuse(s) PROVE Data'
    BY <1>11 DEF Refuse, Ended, Becomes, Inside, Lines, Released, kept, alarms, work,
     LinkStates, Data
<1>12. ASSUME NEW s \in Sockets, OnClose(s) PROVE Data'
    BY <1>12 DEF OnClose, CallTypes, ScheduleReconnect, Released, Becomes, kept, Lines,
     LinkStates, Data
<1>13. ASSUME NEW s \in Sockets, Clears(s) PROVE Data'
  BY <1>13 DEF Clears, Becomes, Inside, Lines, kept, alarms, work, LinkStates, Data
<1>14. CASE Down
    BY <1>14 DEF Down, Lines, Inside, Live, kept, alarms, work, Held, Shaking, LinkStates,
     Data
<1>15. CASE Up
  BY <1>15 DEF Up, Inside, kept, alarms, work, LinkStates, Data
<1>16. CASE Load
  BY <1>16 DEF Load, kept, work, outside, LinkStates, Data
<1>17. CASE Resume
    BY <1>17, StartConnectData DEF Resume, CallTypes, ScheduleReconnect, kept, outside,
     LinkStates, Data
<1>18. CASE Evict
  BY <1>18 DEF Evict, Released, Lines, work, LinkStates, Data
<1>19. CASE Wake
  BY <1>19 DEF Wake, kept, alarms, work, outside, LinkStates, Data
<1>20. CASE OnAlarm
  BY <1>20, StartConnectData DEF OnAlarm, CallTypes, kept, outside, LinkStates, Data
<1>21. CASE OnTimer
  BY <1>21, StartConnectData DEF OnTimer, CallTypes, kept, outside, LinkStates, Data
<1>22. CASE WaitOver
  BY <1>22 DEF WaitOver, kept, work, outside, LinkStates, Data
<1>23. CASE Beat
  BY <1>23 DEF Beat, kept, alarms, outside, LinkStates, Data
<1>24. CASE Heartbeat
  BY <1>24, StartConnectData DEF Heartbeat, CallTypes, kept, outside, LinkStates, Data
<1>25. CASE Toggle
  BY <1>25 DEF Toggle, alarms, outside, LinkStates, Data
<1>26. CASE Toggled
    BY <1>26, ConnectNowData DEF Toggled, CallTypes, ClearReconnect, HangUp, Lines, kept,
     Released, LinkStates, Data
<1>27. CASE Reconnect
    BY <1>27, StartConnectData DEF Reconnect, CallTypes, HangUp, Lines, kept, Released,
     LinkStates, Data
<1>28. CASE Click
  BY <1>28, ConnectNowData DEF Click, CallTypes, kept, outside, LinkStates, Data
<1>29. CASE OnStartup
  BY <1>29 DEF OnStartup, kept, outside, LinkStates, Data
<1>30. CASE StartBrowserRun
    BY <1>30, ConnectNowData DEF StartBrowserRun, CallTypes, outside, Mint, OldRun,
     LinkStates, RunsFit, Data
<1>31. CASE RunStored
    BY <1>31, ConnectNowData DEF RunStored, CallTypes, Lines, kept, Live, Held, Shaking,
     LinkStates, Data
<1> QED BY <1>1, <1>2, <1>3, <1>4, <1>5, <1>6, <1>7, <1>8, <1>9, <1>10, <1>11, <1>12,
   <1>13, <1>14, <1>15, <1>16, <1>17, <1>18, <1>19, <1>20, <1>21, <1>22, <1>23, <1>24,
   <1>25, <1>26, <1>27, <1>28, <1>29, <1>30, <1>31 DEF LinkNext, Own, Connecting, Network,
   Trouble, Alarms

\* So do the flags.
LEMMA FlagsStep == Flags /\ [LinkNext]_linkVars => Flags'
<1> SUFFICES ASSUME Flags, LinkNext PROVE Flags'
  BY DEF Flags, linkVars
<1>1. CASE Ask
  BY <1>1, Zenon DEF Ask, kept, alarms, outside, Flags
<1>2. CASE Read
  BY <1>2, ZenonT(30) DEF Read, alarms, outside, Flags
<1>3. ASSUME NEW r \in RunIds, Open(r) PROVE Flags'
  BY <1>3, Zenon DEF Open, kept, alarms, Flags
<1>4. ASSUME NEW r \in RunIds, Broken(r) PROVE Flags'
  BY <1>4, Zenon DEF Broken, ScheduleReconnect, kept, outside, Flags
<1>5. ASSUME NEW s \in Sockets, Opened(s) PROVE Flags'
  BY <1>5, Zenon DEF Opened, Inside, kept, alarms, work, Flags
<1>6. ASSUME NEW s \in Sockets, Answer(s) PROVE Flags'
  BY <1>6, Zenon DEF Answer, Inside, kept, alarms, work, Flags
<1>7. ASSUME NEW s \in Sockets, Accept(s) PROVE Flags'
  BY <1>7, Zenon DEF Accept, Inside, kept, alarms, work, Flags
<1>8. ASSUME NEW s \in Sockets, Replaced(s) PROVE Flags'
  BY <1>8, Zenon DEF Replaced, Inside, kept, alarms, work, Flags
<1>9. ASSUME NEW s \in Sockets, Ack(s) PROVE Flags'
  BY <1>9, Zenon DEF Ack, ClearReconnect, kept, work, Flags
<1>10. ASSUME NEW s \in Sockets, CommandTooEarly(s) PROVE Flags'
  BY <1>10, Zenon DEF CommandTooEarly, Inside, kept, alarms, work, Flags
<1>11. ASSUME NEW s \in Sockets, Refuse(s) PROVE Flags'
  BY <1>11, Zenon DEF Refuse, Inside, kept, alarms, work, Flags
<1>12. ASSUME NEW s \in Sockets, OnClose(s) PROVE Flags'
  BY <1>12, Zenon DEF OnClose, ScheduleReconnect, kept, Flags
<1>13. ASSUME NEW s \in Sockets, Clears(s) PROVE Flags'
  BY <1>13, Zenon DEF Clears, Inside, kept, alarms, work, Flags
<1>14. CASE Down
  BY <1>14, Zenon DEF Down, Inside, kept, alarms, work, Flags
<1>15. CASE Up
  BY <1>15, Zenon DEF Up, Inside, kept, alarms, work, Flags
<1>16. CASE Load
  BY <1>16, Zenon DEF Load, kept, work, outside, Flags
<1>17. CASE Resume
    BY <1>17, Zenon DEF Resume, StartConnect, ScheduleReconnect, ClearReconnect, kept,
     outside, Flags
<1>18. CASE Evict
  BY <1>18, Zenon DEF Evict, work, Flags
<1>19. CASE Wake
  BY <1>19, Zenon DEF Wake, kept, alarms, work, outside, Flags
<1>20. CASE OnAlarm
  BY <1>20, Zenon DEF OnAlarm, StartConnect, ClearReconnect, kept, outside, Flags
<1>21. CASE OnTimer
  BY <1>21, Zenon DEF OnTimer, StartConnect, ClearReconnect, kept, outside, Flags
<1>22. CASE WaitOver
  BY <1>22, Zenon DEF WaitOver, kept, work, outside, Flags
<1>23. CASE Beat
  BY <1>23, Zenon DEF Beat, kept, alarms, outside, Flags
<1>24. CASE Heartbeat
  BY <1>24, Zenon DEF Heartbeat, StartConnect, ClearReconnect, kept, outside, Flags
<1>25. CASE Toggle
  BY <1>25, Zenon DEF Toggle, alarms, outside, Flags
<1>26. CASE Toggled
  BY <1>26, ConnectNowFlags, Zenon DEF Toggled, ClearReconnect, kept, Flags
<1>27. CASE Reconnect
  BY <1>27, Zenon DEF Reconnect, StartConnect, ClearReconnect, kept, Flags
<1>28. CASE Click
  BY <1>28, ConnectNowFlags, Zenon DEF Click, kept, outside, Flags
<1>29. CASE OnStartup
  BY <1>29, Zenon DEF OnStartup, kept, outside, Flags
<1>30. CASE StartBrowserRun
  BY <1>30, ConnectNowFlags, Zenon DEF StartBrowserRun, outside, Flags
<1>31. CASE RunStored
  BY <1>31, ConnectNowFlags, Zenon DEF RunStored, kept, Flags
<1> QED BY <1>1, <1>2, <1>3, <1>4, <1>5, <1>6, <1>7, <1>8, <1>9, <1>10, <1>11, <1>12,
   <1>13, <1>14, <1>15, <1>16, <1>17, <1>18, <1>19, <1>20, <1>21, <1>22, <1>23, <1>24,
   <1>25, <1>26, <1>27, <1>28, <1>29, <1>30, <1>31 DEF LinkNext, Own, Connecting, Network,
   Trouble, Alarms

\* A browser run gets one id more at most.
LEMMA RunsFitStep == LinkTypes /\ RunsFit /\ [LinkNext]_linkVars => RunsFit'
<1> SUFFICES ASSUME LinkTypes, RunsFit, LinkNext PROVE RunsFit'
  BY DEF linkVars, RunsFit, Loaded, Pending, PastAsking
<1> USE DEF LinkTypes, Data, LinkStates, RunIds
<1>1. CASE Read
  BY <1>1 DEF Read, RunsFit, alarms, outside, Mint, OldRun
<1>2. CASE Evict
  BY <1>2 DEF Evict, RunsFit, Released, Lines, work, Pending, PastAsking
<1>3. CASE OnStartup
  BY <1>3 DEF OnStartup, RunsFit, kept, outside, Loaded
<1>4. CASE StartBrowserRun
    BY <1>4 DEF StartBrowserRun, RunsFit, ConnectNow, outside, Mint, StartConnect, OldRun,
     ClearReconnect, Pending, PastAsking
<1>5. CASE RunStored
    BY <1>5 DEF RunStored, RunsFit, ConnectNow, Lines, kept, Live, StartConnect, Held,
     Shaking, ClearReconnect, Pending, PastAsking
<1>6. CASE UNCHANGED <<startup, minted, shelf>>
  BY <1>6 DEF RunsFit
<1> QED
    BY <1>1, <1>2, <1>3, <1>4, <1>5, <1>6 DEF LinkNext, Own, Connecting, Network, Trouble,
     Alarms, Ask, Open, Broken, Opened, Answer, Accept, Replaced, Ack, CommandTooEarly,
     Refuse, OnClose, Clears, Down, Up, Load, Resume, Wake, OnAlarm, OnTimer, WaitOver,
     Beat, Heartbeat, Toggle, Toggled, Reconnect, Click, kept, alarms, work, outside,
     Inside

\* What is made is made by a worker that has loaded the switch.
LEMMA AsleepStep == LinkTypes /\ Asleep /\ [LinkNext]_linkVars => Asleep'
<1> SUFFICES ASSUME LinkTypes, Asleep, LinkNext PROVE Asleep'
  BY DEF linkVars, Asleep, Loaded, Pending, PastAsking
<1> USE DEF LinkTypes, Data, LinkStates, RunIds
<1>1. CASE Ask
  BY <1>1 DEF Ask, Asleep, kept, alarms, outside, Live, Loaded, PastAsking, Held, Shaking
<1>2. CASE Read
  BY <1>2 DEF Read, Asleep, alarms, outside, Mint, Loaded, PastAsking, OldRun
<1>3. ASSUME NEW r \in RunIds, Open(r) PROVE Asleep'
  BY <1>3, UnusedSockets, LinkAssumption DEF Open, Asleep, kept, alarms, Loaded, PastAsking
<1>4. ASSUME NEW r \in RunIds, Broken(r) PROVE Asleep'
  BY <1>4 DEF Broken, Asleep, ScheduleReconnect, kept, outside, Loaded, PastAsking
<1>5. ASSUME NEW s \in Sockets, Ack(s) PROVE Asleep'
    BY <1>5, LinkAssumption DEF Ack, Asleep, ClearReconnect, Becomes, kept, work, Loaded,
     PastAsking, Lines
<1>6. ASSUME NEW s \in Sockets, OnClose(s) PROVE Asleep'
    BY <1>6 DEF OnClose, Asleep, ScheduleReconnect, Released, Becomes, kept, Loaded,
     PastAsking, Lines
<1>7. CASE Load
  BY <1>7 DEF Load, Asleep, kept, work, outside, Loaded, PastAsking
<1>8. CASE Resume
    BY <1>8 DEF Resume, Asleep, StartConnect, ScheduleReconnect, kept, outside, Loaded,
     PastAsking, ClearReconnect, Pending
<1>9. CASE Evict
  BY <1>9 DEF Evict, Asleep, Released, Lines, work, Pending, Loaded, PastAsking
<1>10. CASE Wake
  BY <1>10 DEF Wake, Asleep, kept, alarms, work, outside, Loaded, PastAsking
<1>11. CASE OnAlarm
    BY <1>11 DEF OnAlarm, Asleep, StartConnect, kept, outside, Loaded, PastAsking,
     ClearReconnect, Pending
<1>12. CASE OnTimer
    BY <1>12 DEF OnTimer, Asleep, StartConnect, kept, outside, Loaded, PastAsking,
     ClearReconnect, Pending
<1>13. CASE Beat
  BY <1>13 DEF Beat, Asleep, kept, alarms, outside, Loaded, PastAsking
<1>14. CASE Heartbeat
    BY <1>14 DEF Heartbeat, Asleep, StartConnect, kept, outside, Loaded, PastAsking,
     ClearReconnect, Pending
<1>15. CASE Toggle
  BY <1>15 DEF Toggle, Asleep, alarms, outside, Loaded, PastAsking
<1>16. CASE Toggled
    BY <1>16 DEF Toggled, Asleep, ClearReconnect, ConnectNow, HangUp, Lines, kept, Loaded,
     PastAsking, StartConnect, Released, Pending
<1>17. CASE Reconnect
    BY <1>17 DEF Reconnect, Asleep, StartConnect, HangUp, Lines, kept, Loaded, PastAsking,
     ClearReconnect, Pending, Released
<1>18. CASE Click
    BY <1>18 DEF Click, Asleep, ConnectNow, kept, outside, Loaded, PastAsking,
     StartConnect, ClearReconnect, Pending
<1>19. CASE StartBrowserRun
    BY <1>19 DEF StartBrowserRun, Asleep, ConnectNow, outside, Mint, Loaded, PastAsking,
     StartConnect, OldRun, ClearReconnect, Pending
<1>20. CASE RunStored
    BY <1>20 DEF RunStored, Asleep, ConnectNow, Lines, kept, Live, Loaded, PastAsking,
     StartConnect, Held, Shaking, ClearReconnect, Pending
<1>21. CASE UNCHANGED <<boot, socket, verified, connecting, toggling, calls, hashing>>
  BY <1>21 DEF Asleep, Loaded, PastAsking
<1> QED
    BY <1>1, <1>2, <1>3, <1>4, <1>5, <1>6, <1>7, <1>8, <1>9, <1>10, <1>11, <1>12, <1>13,
     <1>14, <1>15, <1>16, <1>17, <1>18, <1>19, <1>20, <1>21 DEF LinkNext, Own, Connecting,
     Network, Trouble, Alarms, Opened, Answer, Accept, Replaced, CommandTooEarly, Refuse,
     Clears, Down, Up, WaitOver, OnStartup, kept, alarms, work, outside, Inside

\* A call that passes the test for another attempt goes on itself.
LEMMA AttemptUnderWayStep == LinkTypes /\ AttemptUnderWay /\ [LinkNext]_linkVars =>
   AttemptUnderWay'
<1> SUFFICES ASSUME LinkTypes, AttemptUnderWay, LinkNext PROVE AttemptUnderWay'
  BY DEF linkVars, AttemptUnderWay, Loaded, Pending, PastAsking
<1> USE DEF LinkTypes, Data, LinkStates, RunIds
<1>1. CASE Ask
  <2> DEFINE goes == enabled /\ ~connecting /\ (socket = NoSocket \/ ~Live(socket))
  <2>1. UNCHANGED hashing  BY <1>1 DEF Ask
  <2>2. CASE goes
    <3>1. calls'.read = calls.read + 1  BY <1>1, <2>2 DEF Ask
    <3>2. QED  BY <2>1, <3>1 DEF AttemptUnderWay, PastAsking
  <2>3. CASE ~goes
    <3>1. calls'.read = calls.read  BY <1>1, <2>3 DEF Ask
    <3>2. connecting' => connecting  BY <1>1, <2>3, Zenon DEF Ask
    <3>3. QED  BY <2>1, <3>1, <3>2 DEF AttemptUnderWay, PastAsking
  <2>4. QED  BY <2>2, <2>3
<1>2. CASE Read
  BY <1>2 DEF Read, AttemptUnderWay, alarms, outside, Mint, PastAsking, OldRun
<1>3. ASSUME NEW r \in RunIds, Open(r) PROVE AttemptUnderWay'
  BY <1>3, UnusedSockets, LinkAssumption DEF Open, AttemptUnderWay, kept, alarms, PastAsking
<1>4. ASSUME NEW r \in RunIds, Broken(r) PROVE AttemptUnderWay'
  BY <1>4 DEF Broken, AttemptUnderWay, ScheduleReconnect, kept, outside, PastAsking
<1>5. ASSUME NEW s \in Sockets, OnClose(s) PROVE AttemptUnderWay'
    BY <1>5 DEF OnClose, AttemptUnderWay, ScheduleReconnect, Released, Becomes, kept,
     PastAsking, Lines
<1>6. CASE Resume
    BY <1>6 DEF Resume, AttemptUnderWay, StartConnect, ScheduleReconnect, kept, outside,
     PastAsking, ClearReconnect, Pending
<1>7. CASE Evict
  BY <1>7 DEF Evict, AttemptUnderWay, Released, Lines, work, Pending, PastAsking
<1>8. CASE OnAlarm
    BY <1>8 DEF OnAlarm, AttemptUnderWay, StartConnect, kept, outside, PastAsking,
     ClearReconnect, Pending
<1>9. CASE OnTimer
    BY <1>9 DEF OnTimer, AttemptUnderWay, StartConnect, kept, outside, PastAsking,
     ClearReconnect, Pending
<1>10. CASE Heartbeat
    BY <1>10 DEF Heartbeat, AttemptUnderWay, StartConnect, kept, outside, Loaded,
     PastAsking, ClearReconnect, Pending
<1>11. CASE Toggled
    BY <1>11 DEF Toggled, AttemptUnderWay, ClearReconnect, ConnectNow, HangUp, Lines,
     kept, PastAsking, StartConnect, Released, Pending
<1>12. CASE Reconnect
    BY <1>12 DEF Reconnect, AttemptUnderWay, StartConnect, HangUp, Lines, kept, Loaded,
     PastAsking, ClearReconnect, Pending, Released
<1>13. CASE Click
    BY <1>13 DEF Click, AttemptUnderWay, ConnectNow, kept, outside, Loaded, PastAsking,
     StartConnect, ClearReconnect, Pending
<1>14. CASE StartBrowserRun
    BY <1>14 DEF StartBrowserRun, AttemptUnderWay, ConnectNow, outside, Mint, PastAsking,
     StartConnect, OldRun, ClearReconnect, Pending
<1>15. CASE RunStored
    BY <1>15 DEF RunStored, AttemptUnderWay, ConnectNow, Lines, kept, Live, PastAsking,
     StartConnect, Held, Shaking, ClearReconnect, Pending
<1>16. CASE UNCHANGED <<connecting, calls, hashing>>
  BY <1>16 DEF AttemptUnderWay, PastAsking
<1> QED
    BY <1>1, <1>2, <1>3, <1>4, <1>5, <1>6, <1>7, <1>8, <1>9, <1>10, <1>11, <1>12, <1>13,
     <1>14, <1>15, <1>16 DEF LinkNext, Own, Connecting, Network, Trouble, Alarms, Opened,
     Answer, Accept, Replaced, Ack, CommandTooEarly, Refuse, Clears, Down, Up, Load, Wake,
     WaitOver, Beat, Toggle, OnStartup, kept, alarms, work, outside, Inside

\* Only the acknowledgement of the current socket raises `verified`, and whatever
\* replaces or drops that socket lowers it.
LEMMA VerifiedIsCurrentStep == LinkTypes /\ VerifiedIsCurrent /\ [LinkNext]_linkVars =>
   VerifiedIsCurrent'
<1> SUFFICES ASSUME LinkTypes, VerifiedIsCurrent, LinkNext PROVE VerifiedIsCurrent'
  BY DEF linkVars, VerifiedIsCurrent, Loaded, Pending, PastAsking
<1> USE DEF LinkTypes, Data, LinkStates, RunIds
<1>1. ASSUME NEW r \in RunIds, Open(r) PROVE VerifiedIsCurrent'
  BY <1>1, UnusedSockets, LinkAssumption DEF Open, VerifiedIsCurrent, kept, alarms
<1>2. ASSUME NEW s \in Sockets, Opened(s) PROVE VerifiedIsCurrent'
    BY <1>2, LinkAssumption DEF Opened, VerifiedIsCurrent, Ended, Becomes, Inside,
     Released, Lines, kept, alarms, work
<1>3. ASSUME NEW s \in Sockets, Answer(s) PROVE VerifiedIsCurrent'
    BY <1>3, LinkAssumption DEF Answer, VerifiedIsCurrent, Ended, Becomes, Inside,
     Released, Lines, kept, alarms, work
<1>4. ASSUME NEW s \in Sockets, Accept(s) PROVE VerifiedIsCurrent'
  BY <1>4, LinkAssumption DEF Accept, VerifiedIsCurrent, Lines, Inside, kept, alarms, work
<1>5. ASSUME NEW s \in Sockets, Replaced(s) PROVE VerifiedIsCurrent'
    BY <1>5, LinkAssumption DEF Replaced, VerifiedIsCurrent, Ended, Becomes, Inside, Held,
     Released, Lines, kept, alarms, work
<1>6. ASSUME NEW s \in Sockets, Ack(s) PROVE VerifiedIsCurrent'
    BY <1>6, LinkAssumption DEF Ack, VerifiedIsCurrent, ClearReconnect, Becomes, kept,
     work, Lines
<1>7. ASSUME NEW s \in Sockets, CommandTooEarly(s) PROVE VerifiedIsCurrent'
    BY <1>7, LinkAssumption DEF CommandTooEarly, VerifiedIsCurrent, Ended, Becomes,
     Inside, Held, Released, Lines, kept, alarms, work
<1>8. ASSUME NEW s \in Sockets, Refuse(s) PROVE VerifiedIsCurrent'
    BY <1>8, LinkAssumption DEF Refuse, VerifiedIsCurrent, Ended, Becomes, Inside,
     Released, Lines, kept, alarms, work
<1>9. ASSUME NEW s \in Sockets, OnClose(s) PROVE VerifiedIsCurrent'
    BY <1>9, LinkAssumption DEF OnClose, VerifiedIsCurrent, ScheduleReconnect, Released,
     Becomes, kept, Lines
<1>10. ASSUME NEW s \in Sockets, Clears(s) PROVE VerifiedIsCurrent'
    BY <1>10, LinkAssumption DEF Clears, VerifiedIsCurrent, Becomes, Inside, Lines, kept,
     alarms, work
<1>11. CASE Down
    BY <1>11, LinkAssumption DEF Down, VerifiedIsCurrent, Lines, Inside, Live, kept,
     alarms, work, Held, Shaking
<1>12. CASE Evict
    BY <1>12, LinkAssumption DEF Evict, VerifiedIsCurrent, Released, Lines, work, Pending,
     PastAsking
<1>13. CASE Toggled
    BY <1>13, LinkAssumption DEF Toggled, VerifiedIsCurrent, ClearReconnect, ConnectNow,
     HangUp, Lines, kept, StartConnect, Released, Pending, PastAsking
<1>14. CASE Reconnect
    BY <1>14, LinkAssumption DEF Reconnect, VerifiedIsCurrent, StartConnect, HangUp,
     Lines, kept, Loaded, ClearReconnect, Pending, Released, PastAsking
<1>15. CASE RunStored
    BY <1>15, LinkAssumption DEF RunStored, VerifiedIsCurrent, ConnectNow, Lines, kept,
     Live, StartConnect, Held, Shaking, ClearReconnect, Pending, PastAsking
<1>16. CASE UNCHANGED <<verified, socket, link>>
  BY <1>16 DEF VerifiedIsCurrent
<1> QED
    BY <1>1, <1>2, <1>3, <1>4, <1>5, <1>6, <1>7, <1>8, <1>9, <1>10, <1>11, <1>12, <1>13,
     <1>14, <1>15, <1>16 DEF LinkNext, Own, Connecting, Network, Trouble, Alarms, Ask,
     Read, Broken, Up, Load, Resume, Wake, OnAlarm, OnTimer, WaitOver, Beat, Heartbeat,
     Toggle, Click, OnStartup, StartBrowserRun, kept, alarms, work, outside, Inside

\* The last setEnabled() under way decides; afterwards no call makes a socket.
LEMMA QuietWhenOffStep == LinkTypes /\ QuietWhenOff /\ Asleep /\ VerifiedIsCurrent /\
   [LinkNext]_linkVars => QuietWhenOff'
<1> SUFFICES ASSUME LinkTypes, QuietWhenOff, Asleep, VerifiedIsCurrent, LinkNext PROVE
   QuietWhenOff'
  BY DEF linkVars, QuietWhenOff, Loaded, Pending, PastAsking
<1> USE DEF LinkTypes, Data, LinkStates, RunIds
<1>1. ASSUME NEW r \in RunIds, Open(r) PROVE QuietWhenOff'
    BY <1>1, UnusedSockets, LinkAssumption DEF Open, QuietWhenOff, Asleep,
     VerifiedIsCurrent, kept, alarms, Loaded, PastAsking
<1>2. ASSUME NEW s \in Sockets, Ack(s) PROVE QuietWhenOff'
    BY <1>2, LinkAssumption DEF Ack, QuietWhenOff, Asleep, VerifiedIsCurrent,
     ClearReconnect, Becomes, kept, work, Loaded, PastAsking, Lines
<1>3. ASSUME NEW s \in Sockets, OnClose(s) PROVE QuietWhenOff'
    BY <1>3 DEF OnClose, QuietWhenOff, Asleep, VerifiedIsCurrent, ScheduleReconnect,
     Released, Becomes, kept, Loaded, PastAsking, Lines
<1>4. CASE Load
    BY <1>4 DEF Load, QuietWhenOff, Asleep, VerifiedIsCurrent, kept, work, outside,
     Loaded, PastAsking
<1>5. CASE Resume
    BY <1>5 DEF Resume, QuietWhenOff, Asleep, VerifiedIsCurrent, StartConnect,
     ScheduleReconnect, kept, outside, Loaded, PastAsking, ClearReconnect, Pending
<1>6. CASE Evict
    BY <1>6 DEF Evict, QuietWhenOff, Asleep, VerifiedIsCurrent, Released, Lines, work,
     Pending, Loaded, PastAsking
<1>7. CASE Wake
    BY <1>7 DEF Wake, QuietWhenOff, Asleep, VerifiedIsCurrent, kept, alarms, work,
     outside, Loaded, PastAsking
<1>8. CASE OnAlarm
    BY <1>8 DEF OnAlarm, QuietWhenOff, Asleep, VerifiedIsCurrent, StartConnect, kept,
     outside, Loaded, PastAsking, ClearReconnect, Pending
<1>9. CASE Beat
    BY <1>9 DEF Beat, QuietWhenOff, Asleep, VerifiedIsCurrent, kept, alarms, outside,
     Loaded, PastAsking
<1>10. CASE Toggle
    BY <1>10 DEF Toggle, QuietWhenOff, Asleep, VerifiedIsCurrent, alarms, outside, Loaded,
     PastAsking
<1>11. CASE Toggled
    BY <1>11 DEF Toggled, QuietWhenOff, Asleep, VerifiedIsCurrent, ClearReconnect,
     ConnectNow, HangUp, Lines, kept, Loaded, PastAsking, StartConnect, Released, Pending
<1>12. CASE Reconnect
    BY <1>12 DEF Reconnect, QuietWhenOff, Asleep, VerifiedIsCurrent, StartConnect, HangUp,
     Lines, kept, Loaded, PastAsking, ClearReconnect, Pending, Released
<1>13. CASE UNCHANGED <<boot, enabled, toggling, socket, verified>>
  BY <1>13 DEF QuietWhenOff, Loaded
<1> QED
    BY <1>1, <1>2, <1>3, <1>4, <1>5, <1>6, <1>7, <1>8, <1>9, <1>10, <1>11, <1>12, <1>13
     DEF LinkNext, Own, Connecting, Network, Trouble, Alarms, Ask, Read, Broken, Opened,
     Answer, Accept, Replaced, CommandTooEarly, Refuse, Clears, Down, Up, OnTimer,
     WaitOver, Heartbeat, Click, OnStartup, StartBrowserRun, RunStored, kept, alarms,
     work, outside, Inside

\* Whoever takes the last socket, timer or call away leaves another in its place.
LEMMA ChainUnbrokenStep == LinkTypes /\ ChainUnbroken /\ Asleep /\ AttemptUnderWay /\
   VerifiedIsCurrent /\ [LinkNext]_linkVars => ChainUnbroken'
<1> SUFFICES ASSUME LinkTypes, ChainUnbroken, Asleep, AttemptUnderWay, VerifiedIsCurrent,
   LinkNext PROVE ChainUnbroken'
  BY DEF linkVars, ChainUnbroken, Loaded, Pending, PastAsking
<1> USE DEF LinkTypes, Data, LinkStates, RunIds
<1>1. CASE Ask
    BY <1>1 DEF Ask, ChainUnbroken, Asleep, AttemptUnderWay, VerifiedIsCurrent, kept,
     alarms, outside, Live, Loaded, Pending, PastAsking, Held, Shaking
<1>2. CASE Read
    BY <1>2 DEF Read, ChainUnbroken, Asleep, AttemptUnderWay, VerifiedIsCurrent, alarms,
     outside, Mint, Pending, Loaded, PastAsking, OldRun
<1>3. ASSUME NEW r \in RunIds, Open(r) PROVE ChainUnbroken'
    BY <1>3, UnusedSockets, LinkAssumption DEF Open, ChainUnbroken, Asleep,
     AttemptUnderWay, VerifiedIsCurrent, kept, alarms, Pending, Loaded, PastAsking
<1>4. ASSUME NEW r \in RunIds, Broken(r) PROVE ChainUnbroken'
    BY <1>4 DEF Broken, ChainUnbroken, Asleep, AttemptUnderWay, VerifiedIsCurrent,
     ScheduleReconnect, kept, outside, Pending, Loaded, PastAsking
<1>5. ASSUME NEW s \in Sockets, Ack(s) PROVE ChainUnbroken'
    BY <1>5, LinkAssumption DEF Ack, ChainUnbroken, Asleep, AttemptUnderWay,
     VerifiedIsCurrent, ClearReconnect, Becomes, kept, work, Pending, Loaded, PastAsking,
     Lines
<1>6. ASSUME NEW s \in Sockets, OnClose(s) PROVE ChainUnbroken'
    BY <1>6 DEF OnClose, ChainUnbroken, Asleep, AttemptUnderWay, VerifiedIsCurrent,
     ScheduleReconnect, Released, Becomes, kept, Pending, Loaded, PastAsking, Lines
<1>7. CASE Load
    BY <1>7 DEF Load, ChainUnbroken, Asleep, AttemptUnderWay, VerifiedIsCurrent, kept,
     work, outside, Pending, Loaded, PastAsking
<1>8. CASE Resume
  <2>1. CASE ScheduleReconnect
    BY <2>1 DEF ScheduleReconnect, ChainUnbroken
  <2>2. CASE StartConnect
        BY <1>8, <2>2 DEF StartConnect, ClearReconnect, Resume, outside, Pending,
       PastAsking, ChainUnbroken
  <2>3. CASE ~enabled /\ ~enabled'
    BY <2>3 DEF ChainUnbroken
  <2>4. QED  BY <1>8, <2>1, <2>2, <2>3 DEF Resume
<1>9. CASE Evict
    BY <1>9 DEF Evict, ChainUnbroken, Asleep, AttemptUnderWay, VerifiedIsCurrent,
     Released, Lines, work, Pending, Loaded, PastAsking
<1>10. CASE Wake
    BY <1>10 DEF Wake, ChainUnbroken, Asleep, AttemptUnderWay, VerifiedIsCurrent, kept,
     alarms, work, outside, Pending, Loaded, PastAsking
<1>11. CASE OnAlarm
    BY <1>11 DEF OnAlarm, ChainUnbroken, Asleep, AttemptUnderWay, VerifiedIsCurrent,
     StartConnect, kept, outside, Pending, Loaded, PastAsking, ClearReconnect
<1>12. CASE OnTimer
    BY <1>12 DEF OnTimer, ChainUnbroken, Asleep, AttemptUnderWay, VerifiedIsCurrent,
     StartConnect, kept, outside, Pending, Loaded, PastAsking, ClearReconnect
<1>13. CASE Beat
    BY <1>13 DEF Beat, ChainUnbroken, Asleep, AttemptUnderWay, VerifiedIsCurrent, kept,
     alarms, outside, Pending, Loaded, PastAsking
<1>14. CASE Heartbeat
    BY <1>14 DEF Heartbeat, ChainUnbroken, Asleep, AttemptUnderWay, VerifiedIsCurrent,
     StartConnect, kept, outside, Loaded, Pending, PastAsking, ClearReconnect
<1>15. CASE Toggle
    BY <1>15 DEF Toggle, ChainUnbroken, Asleep, AttemptUnderWay, VerifiedIsCurrent,
     alarms, outside, Loaded, Pending, PastAsking
<1>16. CASE Toggled
    BY <1>16 DEF Toggled, ChainUnbroken, Asleep, AttemptUnderWay, VerifiedIsCurrent,
     ClearReconnect, ConnectNow, HangUp, Lines, kept, Pending, Loaded, PastAsking,
     StartConnect, Released
<1>17. CASE Reconnect
    BY <1>17 DEF Reconnect, ChainUnbroken, Asleep, AttemptUnderWay, VerifiedIsCurrent,
     StartConnect, HangUp, Lines, kept, Loaded, Pending, PastAsking, ClearReconnect,
     Released
<1>18. CASE Click
    BY <1>18 DEF Click, ChainUnbroken, Asleep, AttemptUnderWay, VerifiedIsCurrent,
     ConnectNow, kept, outside, Loaded, Pending, PastAsking, StartConnect, ClearReconnect
<1>19. CASE OnStartup
    BY <1>19 DEF OnStartup, ChainUnbroken, Asleep, AttemptUnderWay, VerifiedIsCurrent,
     kept, outside, Loaded, Pending, PastAsking
<1>20. CASE StartBrowserRun
    BY <1>20 DEF StartBrowserRun, ChainUnbroken, Asleep, AttemptUnderWay,
     VerifiedIsCurrent, ConnectNow, outside, Mint, Pending, Loaded, PastAsking,
     StartConnect, OldRun, ClearReconnect
<1>21. CASE RunStored
    BY <1>21 DEF RunStored, ChainUnbroken, Asleep, AttemptUnderWay, VerifiedIsCurrent,
     ConnectNow, Lines, kept, Live, Pending, Loaded, PastAsking, StartConnect, Held,
     Shaking, ClearReconnect
<1>22. CASE UNCHANGED <<boot, enabled, toggling, startup, socket, timer, alarm, calls,
   hashing>>
  BY <1>22 DEF ChainUnbroken, Pending, PastAsking
<1> QED
    BY <1>1, <1>2, <1>3, <1>4, <1>5, <1>6, <1>7, <1>8, <1>9, <1>10, <1>11, <1>12, <1>13,
     <1>14, <1>15, <1>16, <1>17, <1>18, <1>19, <1>20, <1>21, <1>22 DEF LinkNext, Own,
     Connecting, Network, Trouble, Alarms, Opened, Answer, Accept, Replaced,
     CommandTooEarly, Refuse, Clears, Down, Up, WaitOver, kept, alarms, work, outside,
     Inside

LEMMA LinkInvInit == LinkInit => LinkInv
<1> SUFFICES ASSUME LinkInit PROVE LinkInv
  OBVIOUS
<1>1. Flags  BY Zenon DEF LinkInit, Flags
<1>2. Data
  BY DEF LinkInit, Data, Fresh, NoneHashing, RunIds, LinkStates, OldRun
<1>3. RunsFit  BY DEF LinkInit, RunsFit, OldRun
<1>4. Asleep /\ AttemptUnderWay
  BY DEF LinkInit, Asleep, AttemptUnderWay, PastAsking, Fresh, NoneHashing, RunIds
<1>5. VerifiedIsCurrent /\ QuietWhenOff /\ ChainUnbroken
  BY DEF LinkInit, VerifiedIsCurrent, QuietWhenOff, ChainUnbroken, Loaded
<1>6. QED  BY <1>1, <1>2, <1>3, <1>4, <1>5 DEF LinkInv, LinkTypes

\* In every state of the companion its inductive invariant holds.
THEOREM LinkInvariant == LinkSpec => []LinkInv
<1>1. LinkInv /\ [LinkNext]_linkVars => LinkInv'
  BY DataStep, FlagsStep, RunsFitStep, AsleepStep, AttemptUnderWayStep,
     VerifiedIsCurrentStep, QuietWhenOffStep, ChainUnbrokenStep DEF LinkInv, LinkTypes
<1>2. QED  BY LinkInvInit, <1>1, PTL DEF LinkSpec

\* The one flag `verified` is up for the current socket alone, after its own ack.
THEOREM VerifiedAlwaysCurrent == LinkSpec => []VerifiedIsCurrent
<1>1. LinkInv => VerifiedIsCurrent  BY DEF LinkInv
<1>2. QED  BY LinkInvariant, <1>1, PTL

\* A companion that is paused has no socket and gets none, however many calls,
\* timers, alarms and heartbeats were under way.
THEOREM PausedStaysQuiet == LinkSpec => []QuietWhenOff
<1>1. LinkInv => QuietWhenOff  BY DEF LinkInv
<1>2. QED  BY LinkInvariant, <1>1, PTL

\* An enabled worker without a socket always has its next attempt set or under way.
THEOREM AttemptsGoOn == LinkSpec => []ChainUnbroken
<1>1. LinkInv => ChainUnbroken  BY DEF LinkInv
<1>2. QED  BY LinkInvariant, <1>1, PTL

-----------------------------------------------------------------------------
(* The broadcasts of the daemon. *)

LEMMA InitTypes == Init => TypeOK
  BY BroadcastAssumption DEF Init, TypeOK, Threads

\* What a change of the state does to the threads' bookkeeping.
LEMMA ChangeTypes ==
    ASSUME TypeOK, Change
    PROVE  TypeOK'
<1> USE BroadcastAssumption DEF TypeOK, Threads, Due, Changed, coreVars, castVars
<1>1. ASSUME NEW e \in Exts, Hello(e) PROVE TypeOK'  BY <1>1 DEF Hello
<1>2. ASSUME NEW e \in Exts, Drop(e) PROVE TypeOK'  BY <1>2 DEF Drop
<1>3. ASSUME NEW c \in Clients, Attach(c) PROVE TypeOK'  BY <1>3 DEF Attach
<1>4. ASSUME NEW c \in Clients, AskStatus(c) PROVE TypeOK'  BY <1>4 DEF AskStatus
<1>5. ASSUME NEW c \in Clients, ClaimChanges(c) PROVE TypeOK'  BY <1>5 DEF ClaimChanges
<1>6. ASSUME NEW c \in Clients, Leave(c) PROVE TypeOK'  BY <1>6 DEF Leave
<1>7. QED  BY <1>1, <1>2, <1>3, <1>4, <1>5, <1>6 DEF Change

LEMMA CastTypes ==
    ASSUME NEW h \in Threads, TypeOK, Cast(h)
    PROVE  TypeOK'
<1> USE BroadcastAssumption DEF TypeOK, Threads, coreVars, castVars
<1>1. Truth \in States
  BY DEF Truth, States
<1>2. CASE Snapshot(h)  BY <1>1, <1>2 DEF Snapshot
<1>3. CASE ListClients(h)  BY <1>3 DEF ListClients
<1>4. CASE Finish(h)  BY <1>4 DEF Finish
<1>5. ASSUME NEW c \in Clients, SendTo(h, c) PROVE TypeOK'
  <2>1. wire[c] \in Seq(States) /\ frame[h] \in States /\ Len(wire[c]) + 1 <= WireRoom
    BY <1>5 DEF SendTo
  <2>2. Append(wire[c], frame[h]) \in Seq(States) /\ Len(Append(wire[c], frame[h])) = Len(wire[c]) + 1
    BY <2>1
  <2>3. /\ wire' \in [Clients -> Seq(States)] /\ \A d \in Clients : Len(wire'[d]) <= WireRoom
    BY <1>5, <2>1, <2>2 DEF SendTo
  <2>4. QED  BY <1>5, <2>3 DEF SendTo
<1>6. QED  BY <1>2, <1>3, <1>4, <1>5 DEF Cast

LEMMA ApplyTypes ==
    ASSUME NEW c \in Clients, TypeOK, Apply(c)
    PROVE  TypeOK'
<1>1. wire[c] \in Seq(States) /\ wire[c] # <<>> /\ Len(wire[c]) <= WireRoom
  BY DEF TypeOK, Apply
<1>2. /\ Head(wire[c]) \in States /\ Tail(wire[c]) \in Seq(States)
      /\ Len(Tail(wire[c])) = Len(wire[c]) - 1
  BY <1>1
<1>3. /\ wire' \in [Clients -> Seq(States)] /\ \A d \in Clients : Len(wire'[d]) <= WireRoom
  BY <1>1, <1>2, BroadcastAssumption DEF TypeOK, Apply
<1>4. QED  BY <1>2, <1>3 DEF TypeOK, Apply, coreVars, castVars

\* The state keeps its shape and no wire is ever overfull.
THEOREM BroadcastTypesOK == Spec => []TypeOK
<1>1. TypeOK /\ [Next]_vars => TypeOK'
  <2> SUFFICES ASSUME TypeOK, [Next]_vars PROVE TypeOK'
    OBVIOUS
  <2>1. CASE UNCHANGED vars
    BY <2>1 DEF TypeOK, vars, coreVars, castVars
  <2>2. QED  BY <2>1, ChangeTypes, CastTypes, ApplyTypes DEF Next
<1>2. QED  BY <1>1, InitTypes, PTL DEF Spec

-----------------------------------------------------------------------------
\* A thread that has a broadcast due will tell everybody.
LEMMA DueTellsAll ==
    ASSUME NEW h \in Threads, phase'[h] = "due"
    PROVE  NobodyLeftOut'
  BY DEF NobodyLeftOut, WillTell

\* No change is kept from a registered client, however broadcasts interleave.
THEOREM NobodyEverLeftOut == Spec => []NobodyLeftOut
<1>1. Init => NobodyLeftOut
  BY DEF Init, NobodyLeftOut
<1>2. TypeOK /\ NobodyLeftOut /\ [Next]_vars => NobodyLeftOut'
  <2> SUFFICES ASSUME TypeOK, NobodyLeftOut, [Next]_vars PROVE NobodyLeftOut'
    OBVIOUS
  <2> USE DEF TypeOK
  <2>1. ASSUME NEW e \in Exts, Hello(e) \/ Drop(e) PROVE NobodyLeftOut'
    BY <2>1, DueTellsAll DEF Hello, Drop, Due, Threads
  <2>2. ASSUME NEW c \in Clients, Attach(c) \/ ClaimChanges(c) \/ Leave(c) PROVE NobodyLeftOut'
    BY <2>2, DueTellsAll DEF Attach, ClaimChanges, Leave, Due, Threads
  <2>3. ASSUME NEW d \in Clients, AskStatus(d) PROVE NobodyLeftOut'
    BY <2>3 DEF AskStatus, NobodyLeftOut, WillTell
  <2>4. ASSUME NEW g \in Threads, Cast(g) PROVE NobodyLeftOut'
    <3> SUFFICES ASSUME NEW c \in members' PROVE c \in told' \/ \E h \in Threads : WillTell(h, c)'
      BY DEF NobodyLeftOut, WillTell
    <3>0. members' = members
      BY <2>4 DEF Cast, Snapshot, ListClients, Finish, SendTo, coreVars
    <3>1. CASE c \in told
      BY <2>4, <3>1 DEF Cast, Snapshot, ListClients, Finish, SendTo
    <3>2. ASSUME NEW h \in Threads, WillTell(h, c) PROVE c \in told' \/ WillTell(h, c)'
      <4>1. CASE Snapshot(g)  BY <3>2, <4>1 DEF Snapshot, WillTell
      <4>2. CASE ListClients(g)  BY <3>0, <3>2, <4>2 DEF ListClients, WillTell
      <4>3. CASE Finish(g)  BY <3>2, <4>3 DEF Finish, WillTell
      <4>4. ASSUME NEW d \in Clients, SendTo(g, d) PROVE c \in told' \/ WillTell(h, c)'
        BY <3>2, <4>4 DEF SendTo, WillTell
      <4>5. QED  BY <2>4, <4>1, <4>2, <4>3, <4>4 DEF Cast
    <3>3. QED  BY <3>0, <3>1, <3>2 DEF NobodyLeftOut
  <2>5. ASSUME NEW d \in Clients, Apply(d) PROVE NobodyLeftOut'
    BY <2>5 DEF Apply, NobodyLeftOut, WillTell, coreVars, castVars
  <2>6. CASE UNCHANGED vars
    BY <2>6 DEF vars, NobodyLeftOut, WillTell, coreVars, castVars
  <2>7. QED  BY <2>1, <2>2, <2>3, <2>4, <2>5, <2>6 DEF Next, Change
<1>3. QED  BY <1>1, <1>2, BroadcastTypesOK, PTL DEF Spec

=============================================================================
