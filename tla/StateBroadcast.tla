----------------------------- MODULE StateBroadcast -----------------------------
(***************************************************************************)
(* How the bridge daemon tells its clients about itself (bridge_daemon.py, *)
(* _broadcast_state): which companion is connected, which clients there    *)
(* are, which tabs they hold.                                              *)
(*                                                                         *)
(* Whoever changes that state broadcasts it, on its own thread: it takes a *)
(* snapshot under the lock, lists the clients under the lock, and sends to *)
(* one after the other with no lock held, so that a slow peer cannot hold  *)
(* the register shut.  Two broadcasts may therefore overtake each other.   *)
(* A client applies the frames in the order in which they arrive           *)
(* (chrome_bridge.py, _apply_state).                                       *)
(***************************************************************************)
EXTENDS Naturals, Sequences

CONSTANTS
    Exts,       \* companion connections; a name is used again after its thread ended
    Clients,    \* client connections; likewise, and each may hold one tab
    WireRoom,   \* frames that fit between the daemon and a client before a send blocks
    NoExt, NoPicture

ASSUME BroadcastAssumption ==
    /\ Exts \cap Clients = {} /\ NoExt \notin Exts
    /\ WireRoom \in Nat \ {0}

VARIABLES
    extension,  \* BridgeDaemon._extension
    sock,       \* the companion connections whose thread serves
    life,       \* where the thread of each client connection is
    members,    \* BridgeDaemon._clients
    holders,    \* BridgeDaemon._claims: the clients that hold their tab
    phase,      \* where each thread is in a broadcast, or in an answer to "status"
    frame,      \* the snapshot each thread is sending
    left,       \* the clients it has yet to send it to
    wire,       \* the frames under way to each client
    picture,    \* what each client believes: the last frame it applied
    current,    \* history: the threads whose snapshot is still the truth
    told        \* history: the clients that were sent the present truth

coreVars == <<extension, sock, life, members, holders>>
castVars == <<phase, frame, left>>
vars     == <<coreVars, castVars, wire, picture, current, told>>

Threads == Exts \cup Clients

\* status(): the answer to the "status" question, and the state that is pushed.
Truth == [ext |-> extension, clients |-> members, held |-> holders]

States == [ext : Exts \cup {NoExt}, clients : SUBSET Clients, held : SUBSET Clients]

Init ==
    /\ extension = NoExt /\ sock = {} /\ members = {} /\ holders = {}
    /\ life = [c \in Clients |-> "out"]
    /\ phase = [h \in Threads |-> "none"] /\ frame = [h \in Threads |-> NoPicture]
    /\ left = [h \in Threads |-> {}]
    /\ wire = [c \in Clients |-> <<>>] /\ picture = [c \in Clients |-> NoPicture]
    /\ current = {} /\ told = {}

\* The thread h is done with the change it made and goes on to broadcast it.
Due(h) == phase' = [phase EXCEPT ![h] = "due"]

\* The truth has changed: no snapshot shows it yet and nobody was told.
Changed == current' = {} /\ told' = {}

\* A companion says hello and takes the slot, from whoever has it.
Hello(e) ==
    /\ e \notin sock /\ phase[e] = "none"
    /\ sock' = sock \cup {e} /\ extension' = e
    /\ Due(e) /\ Changed
    /\ UNCHANGED <<life, members, holders, frame, left, wire, picture>>

\* Its connection ends, at the latest when the acknowledgement cannot be sent.
Drop(e) ==
    /\ e \in sock /\ phase[e] \in {"none", "due"}
    /\ sock' = sock \ {e}
    /\ Due(e)
    /\ IF extension = e THEN extension' = NoExt /\ Changed
       ELSE UNCHANGED <<extension, current, told>>
    /\ UNCHANGED <<life, members, holders, frame, left, wire, picture>>

\* A client is acknowledged and registered.
Attach(c) ==
    /\ life[c] = "out" /\ phase[c] = "none"
    /\ life' = [life EXCEPT ![c] = "joining"]
    /\ members' = members \cup {c}
    /\ Due(c) /\ Changed
    /\ UNCHANGED <<extension, sock, holders, frame, left, wire, picture>>

\* The first thing a client asks on a new link is the status.
AskStatus(c) ==
    /\ life[c] = "joining" /\ phase[c] = "none"
    /\ life' = [life EXCEPT ![c] = "up"]
    /\ phase' = [phase EXCEPT ![c] = "asked"]
    /\ UNCHANGED <<extension, sock, members, holders, frame, left, wire, picture, current, told>>

\* claim_tab is granted, or release_tab frees the tab.
ClaimChanges(c) ==
    /\ life[c] = "up" /\ phase[c] = "none"
    /\ holders' = IF c \in holders THEN holders \ {c} ELSE holders \cup {c}
    /\ Due(c) /\ Changed
    /\ UNCHANGED <<extension, sock, life, members, frame, left, wire, picture>>

\* Mutant: only a client that held a tab is worth telling the others about.
LeaveUnheard(c) ==
    /\ life[c] # "out" /\ phase[c] = "none"
    /\ life' = [life EXCEPT ![c] = "out"]
    /\ members' = members \ {c} /\ holders' = holders \ {c}
    /\ IF c \in holders THEN Due(c) ELSE UNCHANGED phase
    /\ Changed
    /\ left' = [h \in Threads |-> left[h] \ {c}]
    /\ wire' = [wire EXCEPT ![c] = <<>>] /\ picture' = [picture EXCEPT ![c] = NoPicture]
    /\ UNCHANGED <<extension, sock, frame>>

\* A client leaves, its tab goes back, and what is still sent to it is lost.
Leave(c) ==
    /\ life[c] # "out" /\ phase[c] = "none"
    /\ life' = [life EXCEPT ![c] = "out"]
    /\ members' = members \ {c} /\ holders' = holders \ {c}
    /\ Due(c) /\ Changed
    /\ left' = [h \in Threads |-> left[h] \ {c}]
    /\ wire' = [wire EXCEPT ![c] = <<>>] /\ picture' = [picture EXCEPT ![c] = NoPicture]
    /\ UNCHANGED <<extension, sock, frame>>

-----------------------------------------------------------------------------

\* Under the lock: the snapshot.
Snapshot(h) ==
    /\ phase[h] \in {"due", "asked"}
    /\ frame' = [frame EXCEPT ![h] = Truth]
    /\ current' = current \cup {h}
    /\ phase' = [phase EXCEPT ![h] = IF @ = "due" THEN "taken" ELSE "sending"]
    /\ left' = [left EXCEPT ![h] = IF phase[h] = "due" THEN {} ELSE {h}]
    /\ UNCHANGED <<coreVars, wire, picture, told>>

\* Under the lock again: the clients.
ListClients(h) ==
    /\ phase[h] = "taken"
    /\ left' = [left EXCEPT ![h] = members]
    /\ phase' = [phase EXCEPT ![h] = "sending"]
    /\ UNCHANGED <<coreVars, frame, wire, picture, current, told>>

\* One client gets the frame, once there is room for it.
SendTo(h, c) ==
    /\ phase[h] = "sending" /\ c \in left[h] /\ Len(wire[c]) < WireRoom
    /\ wire' = [wire EXCEPT ![c] = Append(@, frame[h])]
    /\ left' = [left EXCEPT ![h] = @ \ {c}]
    /\ told' = IF h \in current THEN told \cup {c} ELSE told
    /\ UNCHANGED <<coreVars, phase, frame, picture, current>>

\* Everybody on the list has had the frame.
Finish(h) ==
    /\ phase[h] = "sending" /\ left[h] = {}
    /\ phase' = [phase EXCEPT ![h] = "none"]
    /\ frame' = [frame EXCEPT ![h] = NoPicture]
    /\ current' = current \ {h}
    /\ UNCHANGED <<coreVars, left, wire, picture, told>>

\* The client applies the next frame.
Apply(c) ==
    /\ wire[c] # <<>>
    /\ picture' = [picture EXCEPT ![c] = Head(wire[c])]
    /\ wire' = [wire EXCEPT ![c] = Tail(@)]
    /\ UNCHANGED <<coreVars, castVars, current, told>>

Cast(h) == Snapshot(h) \/ ListClients(h) \/ Finish(h) \/ \E c \in Clients : SendTo(h, c)

Change ==
    \/ \E e \in Exts : Hello(e) \/ Drop(e)
    \/ \E c \in Clients : Attach(c) \/ AskStatus(c) \/ ClaimChanges(c) \/ Leave(c)

Next ==
    \/ Change
    \/ \E h \in Threads : Cast(h)
    \/ \E c \in Clients : Apply(c)

Spec == Init /\ [][Next]_vars

-----------------------------------------------------------------------------

\* The state is of the shape the code keeps, and no wire holds more than it can.
TypeOK ==
    /\ extension \in Exts \cup {NoExt} /\ sock \subseteq Exts
    /\ life \in [Clients -> {"out", "joining", "up"}]
    /\ members \subseteq Clients /\ holders \subseteq Clients
    /\ phase \in [Threads -> {"none", "due", "asked", "taken", "sending"}]
    /\ \A e \in Exts : phase[e] # "asked"
    /\ frame \in [Threads -> States \cup {NoPicture}]
    /\ \A h \in Threads : phase[h] \in {"taken", "sending"} => frame[h] \in States
    /\ left \in [Threads -> SUBSET Clients]
    /\ wire \in [Clients -> Seq(States)] /\ \A c \in Clients : Len(wire[c]) <= WireRoom
    /\ picture \in [Clients -> States \cup {NoPicture}]
    /\ current \subseteq Threads /\ told \subseteq Clients

\* The thread h is going to send the present truth to c.
WillTell(h, c) ==
    \/ phase[h] = "due"
    \/ h \in current /\ phase[h] = "taken"
    \/ h \in current /\ phase[h] = "sending" /\ c \in left[h]

\* No change is kept from anybody: whatever comes and goes meanwhile, a client that
\* is registered was sent the present state, or some thread is about to send it.
NobodyLeftOut == \A c \in members : c \in told \/ \E h \in Threads : WillTell(h, c)

Quiet == (\A h \in Threads : phase[h] = "none") /\ \A c \in Clients : wire[c] = <<>>

\* When everything was said and read, every client's picture is the truth.
PictureTrue == Quiet => \A c \in members : life[c] = "up" => picture[c] = Truth
=============================================================================
