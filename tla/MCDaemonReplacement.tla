------------------------ MODULE MCDaemonReplacement ------------------------
(* Two checkouts on one port: the daemons of one server are too old for the *)
(* other.                                                                   *)
EXTENDS DaemonReplacement

CONSTANTS old, new

MCServers == {old, new}
MCExpected == [s \in MCServers |-> IF s = new THEN 2 ELSE 1]
MCDisk == [s \in MCServers |-> IF s = new THEN 2 ELSE 1]
MCDaemons == 1..3
=============================================================================
