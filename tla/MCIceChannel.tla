---------------------------- MODULE MCIceChannel ----------------------------
(* Two remote addresses; the second one has the better candidate. *)
EXTENDS IceChannel, TLC

CONSTANTS c1, c2

MCConn == {c1, c2}
MCPriority == c1 :> 1 @@ c2 :> 2
=============================================================================
