----------------------------- MODULE MCIcePing -----------------------------
(* The clocks of a channel, on intervals of a few ticks in the code's order. *)
EXTENDS IcePing, TLC

CONSTANTS c1

MCConn == {c1}
MCRtt == 0..MaxAge
MCPriority == c1 :> 1
============================================================================
