--------------------------- MODULE MCRtcPipeline ---------------------------
(* Instance of RtcPipeline for TLC: stream names that hash to different    *)
(* workers when there are two.                                             *)
EXTENDS RtcPipeline

CONSTANTS live, cam

MCStream == {live, cam}
MCOneStream == {live}
MCCrc32 == [s \in Stream |-> IF s = live THEN 6 ELSE 3]
=============================================================================
