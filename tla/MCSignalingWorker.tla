------------------------- MODULE MCSignalingWorker -------------------------
EXTENDS SignalingWorker

CONSTANTS a1, a2

\* Every way a request can end: not a request, a body that does not parse
\* (an empty one cannot), one answered later and one answered at once.
MCRequest ==
  {[body_len |-> 1, kind |-> "BADMAGIC"], [body_len |-> 0, kind |-> "BADJSON"],
   [body_len |-> 1, kind |-> "PUSH"], [body_len |-> 2, kind |-> "ANSWER"]}

MCPush == {[body_len |-> 1, kind |-> "PUSH"]}
=============================================================================
