------------------------- MODULE MCServerLifecycle -------------------------
EXTENDS ServerLifecycle

\* Two signaling workers, so that one is joined while the other still runs.
MCWorkerNum == [s \in {"signaling", "rtc"} |-> IF s = "signaling" THEN 2 ELSE 1]
=============================================================================
