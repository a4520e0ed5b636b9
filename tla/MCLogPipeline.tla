--------------------------- MODULE MCLogPipeline ---------------------------
(* Two threads that log to both files, while a signal, a full disk and the   *)
(* removal of files come between.                                            *)
EXTENDS LogPipeline
============================================================================
