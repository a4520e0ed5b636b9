-------------------------- MODULE MCLockFreeQueue --------------------------
(* Instance of LockFreeQueue for TLC. *)
EXTENDS LockFreeQueue, TLC

CONSTANTS a1, a2, a3, v1, v2

MCAddr == {a1, a2, a3}
MCValue == {v1, v2}
=============================================================================
