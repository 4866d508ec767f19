----------------------------- MODULE MCPoolOpen -----------------------------
(* The two processes that map the pool, for TLC.                            *)
EXTENDS PoolOpen

CONSTANTS firmware, hmi

MCProcs == {firmware, hmi}
=============================================================================
