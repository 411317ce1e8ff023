--------------------------- MODULE MCCacheClients ---------------------------
(* One PThreadEval and one ThreadedExecutor on a small heap. *)
EXTENDS CacheClients

CONSTANTS e1, x1, a1, a2, a3
=============================================================================
