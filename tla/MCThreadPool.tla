---------------------------- MODULE MCThreadPool ----------------------------
(* The instance of ThreadPool that TLC checks.  The server starts four     *)
(* workers; with more tasks than workers, queueing meets every mix of      *)
(* sleeping, waking and busy ones.                                         *)
EXTENDS ThreadPool, TLC

=============================================================================
