------------------------------ MODULE MCTimers ------------------------------
(* The instances of Timers that TLC checks.  A pass deletes at most two    *)
(* keys, one less than there are in MCTimers.cfg.                          *)
EXTENDS Timers, TLC

MCTtls     == {0, 2}
MCLongTtls == {1, 9}

=============================================================================
