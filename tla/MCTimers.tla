------------------------------ MODULE MCTimers ------------------------------
(* Timers with the constants of timers.cfg.                                *)
EXTENDS Timers
============================================================================
