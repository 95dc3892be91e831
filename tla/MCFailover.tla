---------------------------- MODULE MCFailover ----------------------------
(* Failover for TLC: two stores, a two-tick timeout and at most one step   *)
(* of the wall clock, backwards (MCFailover.cfg) or forwards               *)
(* (MCFailover_clock.cfg).                                                 *)
EXTENDS Failover

MCClockBack == {-1}
MCClockForward == {1}
=============================================================================
