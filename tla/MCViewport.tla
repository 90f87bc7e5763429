------------------------------ MODULE MCViewport ------------------------------
(* TLC instances of Viewport.  The rates are scaled down together: a tile   *)
(* frame every 2 ticks, a second of 4 ticks, a look at the standings every  *)
(* 3 and a heartbeat of 4.                                                  *)
EXTENDS Viewport
=============================================================================
