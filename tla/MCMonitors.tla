------------------------------ MODULE MCMonitors ------------------------------
(* TLC instance of Monitors: two pids, so that the watched one can be taken  *)
(* again while a process lives at the other.                                 *)
EXTENDS Monitors

CONSTANTS p1, p2

TwoPids == {p1, p2}
==============================================================================
