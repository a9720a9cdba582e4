----------------------------- MODULE MCEdgeCalls -----------------------------
(* TLC instances of EdgeCalls: lengths that are empty, not a whole number,  *)
(* one element, and longer than the heap.                                   *)
EXTENDS EdgeCalls

\* No loop, a product that the copies hold, one that they do not
SomeSides   == {0, Side, Side + 1}
SomeLengths == {0, 1, IntBytes, HeapMaxSize + IntBytes}
==============================================================================
