---------------------------- MODULE MCLaunchToken ----------------------------
(* TLC instances of LaunchToken: the runs are interchangeable. *)
EXTENDS LaunchToken, TLC

RunSymmetry == Permutations(Runs)
==============================================================================
