------------------------------- MODULE MCHooks -------------------------------
(* Author times for TLC: the second commit comes within Slack of the first, *)
(* the third does not.  Processes are interchangeable.                      *)
EXTENDS Hooks, TLC

MCTimes == <<10, 13, 20>>
HookSymmetry == Permutations(Hook)
===============================================================================
