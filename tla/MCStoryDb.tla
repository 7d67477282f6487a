------------------------------ MODULE MCStoryDb ------------------------------
(* StoryDb for TLC: at most MaxCalls calls in a behaviour. *)
EXTENDS StoryDb, TLC
CONSTANT MaxCalls
VARIABLE calls
MCInit == Init /\ calls = 0
MCNext == calls < MaxCalls /\ calls' = calls + 1 /\ Next
MCSpec == MCInit /\ [][MCNext]_<<vars, calls>>
StorySymmetry == Permutations(Story)
==============================================================================
