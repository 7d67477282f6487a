----------------------------- MODULE MCCommitWalk -----------------------------
(* CommitWalk for TLC: the graphs of four commits, each with up to two      *)
(* parents and a later author time than theirs; and merges of four          *)
(* branches, where todo is long enough to be searched by halves.            *)
EXTENDS CommitWalk

MCCommit == 1 .. 6

Monotone(r) ==
  \A c \in MCCommit : \A p \in ToSet(r.parents[c]) : r.time[p] < r.time[c]

ParentLists(c) == {s \in SeqOf(1 .. c - 1, 2) : Len(s) = 2 => s[1] # s[2]}

(* The commits 5 and 6 are on no branch. *)
SmallRepos ==
  {r \in [parents : {<<<<>>, a, b, c, <<>>, <<>>>> : a \in ParentLists(2),
                       b \in ParentLists(3), c \in ParentLists(4)},
          time : {t \o <<1, 1>> : t \in [1 .. 4 -> 1 .. 4]}, head : {4}] : Monotone(r)}

MergeRepos ==
  {r \in [parents : {<<<<>>, <<>>, a, b, c, <<5, 4, 3, 2>>>> : a \in SeqOf({1, 2}, 1),
                       b \in SeqOf(1 .. 3, 1), c \in SeqOf(1 .. 4, 1)},
          time : {<<1, 2, 3, 4, 5, 6>>, <<1, 2, 2, 4, 5, 6>>}, head : {6}] : Monotone(r)}

MCRepos == SmallRepos \cup MergeRepos
===============================================================================
