------------------------------- MODULE TodoList -------------------------------
(***************************************************************************)
(* What git_for_commits asks of its todo list, as operators on the list of *)
(* its author times: how qsort orders it (later_commits_last, storygit.c:  *)
(* 24-29) and where the search for one time looks (190-236).               *)
(***************************************************************************)
EXTENDS Integers, Sequences

(* Mutant of AsInt: the difference is taken for unsigned. *)
AsUnsigned(d, half) == d % (2 * half)

(* A 64-bit difference returned as an int of 2 * half values.              *)
AsInt(d, half) == ((d + half) % (2 * half)) - half

LaterCommitsLast(a, b, half) == AsInt(a - b, half)

(* A list qsort may leave: no entry compares greater than a later one.     *)
QSorted(times, half) ==
  \A j, k \in DOMAIN times : j < k => LaterCommitsLast(times[j], times[k], half) <= 0

LatestLast(times) == \A j, k \in DOMAIN times : j < k => times[j] <= times[k]

-----------------------------------------------------------------------------
(* check_one_timestamp looks from j upward while the time is the same.     *)
SameTimeRun(times, j, t) ==
  {k \in DOMAIN times : j <= k /\ times[k] = t /\ \A l \in j .. k - 1 : times[l] = t}

(* Mutant of LinearStarts: the search comes to rest on the last place. *)
LastStarts(times, t) ==
  {j \in DOMAIN times : times[j] = t /\ \A k \in j + 1 .. Len(times) : times[k] # t}

LinearStarts(times, t) ==
  {j \in DOMAIN times : times[j] = t /\ \A k \in 1 .. j - 1 : times[k] # t}

(* The probing of a long list: j moves by dj, dj is halved, and the loop   *)
(* ends when dj is 0, whether or not the last j was looked at.  j counts   *)
(* from 0 here, as in the code.                                            *)
BinaryStarts(times, t) ==
  LET n == Len(times)
      at(j) == times[j + 1]
      probe[dj \in 0 .. n, j \in 0 .. n] ==
        IF at(j) = t THEN {j + 1}
        ELSE IF dj \div 2 = 0 THEN {}
        ELSE probe[dj \div 2, IF at(j) > t THEN j - dj ELSE j + dj]
  IN  probe[(n \div 2) \div 2, n \div 2]

Starts(times, t, linearBelow) ==
  IF Len(times) < linearBelow THEN LinearStarts(times, t) ELSE BinaryStarts(times, t)

(* The places whose commit is compared with the one looked for.            *)
LookedAt(times, t, linearBelow) ==
  UNION {SameTimeRun(times, j, t) : j \in Starts(times, t, linearBelow)}
===============================================================================
