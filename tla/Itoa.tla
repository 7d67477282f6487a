--------------------------------- MODULE Itoa ---------------------------------
(***************************************************************************)
(* itoa.c and its two users: the numbers of make-log and the table names   *)
(* of the story caches (storydb_start_cache, storydb.c:185-231).           *)
(***************************************************************************)
EXTENDS Integers, SequencesExt

(* The do-while loop: digits from the low end, as many as there is room for.*)
LowDigits(n, space) ==
  LET rest[m \in Nat, i \in 0 .. space] ==
        IF i = space THEN <<>>
        ELSE IF m \div 10 = 0 THEN <<m % 10>>
        ELSE <<m % 10>> \o rest[m \div 10, i + 1]
  IN  rest[n, 0]

(* Mutant of Digits: the digits are not put in order. *)
Unreversed(n, space) == LowDigits(n, space)

Digits(n, space) == Reverse(LowDigits(n, space))

ValueOf(digits) == FoldLeft(LAMBDA v, d : 10 * v + d, 0, digits)

(* The four X of the table's name, the first ones overwritten.             *)
CacheName(n) ==
  LET digits == Digits(n, 4)
  IN  [k \in 1 .. 4 |-> IF k <= Len(digits) THEN digits[k] ELSE "X"]

(* ensure_eq(true, itoa(...)): true is 1, and itoa answers how many digits *)
(* it wrote.                                                               *)
CacheStarts(n) == Len(Digits(n, 4)) = 1

(* The names of the caches a process gets that asks for k of them, up to   *)
(* the one it dies of.                                                     *)
CachesStarted(k) ==
  LET started == {n \in 1 .. k : \A m \in 1 .. n : CacheStarts(m)}
  IN  [n \in started |-> CacheName(n)]
===============================================================================
