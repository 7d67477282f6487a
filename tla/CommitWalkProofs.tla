--------------------------- MODULE CommitWalkProofs ---------------------------
(***************************************************************************)
(* The order in which git_for_commits hands commits over, for any history  *)
(* and any answers of the handler; and the comparison qsort is given.      *)
(***************************************************************************)
EXTENDS CommitWalk, WellFoundedInduction, FiniteSetTheorems, TLAPS

(* No commit is older than its parents.  git does not see to that.         *)
Chronological ==
  \A r \in Repos : \A c \in Commit : \A k \in DOMAIN r.parents[c] :
    r.time[r.parents[c][k]] <= r.time[c]

(* What waits in todo is not later than the commit at hand, and what was   *)
(* handed over is not earlier.                                             *)
TodoBehind == \A k \in DOMAIN todo : Time(todo[k]) <= Time(me)
CallsAhead == \A k \in DOMAIN calls : Time(calls[k].base) >= Time(me)

InOrder == TypeOK /\ TodoBehind /\ CallsAhead /\ LatestFirst

-----------------------------------------------------------------------------
LEMMA InsertKeeps ==
  ASSUME NEW S, NEW s \in Seq(S), NEW x \in S, NEW k \in 1 .. Len(s) + 1
  PROVE  /\ InsertAt(s, k, x) \in Seq(S)
         /\ DOMAIN InsertAt(s, k, x) = 1 .. Len(s) + 1
         /\ \A j \in DOMAIN InsertAt(s, k, x) :
              /\ InsertAt(s, k, x)[j] = IF j < k THEN s[j] ELSE IF j = k THEN x ELSE s[j - 1]
              /\ InsertAt(s, k, x)[j] = x \/ \E l \in DOMAIN s : InsertAt(s, k, x)[j] = s[l]
<1> DEFINE a == SubSeq(s, 1, k - 1)
           b == SubSeq(s, k, Len(s))
<1>1. a \in Seq(S) /\ Len(a) = k - 1 /\ \A j \in 1 .. Len(a) : a[j] = s[j]
  OBVIOUS
<1>2. /\ b \in Seq(S) /\ Len(b) = Len(s) - k + 1
      /\ \A j \in 1 .. Len(b) : b[j] = s[k + j - 1]
  OBVIOUS
<1>3. InsertAt(s, k, x) = (a \o <<x>>) \o b
  BY DEF InsertAt
<1> HIDE DEF a, b
<1>4. /\ a \o <<x>> \in Seq(S) /\ Len(a \o <<x>>) = k
      /\ \A j \in 1 .. k : (a \o <<x>>)[j] = IF j < k THEN a[j] ELSE x
  BY <1>1
<1>5. /\ (a \o <<x>>) \o b \in Seq(S)
      /\ DOMAIN ((a \o <<x>>) \o b) = 1 .. Len(s) + 1
      /\ \A j \in 1 .. Len(s) + 1 :
           ((a \o <<x>>) \o b)[j] = IF j <= k THEN (a \o <<x>>)[j] ELSE b[j - k]
  BY <1>2, <1>4
<1> DEFINE t == (a \o <<x>>) \o b
<1>6. ASSUME NEW j \in 1 .. Len(s) + 1
      PROVE  /\ t[j] = IF j < k THEN s[j] ELSE IF j = k THEN x ELSE s[j - 1]
             /\ t[j] = x \/ \E l \in DOMAIN s : t[j] = s[l]
  <2>1. CASE j < k
    <3>1. t[j] = s[j] /\ j \in DOMAIN s
      BY <1>1, <1>4, <1>5, <2>1
    <3> QED BY <2>1, <3>1
  <2>2. CASE j = k
    BY <1>4, <1>5, <2>2
  <2>3. CASE j > k
    <3> HIDE DEF t
    <3>1. t[j] = b[j - k] /\ j - k \in 1 .. Len(b)
      BY <1>2, <1>5, <2>3 DEF t
    <3>2. b[j - k] = s[k + (j - k) - 1] /\ k + (j - k) - 1 = j - 1
      BY <1>2, <3>1
    <3>3. t[j] = s[j - 1] /\ j - 1 \in DOMAIN s
      BY <2>3, <3>1, <3>2
    <3>4. ~(j < k) /\ j # k
      BY <2>3
    <3> QED BY <3>3, <3>4, Zenon
  <2>4. j < k \/ j = k \/ j > k
    OBVIOUS
  <2> QED BY <2>1, <2>2, <2>3, <2>4, Zenon
<1> QED BY <1>3, <1>5, <1>6

LEMMA TimeTyped ==
  ASSUME TypeOK, NEW c \in Commit
  PROVE  Time(c) \in Nat \ {0} /\ Parents(c) \in Seq(Commit) /\ Len(Parents(c)) \in Nat
<1>1. repo \in [parents : [Commit -> Seq(Commit)], time : [Commit -> Nat \ {0}], head : Commit]
  BY WalkAssumption DEF TypeOK
<1> QED BY <1>1 DEF Time, Parents

LEMMA CallTyped ==
  ASSUME TypeOK, NEW k \in DOMAIN calls
  PROVE  /\ calls[k].base \in Commit /\ calls[k].parent \in Commit
         /\ calls[k].which \in Nat
<1> DEFINE Call == [base : Commit, parent : Commit, which : Nat, tree : BOOLEAN,
                    result : Results, waiting : Nat]
<1>1. calls \in Seq(Call)
  BY DEF TypeOK
<1> HIDE DEF Call
<1>2. calls[k] \in Call
  BY <1>1
<1> QED BY <1>2 DEF Call

LEMMA PushedTyped ==
  ASSUME TypeOK, NEW p \in Commit, NEW s \in Pushed(p)
  PROVE  /\ s \in Seq(Commit) /\ Sorted(s)
         /\ \A k \in DOMAIN s : s[k] = p \/ \E l \in DOMAIN todo : s[k] = todo[l]
<1>1. todo \in Seq(Commit) /\ Sorted(todo)
  BY DEF TypeOK
<1>2. CASE Places(p) # {}
  BY <1>1, <1>2 DEF Pushed
<1>3. CASE Places(p) = {}
  <2>1. PICK k \in 1 .. Len(todo) + 1 : s = InsertAt(todo, k, p) /\ Sorted(s)
    BY <1>3 DEF Pushed
  <2> QED BY <1>1, <2>1, InsertKeeps
<1> QED BY <1>2, <1>3

(* Wherever the entries move down from, the list stays in order.           *)
LEMMA AfterSkipTyped ==
  ASSUME TypeOK, NEW p \in Commit, NEW s \in Seq(Commit), Sorted(s)
  PROVE  /\ AfterSkip(s, p) \in Seq(Commit) /\ Sorted(AfterSkip(s, p))
         /\ \A k \in DOMAIN AfterSkip(s, p) : \E l \in DOMAIN s : AfterSkip(s, p)[k] = s[l]
<1>1. CASE Places(p) = {}
  BY <1>1 DEF AfterSkip
<1>2. CASE Places(p) # {}
  <2> DEFINE here == Max(Places(p))
             from(k) == IF here <= k /\ k < Len(s) THEN k + 1 ELSE k
             t == [k \in DOMAIN s |-> s[from(k)]]
  <2>1. AfterSkip(s, p) = t
    BY <1>2 DEF AfterSkip
  <2> HIDE DEF here
  <2>2. \A k \in 1 .. Len(s) : from(k) \in 1 .. Len(s) /\ k <= from(k) /\ from(k) <= k + 1
    OBVIOUS
  <2>3. t \in Seq(Commit) /\ DOMAIN t = 1 .. Len(s)
    BY <2>2
  <2>4. \A j, k \in 1 .. Len(s) : j < k => from(j) <= from(k)
    OBVIOUS
  <2> HIDE DEF from
  <2>5. ASSUME NEW j \in DOMAIN t, NEW k \in DOMAIN t, j < k
        PROVE  Time(t[j]) <= Time(t[k])
    <3>1. from(j) \in DOMAIN s /\ from(k) \in DOMAIN s /\ from(j) <= from(k)
      BY <2>2, <2>3, <2>4, <2>5
    <3>2. s[from(j)] \in Commit /\ Time(s[from(j)]) \in Nat
      BY <3>1, TimeTyped
    <3>3. CASE from(j) < from(k)
      BY <2>3, <3>1, <3>3 DEF Sorted
    <3>4. CASE from(j) = from(k)
      BY <2>3, <3>2, <3>4
    <3> QED BY <2>2, <2>3, <3>1, <3>3, <3>4
  <2> QED BY <2>1, <2>2, <2>3, <2>5 DEF Sorted
<1> QED BY <1>1, <1>2

LEMMA TodoAfter ==
  ASSUME TypeOK, NEW p \in Commit, NEW s \in Pushed(p), NEW skip \in BOOLEAN
  PROVE  LET t == IF skip THEN AfterSkip(s, p) ELSE s
         IN  /\ t \in Seq(Commit) /\ Sorted(t)
             /\ \A k \in DOMAIN t : t[k] = p \/ \E l \in DOMAIN todo : t[k] = todo[l]
<1>1. CASE skip
  BY <1>1, PushedTyped, AfterSkipTyped
<1>2. CASE ~skip
  BY <1>2, PushedTyped
<1> QED BY <1>1, <1>2

-----------------------------------------------------------------------------
LEMMA InitInOrder == Init => InOrder
<1> SUFFICES ASSUME Init PROVE InOrder
  OBVIOUS
<1>1. repo \in [parents : [Commit -> Seq(Commit)], time : [Commit -> Nat \ {0}], head : Commit]
  BY WalkAssumption DEF Init
<1>2. me \in Commit /\ Parents(me) \in Seq(Commit)
  BY <1>1 DEF Init, Parents
<1> QED
  BY <1>2 DEF Init, InOrder, TypeOK, Sorted, TodoBehind, CallsAhead, LatestFirst

(* Time and Parents are those of one graph throughout.                     *)
LEMMA GraphStays == Next => repo' = repo /\ after' = after
BY DEF Next, TooOld, Pop, Finish, Visit

LEMMA TooOldInOrder == InOrder /\ TooOld => InOrder'
<1> SUFFICES ASSUME InOrder, TooOld PROVE InOrder'
  OBVIOUS
<1>1. Parents(me) \in Seq(Commit)
  BY TimeTyped DEF InOrder, TypeOK
<1> QED
  BY <1>1 DEF InOrder, TooOld, TypeOK, Sorted, TodoBehind, CallsAhead, LatestFirst,
              Time, Parents

LEMMA FinishInOrder == InOrder /\ Finish => InOrder'
BY DEF InOrder, Finish, TypeOK, Sorted, TodoBehind, CallsAhead, LatestFirst, Time, Parents

LEMMA PopTyped ==
  ASSUME TypeOK, Pop
  PROVE  LET n == Len(todo)
         IN  /\ TypeOK' /\ Sorted(todo) /\ n \in Nat \ {0} /\ DOMAIN todo = 1 .. n
             /\ me' = todo[n] /\ me' \in Commit
             /\ DOMAIN todo' = 1 .. n - 1 /\ \A k \in 1 .. n - 1 : todo'[k] = todo[k]
<1> DEFINE n == Len(todo)
<1>1. /\ todo \in Seq(Commit) /\ n \in Nat \ {0} /\ Sorted(todo)
      /\ me' = todo[n] /\ me' \in Commit
  BY DEF TypeOK, Pop, Last
<1>2. /\ todo' \in Seq(Commit) /\ DOMAIN todo' = 1 .. n - 1
      /\ \A k \in 1 .. n - 1 : todo'[k] = todo[k]
  BY <1>1 DEF Pop, Front
<1>3. /\ repo' = repo /\ after' = after /\ calls' = calls /\ state' = state
      /\ i' = 1 /\ meTree' = FALSE
  BY DEF Pop
<1>4. Sorted(todo)'
  BY <1>1, <1>2, <1>3 DEF Sorted, Time
<1>5. Parents(me)' \in Seq(Commit)
  <2>1. Parents(me)' = Parents(me')
    BY <1>3 DEF Parents
  <2> QED BY <1>1, <2>1, TimeTyped
<1>6. TypeOK'
  <2>1. Len(Parents(me)') \in Nat
    BY <1>5
  <2>2. (i \in 1 .. Len(Parents(me)) + 1)'
    BY <1>3, <2>1
  <2> QED BY <1>1, <1>2, <1>3, <1>4, <2>2 DEF TypeOK
<1> QED BY <1>1, <1>2, <1>6

LEMMA PopInOrder == InOrder /\ Pop => InOrder'
<1> SUFFICES ASSUME InOrder, Pop PROVE InOrder'
  OBVIOUS
<1> DEFINE n == Len(todo)
<1>1. /\ TypeOK' /\ Sorted(todo) /\ n \in Nat \ {0} /\ DOMAIN todo = 1 .. n
      /\ me' = todo[n] /\ me' \in Commit
      /\ DOMAIN todo' = 1 .. n - 1 /\ \A k \in 1 .. n - 1 : todo'[k] = todo[k]
  BY PopTyped DEF InOrder
<1>2. /\ repo' = repo /\ calls' = calls
  BY DEF Pop
<1>3. TodoBehind'
  <2>1. ASSUME NEW k \in 1 .. n - 1 PROVE Time(todo[k]) <= Time(todo[n])
    BY <1>1 DEF Sorted
  <2> QED BY <1>1, <1>2, <2>1 DEF TodoBehind, Time
<1>4. CallsAhead'
  <2>1. Time(me') <= Time(me)
    BY <1>1 DEF InOrder, TodoBehind
  <2>2. ASSUME NEW k \in DOMAIN calls PROVE Time(calls[k].base) >= Time(me')
    <3>1. calls[k].base \in Commit
      BY CallTyped DEF InOrder
    <3>2. Time(calls[k].base) \in Nat /\ Time(me) \in Nat /\ Time(me') \in Nat
      BY <1>1, <3>1, TimeTyped DEF InOrder, TypeOK
    <3>3. Time(calls[k].base) >= Time(me)
      BY DEF InOrder, CallsAhead
    <3> QED BY <2>1, <3>2, <3>3
  <2> QED BY <1>2, <2>2 DEF CallsAhead, Time
<1>5. LatestFirst'
  BY <1>2 DEF InOrder, LatestFirst, Time
<1> QED BY <1>1, <1>3, <1>4, <1>5 DEF InOrder

(* A parent handed over: what the handler is given, and what waits then.   *)
LEMMA VisitTyped ==
  ASSUME TypeOK, NEW result \in Results, Visit(result)
  PROVE  LET p == NextParent
             n == Len(calls)
         IN  /\ TypeOK' /\ p \in Commit /\ i \in DOMAIN Parents(me) /\ Parents(me)[i] = p
             /\ n \in Nat /\ DOMAIN calls = 1 .. n /\ DOMAIN calls' = 1 .. n + 1
             /\ \A k \in 1 .. n : calls'[k] = calls[k]
             /\ calls'[n + 1].base = me /\ calls'[n + 1].which = i
             /\ calls'[n + 1].parent = p /\ calls'[n + 1].result = result
             /\ \A k \in DOMAIN todo' :
                  todo'[k] = p \/ \E l \in DOMAIN todo : todo'[k] = todo[l]
<1> DEFINE p == NextParent
           call == [base |-> me, parent |-> p, which |-> i, tree |-> meTree,
                    result |-> result, waiting |-> Len(todo)]
<1>1. /\ me \in Commit /\ Parents(me) \in Seq(Commit) /\ i \in 1 .. Len(Parents(me))
  BY TimeTyped DEF TypeOK, Visit
<1>2. p \in Commit /\ i \in DOMAIN Parents(me) /\ Parents(me)[i] = p
  BY <1>1 DEF NextParent
<1>3. PICK s \in Pushed(p) : todo' = IF result = "GFC_SKIP" THEN AfterSkip(s, p) ELSE s
  BY DEF Visit
<1>4. /\ todo' \in Seq(Commit) /\ Sorted(todo')
      /\ \A k \in DOMAIN todo' : todo'[k] = p \/ \E l \in DOMAIN todo : todo'[k] = todo[l]
  <2> DEFINE skip == result = "GFC_SKIP"
  <2>1. skip \in BOOLEAN /\ todo' = IF skip THEN AfterSkip(s, p) ELSE s
    BY <1>3
  <2> HIDE DEF skip, p
  <2> QED BY <1>1, <1>2, <2>1, TodoAfter
<1>5. /\ repo' = repo /\ after' = after /\ me' = me /\ meTree' = meTree /\ i' = i + 1
      /\ calls' = Append(calls, call) /\ state' \in {state, "stopped"}
  BY DEF Visit
<1>6. call \in [base : Commit, parent : Commit, which : Nat, tree : BOOLEAN,
                result : Results, waiting : Nat]
  BY <1>1, <1>2 DEF TypeOK
<1>7. /\ calls \in Seq([base : Commit, parent : Commit, which : Nat, tree : BOOLEAN,
                        result : Results, waiting : Nat])
      /\ calls' \in Seq([base : Commit, parent : Commit, which : Nat, tree : BOOLEAN,
                         result : Results, waiting : Nat])
      /\ Len(calls) \in Nat /\ DOMAIN calls = 1 .. Len(calls)
      /\ DOMAIN calls' = 1 .. Len(calls) + 1
      /\ \A k \in 1 .. Len(calls) : calls'[k] = calls[k]
      /\ calls'[Len(calls) + 1] = call
  <2> HIDE DEF call
  <2> QED BY <1>1, <1>5, <1>6 DEF TypeOK
<1>8. call.base = me /\ call.which = i /\ call.parent = p /\ call.result = result
  OBVIOUS
<1> HIDE DEF call, p
<1>9. TypeOK'
  <2>1. (i \in 1 .. Len(Parents(me)) + 1)'
    BY <1>1, <1>5 DEF Parents
  <2>2. (Sorted(todo))'
    BY <1>4, <1>5 DEF Sorted, Time
  <2> QED BY <1>1, <1>4, <1>5, <1>7, <2>1, <2>2 DEF TypeOK
<1> QED BY <1>2, <1>4, <1>7, <1>8, <1>9 DEF p

LEMMA VisitInOrder ==
  ASSUME Chronological, InOrder, NEW result \in Results, Visit(result)
  PROVE  InOrder'
<1> DEFINE p == NextParent
           n == Len(calls)
<1>1. /\ TypeOK /\ TypeOK' /\ p \in Commit /\ i \in DOMAIN Parents(me) /\ Parents(me)[i] = p
      /\ n \in Nat /\ DOMAIN calls = 1 .. n /\ DOMAIN calls' = 1 .. n + 1
      /\ \A k \in 1 .. n : calls'[k] = calls[k]
      /\ calls'[n + 1].base = me
      /\ \A k \in DOMAIN todo' : todo'[k] = p \/ \E l \in DOMAIN todo : todo'[k] = todo[l]
  BY VisitTyped DEF InOrder
<1>2. repo' = repo /\ me' = me /\ me \in Commit
  BY <1>1 DEF Visit, TypeOK
<1>3. Time(p) <= Time(me)
  <2>1. p = repo.parents[me][i] /\ i \in DOMAIN repo.parents[me] /\ repo \in Repos
    BY <1>1 DEF Parents, TypeOK
  <2> QED BY <1>2, <2>1 DEF Chronological, Time
<1> HIDE DEF n, p
<1>10. TodoBehind'
  <2>1. ASSUME NEW k \in DOMAIN todo' PROVE Time(todo'[k]) <= Time(me)
    <3>1. CASE todo'[k] = p
      BY <1>3, <3>1
    <3>2. ASSUME NEW l \in DOMAIN todo, todo'[k] = todo[l] PROVE Time(todo'[k]) <= Time(me)
      BY <3>2 DEF InOrder, TodoBehind
    <3> QED BY <1>1, <3>1, <3>2
  <2> QED BY <1>2, <2>1 DEF TodoBehind, Time
<1>11. \A k \in DOMAIN calls' : Time(calls'[k].base) >= Time(me)
  <2>1. Time(me) \in Nat
    BY <1>1, <1>2, TimeTyped
  <2>2. ASSUME NEW k \in 1 .. n PROVE Time(calls'[k].base) >= Time(me)
    <3>1. k \in DOMAIN calls
      BY <1>1
    <3>2. Time(calls[k].base) >= Time(me)
      BY <3>1 DEF InOrder, CallsAhead
    <3>3. calls'[k] = calls[k]
      BY <1>1, Zenon
    <3> QED BY <3>2, <3>3
  <2>3. Time(calls'[n + 1].base) >= Time(me)
    BY <1>1, <2>1
  <2> QED BY <1>1, <2>2, <2>3
<1>12. CallsAhead'
  BY <1>2, <1>11 DEF CallsAhead, Time
<1>13. LatestFirst'
  <2>1. ASSUME NEW j \in DOMAIN calls', NEW k \in DOMAIN calls', j < k
        PROVE  Time(calls'[j].base) >= Time(calls'[k].base)
    <3>1. CASE k <= n
      <4>1. j \in 1 .. n /\ k \in 1 .. n
        BY <1>1, <2>1, <3>1
      <4>2. calls'[j] = calls[j] /\ calls'[k] = calls[k]
        BY <1>1, <4>1, Zenon
      <4> QED BY <1>1, <2>1, <4>1, <4>2 DEF InOrder, LatestFirst
    <3>2. CASE k = n + 1
      BY <1>1, <1>11, <3>2
    <3> QED BY <1>1, <3>1, <3>2
  <2> QED BY <1>2, <2>1 DEF LatestFirst, Time
<1> QED BY <1>1, <1>10, <1>12, <1>13 DEF InOrder

LEMMA NextInOrder == ASSUME Chronological PROVE InOrder /\ [Next]_vars => InOrder'
<1> SUFFICES ASSUME InOrder, [Next]_vars PROVE InOrder'
  OBVIOUS
<1>1. CASE TooOld
  BY <1>1, TooOldInOrder
<1>2. CASE Pop
  BY <1>2, PopInOrder
<1>3. CASE Finish
  BY <1>3, FinishInOrder
<1>4. CASE \E result \in Results : Visit(result)
  BY <1>4, VisitInOrder
<1>5. CASE UNCHANGED vars
  BY <1>5 DEF vars, InOrder, TypeOK, Sorted, TodoBehind, CallsAhead, LatestFirst, Time, Parents
<1> QED BY <1>1, <1>2, <1>3, <1>4, <1>5 DEF Next

(* In any history whose commits are not older than their parents, commits  *)
(* are handed over from the latest to the earliest across all branches     *)
(* (storygit.c:120), however long the todo list gets and whatever the      *)
(* handler answers: also after a GFC_SKIP, and also when the search of     *)
(* todo misses a commit.                                                   *)
THEOREM LatestComesFirst == ASSUME Chronological PROVE Spec => []LatestFirst
<1>1. InOrder /\ [Next]_vars => InOrder'
  BY NextInOrder
<1>2. InOrder => LatestFirst
  BY DEF InOrder
<1> QED BY <1>1, <1>2, InitInOrder, PTL DEF Spec

LEMMA NextTyped == TypeOK /\ [Next]_vars => TypeOK'
<1> SUFFICES ASSUME TypeOK, [Next]_vars PROVE TypeOK'
  OBVIOUS
<1>1. Parents(me) \in Seq(Commit)
  BY TimeTyped DEF TypeOK
<1>2. CASE TooOld
  BY <1>1, <1>2 DEF TooOld, TypeOK, Sorted, Time, Parents
<1>3. CASE Pop
  BY <1>3, PopTyped
<1>4. CASE Finish
  BY <1>4 DEF Finish, TypeOK, Sorted, Time, Parents
<1>5. CASE \E result \in Results : Visit(result)
  BY <1>5, VisitTyped
<1>6. CASE UNCHANGED vars
  BY <1>6 DEF vars, TypeOK, Sorted, Time, Parents
<1> QED BY <1>2, <1>3, <1>4, <1>5, <1>6 DEF Next

(* The todo list stays sorted, and a parent index never leaves its commit, *)
(* in any history, also one whose commits are older than their parents.    *)
THEOREM WalkTyping == Spec => []TypeOK
<1>1. Init => TypeOK
  BY InitInOrder DEF InOrder
<1> QED BY <1>1, NextTyped, PTL DEF Spec

-----------------------------------------------------------------------------
(* Every commit is later than its parents.                                 *)
StrictlyChronological ==
  \A r \in Repos : \A c \in Commit : \A k \in DOMAIN r.parents[c] :
    r.time[r.parents[c][k]] < r.time[c]

(* Below this length the search looks at every place (SearchComplete).     *)
Short == Len(todo) < LinearBelow

Distinct(s) == \A j, k \in DOMAIN s : s[j] = s[k] => j = k

(* No commit waits twice, or waits again once it was popped.               *)
Once ==
  /\ Distinct(todo)
  /\ \A k \in DOMAIN todo :
       todo[k] # me /\ \A c \in DOMAIN calls : calls[c].base # todo[k]
  /\ \A c \in DOMAIN calls : calls[c].base = me => calls[c].which < i
  /\ \A c, d \in DOMAIN calls :
       calls[c].base = calls[d].base /\ calls[c].which = calls[d].which => c = d

OnceInOrder == InOrder /\ (NoneSkipped /\ NeverHalved => Once)

(* A list of which the least place with some property exists.              *)
LEMMA FirstPlace ==
  ASSUME NEW n \in Nat, NEW P \in SUBSET (1 .. n), P # {}
  PROVE  \E j \in P : \A k \in P : j <= k
<1> DEFINE U == {1 .. j : j \in P}
           R == StrictSubsetOrdering(1 .. n)
<1>1. IsWellFoundedOn(R, SUBSET (1 .. n))
  <2>1. IsFiniteSet(1 .. n)
    BY FS_Interval
  <2> QED BY <2>1, FS_StrictSubsetOrderingWellFounded, FS_FiniteSubsetsOfFinite
<1>2. U \subseteq SUBSET (1 .. n) /\ U # {}
  <2>1. \A j \in P : j \in Int /\ j <= n
    OBVIOUS
  <2>2. \A j \in P : 1 .. j \subseteq 1 .. n
    BY <2>1
  <2> QED BY <2>2
<1>3. \E u \in U : \A v \in U : ~ (<<v, u>> \in R)
  <2> HIDE DEF U, R
  <2> QED BY <1>1, <1>2, WFMin
<1>4. PICK j \in P : \A k \in P : ~ (<<1 .. k, 1 .. j>> \in R)
  BY <1>3
<1>5. ASSUME NEW k \in P, k < j PROVE FALSE
  <2>1. j \in 1 .. j /\ j \notin 1 .. k /\ 1 .. k \subseteq 1 .. j
    BY <1>5
  <2>2. <<1 .. k, 1 .. j>> \in R
    BY <2>1 DEF StrictSubsetOrdering
  <2> QED BY <1>4, <2>2
<1>6. \A k \in P : k \in Int
  OBVIOUS
<1> QED BY <1>4, <1>5, <1>6

LEMMA ShortSearchFinds ==
  ASSUME TypeOK, Short, NEW p \in Commit, NEW l \in DOMAIN todo, todo[l] = p
  PROVE  l \in Places(p)
<1> DEFINE n == Len(todo)
           ts == TodoTimes
           t == Time(p)
           P == {j \in 1 .. n : ts[j] = t}
<1>1. /\ todo \in Seq(Commit) /\ n \in Nat /\ l \in 1 .. n
      /\ \A j, k \in 1 .. n : j < k => Time(todo[j]) <= Time(todo[k])
      /\ \A j \in 1 .. n : Time(todo[j]) \in Nat
  <2>1. todo \in Seq(Commit) /\ n \in Nat /\ DOMAIN todo = 1 .. n
    BY DEF TypeOK
  <2>2. \A j, k \in 1 .. n : j < k => Time(todo[j]) <= Time(todo[k])
    BY <2>1 DEF TypeOK, Sorted
  <2>3. ASSUME NEW j \in 1 .. n PROVE Time(todo[j]) \in Nat
    <3>1. todo[j] \in Commit
      BY <2>1
    <3> QED BY <3>1, TimeTyped
  <2> QED BY <2>1, <2>2, <2>3
<1>2. DOMAIN ts = 1 .. n /\ Len(ts) = n /\ \A j \in 1 .. n : ts[j] = Time(todo[j])
  BY <1>1 DEF TodoTimes
<1> HIDE DEF ts, n
<1>3. l \in P
  BY <1>1, <1>2
<1>4. PICK j \in P : \A k \in P : j <= k
  BY <1>1, <1>3, FirstPlace
<1>5. j \in 1 .. n /\ ts[j] = t /\ j <= l
  BY <1>3, <1>4
<1>6. \A k \in 1 .. j - 1 : ts[k] # t
  BY <1>1, <1>4, <1>5
<1>7. j \in LinearStarts(ts, t)
  BY <1>2, <1>5, <1>6 DEF LinearStarts
<1>8. Starts(ts, t, LinearBelow) = LinearStarts(ts, t)
  BY <1>2 DEF Starts, Short, n
<1>9. \A k \in j .. l : ts[k] = t
  <2> SUFFICES ASSUME NEW k \in j .. l PROVE ts[k] = t
    OBVIOUS
  <2>1. k \in 1 .. n /\ ts[l] = t
    BY <1>1, <1>3, <1>5
  <2>2. ts[j] <= ts[k]
    BY <1>1, <1>2, <1>5, <2>1
  <2>3. ts[k] <= ts[l]
    BY <1>1, <1>2, <1>5, <2>1
  <2>4. ts[k] \in Nat /\ t \in Nat
    BY <1>1, <1>2, <1>5, <2>1
  <2> QED BY <1>5, <2>1, <2>2, <2>3, <2>4
<1>10. l \in SameTimeRun(ts, j, t)
  BY <1>1, <1>2, <1>5, <1>9 DEF SameTimeRun
<1> QED BY <1>1, <1>7, <1>8, <1>10 DEF Places, LookedAt, ts, n

LEMMA PushedDistinct ==
  ASSUME TypeOK, Short, NEW p \in Commit, NEW s \in Pushed(p), Distinct(todo)
  PROVE  /\ Distinct(s)
         /\ \A k \in DOMAIN s : \/ \E l \in DOMAIN todo : s[k] = todo[l]
                                \/ s[k] = p /\ \A l \in DOMAIN todo : todo[l] # p
<1>1. CASE Places(p) # {}
  BY <1>1 DEF Pushed
<1>2. CASE Places(p) = {}
  <2>1. PICK k \in 1 .. Len(todo) + 1 : s = InsertAt(todo, k, p)
    BY <1>2 DEF Pushed
  <2>2. \A l \in DOMAIN todo : todo[l] # p
    BY <1>2, ShortSearchFinds
  <2>3. todo \in Seq(Commit) /\ DOMAIN todo = 1 .. Len(todo) /\ Len(todo) \in Nat
    BY DEF TypeOK
  <2>4. /\ DOMAIN s = 1 .. Len(todo) + 1
        /\ \A j \in DOMAIN s : s[j] = IF j < k THEN todo[j]
                                      ELSE IF j = k THEN p ELSE todo[j - 1]
    BY <2>1, <2>3, InsertKeeps
  <2>5. \A j \in DOMAIN s : /\ j < k => j \in DOMAIN todo
                            /\ j > k => j - 1 \in DOMAIN todo
    BY <2>1, <2>3, <2>4
  <2>6. \A j \in DOMAIN s : s[j] = p \/ \E l \in DOMAIN todo : s[j] = todo[l]
    BY PushedTyped
  <2>7. ASSUME NEW a \in DOMAIN s, NEW b \in DOMAIN s, a < b PROVE s[a] # s[b]
    <3>1. CASE b < k
      BY <2>1, <2>4, <2>5, <2>7, <3>1 DEF Distinct
    <3>2. CASE b = k
      BY <2>1, <2>2, <2>4, <2>5, <2>7, <3>2
    <3>3. CASE b > k /\ a < k
      <4>1. a \in DOMAIN todo /\ b - 1 \in DOMAIN todo /\ a # b - 1
        BY <2>1, <2>4, <2>5, <2>7, <3>3
      <4>2. s[a] = todo[a] /\ s[b] = todo[b - 1]
        BY <2>1, <2>4, <2>7, <3>3
      <4> QED BY <4>1, <4>2 DEF Distinct
    <3>4. CASE b > k /\ a = k
      BY <2>1, <2>2, <2>4, <2>5, <2>7, <3>4
    <3>5. CASE b > k /\ a > k
      <4>1. a - 1 \in DOMAIN todo /\ b - 1 \in DOMAIN todo /\ a - 1 # b - 1
        BY <2>1, <2>4, <2>5, <2>7, <3>5
      <4>2. s[a] = todo[a - 1] /\ s[b] = todo[b - 1]
        BY <2>1, <2>4, <2>7, <3>5
      <4> QED BY <4>1, <4>2 DEF Distinct
    <3> QED BY <2>1, <2>4, <2>7, <3>1, <3>2, <3>3, <3>4, <3>5
  <2>8. Distinct(s)
    BY <2>4, <2>7 DEF Distinct
  <2> QED BY <2>2, <2>6, <2>8
<1> QED BY <1>1, <1>2

LEMMA PopOnce == InOrder /\ Once /\ Pop => Once'
<1> SUFFICES ASSUME InOrder, Once, Pop PROVE Once'
  OBVIOUS
<1> DEFINE n == Len(todo)
<1>1. /\ todo \in Seq(Commit) /\ n \in Nat \ {0} /\ DOMAIN todo = 1 .. n
      /\ me' = todo[n] /\ calls' = calls
  BY DEF InOrder, TypeOK, Pop, Last
<1>2. /\ DOMAIN todo' = 1 .. n - 1
      /\ \A k \in 1 .. n - 1 : todo'[k] = todo[k] /\ k \in DOMAIN todo /\ k # n
  <2>1. DOMAIN todo' = 1 .. n - 1 /\ \A k \in 1 .. n - 1 : todo'[k] = todo[k]
    BY <1>1 DEF Pop, Front
  <2> HIDE DEF n
  <2>2. n \in Nat
    BY <1>1
  <2>3. \A k \in 1 .. n - 1 : k \in 1 .. n /\ k # n
    BY <2>2
  <2> QED BY <1>1, <2>1, <2>3
<1>3. n \in DOMAIN todo /\ \A c \in DOMAIN calls : calls[c].base # me'
  BY <1>1 DEF Once
<1>4. Distinct(todo)'
  BY <1>2 DEF Once, Distinct
<1>5. \A k \in DOMAIN todo' : todo'[k] # me' /\ \A c \in DOMAIN calls : calls[c].base # todo'[k]
  BY <1>1, <1>2, <1>3 DEF Once, Distinct
<1> QED BY <1>1, <1>3, <1>4, <1>5 DEF Once

LEMMA VisitOnce ==
  ASSUME StrictlyChronological, InOrder, Once, Short, NEW result \in Results,
         result # "GFC_SKIP", Visit(result)
  PROVE  Once'
<1> DEFINE p == NextParent
           call == [base |-> me, parent |-> p, which |-> i, tree |-> meTree,
                    result |-> result, waiting |-> Len(todo)]
<1>1. /\ me \in Commit /\ Parents(me) \in Seq(Commit) /\ i \in 1 .. Len(Parents(me))
      /\ TypeOK
  BY TimeTyped DEF InOrder, TypeOK, Visit
<1>2. p \in Commit /\ Time(p) < Time(me)
  <2>1. p = repo.parents[me][i] /\ i \in DOMAIN repo.parents[me] /\ repo \in Repos
    BY <1>1 DEF NextParent, Parents, TypeOK
  <2> QED BY <1>1, <2>1 DEF StrictlyChronological, Time, NextParent, Parents
<1>3. todo' \in Pushed(p)
  BY DEF Visit
<1>4. me' = me /\ i' = i + 1 /\ calls' = Append(calls, call) /\ i \in Int
  BY <1>1 DEF Visit
<1>5. call.base = me /\ call.which = i
  OBVIOUS
<1> HIDE DEF call, p
<1>6. /\ DOMAIN calls = 1 .. Len(calls) /\ DOMAIN calls' = 1 .. Len(calls) + 1
      /\ Len(calls) \in Nat /\ \A k \in 1 .. Len(calls) : calls'[k] = calls[k]
      /\ calls'[Len(calls) + 1] = call
  BY <1>1, <1>4 DEF TypeOK
<1>7. p # me /\ \A c \in DOMAIN calls : calls[c].base # p
  <2>1. Time(me) \in Nat /\ Time(p) \in Nat
    BY <1>1, <1>2, TimeTyped
  <2>2. ASSUME NEW c \in DOMAIN calls, calls[c].base = p PROVE FALSE
    BY <1>2, <2>1, <2>2 DEF InOrder, CallsAhead
  <2> QED BY <1>2, <2>1, <2>2
<1>8. /\ Distinct(todo')
      /\ \A k \in DOMAIN todo' : todo'[k] = p \/ \E l \in DOMAIN todo : todo'[k] = todo[l]
  BY <1>1, <1>2, <1>3, PushedDistinct DEF Once
<1>9. \A k \in DOMAIN todo' : todo'[k] # me /\ \A c \in DOMAIN calls : calls[c].base # todo'[k]
  BY <1>7, <1>8 DEF Once
<1>10. \A k \in DOMAIN todo' : \A c \in DOMAIN calls' : calls'[c].base # todo'[k]
  <2> SUFFICES ASSUME NEW k \in DOMAIN todo', NEW c \in DOMAIN calls'
               PROVE  calls'[c].base # todo'[k]
    OBVIOUS
  <2>1. CASE c \in 1 .. Len(calls)
    BY <1>6, <1>9, <2>1
  <2>2. CASE c = Len(calls) + 1
    BY <1>5, <1>6, <1>9, <2>2
  <2> QED BY <1>6, <2>1, <2>2
<1>11. \A c \in DOMAIN calls' : calls'[c].base = me => calls'[c].which < i + 1
  <2> SUFFICES ASSUME NEW c \in DOMAIN calls', calls'[c].base = me
               PROVE  calls'[c].which < i + 1
    OBVIOUS
  <2>1. CASE c \in 1 .. Len(calls)
    <3> DEFINE Call == [base : Commit, parent : Commit, which : Nat, tree : BOOLEAN,
                        result : Results, waiting : Nat]
    <3>1. calls \in Seq(Call)
      BY <1>1 DEF TypeOK
    <3> HIDE DEF Call
    <3>2. calls[c] \in Call
      BY <1>6, <2>1, <3>1
    <3>3. calls[c].which \in Nat
      BY <3>2 DEF Call
    <3>4. calls[c].which < i
      BY <1>6, <2>1 DEF Once
    <3> QED BY <1>4, <1>6, <2>1, <3>3, <3>4
  <2>2. CASE c = Len(calls) + 1
    BY <1>4, <1>5, <1>6, <2>2
  <2> QED BY <1>6, <2>1, <2>2
<1>12. ASSUME NEW c \in 1 .. Len(calls)
       PROVE  ~(calls[c].base = me /\ calls[c].which = i)
  BY <1>4, <1>6 DEF Once
<1>13. \A c, d \in DOMAIN calls' :
         calls'[c].base = calls'[d].base /\ calls'[c].which = calls'[d].which => c = d
  <2> SUFFICES ASSUME NEW c \in DOMAIN calls', NEW d \in DOMAIN calls',
                      calls'[c].base = calls'[d].base, calls'[c].which = calls'[d].which
               PROVE  c = d
    OBVIOUS
  <2>1. CASE c \in 1 .. Len(calls) /\ d \in 1 .. Len(calls)
    BY <1>6, <2>1 DEF Once
  <2>2. CASE c = Len(calls) + 1 /\ d \in 1 .. Len(calls)
    BY <1>5, <1>6, <1>12, <2>2
  <2>3. CASE d = Len(calls) + 1 /\ c \in 1 .. Len(calls)
    BY <1>5, <1>6, <1>12, <2>3
  <2>4. CASE c = Len(calls) + 1 /\ d = Len(calls) + 1
    BY <2>4
  <2> QED BY <1>6, <2>1, <2>2, <2>3, <2>4
<1> QED BY <1>4, <1>8, <1>9, <1>10, <1>11, <1>13 DEF Once

LEMMA UndisturbedBefore ==
  ASSUME TypeOK, NEW result \in Results, Visit(result)
  PROVE  /\ NoneSkipped' => NoneSkipped /\ result # "GFC_SKIP"
         /\ NeverHalved' => NeverHalved /\ Short
<1> DEFINE call == [base |-> me, parent |-> NextParent, which |-> i, tree |-> meTree,
                    result |-> result, waiting |-> Len(todo)]
<1>1. calls' = Append(calls, call) /\ call.result = result /\ call.waiting = Len(todo)
  BY DEF Visit
<1> HIDE DEF call
<1>2. /\ DOMAIN calls = 1 .. Len(calls) /\ DOMAIN calls' = 1 .. Len(calls) + 1
      /\ Len(calls) \in Nat /\ \A k \in 1 .. Len(calls) : calls'[k] = calls[k]
      /\ calls'[Len(calls) + 1] = call
  BY <1>1 DEF TypeOK
<1>3. /\ NoneSkipped' => \A k \in 1 .. Len(calls) + 1 : calls'[k].result # "GFC_SKIP"
      /\ NeverHalved' => \A k \in 1 .. Len(calls) + 1 : calls'[k].waiting < LinearBelow
  BY <1>2 DEF NoneSkipped, NeverHalved
<1>4. Len(calls) + 1 \in 1 .. Len(calls) + 1 /\ 1 .. Len(calls) \subseteq 1 .. Len(calls) + 1
  BY <1>2
<1>5. (NoneSkipped' => result # "GFC_SKIP") /\ (NeverHalved' => Short)
  BY <1>1, <1>2, <1>3, <1>4 DEF Short
<1>6. (NoneSkipped' => NoneSkipped) /\ (NeverHalved' => NeverHalved)
  BY <1>2, <1>3, <1>4 DEF NoneSkipped, NeverHalved
<1> QED BY <1>5, <1>6

LEMMA NextOnce ==
  ASSUME StrictlyChronological
  PROVE  OnceInOrder /\ [Next]_vars => OnceInOrder'
<1> SUFFICES ASSUME OnceInOrder, [Next]_vars PROVE OnceInOrder'
  OBVIOUS
<1>1. Chronological
  <2> SUFFICES ASSUME NEW r \in Repos, NEW c \in Commit, NEW k \in DOMAIN r.parents[c]
               PROVE  r.time[r.parents[c][k]] <= r.time[c]
    BY DEF Chronological
  <2>1. r \in [parents : [Commit -> Seq(Commit)], time : [Commit -> Nat \ {0}], head : Commit]
    BY WalkAssumption
  <2>2. r.parents[c] \in Seq(Commit)
    BY <2>1
  <2>3. r.parents[c][k] \in Commit
    BY <2>2
  <2>4. r.time[c] \in Nat /\ r.time[r.parents[c][k]] \in Nat
    BY <2>1, <2>3
  <2>5. r.time[r.parents[c][k]] < r.time[c]
    BY DEF StrictlyChronological
  <2> QED BY <2>4, <2>5
<1>2. InOrder'
  BY <1>1, NextInOrder DEF OnceInOrder
<1>3. ASSUME NoneSkipped', NeverHalved' PROVE Once'
  <2>1. CASE TooOld
    <3>1. NoneSkipped /\ NeverHalved
      BY <1>3, <2>1 DEF TooOld, NoneSkipped, NeverHalved
    <3>2. \A c \in DOMAIN calls : calls[c].base = me => calls[c].which < i + 1
      <4> DEFINE Call == [base : Commit, parent : Commit, which : Nat, tree : BOOLEAN,
                          result : Results, waiting : Nat]
      <4>1. calls \in Seq(Call) /\ i \in Int
        BY TimeTyped DEF OnceInOrder, InOrder, TypeOK
      <4> HIDE DEF Call
      <4>2. ASSUME NEW c \in DOMAIN calls PROVE calls[c].which \in Nat
        <5>1. calls[c] \in Call
          BY <4>1
        <5> QED BY <5>1 DEF Call
      <4> QED BY <3>1, <4>1, <4>2 DEF OnceInOrder, Once
    <3> QED BY <2>1, <3>1, <3>2 DEF TooOld, OnceInOrder, Once, Distinct
  <2>2. CASE Pop
    <3>1. NoneSkipped /\ NeverHalved
      BY <1>3, <2>2 DEF Pop, NoneSkipped, NeverHalved
    <3> QED BY <2>2, <3>1, PopOnce DEF OnceInOrder
  <2>3. CASE Finish
    <3>1. NoneSkipped /\ NeverHalved
      BY <1>3, <2>3 DEF Finish, NoneSkipped, NeverHalved
    <3> QED BY <2>3, <3>1 DEF Finish, OnceInOrder, Once, Distinct
  <2>4. ASSUME NEW result \in Results, Visit(result) PROVE Once'
    <3>1. NoneSkipped /\ NeverHalved /\ result # "GFC_SKIP" /\ Short
      BY <1>3, <2>4, UndisturbedBefore DEF OnceInOrder, InOrder
    <3> QED BY <2>4, <3>1, VisitOnce DEF OnceInOrder
  <2>5. CASE UNCHANGED vars
    <3>1. NoneSkipped /\ NeverHalved
      BY <1>3, <2>5 DEF vars, NoneSkipped, NeverHalved
    <3> QED BY <2>5, <3>1 DEF vars, OnceInOrder, Once, Distinct
  <2> QED BY <2>1, <2>2, <2>3, <2>4, <2>5 DEF Next
<1> QED BY <1>2, <1>3 DEF OnceInOrder

(* storygit.c:108 "the nodes will all be visited exactly once" holds for   *)
(* every history whose commits are later than their parents, as long as    *)
(* fewer than ten commits wait in todo whenever it is searched.            *)
THEOREM ShortWalkVisitsOnce ==
  ASSUME StrictlyChronological PROVE Spec => []VisitedOnce
<1>1. Init => OnceInOrder
  BY InitInOrder DEF Init, OnceInOrder, Once, Distinct
<1>2. OnceInOrder /\ [Next]_vars => OnceInOrder'
  BY NextOnce
<1>3. OnceInOrder => VisitedOnce
  BY DEF OnceInOrder, Once, VisitedOnce
<1> QED BY <1>1, <1>2, <1>3, PTL DEF Spec

-----------------------------------------------------------------------------
(* The commits the walk has met, and which of them it still has to do.     *)
Known == {repo.head} \cup {calls[k].parent : k \in DOMAIN calls}
Waits(c) == \E k \in DOMAIN todo : todo[k] = c

(* Whatever is met is reachable, and every call is for an edge.            *)
OnlyEdges ==
  /\ me \in Known /\ \A k \in DOMAIN todo : todo[k] \in Known
  /\ Known \subseteq Reachable
  /\ \A k \in DOMAIN calls :
       /\ calls[k].base \in Known
       /\ calls[k].which \in DOMAIN Parents(calls[k].base)
       /\ calls[k].parent = Parents(calls[k].base)[calls[k].which]
       /\ Time(calls[k].parent) >= after

(* The parents of c before the n-th have been handed over.                 *)
HandedOver(c, n) ==
  \A k \in DOMAIN Parents(c) :
    k < n /\ Time(Parents(c)[k]) >= after => <<c, k>> \in Calls

(* What is met waits, is at hand, or is done: a commit that is pushed is   *)
(* not in todo only if it is found there, wherever the search looks.       *)
NoneForgotten ==
  /\ HandedOver(me, i)
  /\ \A c \in Known : c = me \/ Waits(c) \/ HandedOver(c, Len(Parents(c)) + 1)
  /\ state = "done" => Time(repo.head) <= after \/ (i > Len(Parents(me)) /\ todo = <<>>)

WalkInv == TypeOK /\ OnlyEdges /\ (NoneSkipped => NoneForgotten)

LEMMA HeadReachable == TypeOK => repo.head \in Reachable
<1> SUFFICES ASSUME TypeOK PROVE repo.head \in Reachable
  OBVIOUS
<1>1. repo.head \in Commit
  BY WalkAssumption DEF TypeOK
<1> QED BY <1>1 DEF Reachable

LEMMA ParentReachable ==
  ASSUME TypeOK, NEW c \in Reachable, NEW k \in DOMAIN Parents(c),
         Time(Parents(c)[k]) >= after
  PROVE  Parents(c)[k] \in Reachable
<1> DEFINE p == Parents(c)[k]
<1>1. c \in Commit /\ p \in Commit
  <2>1. c \in Commit
    BY DEF Reachable
  <2>2. Parents(c) \in Seq(Commit)
    BY <2>1, TimeTyped
  <2> QED BY <2>1, <2>2
<1>2. p \in RecentParents(c)
  BY DEF RecentParents, ToSet
<1>3. ASSUME NEW S \in SUBSET Commit, repo.head \in S, FromHere(S) PROVE p \in S
  <2>1. c \in S
    BY <1>3 DEF Reachable
  <2> QED BY <1>2, <1>3, <2>1 DEF FromHere
<1> HIDE DEF p
<1>4. p \in Reachable
  BY <1>1, <1>3 DEF Reachable
<1> QED BY <1>4 DEF p

LEMMA GraphKept ==
  ASSUME repo' = repo, after' = after
  PROVE  /\ Reachable' = Reachable /\ \A c : Time(c)' = Time(c) /\ Parents(c)' = Parents(c)
<1>1. \A c : Time(c)' = Time(c) /\ Parents(c)' = Parents(c)
  BY DEF Time, Parents
<1>2. \A c : RecentParents(c)' = RecentParents(c)
  BY DEF RecentParents, Time, Parents
<1>3. \A S : FromHere(S)' <=> FromHere(S)
  BY <1>2 DEF FromHere
<1>4. Reachable' = Reachable
  BY <1>3 DEF Reachable
<1> QED BY <1>1, <1>4

(* A commit that is found in todo is there, and one that is not is put     *)
(* there: the search may miss what waits, never the other way round.       *)
LEMMA PushedWaits ==
  ASSUME TypeOK, NEW p \in Commit, NEW s \in Pushed(p)
  PROVE  /\ \E k \in DOMAIN s : s[k] = p
         /\ \A l \in DOMAIN todo : \E k \in DOMAIN s : s[k] = todo[l]
<1>1. todo \in Seq(Commit) /\ Len(todo) \in Nat /\ DOMAIN todo = 1 .. Len(todo)
  BY DEF TypeOK
<1>2. CASE Places(p) # {}
  <2>1. s = todo
    BY <1>2 DEF Pushed
  <2>2. PICK k \in Places(p) : TRUE
    BY <1>2
  <2>3. todo[k] = p /\ k \in LookedAt(TodoTimes, Time(p), LinearBelow)
    BY <2>2 DEF Places
  <2>4. k \in DOMAIN TodoTimes
    BY <2>3 DEF LookedAt, SameTimeRun
  <2>5. k \in DOMAIN todo
    BY <2>4 DEF TodoTimes
  <2> QED BY <2>1, <2>3, <2>5
<1>3. CASE Places(p) = {}
  <2>1. PICK k \in 1 .. Len(todo) + 1 : s = InsertAt(todo, k, p)
    BY <1>3 DEF Pushed
  <2>2. /\ DOMAIN s = 1 .. Len(todo) + 1
        /\ \A j \in DOMAIN s :
             s[j] = IF j < k THEN todo[j] ELSE IF j = k THEN p ELSE todo[j - 1]
    BY <1>1, <2>1, InsertKeeps
  <2>3. k \in DOMAIN s /\ s[k] = p
    BY <1>1, <2>1, <2>2
  <2>4. ASSUME NEW l \in DOMAIN todo PROVE \E j \in DOMAIN s : s[j] = todo[l]
    <3>1. CASE l < k
      <4>1. l \in DOMAIN s /\ s[l] = todo[l]
        BY <1>1, <2>2, <3>1
      <4> QED BY <4>1
    <3>2. CASE ~(l < k)
      <4>1. l + 1 \in DOMAIN s /\ ~(l + 1 < k) /\ l + 1 # k /\ (l + 1) - 1 = l
        BY <1>1, <2>1, <2>2, <3>2
      <4>2. s[l + 1] = todo[l]
        BY <2>2, <4>1
      <4> QED BY <4>1, <4>2
    <3> QED BY <3>1, <3>2
  <2> QED BY <2>3, <2>4
<1> QED BY <1>2, <1>3

LEMMA InitWalkInv == Init => WalkInv
<1> SUFFICES ASSUME Init PROVE WalkInv
  OBVIOUS
<1>1. TypeOK
  BY InitInOrder DEF InOrder
<1>2. me = repo.head /\ i = 1 /\ DOMAIN todo = {} /\ DOMAIN calls = {} /\ after \in Nat
  BY WalkAssumption DEF Init
<1>3. OnlyEdges
  BY <1>1, <1>2, HeadReachable DEF OnlyEdges, Known
<1>4. NoneForgotten
  <2>1. HandedOver(me, 1)
    <3>1. \A k \in DOMAIN Parents(me) : ~(k < 1)
      <4>1. Parents(me) \in Seq(Commit)
        BY <1>1, TimeTyped DEF TypeOK
      <4> QED BY <4>1
    <3> QED BY <3>1 DEF HandedOver
  <2>2. \A c \in Known : c = me
    BY <1>2 DEF Known
  <2>3. state = "done" => Time(repo.head) <= after
    BY <1>2 DEF Init
  <2> QED BY <1>2, <2>1, <2>2, <2>3 DEF NoneForgotten
<1> QED BY <1>1, <1>3, <1>4 DEF WalkInv

LEMMA TooOldWalkInv == ASSUME WalkInv, TooOld PROVE OnlyEdges' /\ (NoneSkipped => NoneForgotten')
<1>1. /\ repo' = repo /\ after' = after /\ me' = me /\ todo' = todo /\ calls' = calls
      /\ i' = i + 1 /\ state' = state /\ state # "done"
      /\ Time(Parents(me)[i]) < after
  BY DEF TooOld, NextParent
<1>2. TypeOK /\ OnlyEdges /\ (NoneSkipped => NoneForgotten)
  BY DEF WalkInv
<1>3. Reachable' = Reachable /\ \A c : Time(c)' = Time(c) /\ Parents(c)' = Parents(c)
  BY <1>1, GraphKept
<1>4. OnlyEdges'
  BY <1>1, <1>2, <1>3 DEF OnlyEdges, Known
<1>5. ASSUME NoneSkipped PROVE NoneForgotten'
  <2>1. NoneForgotten
    BY <1>2, <1>5
  <2>2. HandedOver(me, i + 1)
    <3> SUFFICES ASSUME NEW k \in DOMAIN Parents(me), k < i + 1,
                        Time(Parents(me)[k]) >= after
                 PROVE  <<me, k>> \in Calls
      BY DEF HandedOver
    <3>1. /\ Parents(me) \in Seq(Commit) /\ i \in Nat /\ after \in Nat
          /\ k \in Nat /\ Time(Parents(me)[k]) \in Nat
      <4>1. me \in Commit /\ Parents(me) \in Seq(Commit) /\ i \in Nat /\ after \in Nat
        BY <1>2, TimeTyped, WalkAssumption DEF TypeOK
      <4>2. Parents(me)[k] \in Commit /\ k \in Nat
        BY <4>1
      <4> QED BY <1>2, <4>1, <4>2, TimeTyped
    <3>2. k # i
      BY <1>1, <3>1
    <3>3. k < i
      BY <3>1, <3>2
    <3> QED BY <2>1, <3>3 DEF NoneForgotten, HandedOver
  <2>3. \A c, n : HandedOver(c, n)' <=> HandedOver(c, n)
    BY <1>1, <1>3 DEF HandedOver, Calls
  <2>4. Known' = Known /\ \A c : Waits(c)' <=> Waits(c)
    BY <1>1 DEF Known, Waits
  <2> QED BY <1>1, <1>3, <2>1, <2>2, <2>3, <2>4 DEF NoneForgotten
<1> QED BY <1>4, <1>5

LEMMA PopWalkInv == ASSUME WalkInv, Pop PROVE OnlyEdges' /\ (NoneSkipped => NoneForgotten')
<1> DEFINE n == Len(todo)
<1>1. /\ repo' = repo /\ after' = after /\ calls' = calls
      /\ i' = 1 /\ state' = state /\ state # "done" /\ i > Len(Parents(me))
  BY DEF Pop
<1>2. TypeOK /\ OnlyEdges /\ (NoneSkipped => NoneForgotten)
  BY DEF WalkInv
<1>3. /\ n \in Nat \ {0} /\ DOMAIN todo = 1 .. n
      /\ me' = todo[n] /\ me' \in Commit
      /\ DOMAIN todo' = 1 .. n - 1 /\ \A k \in 1 .. n - 1 : todo'[k] = todo[k]
  BY <1>2, PopTyped
<1>4. Reachable' = Reachable /\ \A c : Time(c)' = Time(c) /\ Parents(c)' = Parents(c)
  BY <1>1, GraphKept
<1> HIDE DEF n
<1>5. n \in DOMAIN todo /\ 1 .. n - 1 \subseteq DOMAIN todo
  BY <1>3
<1>6. Known' = Known
  BY <1>1 DEF Known
<1>7. OnlyEdges'
  BY <1>1, <1>2, <1>3, <1>4, <1>5, <1>6 DEF OnlyEdges
<1>8. ASSUME NoneSkipped PROVE NoneForgotten'
  <2>1. NoneForgotten
    BY <1>2, <1>8
  <2>2. \A c, k : HandedOver(c, k)' <=> HandedOver(c, k)
    BY <1>1, <1>4 DEF HandedOver, Calls
  <2>3. HandedOver(me', 1)
    <3>1. \A k \in DOMAIN Parents(me') : ~(k < 1)
      <4>1. Parents(me') \in Seq(Commit)
        BY <1>2, <1>3, TimeTyped
      <4> QED BY <4>1
    <3> QED BY <3>1 DEF HandedOver
  <2>4. HandedOver(me, Len(Parents(me)) + 1)
    <3>1. Parents(me) \in Seq(Commit) /\ i \in Nat
      BY <1>2, TimeTyped DEF TypeOK
    <3>2. \A k \in DOMAIN Parents(me) : k < i
      BY <1>1, <3>1
    <3> QED BY <2>1, <3>2 DEF NoneForgotten, HandedOver
  <2>5. \A c : Waits(c) => c = me' \/ Waits(c)'
    <3> SUFFICES ASSUME NEW c, NEW k \in DOMAIN todo, todo[k] = c, c # me'
                 PROVE  \E l \in DOMAIN todo' : todo'[l] = c
      BY DEF Waits
    <3>1. k \in 1 .. n - 1
      BY <1>3
    <3> QED BY <1>3, <3>1
  <2>6. ASSUME NEW c \in Known
        PROVE  c = me' \/ Waits(c)' \/ HandedOver(c, Len(Parents(c)) + 1)
    <3>1. c = me \/ Waits(c) \/ HandedOver(c, Len(Parents(c)) + 1)
      BY <2>1 DEF NoneForgotten
    <3> QED BY <2>4, <2>5, <3>1
  <2>7. (HandedOver(me, i))'
    <3>1. HandedOver(me', i')
      BY <1>1, <2>3
    <3> QED BY <1>1, <1>4, <3>1 DEF HandedOver, Calls
  <2> QED BY <1>1, <1>4, <1>6, <2>2, <2>6, <2>7 DEF NoneForgotten
<1> QED BY <1>7, <1>8

LEMMA FinishWalkInv ==
  ASSUME WalkInv, Finish PROVE OnlyEdges' /\ (NoneSkipped => NoneForgotten')
<1>1. /\ repo' = repo /\ after' = after /\ me' = me /\ todo' = todo /\ calls' = calls
      /\ i' = i /\ i > Len(Parents(me)) /\ todo = <<>>
  BY DEF Finish
<1>2. Reachable' = Reachable /\ \A c : Time(c)' = Time(c) /\ Parents(c)' = Parents(c)
  BY <1>1, GraphKept
<1>3. Known' = Known /\ (\A c : Waits(c)' <=> Waits(c))
      /\ \A c, n : HandedOver(c, n)' <=> HandedOver(c, n)
  BY <1>1, <1>2 DEF Known, Waits, HandedOver, Calls
<1>4. OnlyEdges'
  BY <1>1, <1>2, <1>3 DEF WalkInv, OnlyEdges
<1> QED BY <1>1, <1>2, <1>3, <1>4 DEF WalkInv, NoneForgotten

LEMMA VisitWalkInv ==
  ASSUME WalkInv, NEW result \in Results, Visit(result)
  PROVE  OnlyEdges' /\ (NoneSkipped' => NoneForgotten')
<1> DEFINE n == Len(calls)
<1>12. PICK p : p = NextParent
  OBVIOUS
<1>1. /\ repo' = repo /\ after' = after /\ me' = me /\ i' = i + 1
      /\ state' \in {state, "stopped"} /\ state # "done" /\ Time(p) >= after
  BY <1>12 DEF Visit
<1>2. TypeOK /\ OnlyEdges /\ (NoneSkipped => NoneForgotten)
  BY DEF WalkInv
<1>3. /\ p \in Commit /\ i \in DOMAIN Parents(me) /\ Parents(me)[i] = p
      /\ n \in Nat /\ DOMAIN calls = 1 .. n /\ DOMAIN calls' = 1 .. n + 1
      /\ \A k \in 1 .. n : calls'[k] = calls[k]
      /\ calls'[n + 1].base = me /\ calls'[n + 1].which = i
      /\ calls'[n + 1].parent = p
      /\ \A k \in DOMAIN todo' : todo'[k] = p \/ \E l \in DOMAIN todo : todo'[k] = todo[l]
  BY <1>2, <1>12, VisitTyped
<1>4. Reachable' = Reachable /\ \A c : Time(c)' = Time(c) /\ Parents(c)' = Parents(c)
  BY <1>1, GraphKept
<1>5. ASSUME result # "GFC_SKIP" PROVE todo' \in Pushed(p)
  BY <1>5, <1>12 DEF Visit
<1> HIDE DEF n
<1>6. /\ n + 1 \in DOMAIN calls' /\ 1 .. n \subseteq DOMAIN calls'
      /\ \A k \in DOMAIN calls' : k \in DOMAIN calls \/ k = n + 1
  BY <1>3
<1>7. \A k \in DOMAIN calls : k \in DOMAIN calls' /\ calls'[k] = calls[k]
  BY <1>3, <1>6
<1>8. Known' = Known \cup {p}
  <2>1. Known \cup {p} \subseteq Known'
    BY <1>1, <1>3, <1>6, <1>7 DEF Known
  <2>2. Known' \subseteq Known \cup {p}
    <3> SUFFICES ASSUME NEW k \in DOMAIN calls' PROVE calls'[k].parent \in Known \cup {p}
      BY <1>1 DEF Known
    <3>1. CASE k \in DOMAIN calls
      BY <1>7, <3>1 DEF Known
    <3>2. CASE k = n + 1
      BY <1>3, <3>2
    <3> QED BY <1>6, <3>1, <3>2
  <2> QED BY <2>1, <2>2
<1>9. Calls' = Calls \cup {<<me, i>>}
  <2>1. Calls \cup {<<me, i>>} \subseteq Calls'
    BY <1>3, <1>6, <1>7 DEF Calls
  <2>2. Calls' \subseteq Calls \cup {<<me, i>>}
    <3> SUFFICES ASSUME NEW k \in DOMAIN calls'
                 PROVE  <<calls'[k].base, calls'[k].which>> \in Calls \cup {<<me, i>>}
      BY DEF Calls
    <3>1. CASE k \in DOMAIN calls
      BY <1>7, <3>1 DEF Calls
    <3>2. CASE k = n + 1
      BY <1>3, <3>2
    <3> QED BY <1>6, <3>1, <3>2
  <2> QED BY <2>1, <2>2
<1>10. OnlyEdges'
  <2>1. me \in Known /\ Known \subseteq Reachable
    BY <1>2 DEF OnlyEdges
  <2>2. p \in Reachable
    <3>1. me \in Reachable /\ Time(Parents(me)[i]) >= after
      BY <1>1, <1>3, <2>1
    <3> QED BY <1>2, <1>3, <3>1, ParentReachable
  <2>3. \A k \in DOMAIN todo' : todo'[k] \in Known'
    BY <1>2, <1>3, <1>8 DEF OnlyEdges
  <2>4. ASSUME NEW k \in DOMAIN calls'
        PROVE  /\ calls'[k].base \in Known'
               /\ calls'[k].which \in DOMAIN Parents(calls'[k].base)
               /\ calls'[k].parent = Parents(calls'[k].base)[calls'[k].which]
               /\ Time(calls'[k].parent) >= after
    <3>1. CASE k \in DOMAIN calls
      BY <1>2, <1>7, <1>8, <3>1 DEF OnlyEdges
    <3>2. CASE k = n + 1
      BY <1>1, <1>3, <1>8, <2>1, <3>2
    <3> QED BY <1>6, <3>1, <3>2
  <2> QED BY <1>1, <1>4, <1>8, <2>1, <2>2, <2>3, <2>4 DEF OnlyEdges
<1>11. ASSUME NoneSkipped' PROVE NoneForgotten'
  <2>1. NoneSkipped /\ result # "GFC_SKIP"
    BY <1>2, <1>11, UndisturbedBefore
  <2>2. NoneForgotten
    BY <1>2, <2>1
  <2>3. /\ Waits(p)' /\ \A c : Waits(c) => Waits(c)'
    <3>1. /\ \E k \in DOMAIN todo' : todo'[k] = p
          /\ \A l \in DOMAIN todo : \E k \in DOMAIN todo' : todo'[k] = todo[l]
      BY <1>2, <1>3, <1>5, <2>1, PushedWaits
    <3> QED BY <3>1 DEF Waits
  <2>4. \A c, k : HandedOver(c, k) => HandedOver(c, k)'
    BY <1>1, <1>4, <1>9 DEF HandedOver
  <2>5. ASSUME NEW k \in DOMAIN Parents(me), k < i + 1, Time(Parents(me)[k]) >= after
        PROVE  <<me, k>> \in Calls'
    <3>1. k \in Nat /\ i \in Nat
      <4>1. Parents(me) \in Seq(Commit) /\ i \in Nat
        BY <1>2, TimeTyped DEF TypeOK
      <4> QED BY <4>1
    <3>2. CASE k = i
      BY <1>9, <3>2
    <3>3. CASE k < i
      BY <1>9, <2>2, <2>5, <3>3 DEF NoneForgotten, HandedOver
    <3> QED BY <2>5, <3>1, <3>2, <3>3
  <2>6. ASSUME NEW c \in Known', NEW l, l = Len(Parents(c)) + 1
        PROVE  c = me \/ Waits(c)' \/ HandedOver(c, l)'
    <3>1. CASE c = p
      BY <2>3, <3>1
    <3>2. CASE c \in Known
      BY <2>2, <2>3, <2>4, <2>6, <3>2 DEF NoneForgotten
    <3> QED BY <1>8, <3>1, <3>2
  <2>7. (HandedOver(me, i))'
    BY <1>1, <1>4, <2>5 DEF HandedOver
  <2>8. \A c \in Known' : c = me \/ Waits(c)' \/ (HandedOver(c, Len(Parents(c)) + 1))'
    BY <1>4, <2>6
  <2> QED BY <1>1, <2>7, <2>8 DEF NoneForgotten
<1> QED BY <1>10, <1>11

LEMMA NextWalkInv == WalkInv /\ [Next]_vars => WalkInv'
<1> SUFFICES ASSUME WalkInv, [Next]_vars PROVE WalkInv'
  OBVIOUS
<1>1. TypeOK'
  BY NextTyped DEF WalkInv
<1>2. CASE TooOld
  <2>1. NoneSkipped' => NoneSkipped
    BY <1>2 DEF TooOld, NoneSkipped
  <2> QED BY <1>1, <1>2, <2>1, TooOldWalkInv DEF WalkInv
<1>3. CASE Pop
  <2>1. NoneSkipped' => NoneSkipped
    BY <1>3 DEF Pop, NoneSkipped
  <2> QED BY <1>1, <1>3, <2>1, PopWalkInv DEF WalkInv
<1>4. CASE Finish
  <2>1. NoneSkipped' => NoneSkipped
    BY <1>4 DEF Finish, NoneSkipped
  <2> QED BY <1>1, <1>4, <2>1, FinishWalkInv DEF WalkInv
<1>5. CASE \E result \in Results : Visit(result)
  BY <1>1, <1>5, VisitWalkInv DEF WalkInv
<1>6. CASE UNCHANGED vars
  <2>1. /\ repo' = repo /\ after' = after /\ me' = me /\ todo' = todo /\ calls' = calls
        /\ i' = i /\ state' = state
    BY <1>6 DEF vars
  <2>2. Reachable' = Reachable /\ \A c : Time(c)' = Time(c) /\ Parents(c)' = Parents(c)
    BY <2>1, GraphKept
  <2>3. /\ Known' = Known /\ (\A c : Waits(c)' <=> Waits(c))
        /\ (\A c, n : HandedOver(c, n)' <=> HandedOver(c, n))
        /\ (NoneSkipped' <=> NoneSkipped)
    BY <2>1, <2>2 DEF Known, Waits, HandedOver, Calls, NoneSkipped
  <2>4. OnlyEdges'
    BY <2>1, <2>2, <2>3 DEF WalkInv, OnlyEdges
  <2> QED BY <1>1, <2>1, <2>2, <2>3, <2>4 DEF WalkInv, NoneForgotten
<1> QED BY <1>2, <1>3, <1>4, <1>5, <1>6 DEF Next

(* A finished walk has been everywhere: what it has met is closed under    *)
(* the parents that are recent enough.                                     *)
LEMMA DoneIsAll ==
  ASSUME WalkInv, state = "done", Time(repo.head) > after, NoneSkipped
  PROVE  Calls = Edges
<1>1. TypeOK /\ OnlyEdges /\ NoneForgotten
  BY DEF WalkInv
<1>2. i > Len(Parents(me)) /\ todo = <<>>
  <2>1. repo.head \in Commit /\ after \in Nat
    BY <1>1, WalkAssumption DEF TypeOK
  <2>2. Time(repo.head) \in Nat
    BY <1>1, <2>1, TimeTyped
  <2> QED BY <1>1, <2>1, <2>2 DEF NoneForgotten
<1>3. Known \subseteq Commit
  BY <1>1 DEF OnlyEdges, Reachable
<1>4. ASSUME NEW c \in Known, NEW k \in DOMAIN Parents(c), Time(Parents(c)[k]) >= after
      PROVE  <<c, k>> \in Calls
  <2>1. Parents(c) \in Seq(Commit) /\ i \in Nat
    BY <1>1, <1>3, TimeTyped DEF TypeOK
  <2>2. k < Len(Parents(c)) + 1 /\ k \in Nat /\ Len(Parents(c)) \in Nat
    BY <2>1
  <2>3. CASE c = me
    <3>1. k < i
      BY <1>2, <2>1, <2>2, <2>3
    <3> QED BY <1>1, <1>4, <2>3, <3>1 DEF NoneForgotten, HandedOver
  <2>4. CASE c # me
    <3>1. ~Waits(c)
      BY <1>2 DEF Waits
    <3>2. HandedOver(c, Len(Parents(c)) + 1)
      BY <1>1, <2>4, <3>1 DEF NoneForgotten
    <3> QED BY <1>4, <2>2, <3>2 DEF HandedOver
  <2> QED BY <2>3, <2>4
<1>5. FromHere(Known)
  <2> SUFFICES ASSUME NEW c \in Known, NEW p \in RecentParents(c) PROVE p \in Known
    BY DEF FromHere
  <2>1. PICK k \in DOMAIN Parents(c) : p = Parents(c)[k] /\ Time(Parents(c)[k]) >= after
    BY DEF RecentParents, ToSet
  <2>2. <<c, k>> \in Calls
    BY <1>4, <2>1
  <2>3. PICK j \in DOMAIN calls : <<c, k>> = <<calls[j].base, calls[j].which>>
    BY <2>2 DEF Calls
  <2>4. calls[j].base = c /\ calls[j].which = k
    BY <2>3
  <2>5. calls[j].parent = p
    BY <1>1, <2>1, <2>4 DEF OnlyEdges
  <2> QED BY <2>5 DEF Known
<1>6. Reachable \subseteq Known
  <2>1. repo.head \in Known /\ Known \in SUBSET Commit
    BY <1>3 DEF Known
  <2> QED BY <1>5, <2>1 DEF Reachable
<1>7. Edges \subseteq Calls
  <2> SUFFICES ASSUME NEW c \in Reachable, NEW e \in RecentEdges(c) PROVE e \in Calls
    BY DEF Edges
  <2>1. PICK k \in DOMAIN Parents(c) : e = <<c, k>> /\ Time(Parents(c)[k]) >= after
    BY DEF RecentEdges
  <2> QED BY <1>4, <1>6, <2>1
<1>8. Calls \subseteq Edges
  <2> SUFFICES ASSUME NEW j \in DOMAIN calls
               PROVE  <<calls[j].base, calls[j].which>> \in Edges
    BY DEF Calls
  <2>1. /\ calls[j].base \in Reachable /\ calls[j].which \in DOMAIN Parents(calls[j].base)
        /\ Time(Parents(calls[j].base)[calls[j].which]) >= after
    BY <1>1 DEF OnlyEdges
  <2>2. <<calls[j].base, calls[j].which>> \in RecentEdges(calls[j].base)
    BY <2>1 DEF RecentEdges
  <2> QED BY <2>1, <2>2 DEF Edges
<1> QED BY <1>7, <1>8

(* A walk that no handler cut short has handed over every parent edge of   *)
(* every commit reachable through commits not older than `after', and      *)
(* nothing else (storygit.c:96-312).  This needs no order of the author    *)
(* times, and not that the search of todo finds what is there: a commit it *)
(* misses is visited again, never left out.                                *)
THEOREM NothingLeftOut == Spec => []AllVisited
<1>1. WalkInv => AllVisited
  BY DoneIsAll DEF AllVisited
<1> QED BY <1>1, InitWalkInv, NextWalkInv, PTL DEF Spec
===============================================================================
