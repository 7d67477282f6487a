-------------------------- MODULE StoryTablesProofs --------------------------
(***************************************************************************)
(* Lemmas about the operators of StoryTables.                              *)
(***************************************************************************)
EXTENDS StoryTables, WellFoundedInduction, FiniteSetTheorems, TLAPS

UpSet(S, x) == {y \in S : x <= y}

(* A non-empty finite set of integers has a greatest element: the least    *)
(* up-set under strict inclusion, which is well founded, is its up-set.    *)
LEMMA GreatestExists ==
  ASSUME NEW S \in SUBSET Int, IsFiniteSet(S), S # {}
  PROVE  \E x \in S : \A y \in S : y <= x
<1> DEFINE U == {UpSet(S, x) : x \in S}
           R == StrictSubsetOrdering(S)
<1>1. IsWellFoundedOn(R, SUBSET S)
  BY FS_StrictSubsetOrderingWellFounded, FS_FiniteSubsetsOfFinite
<1>2. U \subseteq SUBSET S /\ U # {}
  BY DEF UpSet
<1>3. \E u \in U : \A v \in U : ~ (<<v, u>> \in R)
  <2> HIDE DEF U, R
  <2> QED BY <1>1, <1>2, WFMin
<1>4. PICK x \in S : \A y \in S : ~ (<<UpSet(S, y), UpSet(S, x)>> \in R)
  BY <1>3
<1>5. ASSUME NEW y \in S, y > x PROVE FALSE
  <2>1. UpSet(S, y) \subseteq UpSet(S, x)
    <3>1. ASSUME NEW z \in S, y <= z PROVE x <= z
      <4>1. x \in Int /\ y \in Int /\ z \in Int
        OBVIOUS
      <4> QED BY <1>5, <3>1, <4>1
    <3> QED BY <3>1 DEF UpSet
  <2>2. x \in UpSet(S, x) /\ x \notin UpSet(S, y)
    BY <1>5 DEF UpSet
  <2>3. <<UpSet(S, y), UpSet(S, x)>> \in R
    BY <2>1, <2>2 DEF StrictSubsetOrdering, UpSet
  <2> QED BY <2>3, <1>4
<1> QED BY <1>4, <1>5

LEMMA ChapterTableFinite ==
  ASSUME NEW ch, IsChapterTable(ch)
  PROVE  IsFiniteSet(DOMAIN ch) /\ Cardinality(DOMAIN ch) \in Nat
<1>1. IsFiniteSet(Key)
  BY TableAssumption, FS_Product DEF Key
<1>2. IsFiniteSet(DOMAIN ch)
  BY <1>1, FS_Subset DEF IsChapterTable
<1> QED BY <1>2, FS_CardinalityType

(* The loop `while created is taken: --created' (storydb.c:133-143) ends:  *)
(* among n + 1 consecutive stamps one is not used by n rows.               *)
LEMMA FreeStampExists ==
  ASSUME NEW ch, IsChapterTable(ch), NEW t \in Int
  PROVE  FreeStamps(ch, t) # {}
<1> DEFINE D == DOMAIN ch
           n == Cardinality(D)
           I == (t - n) .. t
           f == [c \in I |-> CHOOSE k \in D : ch[k].created = c]
<1>1. IsFiniteSet(D) /\ n \in Nat
  BY ChapterTableFinite
<1>2. IsFiniteSet(I) /\ Cardinality(I) = n + 1
  <2> HIDE DEF n
  <2>1. t - n \in Int /\ ~(t - n > t)
    BY <1>1
  <2> QED BY <1>1, <2>1, FS_Interval
<1>3. SUFFICES ASSUME \A c \in I : c \in UsedStamps(ch) PROVE FALSE
  BY DEF FreeStamps
<1>4. \A c \in I : f[c] \in D /\ ch[f[c]].created = c
  BY <1>3 DEF UsedStamps
<1>5. f \in [I -> D]
  BY <1>4
<1>6. \E x, y \in I : x # y /\ f[x] = f[y]
  <2> HIDE DEF f, I, n, D
  <2>1. Cardinality(D) < Cardinality(I)
    BY <1>1, <1>2 DEF n
  <2> QED BY <1>1, <1>2, <1>5, <2>1, FS_PigeonHole
<1> QED BY <1>4, <1>6

(* saw_chapter inserts under an integer stamp that is not later than the   *)
(* one it was called with, earlier by at most the number of rows, and that *)
(* no row has.                                                             *)
LEMMA FreshCreatedIsFree ==
  ASSUME NEW ch, IsChapterTable(ch), NEW t \in Int
  PROVE  /\ FreshCreated(ch, t) \in Int
         /\ FreshCreated(ch, t) <= t
         /\ t - Cardinality(DOMAIN ch) <= FreshCreated(ch, t)
         /\ FreshCreated(ch, t) \notin UsedStamps(ch)
<1> DEFINE F == FreeStamps(ch, t)
           n == Cardinality(DOMAIN ch)
<1>1. n \in Nat
  BY ChapterTableFinite
<1>2. F \in SUBSET ((t - n) .. t)
  BY DEF FreeStamps
<1>3. IsFiniteSet(F)
  <2> HIDE DEF F, n
  <2>1. IsFiniteSet((t - n) .. t)
    <3>1. t - n \in Int BY <1>1
    <3> QED BY <3>1, FS_Interval
  <2> QED BY <1>2, <2>1, FS_Subset
<1>4. \E c \in F : \A d \in F : d <= c
  <2>1. F \in SUBSET Int
    BY <1>1, <1>2
  <2>2. F # {}
    BY FreeStampExists
  <2> HIDE DEF F
  <2> QED BY <1>3, <2>1, <2>2, GreatestExists
<1>5. FreshCreated(ch, t) \in F
  <2> HIDE DEF F
  <2>1. FreshCreated(ch, t) = CHOOSE c \in F : \A d \in F : d <= c
    BY DEF FreshCreated, F
  <2> QED BY <1>4, <2>1
<1>6. FreshCreated(ch, t) \in (t - n) .. t
  BY <1>2, <1>5
<1>7. FreshCreated(ch, t) \notin UsedStamps(ch)
  BY <1>5 DEF FreeStamps
<1>8. t - n <= FreshCreated(ch, t) /\ FreshCreated(ch, t) <= t
  BY <1>1, <1>6
<1>9. FreshCreated(ch, t) \in Int
  BY <1>1, <1>6
<1> QED BY <1>7, <1>8, <1>9

-----------------------------------------------------------------------------
(* What each statement leaves of the tables. *)

LEMMA EmptyTablesConsistent == Consistent(EmptyTable, EmptyTable)
BY DEF Consistent, EmptyTable, IsStoryTable, IsChapterTable, StampsDistinctIn,
       UpdatedCoveredIn

(* A story inserted under a stamp no story has.                            *)
LEMMA NewStoryConsistent ==
  ASSUME NEW st, NEW ch, Consistent(st, ch),
         NEW s \in Story, s \notin DOMAIN st, NEW t \in Int, StampFree(st, t)
  PROVE  Consistent(Put(st, s, NewStory(t)), ch)
<1> DEFINE new == Put(st, s, NewStory(t))
<1>1. NewStory(t) \in StoryRow /\ NewStory(t).created = t
  BY DEF NewStory, StoryRow
<1>2. /\ DOMAIN new = DOMAIN st \cup {s} /\ new[s] = NewStory(t)
      /\ \A x \in DOMAIN st : new[x] = st[x]
  BY DEF Put
<1>3. IsStoryTable(new)
  BY <1>1 DEF Consistent, IsStoryTable, Put
<1>4. StampsDistinctIn(new)
  <2> HIDE DEF new
  <2> QED BY <1>1, <1>2 DEF Consistent, StampsDistinctIn, StampFree, UsedStamps
<1>5. UpdatedCoveredIn(new, ch)
  <2> HIDE DEF new
  <2> QED BY <1>2 DEF Consistent, UpdatedCoveredIn
<1> QED BY <1>3, <1>4, <1>5 DEF Consistent

(* saw_chapter on a row: `updated' becomes t, `created' stays, and the     *)
(* later of `updated' and `seen' never goes down.                          *)
LEMMA SeenAgainRow ==
  ASSUME NEW r \in ChapterRow, NEW t \in Int
  PROVE  /\ SeenAgain(r, t) \in ChapterRow
         /\ SeenAgain(r, t).updated = t
         /\ SeenAgain(r, t).created = r.created
         /\ Actual(r) <= Actual(SeenAgain(r, t))
         /\ SeenAgain(r, t).seen <= Larger(r.seen, r.updated)
<1>1. /\ r.created \in Int /\ r.updated \in Int /\ r.seen \in Int
      /\ r = [created |-> r.created, updated |-> r.updated, seen |-> r.seen]
  BY DEF ChapterRow
<1>2. Larger(r.seen, r.updated) \in Int
  BY <1>1 DEF Larger
<1>3. CASE r.updated = t
  BY <1>1, <1>3 DEF SeenAgain, Actual, Larger
<1>4. CASE r.updated # t
  <2> DEFINE new == [created |-> r.created, updated |-> t,
                     seen |-> Larger(r.seen, r.updated)]
  <2>1. SeenAgain(r, t) = new
    BY <1>1, <1>4 DEF SeenAgain
  <2>2. new \in ChapterRow
    BY <1>1, <1>2 DEF ChapterRow
  <2>3. Actual(r) <= Actual(new)
    BY <1>1 DEF Actual, Larger
  <2> QED BY <1>2, <2>1, <2>2, <2>3
<1> QED BY <1>3, <1>4

(* saw_chapter on the chapters table alone: rows stay rows, stamps stay    *)
(* distinct, the row it touches ends no later than t, the others stay.     *)
LEMMA ChaptersAfterSawTable ==
  ASSUME NEW ch, IsChapterTable(ch), StampsDistinctIn(ch),
         NEW k \in Key, NEW t \in Int
  PROVE  LET new == ChaptersAfterSaw(ch, k, t)
         IN  /\ IsChapterTable(new) /\ StampsDistinctIn(new)
             /\ DOMAIN new = DOMAIN ch \cup {k}
             /\ new[k].updated <= t
             /\ \A x \in DOMAIN ch : x # k => new[x] = ch[x]
             /\ k \in DOMAIN ch => new[k] = SeenAgain(ch[k], t)
             /\ k \notin DOMAIN ch =>
                  /\ new[k].seen <= t /\ t - Cardinality(DOMAIN ch) <= new[k].seen
                  /\ new[k].updated = new[k].seen
<1> DEFINE new == ChaptersAfterSaw(ch, k, t)
           c == FreshCreated(ch, t)
           row == IF k \in DOMAIN ch
                  THEN SeenAgain(ch[k], t)
                  ELSE [created |-> c, updated |-> c, seen |-> c]
<1>1. new = Put(ch, k, row)
  BY DEF ChaptersAfterSaw
<1>2. /\ DOMAIN new = DOMAIN ch \cup {k} /\ new[k] = row
      /\ \A x \in DOMAIN ch : x # k => new[x] = ch[x]
  <2> HIDE DEF new, row
  <2> QED BY <1>1 DEF Put
<1>3. /\ c \in Int /\ c <= t /\ c \notin UsedStamps(ch)
      /\ t - Cardinality(DOMAIN ch) <= c
  BY FreshCreatedIsFree
<1> HIDE DEF c
<1>4. row \in ChapterRow /\ row.updated <= t
  <2>1. CASE k \in DOMAIN ch
    <3>1. ch[k] \in ChapterRow
      BY <2>1 DEF IsChapterTable
    <3>2. row = SeenAgain(ch[k], t)
      BY <2>1
    <3> HIDE DEF row
    <3> QED BY <3>1, <3>2, SeenAgainRow
  <2>2. CASE k \notin DOMAIN ch
    BY <1>3, <2>2 DEF ChapterRow
  <2> QED BY <2>1, <2>2
<1>5. k \in DOMAIN ch => row.created = ch[k].created
  <2> SUFFICES ASSUME k \in DOMAIN ch PROVE row.created = ch[k].created
    OBVIOUS
  <2>1. ch[k] \in ChapterRow
    BY DEF IsChapterTable
  <2> QED BY <2>1, SeenAgainRow
<1>6. k \notin DOMAIN ch => row.created \notin UsedStamps(ch)
  BY <1>3
<1>7. /\ row = SeenAgain(ch[k], t) \/ k \notin DOMAIN ch
      /\ k \notin DOMAIN ch =>
           /\ row.seen <= t /\ t - Cardinality(DOMAIN ch) <= row.seen
           /\ row.updated = row.seen
  BY <1>3
<1> HIDE DEF row, new
<1>8. IsChapterTable(new)
  <2>1. DOMAIN new \subseteq Key
    BY <1>2 DEF IsChapterTable
  <2>2. \A x \in DOMAIN new : new[x] \in ChapterRow
    BY <1>2, <1>4 DEF IsChapterTable
  <2>3. new = [x \in DOMAIN new |-> new[x]]
    BY <1>1 DEF Put
  <2> QED BY <2>1, <2>2, <2>3 DEF IsChapterTable
<1>9. StampsDistinctIn(new)
  BY <1>2, <1>5, <1>6 DEF StampsDistinctIn, UsedStamps
<1> QED BY <1>2, <1>4, <1>7, <1>8, <1>9 DEF new

LEMMA StoriesAfterSawTable ==
  ASSUME NEW st, IsStoryTable(st), StampsDistinctIn(st),
         NEW s \in DOMAIN st, NEW t \in Int
  PROVE  LET new == StoriesAfterSaw(st, s, t)
         IN  /\ IsStoryTable(new) /\ StampsDistinctIn(new)
             /\ DOMAIN new = DOMAIN st
             /\ \A x \in DOMAIN st : st[x].updated <= new[x].updated
             /\ t <= new[s].updated
<1> DEFINE u == Larger(st[s].updated, t)
           new == StoriesAfterSaw(st, s, t)
<1>1. /\ new = [st EXCEPT ![s].updated = u]
      /\ \A x \in DOMAIN st : st[x] \in StoryRow
  BY DEF StoriesAfterSaw, IsStoryTable
<1>2. u \in Int /\ st[s].updated <= u /\ t <= u
  <2>1. st[s].updated \in Int
    BY <1>1 DEF StoryRow
  <2> QED BY <2>1 DEF Larger
<1> HIDE DEF u, new
<1>3. IsStoryTable(new)
  BY <1>1, <1>2 DEF IsStoryTable, StoryRow
<1>4. \A x \in DOMAIN st : new[x].created = st[x].created
  BY <1>1 DEF StoryRow
<1>5. DOMAIN new = DOMAIN st
  BY <1>1
<1>6. StampsDistinctIn(new)
  BY <1>4, <1>5 DEF StampsDistinctIn
<1>7. new[s].updated = u /\ \A x \in DOMAIN st : x # s => new[x] = st[x]
  BY <1>1 DEF StoryRow
<1>8. \A x \in DOMAIN st : st[x].updated <= new[x].updated
  BY <1>1, <1>2, <1>7 DEF StoryRow
<1> QED BY <1>2, <1>3, <1>5, <1>6, <1>7, <1>8 DEF new

(* saw_chapter for a chapter that is there: both tables together.          *)
LEMMA SawChapterConsistent ==
  ASSUME NEW st, NEW ch, Consistent(st, ch),
         NEW s \in DOMAIN st, NEW n \in Chapter, NEW t \in Int
  PROVE  Consistent(StoriesAfterSaw(st, s, t), ChaptersAfterSaw(ch, <<s, n>>, t))
<1> DEFINE k == <<s, n>>
           newst == StoriesAfterSaw(st, s, t)
           newch == ChaptersAfterSaw(ch, k, t)
<1>1. k \in Key /\ k[1] = s
  BY DEF Consistent, IsStoryTable, Key
<1>2. /\ IsStoryTable(newst) /\ StampsDistinctIn(newst)
      /\ DOMAIN newst = DOMAIN st
      /\ \A x \in DOMAIN st : st[x].updated <= newst[x].updated
      /\ t <= newst[s].updated
  BY StoriesAfterSawTable DEF Consistent
<1> HIDE DEF k
<1>3. /\ IsChapterTable(newch) /\ StampsDistinctIn(newch)
      /\ DOMAIN newch = DOMAIN ch \cup {k}
      /\ newch[k].updated <= t
      /\ \A x \in DOMAIN ch : x # k => newch[x] = ch[x]
  BY <1>1, ChaptersAfterSawTable DEF Consistent
<1> HIDE DEF newst, newch
<1>4. UpdatedCoveredIn(newst, newch)
  <2> SUFFICES ASSUME NEW x \in DOMAIN newch
               PROVE  x[1] \in DOMAIN newst /\ newch[x].updated <= newst[x[1]].updated
    BY DEF UpdatedCoveredIn
  <2>0. newch[x].updated \in Int
    BY <1>3 DEF IsChapterTable, ChapterRow
  <2>1. CASE x = k
    <3>1. newst[s].updated \in Int
      BY <1>2 DEF IsStoryTable, StoryRow
    <3> QED BY <1>1, <1>2, <1>3, <2>0, <2>1, <3>1
  <2>2. CASE x # k
    <3>1. /\ x \in DOMAIN ch /\ newch[x] = ch[x]
          /\ x[1] \in DOMAIN st /\ ch[x].updated <= st[x[1]].updated
      BY <1>3, <2>2 DEF Consistent, UpdatedCoveredIn
    <3>2. st[x[1]].updated \in Int /\ newst[x[1]].updated \in Int
      BY <1>2, <3>1 DEF Consistent, IsStoryTable, StoryRow
    <3>3. st[x[1]].updated <= newst[x[1]].updated
      BY <1>2, <3>1
    <3> QED BY <1>2, <2>0, <3>1, <3>2, <3>3
  <2> QED BY <2>1, <2>2
<1> QED BY <1>2, <1>3, <1>4 DEF Consistent, k, newst, newch

(* DELETE FROM chapters.                                                   *)
LEMMA DropConsistent ==
  ASSUME NEW st, NEW ch, Consistent(st, ch), NEW k
  PROVE  Consistent(st, Drop(ch, k))
<1> DEFINE new == Drop(ch, k)
<1>1. /\ DOMAIN new = DOMAIN ch \ {k}
      /\ \A x \in DOMAIN new : new[x] = ch[x]
      /\ new = [x \in DOMAIN new |-> new[x]]
  BY DEF Drop, Restrict
<1> HIDE DEF new
<1>2. IsChapterTable(new)
  BY <1>1 DEF Consistent, IsChapterTable
<1>3. StampsDistinctIn(new) /\ UpdatedCoveredIn(st, new)
  BY <1>1 DEF Consistent, StampsDistinctIn, UpdatedCoveredIn
<1> QED BY <1>2, <1>3 DEF Consistent, new

(* An UPDATE of stories that leaves `created' and `updated' alone.         *)
LEMMA SameStampsConsistent ==
  ASSUME NEW st, NEW ch, Consistent(st, ch), NEW new, IsStoryTable(new),
         DOMAIN new = DOMAIN st,
         \A s \in DOMAIN st : /\ new[s].created = st[s].created
                              /\ new[s].updated = st[s].updated
  PROVE  Consistent(new, ch)
BY DEF Consistent, StampsDistinctIn, UpdatedCoveredIn

(* make-log's subquery has a value for a story with a chapter: the latest  *)
(* `updated' of its chapters.                                              *)
LEMMA LatestChapterIsGreatest ==
  ASSUME NEW ch, IsChapterTable(ch), NEW s \in Story, ChaptersOf(ch, s) # {}
  PROVE  /\ LatestChapter(ch, s) \in Int
         /\ \A n \in ChaptersOf(ch, s) : ch[<<s, n>>].updated <= LatestChapter(ch, s)
<1> DEFINE C == ChaptersOf(ch, s)
           U == {ch[<<s, n>>].updated : n \in C}
           f == [n \in C |-> ch[<<s, n>>].updated]
<1>1. IsFiniteSet(C)
  <2>1. C \subseteq Chapter
    BY DEF ChaptersOf
  <2> QED BY <2>1, TableAssumption, FS_Subset
<1>2. f \in Surjection(C, U)
  BY DEF Surjection
<1>3. IsFiniteSet(U)
  <2> HIDE DEF C, U, f
  <2> QED BY <1>1, <1>2, FS_Surjection
<1>4. \A n \in C : ch[<<s, n>>].updated \in Int
  BY DEF ChaptersOf, IsChapterTable, ChapterRow
<1>5. U \in SUBSET Int /\ U # {}
  BY <1>4
<1>6. \E u \in U : \A v \in U : v <= u
  <2> HIDE DEF U
  <2> QED BY <1>3, <1>5, GreatestExists
<1>7. \E u \in U : \A n \in C : ch[<<s, n>>].updated <= u
  BY <1>6
<1>8. LatestChapter(ch, s) = CHOOSE u \in U : \A n \in C : ch[<<s, n>>].updated <= u
  BY DEF LatestChapter
<1>9. /\ LatestChapter(ch, s) \in U
      /\ \A n \in C : ch[<<s, n>>].updated <= LatestChapter(ch, s)
  <2> HIDE DEF U, C
  <2> QED BY <1>7, <1>8
<1> QED BY <1>5, <1>9

LEMMA SyncConsistent ==
  ASSUME NEW st, NEW ch, Consistent(st, ch),
         \A s \in DOMAIN st : ChaptersOf(ch, s) # {}
  PROVE  Consistent(StoriesAfterSync(st, ch), ch)
<1> DEFINE new == StoriesAfterSync(st, ch)
<1>1. ASSUME NEW s \in DOMAIN st
      PROVE  /\ LatestChapter(ch, s) \in Int
             /\ \A n \in ChaptersOf(ch, s) : ch[<<s, n>>].updated <= LatestChapter(ch, s)
  BY LatestChapterIsGreatest DEF Consistent, IsStoryTable
<1>2. /\ DOMAIN new = DOMAIN st
      /\ new = [s \in DOMAIN new |-> new[s]]
      /\ \A s \in DOMAIN st : new[s] = [st[s] EXCEPT !.updated = LatestChapter(ch, s)]
  BY DEF StoriesAfterSync
<1> HIDE DEF new
<1>3. \A s \in DOMAIN st : /\ new[s] \in StoryRow
                           /\ new[s].created = st[s].created
                           /\ new[s].updated = LatestChapter(ch, s)
  <2> TAKE s \in DOMAIN st
  <2>1. st[s] \in StoryRow
    BY DEF Consistent, IsStoryTable
  <2> QED BY <1>1, <1>2, <2>1 DEF StoryRow
<1>4. IsStoryTable(new)
  BY <1>2, <1>3 DEF Consistent, IsStoryTable
<1>5. StampsDistinctIn(new)
  BY <1>2, <1>3 DEF Consistent, StampsDistinctIn
<1>6. UpdatedCoveredIn(new, ch)
  <2> SUFFICES ASSUME NEW k \in DOMAIN ch
               PROVE  k[1] \in DOMAIN new /\ ch[k].updated <= new[k[1]].updated
    BY DEF UpdatedCoveredIn
  <2>1. k[1] \in DOMAIN st /\ k[2] \in Chapter /\ k = <<k[1], k[2]>>
    BY DEF Consistent, UpdatedCoveredIn, IsChapterTable, Key
  <2>2. k[2] \in ChaptersOf(ch, k[1])
    BY <2>1 DEF ChaptersOf
  <2>3. ch[<<k[1], k[2]>>].updated <= LatestChapter(ch, k[1])
    BY <1>1, <2>1, <2>2
  <2>4. ch[k].updated <= LatestChapter(ch, k[1])
    BY <2>1, <2>3
  <2>5. new[k[1]].updated = LatestChapter(ch, k[1])
    BY <1>3, <2>1
  <2> QED BY <1>2, <2>1, <2>4, <2>5
<1> QED BY <1>4, <1>5, <1>6 DEF Consistent, new

(* What saw_chapter adds to `seen' is the row's old `updated', which the   *)
(* story covered already, or a stamp not later than t.                     *)
LEMMA SawChapterSeenCovered ==
  ASSUME NEW st, NEW ch, Consistent(st, ch), SeenCoveredIn(st, ch),
         NEW s \in DOMAIN st, NEW n \in Chapter, NEW t \in Int
  PROVE  SeenCoveredIn(StoriesAfterSaw(st, s, t), ChaptersAfterSaw(ch, <<s, n>>, t))
<1> DEFINE k == <<s, n>>
           newst == StoriesAfterSaw(st, s, t)
           newch == ChaptersAfterSaw(ch, k, t)
<1>1. k \in Key /\ k[1] = s
  BY DEF Consistent, IsStoryTable, Key
<1>2. /\ IsStoryTable(newst)
      /\ DOMAIN newst = DOMAIN st
      /\ \A x \in DOMAIN st : st[x].updated <= newst[x].updated
      /\ t <= newst[s].updated
  BY StoriesAfterSawTable DEF Consistent
<1> HIDE DEF k
<1>3. /\ IsChapterTable(newch)
      /\ DOMAIN newch = DOMAIN ch \cup {k}
      /\ \A x \in DOMAIN ch : x # k => newch[x] = ch[x]
      /\ k \in DOMAIN ch => newch[k] = SeenAgain(ch[k], t)
      /\ k \notin DOMAIN ch => newch[k].seen <= t
  BY <1>1, ChaptersAfterSawTable DEF Consistent
<1> HIDE DEF newst, newch
<1>4. SUFFICES ASSUME NEW x \in DOMAIN newch
               PROVE  x[1] \in DOMAIN newst /\ newch[x].seen <= newst[x[1]].updated
  BY DEF SeenCoveredIn, newst, newch, k
<1>5. newch[x].seen \in Int
  BY <1>3 DEF IsChapterTable, ChapterRow
<1>6. CASE x \in DOMAIN ch
  <2>1. /\ ch[x] \in ChapterRow
        /\ x[1] \in DOMAIN st
        /\ ch[x].seen <= st[x[1]].updated /\ ch[x].updated <= st[x[1]].updated
    BY <1>6 DEF Consistent, UpdatedCoveredIn, SeenCoveredIn, IsChapterTable
  <2>2. st[x[1]].updated \in Int /\ newst[x[1]].updated \in Int
    BY <1>2, <2>1 DEF Consistent, IsStoryTable, StoryRow
  <2>3. ch[x].seen \in Int /\ ch[x].updated \in Int
    BY <2>1 DEF ChapterRow
  <2>4. newch[x].seen <= Larger(ch[x].seen, ch[x].updated)
    <3>1. CASE x = k
      BY <1>3, <1>6, <2>1, <3>1, SeenAgainRow
    <3>2. CASE x # k
      BY <1>3, <1>6, <2>3, <3>2 DEF Larger
    <3> QED BY <3>1, <3>2
  <2>5. newch[x].seen <= st[x[1]].updated
    BY <1>5, <2>1, <2>2, <2>3, <2>4 DEF Larger
  <2>6. st[x[1]].updated <= newst[x[1]].updated
    BY <1>2, <2>1
  <2> QED BY <1>2, <1>5, <2>1, <2>2, <2>5, <2>6
<1>7. CASE x \notin DOMAIN ch
  <2>1. x = k /\ newch[x].seen <= t
    BY <1>3, <1>7
  <2>2. newst[s].updated \in Int
    BY <1>2 DEF IsStoryTable, StoryRow
  <2> QED BY <1>1, <1>2, <1>5, <2>1, <2>2
<1> QED BY <1>6, <1>7

(* SAW_CHAPTER_UPDATE_STORY with a time the story has already reached.     *)
LEMMA SawOlderLeavesStories ==
  ASSUME NEW st, IsStoryTable(st), NEW s \in DOMAIN st, NEW t \in Int,
         t <= st[s].updated
  PROVE  StoriesAfterSaw(st, s, t) = st
<1>1. st[s] \in StoryRow /\ st[s].updated \in Int
  BY DEF IsStoryTable, StoryRow
<1>2. Larger(st[s].updated, t) = st[s].updated
  BY <1>1 DEF Larger
<1>3. [st[s] EXCEPT !.updated = st[s].updated] = st[s]
  BY <1>1 DEF StoryRow
<1>4. st = [x \in DOMAIN st |-> st[x]]
  BY DEF IsStoryTable
<1>5. StoriesAfterSaw(st, s, t) = [st EXCEPT ![s] = [st[s] EXCEPT !.updated = st[s].updated]]
  BY <1>2 DEF StoriesAfterSaw
<1> QED BY <1>3, <1>4, <1>5
=============================================================================
