----------------------------- MODULE StoryTables -----------------------------
(***************************************************************************)
(* The two tables every program of the repository shares, as values, and   *)
(* the SQL of storydb.c and db.sql.stmt as operators on them.  `stories'   *)
(* is a partial function from story locations to rows, `chapters' a        *)
(* partial function from keys <<story, chapter>> to rows.  Titles,         *)
(* descriptions, under_construction and the censored list are left out:    *)
(* no guard of the code modelled here reads them.                          *)
(***************************************************************************)
EXTENDS Integers, FiniteSets, Functions

CONSTANTS
  Story,      \* the story directories of the repository (stories.location)
  Chapter     \* the chapter numbers that occur in markup/chapterN.hish

ASSUME TableAssumption ==
  /\ IsFiniteSet(Story)
  /\ IsFiniteSet(Chapter) /\ Chapter \subseteq Nat \ {0}

Key == Story \X Chapter

StoryRow == [created : Int, updated : Int, chapters : Nat, ready : Nat]
ChapterRow == [created : Int, updated : Int, seen : Int]

IsStoryTable(st) == DOMAIN st \subseteq Story /\ st \in [DOMAIN st -> StoryRow]
IsChapterTable(ch) == DOMAIN ch \subseteq Key /\ ch \in [DOMAIN ch -> ChapterRow]

EmptyTable == [k \in {} |-> 0]

Larger(a, b) == IF a >= b THEN a ELSE b

Put(table, k, row) ==
  [x \in DOMAIN table \cup {k} |-> IF x = k THEN row ELSE table[x]]

Drop(table, k) == Restrict(table, DOMAIN table \ {k})

UsedStamps(table) == {table[k].created : k \in DOMAIN table}

(* The stamps the `--created' loop of saw_chapter can come to rest on.  A  *)
(* table of n rows uses at most n stamps, so looking n back is enough.     *)
FreeStamps(table, t) ==
  {c \in (t - Cardinality(DOMAIN table)) .. t : c \notin UsedStamps(table)}

(* Mutant of FreshCreated: no look for an unused stamp. *)
AnyCreated(ch, t) == t

FreshCreated(ch, t) ==
  LET free == FreeStamps(ch, t) IN CHOOSE c \in free : \A d \in free : d <= c

(* Mutant of SeenAgain: `seen' is left as it was. *)
UpdatedAgain(row, t) == [row EXCEPT !.updated = t]

(* UPDATE chapters SET updated = ?, seen = MAX(seen, updated): SQLite      *)
(* evaluates the right-hand sides on the old row.                          *)
SeenAgain(row, t) ==
  IF row.updated = t
  THEN row
  ELSE [row EXCEPT !.updated = t, !.seen = Larger(row.seen, row.updated)]

ChaptersAfterSaw(ch, k, t) ==
  IF k \in DOMAIN ch
  THEN Put(ch, k, SeenAgain(ch[k], t))
  ELSE LET c == FreshCreated(ch, t)
       IN Put(ch, k, [created |-> c, updated |-> c, seen |-> c])

(* Mutant of StoriesAfterSaw: no MAX. *)
StoriesSetBack(st, s, t) ==
  IF s \in DOMAIN st THEN [st EXCEPT ![s].updated = t] ELSE st

StoriesAfterSaw(st, s, t) ==
  IF s \in DOMAIN st
  THEN [st EXCEPT ![s].updated = Larger(@, t)]
  ELSE st

(* saw_chapter sets need_restart_for_chapters when it updates a row.       *)
SawChanges(ch, k, t) == k \in DOMAIN ch /\ ch[k].updated # t

ChaptersOf(ch, s) == {n \in Chapter : <<s, n>> \in DOMAIN ch}

CountChapters(ch, s) == Cardinality(ChaptersOf(ch, s))

(* Mutant of NewStory: -1 for `nothing is ready'. *)
UnreadyStory(t) == [created |-> t, updated |-> t, chapters |-> 0, ready |-> -1]

NewStory(t) == [created |-> t, updated |-> t, chapters |-> 0, ready |-> 0]

StampFree(st, t) == t \notin UsedStamps(st)

LatestChapter(ch, s) ==
  CHOOSE u \in {ch[<<s, n>>].updated : n \in ChaptersOf(ch, s)} :
    \A n \in ChaptersOf(ch, s) : ch[<<s, n>>].updated <= u

StoriesAfterSync(st, ch) ==
  [s \in DOMAIN st |-> [st[s] EXCEPT !.updated = LatestChapter(ch, s)]]

(* The stamp a reader of the tables takes for a chapter's last change,     *)
(* GREATEST(updated, seen).                                                *)
Actual(row) == Larger(row.updated, row.seen)

DueStories(st, after) ==
  {s \in DOMAIN st : st[s].updated # 0 /\ st[s].updated >= after}

(* The `ready' column of FOR_STORIES: the last chapter readers may see.    *)
ReadyOf(row, allReady) ==
  IF allReady THEN row.chapters
  ELSE IF row.ready # 0 THEN row.ready
  ELSE IF row.chapters = 1 THEN 1
  ELSE row.chapters - 1

(* Mutant of DueChapters: without its last condition. *)
DueDrafts(ch, s, after, numchaps, allReady) ==
  {n \in ChaptersOf(ch, s) : Actual(ch[<<s, n>>]) > after}

DueChapters(ch, s, after, numchaps, allReady) ==
  {n \in ChaptersOf(ch, s) :
     /\ Actual(ch[<<s, n>>]) > after
     /\ allReady \/ n <= numchaps}

-----------------------------------------------------------------------------
(* What the two tables owe each other. *)

StampsDistinctIn(table) ==
  \A j, k \in DOMAIN table : table[j].created = table[k].created => j = k

UpdatedCoveredIn(st, ch) ==
  \A k \in DOMAIN ch : k[1] \in DOMAIN st /\ ch[k].updated <= st[k[1]].updated

SeenCoveredIn(st, ch) ==
  \A k \in DOMAIN ch : k[1] \in DOMAIN st /\ ch[k].seen <= st[k[1]].updated

Consistent(st, ch) ==
  /\ IsStoryTable(st) /\ StampsDistinctIn(st)
  /\ IsChapterTable(ch) /\ StampsDistinctIn(ch)
  /\ UpdatedCoveredIn(st, ch)
=============================================================================
