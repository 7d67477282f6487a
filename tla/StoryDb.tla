------------------------------- MODULE StoryDb -------------------------------
(***************************************************************************)
(* storyinfo.sqlite under the programs that share it.  `generate' (main.c) *)
(* keeps one transaction open at all times, commits it where it calls      *)
(* db_retransaction and on db_close_and_exit, and loses what is in it when *)
(* it aborts or is killed.  `ready' (ready.c) and `make-log' (make-log.c)  *)
(* each run one UPDATE outside any transaction.  SQLite lets that UPDATE   *)
(* through only while generate's transaction has run no statement yet;     *)
(* otherwise it answers SQLITE_BUSY, db_check aborts the program and the   *)
(* tables stay as they were.                                               *)
(***************************************************************************)
EXTENDS StoryTables

CONSTANTS
  Stamp,      \* author times and file times, the `updated' arguments
  Count,      \* what `ready' may be given as a chapter, and chapter counts
  Programs    \* which of "generate", "ready" and "make-log" are ever run

ASSUME StampAssumption == Stamp \subseteq Nat \ {0}
ASSUME CountAssumption == Count \subseteq Nat

VARIABLES
  stories, chapters,   \* the tables, as generate's connection sees them
  saved,               \* the tables as last committed
  phase                \* "off"  generate is not running
                       \* "idle" BEGIN was run, no statement since: no lock
                       \* "busy" its transaction holds a lock

vars == <<stories, chapters, saved, phase>>
tables == [stories |-> stories, chapters |-> chapters]

TypeOK ==
  /\ IsStoryTable(stories) /\ IsChapterTable(chapters)
  /\ DOMAIN saved = {"stories", "chapters"}
  /\ IsStoryTable(saved.stories) /\ IsChapterTable(saved.chapters)
  /\ phase \in {"off", "idle", "busy"}

Init ==
  /\ stories = EmptyTable /\ chapters = EmptyTable
  /\ saved = tables
  /\ phase = "off"

-----------------------------------------------------------------------------
(* generate *)

Statement == phase # "off" /\ phase' = "busy" /\ UNCHANGED saved

(* db_abort, or a kill: SQLite rolls the open transaction back. *)
Abandon ==
  /\ phase # "off"
  /\ phase' = "off"
  /\ stories' = saved.stories /\ chapters' = saved.chapters
  /\ UNCHANGED saved

OpenDb ==
  /\ "generate" \in Programs
  /\ phase = "off" /\ phase' = "idle"
  /\ UNCHANGED <<stories, chapters, saved>>

(* Any SELECT: it changes nothing but takes the lock. *)
Look == phase = "idle" /\ Statement /\ UNCHANGED <<stories, chapters>>

(* storydb_get_story for a location without a row.  The UNIQUE index on    *)
(* stories.created refuses a stamp another story has: db_check aborts.     *)
GetStory(s, t) ==
  /\ s \notin DOMAIN stories
  /\ IF StampFree(stories, t)
     THEN /\ Statement
          /\ stories' = Put(stories, s, NewStory(t))
          /\ UNCHANGED chapters
     ELSE Abandon

SawChapter(s, n, t) ==
  /\ Statement
  /\ s \in DOMAIN stories
  /\ chapters' = ChaptersAfterSaw(chapters, <<s, n>>, t)
  /\ stories' = StoriesAfterSaw(stories, s, t)

SawDeleted(s, n) ==
  /\ Statement
  /\ s \in DOMAIN stories
  /\ chapters' = Drop(chapters, <<s, n>>)
  /\ UNCHANGED stories

(* Mutant of SetChapters: the row is written as a whole. *)
ReplaceChapters(s, c) ==
  /\ Statement
  /\ s \in DOMAIN stories
  /\ stories' = [stories EXCEPT ![s].chapters = c, ![s].ready = 0]
  /\ UNCHANGED chapters

SetChapters(s, c) ==
  /\ Statement
  /\ s \in DOMAIN stories
  /\ stories' = [stories EXCEPT ![s].chapters = c]
  /\ UNCHANGED chapters

Commit(next) ==
  /\ phase # "off" /\ phase' = next
  /\ saved' = tables
  /\ UNCHANGED <<stories, chapters>>

Retransaction == Commit("idle")
CloseAndExit == Commit("off")

-----------------------------------------------------------------------------
(* ready and make-log, each one UPDATE that commits by itself *)

Autocommit == phase # "busy" /\ UNCHANGED <<chapters, phase>> /\ saved' = tables'

SetReady(s, c) ==
  /\ "ready" \in Programs
  /\ s \in DOMAIN stories /\ c # 0 /\ stories[s].ready # c
  /\ stories' = [stories EXCEPT ![s].ready = c]
  /\ Autocommit

(* A story without chapters makes max() NULL, which NOT NULL refuses: the  *)
(* statement fails as a whole and make-log aborts.                         *)
CanSync == \A s \in DOMAIN stories : ChaptersOf(chapters, s) # {}

SyncStoriesUpdated ==
  /\ "make-log" \in Programs
  /\ CanSync
  /\ stories' = StoriesAfterSync(stories, chapters)
  /\ Autocommit

-----------------------------------------------------------------------------
Generate ==
  \/ OpenDb \/ Look \/ Retransaction \/ CloseAndExit \/ Abandon
  \/ \E s \in Story, t \in Stamp : GetStory(s, t)
  \/ \E s \in Story, n \in Chapter, t \in Stamp : SawChapter(s, n, t)
  \/ \E s \in Story, n \in Chapter : SawDeleted(s, n)
  \/ \E s \in Story, c \in Count : SetChapters(s, c)

Others ==
  \/ \E s \in Story, c \in Count : SetReady(s, c)
  \/ SyncStoriesUpdated

Next == Generate \/ Others

Spec == Init /\ [][Next]_vars

-----------------------------------------------------------------------------
(* storydb.c:131-143 looks for an unused `created' before it inserts a     *)
(* chapter, and storydb_get_story does not: whatever the order of calls,   *)
(* commits and rollbacks, no row of either table that generate writes or   *)
(* commits breaks the UNIQUE indexes of indexes.sql:4-5.                   *)
StampsDistinct ==
  /\ StampsDistinctIn(stories) /\ StampsDistinctIn(chapters)
  /\ StampsDistinctIn(saved.stories) /\ StampsDistinctIn(saved.chapters)

(* A chapter belongs to a recorded story, which is never older than the    *)
(* chapter's own `updated': storydb_for_stories (updated >= after) cannot  *)
(* leave out a story one of whose chapters was updated since `after'.      *)
UpdatedCovered ==
  /\ UpdatedCoveredIn(stories, chapters)
  /\ UpdatedCoveredIn(saved.stories, saved.chapters)

(* The same for `seen', which FOR_CHAPTERS treats like `updated'           *)
(* (schema.sql:36): a chapter marked seen since `after' is in a story      *)
(* for_stories visits.                                                     *)
SeenCovered ==
  /\ SeenCoveredIn(stories, chapters)
  /\ SeenCoveredIn(saved.stories, saved.chapters)

(* saw_chapter may move `updated' back (a file time, an older HEAD), but   *)
(* it keeps the old value in `seen': a chapter that was due for some       *)
(* `after' stays due until its row is deleted or the transaction is lost.  *)
ActualMonotone ==
  [][\/ Abandon
     \/ \A k \in DOMAIN chapters \cap DOMAIN chapters' :
          Actual(chapters[k]) <= Actual(chapters'[k])]_vars

(* ready's UPDATE is never undone by a commit or a rollback of generate,   *)
(* although generate runs on with tables it may have read before it.       *)
ReadyNeverLost ==
  [][\A s \in DOMAIN saved.stories \cap DOMAIN saved'.stories :
       \/ saved'.stories[s].ready = saved.stories[s].ready
       \/ \E c \in Count : SetReady(s, c)]_vars
=============================================================================
