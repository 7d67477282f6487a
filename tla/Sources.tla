------------------------------- MODULE Sources -------------------------------
(***************************************************************************)
(* One call of storydb_for_chapters with its handler for_chapter           *)
(* (storydb.c:423-474, main.c:107-244), with what Export leaves out: the   *)
(* markup files with their times, or gone, the options fix_srctimes,       *)
(* adjust_times and fix_titles, and file descriptors.  Rows, files and     *)
(* pages start in any state, since those options exist to repair what git, *)
(* clones and lost databases have left behind.                             *)
(***************************************************************************)
EXTENDS StoryTables, FiniteSetsExt

CONSTANTS
  TheStory,
  Stamp,        \* times of rows and files
  PageTime,     \* times of pages
  Option,       \* which of fix_srctimes, adjust_times, fix_titles are set
  Mark,         \* what `ready' of the story can be
  MaxOpen       \* descriptors the process can still open

ASSUME SourcesAssumption ==
  /\ Story = {TheStory}
  /\ Chapter = 1 .. Cardinality(Chapter) /\ Chapter # {}
  /\ Stamp \subseteq Nat \ {0} /\ PageTime \subseteq Nat \ {0}
  /\ Option \subseteq SUBSET {"fix_srctimes", "adjust_times", "fix_titles"}
  /\ Mark \subseteq Nat /\ MaxOpen \in Nat \ {0, 1}

VARIABLES
  stories, chapters,   \* the tables, as generate sees them
  file,                \* file time of markup/chapterN.hish, 0 if it is gone
  page,                \* [mtime, next] of a page, mtime 0 if there is none
  before,              \* history: the pages at the start
  run,                 \* options, storydb_all_ready, g.ready and g.numchaps
  find,                \* FOR_CHAPTERS: its `updated > ?2', the row it is at
  needRestart,         \* need_restart_for_chapters
  leaked,              \* descriptors opened and never closed
  visited,             \* history: the stamp each chapter was last handled with
  pc                   \* "running", "done" or "dead"

vars == <<stories, chapters, file, page, before, run, find, needRestart, leaked, visited, pc>>

Key1(n) == <<TheStory, n>>
NoPage == [mtime |-> 0, next |-> FALSE]
Pages == [Chapter -> {NoPage} \cup [mtime : PageTime \cup Stamp, next : BOOLEAN]]

TypeOK ==
  /\ IsStoryTable(stories) /\ IsChapterTable(chapters)
  /\ file \in [Chapter -> {0} \cup Stamp]
  /\ page \in Pages /\ before \in Pages
  /\ run \in [options : Option, allReady : BOOLEAN, ready : Nat, numchaps : Nat]
  /\ find.after \in {0} \cup Stamp /\ find.chapter \in {0} \cup Chapter
  /\ needRestart \in BOOLEAN /\ leaked \in 0 .. MaxOpen
  /\ visited \in [Chapter -> {0} \cup Stamp]
  /\ pc \in {"running", "done", "dead"}

Has(option) == option \in run.options
Fixing == Has("fix_srctimes")

(* for_story calls with the count of the rows; readers of the html         *)
(* category see the chapters up to `ready'.                                *)
Init ==
  /\ \E upd, seen \in [Chapter -> Stamp] :
       chapters = [k \in Key |-> [created |-> k[2], updated |-> upd[k[2]], seen |-> seen[k[2]]]]
  /\ \E mark \in Mark, allReady \in BOOLEAN, options \in Option :
       LET count == Cardinality(Chapter)
           newest == Max({chapters[k].updated : k \in Key})
           row == [created |-> 1, updated |-> newest, chapters |-> count, ready |-> mark]
           ready == ReadyOf(row, allReady)
       IN  /\ stories = [s \in Story |-> row]
           /\ run = [options |-> options, allReady |-> allReady, ready |-> ready,
                     numchaps |-> IF ~allReady /\ ready # 0 THEN ready ELSE count]
  /\ file \in [Chapter -> {0} \cup Stamp]
  /\ page \in [Chapter -> {NoPage} \cup [mtime : PageTime, next : {FALSE}]]
  /\ before = page
  /\ find = [after |-> 0, chapter |-> 0]
  /\ needRestart \in BOOLEAN
  /\ leaked = 0 /\ visited = [n \in Chapter |-> 0] /\ pc = "running"

-----------------------------------------------------------------------------
Due == DueChapters(chapters, TheStory, find.after, run.numchaps, run.allReady)
Ahead == {n \in Due : n > find.chapter}

(* Mutant of OlderFile: the file's time is believed in any case. *)
AnyFile(n, t) == Fixing /\ file[n] # 0 /\ leaked < MaxOpen

(* setupsrc, with fix_srctimes: a file older than the row corrects the     *)
(* row, one newer than the row is given its time.                          *)
OlderFile(n, t) == Fixing /\ file[n] # 0 /\ leaked < MaxOpen /\ file[n] < t

(* Mutant of NewerFile: files are never given the row's time. *)
LeftNewer(n, t) == FALSE

NewerFile(n, t) == Fixing /\ file[n] # 0 /\ leaked < MaxOpen /\ file[n] > t

(* The stamp for_chapter goes on with. *)
Corrected(n, t) == IF OlderFile(n, t) THEN file[n] ELSE t

(* Mutant of PreviousNeedsLink: only if the page is made now. *)
MadeNeedsLink(n) == n > 1 /\ n = run.numchaps /\ page[n].mtime = 0

PreviousNeedsLink(n) == n > 1 /\ n = run.numchaps

(* The calls of storydb_saw_chapter: chapters as [table, restart].         *)
AfterFile(n, t) ==
  IF OlderFile(n, t) THEN ChaptersAfterSaw(chapters, Key1(n), file[n]) ELSE chapters

AfterLink(n, t) ==
  IF PreviousNeedsLink(n)
  THEN ChaptersAfterSaw(AfterFile(n, t), Key1(n - 1), Corrected(n, t))
  ELSE AfterFile(n, t)

StoriesAfter(n, t) ==
  LET known == IF OlderFile(n, t) THEN StoriesAfterSaw(stories, TheStory, file[n])
               ELSE stories
  IN  IF PreviousNeedsLink(n) THEN StoriesAfterSaw(known, TheStory, Corrected(n, t))
      ELSE known

(* Mutant of Restarts: any call of saw_chapter is taken for a change. *)
AlwaysRestarts(n, t) == needRestart \/ OlderFile(n, t) \/ PreviousNeedsLink(n)

Restarts(n, t) ==
  \/ needRestart
  \/ OlderFile(n, t) /\ SawChanges(chapters, Key1(n), file[n])
  \/ PreviousNeedsLink(n) /\ SawChanges(AfterFile(n, t), Key1(n - 1), Corrected(n, t))

Skip(n, t) == page[n].mtime # 0 /\ page[n].mtime >= t

(* Mutant of Opened: the source is opened whatever the options. *)
OpenedFirst(n) == file[n] # 0 /\ leaked < MaxOpen

(* Mutant of Opened: a failing openat is not noticed. *)
OpenedAlways(n) == Fixing /\ file[n] # 0

(* The source is open from here on, and for_chapter's early returns do not *)
(* close it.                                                               *)
Opened(n) == Fixing /\ file[n] # 0 /\ leaked < MaxOpen

(* create_chapter on a descriptor of -1 is up to htmlish, an external      *)
(* library: a page without a text, or the end of the process.              *)
Sourced(n) == IF file[n] # 0 /\ leaked < MaxOpen THEN {"text"} ELSE {"nothing", "abort"}

(* A page at least as new as the row: only its time and, with fix_titles,  *)
(* the chapter's row are looked at again.                                  *)
SkipPage(n, t) ==
  /\ Skip(n, t)
  /\ page' = IF Has("adjust_times") THEN [page EXCEPT ![n].mtime = t] ELSE page
  /\ IF Has("fix_titles")
     THEN /\ \E source \in Sourced(n) : pc' = IF source = "abort" THEN "dead" ELSE pc
          /\ UNCHANGED leaked
     ELSE /\ leaked' = IF Opened(n) THEN leaked + 1 ELSE leaked
          /\ UNCHANGED pc

MakePage(n, t) ==
  /\ ~Skip(n, t)
  /\ \E source \in Sourced(n) :
       IF source = "abort" \/ leaked + (IF Opened(n) THEN 1 ELSE 0) = MaxOpen
       THEN pc' = "dead" /\ UNCHANGED page       \* or: .tempchap cannot be opened
       ELSE /\ page' = [page EXCEPT ![n] = [mtime |-> t, next |-> n < run.ready]]
            /\ UNCHANGED pc
  /\ UNCHANGED leaked

(* for_chapter.  It cannot meet the chapter run.numchaps + 1 its next      *)
(* condition is about (main.c:174-182): the statement leaves that out.     *)
Visit(n) ==
  LET stamp == chapters[Key1(n)].updated
      t == Corrected(n, stamp)
  IN  /\ pc = "running" /\ n \in Ahead /\ \A m \in Ahead : n <= m
      /\ chapters' = AfterLink(n, stamp) /\ stories' = StoriesAfter(n, stamp)
      /\ file' = IF NewerFile(n, stamp) THEN [file EXCEPT ![n] = stamp] ELSE file
      /\ visited' = [visited EXCEPT ![n] = t]
      /\ find' = IF Restarts(n, stamp) THEN [after |-> stamp, chapter |-> 0]
                 ELSE [find EXCEPT !.chapter = n]
      /\ needRestart' = FALSE
      /\ SkipPage(n, t) \/ MakePage(n, t)
      /\ UNCHANGED <<before, run>>

Finish ==
  /\ pc = "running" /\ Ahead = {}
  /\ pc' = "done"
  /\ UNCHANGED <<stories, chapters, file, page, before, run, find, needRestart, leaked, visited>>

Next == Finish \/ \E n \in Chapter : Visit(n)

Spec == Init /\ [][Next]_vars /\ WF_vars(Next)

-----------------------------------------------------------------------------
(* Every restart of the cursor is paid for: the call comes to its end      *)
(* although it updates rows behind its own cursor.  With fix_srctimes the  *)
(* file's time and the link's time can take turns for ever, and only the   *)
(* descriptors running out ends that; with fix_titles nothing does.        *)
Ends == ~(Fixing /\ Has("fix_titles")) => <>(pc # "running")

(* main.c:117-131: for_chapter never runs out of descriptors on its own    *)
(* account, and dies of a missing source only: without fix_srctimes the    *)
(* early returns have nothing open.                                        *)
DiesOfMissing == pc = "dead" /\ ~Fixing => \E n \in Chapter : file[n] = 0

(* for_stories is in the middle of an index on stories.updated: whatever   *)
(* file times do to rows, none makes a row later than its story.           *)
StoryStays == [][stories' = stories]_vars

(* fix_srctimes (main.c:127-145): when the call ends, a file that was      *)
(* looked at has its row's time, unless the row has been marked since for  *)
(* the link to the last chapter.                                           *)
TimesAgree ==
  pc = "done" /\ Fixing /\ leaked < MaxOpen =>
    \A n \in Chapter \ {run.numchaps - 1} :
      visited[n] # 0 /\ file[n] # 0 => file[n] = chapters[Key1(n)].updated

(* main.c:199-203 "previous needs a next link": once the last chapter has  *)
(* been handled, the page before it links on or is older than its row, so  *)
(* that it is made again when it is next due.  This needs the page before  *)
(* to have been older than the last chapter's stamp, which nothing checks: *)
(* a page made later, when the last chapter was still hidden, keeps its    *)
(* missing link.                                                           *)
LinkFollows ==
  LET last == run.numchaps
  IN  pc = "done" /\ ~Fixing /\ last \in Chapter \ {1} /\ visited[last] # 0
      /\ before[last - 1].mtime < visited[last]
      => page[last - 1].next \/ page[last - 1].mtime < chapters[Key1(last - 1)].updated
==============================================================================
