-------------------------------- MODULE Export --------------------------------
(***************************************************************************)
(* The second half of `generate' (main.c:591-629) for one story: which     *)
(* chapters are due, which pages and contents are written, and what the    *)
(* writing notes in the tables.  Pages are named by category, the          *)
(* directory they go to, and keep what later runs and readers see of them: *)
(* their file time and whether they link to the next chapter.  Of the      *)
(* first half, Scan, there is what it records of HEAD, a file at a time.   *)
(*                                                                         *)
(* The story's markup files are 1 .. files at all times: none is removed,  *)
(* so the source of a recorded chapter is there.  No option of the         *)
(* environment is set but `category'.                                      *)
(***************************************************************************)
EXTENDS StoryTables

CONSTANTS
  ThisStory,
  Category,     \* what `category' is set to
  Served,       \* the categories whose row has a time: any other fails the
                \* assertion of main.c:597 before the row it needs is committed
  Gaps,         \* how much later the next commit can be
  Slack,        \* main.c looks this much further back than the last commit (100)
  Imported,     \* how many chapters the database can start with
  Marks,        \* what `ready' is given
  MaxPushes, MaxModified,    \* bounds: pushes, chapters modified by a push,
  MaxCrashes                 \* runs that are killed

ASSUME ExportAssumption ==
  /\ ThisStory \in Story /\ Served \subseteq Category
  /\ Chapter = 1 .. Cardinality(Chapter) /\ Imported \subseteq 0 .. Cardinality(Chapter)
  /\ Gaps \subseteq Nat \ {0} /\ Slack \in Nat
  /\ Marks \subseteq Nat \ {0}
  /\ MaxPushes \in Nat /\ MaxModified \in Nat /\ MaxCrashes \in Nat

FirstTime == 10 + Slack

VARIABLES
  head,                \* HEAD: [time, parent, changed], the latter the chapter
                       \* files it adds or modifies
  files,               \* how many markup files the story has
  pushes, crashes,     \* how many pushes there were, and runs that were killed
  stories, chapters,   \* the tables as generate sees them
  lastSeen,            \* committing.after, 0 for NULL
  saved,               \* all three as last committed
  page,                \* [category, chapter] -> [there, mtime, next]
  contents,            \* category -> [there, mtime, count]
  pc,                  \* "off" or where generate is
  g,                   \* what for_story and for_chapter share; todo: the files
                       \* of HEAD on_chapter has not had yet; history: rows
                       \* and due, the story's chapters recorded and due when
                       \* for_chapters was called
  find,                \* FOR_CHAPTERS: its `updated > ?2', the row it is at
  needRestart          \* need_restart_for_chapters

tables == <<stories, chapters, lastSeen>>
tree == <<head, files, pushes>>
site == <<page, contents>>
vars == <<tree, crashes, tables, saved, site, pc, g, find, needRestart>>

NoVisit == [category |-> "", after |-> 0, ready |-> 0, numchaps |-> 0, count |-> 0,
            stamp |-> 0, changed |-> FALSE, any |-> FALSE, title |-> FALSE,
            todo |-> {}, rows |-> {}, due |-> {}]
NoFind == [bound |-> 0, chapter |-> 0, stamp |-> 0]
NoPage == [there |-> FALSE, mtime |-> 0, next |-> FALSE]
NoContents == [there |-> FALSE, mtime |-> 0, count |-> 0]

(* `ready' is -1 when chapters were recorded and none exported yet.        *)
Visits ==
  [category : Category \cup {""}, after : Int, ready : Nat \cup {-1},
   numchaps : Nat \cup {-1}, count : Nat, stamp : Int,
   changed : BOOLEAN, any : BOOLEAN, title : BOOLEAN,
   todo : SUBSET Chapter, rows : SUBSET Chapter, due : SUBSET Chapter]

TypeOK ==
  /\ head \in [time : Nat, parent : Nat, changed : SUBSET Chapter]
  /\ files \in 0 .. Cardinality(Chapter) /\ pushes \in 0 .. MaxPushes
  /\ crashes \in 0 .. MaxCrashes
  /\ IsStoryTable(stories) /\ IsChapterTable(chapters) /\ lastSeen \in Nat
  /\ IsStoryTable(saved.stories) /\ IsChapterTable(saved.chapters) /\ saved.lastSeen \in Nat
  /\ page \in [Category \X Chapter -> [there : BOOLEAN, mtime : Int, next : BOOLEAN]]
  /\ contents \in [Category -> [there : BOOLEAN, mtime : Int, count : Nat]]
  /\ pc \in {"off", "scanning", "scanned", "chapters", "chapter", "contents", "exported"}
  /\ g \in Visits
  /\ find \in [bound : Int, chapter : {0} \cup Chapter, stamp : Int]
  /\ needRestart \in BOOLEAN

AllReady(c) == c = "sneakpeek"

Snapshot == [stories |-> stories, chapters |-> chapters, lastSeen |-> lastSeen]

(* A database as upgrade.sql leaves it: n chapters, each with a time of    *)
(* its own and none of them later than the story, all of them exported as  *)
(* far as they are ready.  The file n + 1 may be there, not recorded yet.  *)
Init ==
  \E n \in Imported :
    LET row == [created |-> 1, updated |-> n, chapters |-> n, ready |-> 0]
        last(c) == IF n = 0 THEN 0 ELSE ReadyOf(row, AllReady(c))
    IN  /\ files \in n .. n + 1 /\ files <= Cardinality(Chapter)
        /\ stories = IF n = 0 THEN EmptyTable ELSE Put(EmptyTable, ThisStory, row)
        /\ chapters = [k \in {ThisStory} \X (1 .. n) |->
                         [created |-> k[2], updated |-> k[2], seen |-> k[2]]]
        /\ page = [x \in Category \X Chapter |->
                     IF x[2] <= last(x[1])
                     THEN [there |-> TRUE, mtime |-> x[2], next |-> x[2] < last(x[1])]
                     ELSE NoPage]
        /\ contents = [c \in Category |->
                         IF n = 0 THEN NoContents
                         ELSE [there |-> TRUE, mtime |-> n, count |-> last(c)]]
        /\ head = [time |-> FirstTime, parent |-> 0, changed |-> {}]
        /\ pushes = 0 /\ crashes = 0 /\ lastSeen = 0 /\ saved = Snapshot
        /\ pc = "off" /\ g = NoVisit /\ find = NoFind /\ needRestart = FALSE

-----------------------------------------------------------------------------
(* Outside generate: git, and the program `ready' (StoryDb says when it    *)
(* gets through).  A push that touches no file of this story touches some  *)
(* other story's.                                                          *)

Push ==
  /\ pc = "off" /\ pushes < MaxPushes /\ pushes' = pushes + 1
  /\ \E gap \in Gaps, modified \in SUBSET (1 .. files) :
       /\ Cardinality(modified) <= MaxModified
       /\ files' \in {files, files + 1} /\ files' <= Cardinality(Chapter)
       /\ head' = [time |-> head.time + gap, parent |-> head.time,
                   changed |-> modified \cup (files + 1) .. files']
  /\ UNCHANGED <<crashes, tables, saved, site, pc, g, find, needRestart>>

SetReady ==
  /\ pc = "off" /\ ThisStory \in DOMAIN stories
  /\ \E c \in Marks : /\ stories[ThisStory].ready # c
                      /\ stories' = [stories EXCEPT ![ThisStory].ready = c]
  /\ saved' = [saved EXCEPT !.stories = stories']
  /\ UNCHANGED <<tree, crashes, chapters, lastSeen, site, pc, g, find, needRestart>>

-----------------------------------------------------------------------------
Exit == pc' = "off" /\ g' = NoVisit /\ find' = NoFind /\ needRestart' = FALSE

(* The rows are rolled back; the files written stay.                       *)
Rollback ==
  /\ pc # "off" /\ Exit
  /\ stories' = saved.stories /\ chapters' = saved.chapters /\ lastSeen' = saved.lastSeen
  /\ UNCHANGED <<tree, saved, site>>

Abandon == crashes < MaxCrashes /\ crashes' = crashes + 1 /\ Rollback

(* The walk notes HEAD in `committing' and has the files of its diff come  *)
(* to on_chapter, or does nothing if the parent is too old (Scan has the   *)
(* whole of it).                                                           *)
Visited(after) == head.parent # 0 /\ head.parent >= after

Scan(category) ==
  LET after == IF lastSeen # 0 THEN lastSeen - Slack ELSE 0
  IN  /\ pc = "off" /\ pc' = "scanning"
      /\ g' = [NoVisit EXCEPT !.category = category, !.after = after,
                 !.todo = IF Visited(after) THEN head.changed ELSE {}]
      /\ lastSeen' = IF Visited(after) THEN head.time ELSE lastSeen
      /\ UNCHANGED <<tree, crashes, stories, chapters, saved, site, find, needRestart>>

(* on_chapter for a file of this story: its row is made, or gets HEAD's    *)
(* time.  The call is a hundredth one, and commits what is pending, or     *)
(* not: other stories' files come between.                                 *)
ScanFile(n) ==
  LET k == <<ThisStory, n>>
      known == IF ThisStory \in DOMAIN stories THEN stories
               ELSE Put(stories, ThisStory, NewStory(head.time))
  IN  /\ pc = "scanning" /\ n \in g.todo
      /\ g' = [g EXCEPT !.todo = @ \ {n}]
      /\ saved' \in {saved, Snapshot}
      /\ stories' = StoriesAfterSaw(known, ThisStory, head.time)
      /\ chapters' = ChaptersAfterSaw(chapters, k, head.time)
      /\ needRestart' = (needRestart \/ SawChanges(chapters, k, head.time))
      /\ UNCHANGED <<tree, crashes, lastSeen, site, pc, find>>

(* main.c:589 commits.                                                     *)
EndScan ==
  /\ pc = "scanning" /\ g.todo = {}
  /\ pc' = "scanned"
  /\ saved' = Snapshot
  /\ UNCHANGED <<tree, crashes, tables, site, g, find, needRestart>>

-----------------------------------------------------------------------------
(* Mutant of Saw: seen just now, at the time of HEAD. *)
SawNow(n, t) ==
  /\ chapters' = ChaptersAfterSaw(chapters, <<ThisStory, n>>, head.time)
  /\ stories' = StoriesAfterSaw(stories, ThisStory, head.time)

Saw(n, t) ==
  /\ chapters' = ChaptersAfterSaw(chapters, <<ThisStory, n>>, t)
  /\ stories' = StoriesAfterSaw(stories, ThisStory, t)

(* Mutant of SawRestarts: need_restart_for_chapters is not set. *)
NeverRestarts(n, t) == FALSE

SawRestarts(n, t) == SawChanges(chapters, <<ThisStory, n>>, t)

(* for_story, as far as the call of storydb_for_chapters.                  *)
ForStory ==
  LET row == stories[ThisStory]
      ready == ReadyOf(row, AllReady(g.category))
      count == CountChapters(chapters, ThisStory)
      numchaps == IF ~AllReady(g.category) /\ ready # 0 THEN ready ELSE count
      marks == count # row.chapters /\ count > 1
  IN  /\ pc = "scanned" /\ g.category \in Served
      /\ ThisStory \in DueStories(stories, g.after)
      /\ IF marks THEN Saw(count - 1, row.updated) ELSE UNCHANGED <<stories, chapters>>
      /\ needRestart' = (needRestart \/ (marks /\ SawRestarts(count - 1, row.updated)))
      /\ g' = [g EXCEPT !.ready = ready, !.numchaps = numchaps, !.count = count,
                        !.changed = (count # row.chapters), !.stamp = row.updated,
                        !.rows = ChaptersOf(chapters', ThisStory),
                        !.due = DueChapters(chapters', ThisStory, g.after, numchaps,
                                            AllReady(g.category))]
      /\ find' = [NoFind EXCEPT !.bound = g.after]
      /\ pc' = "chapters"
      /\ UNCHANGED <<tree, crashes, lastSeen, saved, site>>

NotDue ==
  /\ pc = "scanned" /\ g.category \in Served
  /\ ThisStory \notin DueStories(stories, g.after)
  /\ pc' = "exported"
  /\ UNCHANGED <<tree, crashes, tables, saved, site, g, find, needRestart>>

(* main.c:597, assert(g.timestamp != 0). *)
CategoryIsNew == pc = "scanned" /\ g.category \notin Served /\ Rollback /\ UNCHANGED crashes

(* sqlite3_step: the primary key gives the rows in order of the chapters,  *)
(* each looked at when the cursor comes to it.                             *)
Ahead ==
  {n \in DueChapters(chapters, ThisStory, find.bound, g.numchaps, AllReady(g.category)) :
     n > find.chapter}

Step ==
  /\ pc = "chapters"
  /\ \/ Ahead = {} /\ pc' = "contents" /\ UNCHANGED find
     \/ \E n \in Ahead :
          /\ \A m \in Ahead : n <= m
          /\ find' = [find EXCEPT !.chapter = n, !.stamp = chapters[<<ThisStory, n>>].updated]
          /\ pc' = "chapter"
  /\ UNCHANGED <<tree, crashes, tables, saved, site, g, needRestart>>

(* Mutant of PreviousNeedsLink: the first chapter has a previous one too. *)
LastNeedsLink == find.chapter = g.numchaps

PreviousNeedsLink == find.chapter > 1 /\ find.chapter = g.numchaps

(* Mutant of Skip: pages are written again in any case. *)
NeverSkip == FALSE

Skip == LET p == page[<<g.category, find.chapter>>] IN p.there /\ p.mtime >= find.stamp

(* for_chapter, and what the loop of storydb_for_chapters does after it.   *)
(* (It cannot meet the chapter g.numchaps + 1, which it would not export.) *)
ForChapter ==
  LET restarts == \/ needRestart
                  \/ PreviousNeedsLink /\ SawRestarts(find.chapter - 1, find.stamp)
  IN  /\ pc = "chapter" /\ pc' = "chapters"
      /\ IF PreviousNeedsLink
         THEN Saw(find.chapter - 1, find.stamp) ELSE UNCHANGED <<stories, chapters>>
      /\ IF Skip
         THEN g' = [g EXCEPT !.any = TRUE] /\ UNCHANGED page
         ELSE /\ page' = [page EXCEPT ![<<g.category, find.chapter>>] =
                            [there |-> TRUE, mtime |-> find.stamp,
                             next |-> find.chapter < g.ready]]
              /\ \E title \in {g.title, TRUE} :
                   g' = [g EXCEPT !.any = TRUE, !.title = title]
      /\ find' = IF restarts THEN [NoFind EXCEPT !.bound = find.stamp] ELSE find
      /\ needRestart' = FALSE
      /\ UNCHANGED <<tree, crashes, lastSeen, saved, contents>>

-----------------------------------------------------------------------------
(* The rest of for_story. *)

UpToDate ==
  LET old == contents[g.category]
  IN  ~g.changed /\ ~g.title /\ old.there /\ old.mtime >= g.stamp

TouchContents ==
  /\ pc = "contents" /\ UpToDate
  /\ contents' = [contents EXCEPT ![g.category].mtime = g.stamp]
  /\ UNCHANGED stories

NoContentsYet == pc = "contents" /\ ~UpToDate /\ ~g.any /\ UNCHANGED <<contents, stories>>

CreateContents ==
  /\ pc = "contents" /\ ~UpToDate /\ g.any
  /\ contents' = [contents EXCEPT ![g.category] = 
                    [there |-> TRUE, mtime |-> g.stamp, count |-> g.numchaps]]
  /\ stories' = IF g.changed THEN [stories EXCEPT ![ThisStory].chapters = g.count] ELSE stories

EndStory ==
  /\ TouchContents \/ NoContentsYet \/ CreateContents
  /\ pc' = "exported"
  /\ UNCHANGED <<tree, crashes, chapters, lastSeen, saved, page, g, find, needRestart>>

Finish ==
  /\ pc = "exported" /\ Exit
  /\ saved' = Snapshot
  /\ UNCHANGED <<tree, crashes, tables, site>>

Generate ==
  \/ \E c \in Category : Scan(c)
  \/ \E n \in Chapter : ScanFile(n)
  \/ EndScan
  \/ ForStory \/ NotDue \/ CategoryIsNew \/ Step \/ ForChapter \/ EndStory \/ Finish

Next == Push \/ SetReady \/ Abandon \/ Generate

(* A process that was started goes on, and the hook starts one again.      *)
Spec == Init /\ [][Next]_vars /\ WF_vars(Generate)
-----------------------------------------------------------------------------
Visiting == pc \in {"chapters", "chapter", "contents"}

Fresh(n) ==
  LET p == page[<<g.category, n>>]
  IN  p.there /\ p.mtime >= chapters[<<ThisStory, n>>].updated

(* for_stories steps through an index on stories.updated while for_story   *)
(* and for_chapter call storydb_saw_chapter, which sets it: nothing they   *)
(* note is later than the story already is, so that the cursor neither     *)
(* meets the story again nor loses its place.                              *)
StoryStays == Visiting => stories[ThisStory].updated = g.stamp

(* What need_restart_for_chapters is for (storydb.c:106, 448-459): rows    *)
(* are updated behind the cursor, but when it has come to the end every    *)
(* chapter that was recorded at the start and is due by the bound last     *)
(* bound has a page as new as its row.                                     *)
CursorComplete ==
  pc = "contents" =>
    \A n \in DueChapters(chapters, ThisStory, find.bound, g.numchaps,
                         AllReady(g.category)) \cap g.rows : Fresh(n)

(* A chapter later than the one the `ready' program was told is never      *)
(* written or rewritten for readers, whatever is recorded or counted.      *)
ReadyRespected ==
  [][\A c \in Category, n \in Chapter :
       page'[<<c, n>>] # page[<<c, n>>] /\ ~AllReady(c) =>
         stories[ThisStory].ready = 0 \/ n <= stories[ThisStory].ready]_vars

Writes == pc = "chapter" /\ pc' = "chapters" /\ ~Skip

(* Runs without pushes do not write pages for ever, although each run      *)
(* walks the last commit again, notes its files, and marks chapters seen   *)
(* for their links: from some time on for_chapter skips every page.        *)
PagesSettle == <>[][~Writes]_vars

(* storydb.c:449-453 "we can re-bind a new updated to find, only checking  *)
(* (again) from now onward; no chapter should be added with an OLDER       *)
(* updated than the current one": restarting leaves nothing out of what    *)
(* was due when for_chapters was called.                                   *)
DueExported == pc = "contents" => \A n \in g.due : Fresh(n)

(* main.c:314-316 "if we've increased our chapters, also mark seen         *)
(* recently since we need to ... create the previous last chapter if it    *)
(* was skipped before": once chapter n + 1 is recorded after 1 .. n,       *)
(* chapter n is exported sooner or later.                                  *)
GrowthIsPublished ==
  \A c \in Category, n \in Chapter :
    ChaptersOf(saved.chapters, ThisStory) = 1 .. n + 1 ~> page[<<c, n>>].there
===============================================================================
