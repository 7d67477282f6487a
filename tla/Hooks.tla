-------------------------------- MODULE Hooks --------------------------------
(***************************************************************************)
(* Several `generate' processes on one storyinfo.sqlite: each push starts  *)
(* the hook, and nothing keeps a second one from starting while the first  *)
(* is still at work.  SQLite's file locks are the only thing between them, *)
(* and db.c has no busy handler: whoever does not get a lock aborts, and   *)
(* keeps the locks it has until its process is gone.                       *)
(*                                                                         *)
(* Modelled is the order in which main.c and db.c read, write and commit,  *)
(* for one story all of whose chapter files exist in every commit, in the  *)
(* category `sneakpeek' (all chapters are shown).  Scan and Export have    *)
(* one process, in more detail.                                            *)
(***************************************************************************)
EXTENDS StoryTables, Sequences

CONSTANTS
  Hook,         \* slots for processes: how many run at once
  TheStory,     \* the one story
  Times,        \* author times of the commits, in order
  Slack,        \* main.c looks this much further back than `after' (100)
  BatchSize,    \* on_chapter commits at every BatchSize-th call (100)
  MaxRuns,      \* bounds: processes started,
  MaxKills      \* processes killed

ASSUME HooksAssumption ==
  /\ Story = {TheStory} /\ Chapter = 1 .. Cardinality(Chapter)
  /\ Times \in Seq(Nat) /\ Len(Times) > 0 /\ Slack \in Nat /\ Times[1] > Slack
  /\ \A i, j \in 1 .. Len(Times) : i < j => Times[i] < Times[j]
  /\ BatchSize \in Nat \ {0} /\ MaxRuns \in Nat /\ MaxKills \in Nat

VARIABLES
  modified,   \* the history: for each commit the chapters it modified
  file,       \* the database file, as last committed
  proc,       \* the processes
  page,       \* per chapter the page on disk: its time, and the HEAD whose
              \* working tree it was made from (history)
  runs, kills,
  lost        \* history: processes that stored `after' and ended without
              \* their whole export, since one made up for it (Exported)

vars == <<modified, file, proc, page, runs, kills, lost>>

HEAD == Len(modified)

(* A database file.  `rows' are those of table committing; `category' is   *)
(* the row of the category: absent, with time zero, or with a time.        *)
(* `noted' is history: the last commit each chapter was noted for.         *)
IsDatabase(d) ==
  /\ DOMAIN d = {"schema", "rows", "after", "category", "stories", "chapters", "noted"}
  /\ d.schema \in BOOLEAN /\ d.rows \in Nat /\ d.after \in Nat
  /\ d.category \in {"absent", "zero", "timed"}
  /\ IsStoryTable(d.stories) /\ IsChapterTable(d.chapters)
  /\ d.noted \in [Chapter -> 0 .. HEAD]

Idle ==
  [pc |-> "off", lock |-> "none", view |-> EmptyTable, back |-> 0, at |-> 0,
   num |-> 0, todo |-> {}, bound |-> 0, restart |-> FALSE, count |-> 0, any |-> FALSE,
   saw |-> FALSE, marked |-> FALSE, cut |-> FALSE]

PCs == {"off", "opening", "opened", "checking", "inserting", "checked", "begun", "head",
        "commit", "files", "chapter", "scanned", "category", "chosen", "stories",
        "pages", "exported", "done", "closing", "dying"}

(* A process is somewhere, holds a lock with what it sees of the file, and *)
(* at most one holds the lock to write.  `restart' is its                  *)
(* need_restart_for_chapters; `cut' is history: a restart of its cursor    *)
(* has passed over a chapter that waits for its page (ForChapter).         *)
TypeOK ==
  /\ modified \in Seq(SUBSET Chapter) /\ HEAD <= Len(Times)
  /\ IsDatabase(file)
  /\ \A p \in Hook :
       /\ proc[p].pc \in PCs
       /\ proc[p].lock \in {"none", "shared", "reserved", "pending"}
       /\ proc[p].lock # "none" => IsDatabase(proc[p].view)
       /\ proc[p].back \in Nat /\ proc[p].bound \in Int /\ proc[p].at \in 0 .. HEAD
       /\ proc[p].num \in 0 .. Cardinality(Chapter) /\ proc[p].todo \subseteq Chapter
  /\ \A n \in Chapter : page[n].mtime \in Int /\ page[n].head \in 0 .. HEAD
  /\ \A p, q \in Hook : proc[p].lock \in {"reserved", "pending"}
                        /\ proc[q].lock \in {"reserved", "pending"} => p = q

(* Nothing there yet; or what upgrade.sql has filled (only so a category   *)
(* has a time, GetCategory) and runs up to the first commit have brought   *)
(* up to date: rows and pages of the chapters up to `last'.  The rest are  *)
(* new to the database whenever a commit that is looked at has their files.*)
NewFile ==
  [schema |-> FALSE, rows |-> 0, after |-> 0, category |-> "absent",
   stories |-> EmptyTable, chapters |-> EmptyTable, noted |-> [n \in Chapter |-> 0]]

ServedFile(last) ==
  [schema |-> TRUE, rows |-> 1, after |-> Times[1], category |-> "timed",
   stories |-> [s \in Story |-> [NewStory(Times[1]) EXCEPT !.chapters = last]],
   chapters |-> [k \in Story \X (1 .. last) |->
                   [created |-> k[2], updated |-> Times[1], seen |-> Times[1]]],
   noted |-> [n \in Chapter |-> IF n <= last THEN 1 ELSE 0]]

Init ==
  /\ modified = <<{}>>
  /\ file = NewFile \/ \E last \in Chapter : file = ServedFile(last)
  /\ page = [n \in Chapter |-> LET h == file.noted[n]
                               IN  [mtime |-> IF h = 0 THEN 0 ELSE Times[h], head |-> h]]
  /\ proc = [p \in Hook |-> Idle]
  /\ runs = 0 /\ kills = 0 /\ lost = 0

Push ==
  /\ HEAD < Len(Times)
  /\ \E files \in SUBSET Chapter \ {{}} : modified' = Append(modified, files)
  /\ UNCHANGED <<file, proc, page, runs, kills, lost>>

-----------------------------------------------------------------------------
(* SQLite's locks.  Each step below belongs to process p and leaves it in  *)
(* the state `next', unless the lock it needs is refused.                  *)

Others(p) == Hook \ {p}
View(p) == IF proc[p].lock = "none" THEN file ELSE proc[p].view

(* db_check: SQLITE_BUSY is an error like any other, abort() follows.      *)
Dies(p, lock) ==
  /\ proc' = [proc EXCEPT ![p].pc = "dying", ![p].lock = lock]
  /\ UNCHANGED file

(* A SELECT takes SHARED, and the transaction keeps it.                    *)
Read(p, next) ==
  IF \E q \in Others(p) : proc[q].lock = "pending"
  THEN Dies(p, proc[p].lock)
  ELSE /\ proc' = [proc EXCEPT ![p] =
            [next EXCEPT !.lock = IF @ = "none" THEN "shared" ELSE @, !.view = View(p)]]
       /\ UNCHANGED file

(* Any INSERT or UPDATE takes RESERVED, of which there is one.             *)
Write(p, next, view) ==
  IF \E q \in Others(p) : proc[q].lock \in {"reserved", "pending"}
  THEN Dies(p, proc[p].lock)
  ELSE /\ proc' = [proc EXCEPT ![p] = [next EXCEPT !.lock = "reserved", !.view = view]]
       /\ UNCHANGED file

(* COMMIT of changes needs the file alone; without it SQLite stays at      *)
(* PENDING, which keeps new readers out, and db_check aborts.              *)
Commit(p, next) ==
  IF proc[p].lock # "reserved"
  THEN /\ proc' = [proc EXCEPT ![p] = [next EXCEPT !.lock = "none", !.view = EmptyTable]]
       /\ UNCHANGED file
  ELSE IF \E q \in Others(p) : proc[q].lock # "none"
  THEN Dies(p, "pending")
  ELSE /\ file' = proc[p].view
       /\ proc' = [proc EXCEPT ![p] =
            [next EXCEPT !.lock = "none", !.view = EmptyTable, !.marked = next.saw]]

Go(p, pc) == [proc[p] EXCEPT !.pc = pc]
Outside == <<modified, page, runs, kills, lost>>

-----------------------------------------------------------------------------
(* db_open *)

Start(p) ==
  /\ proc[p].pc = "off" /\ runs < MaxRuns
  /\ proc' = [proc EXCEPT ![p] = Go(p, "opening")] /\ runs' = runs + 1
  /\ UNCHANGED <<modified, file, page, kills, lost>>

(* schema.sql and indexes.sql, CREATE ... IF NOT EXISTS throughout.        *)
Schema(p) ==
  /\ proc[p].pc = "opening"
  /\ IF View(p).schema THEN Read(p, Go(p, "opened"))
     ELSE Write(p, Go(p, "opened"), [View(p) EXCEPT !.schema = TRUE])
  /\ UNCHANGED Outside

SchemaDone(p) ==
  /\ proc[p].pc = "opened"
  /\ Commit(p, Go(p, "checking"))
  /\ UNCHANGED Outside

(* Mutant of CheckCommitting: the row is looked for outside a transaction. *)
CheckBefore(p) ==
  /\ proc[p].pc = "checking"
  /\ proc' = [proc EXCEPT ![p] =
                Go(p, IF View(p).rows = 0 THEN "inserting" ELSE "checked")]
  /\ UNCHANGED file /\ UNCHANGED Outside

CheckCommitting(p) ==
  /\ proc[p].pc = "checking"
  /\ Read(p, Go(p, IF View(p).rows = 0 THEN "inserting" ELSE "checked"))
  /\ UNCHANGED Outside

InsertCommitting(p) ==
  /\ proc[p].pc = "inserting"
  /\ Write(p, Go(p, "checking"), [View(p) EXCEPT !.rows = @ + 1])
  /\ UNCHANGED Outside

Opened(p) ==
  /\ proc[p].pc = "checked"
  /\ Commit(p, Go(p, "begun"))
  /\ UNCHANGED Outside

-----------------------------------------------------------------------------
(* The scan, main.c:530-589: HEAD's own diff is all that is looked at      *)
(* (Scan, EveryCommitRecorded).                                            *)

(* Mutant of LastSeenCommit: read before BEGIN, so that no lock is kept. *)
LastSeenBefore(p) ==
  /\ proc[p].pc = "begun"
  /\ proc' = [proc EXCEPT ![p] = [Go(p, "head") EXCEPT
                !.back = IF file.after = 0 THEN 0 ELSE file.after - Slack]]
  /\ UNCHANGED file /\ UNCHANGED Outside

LastSeenCommit(p) ==
  /\ proc[p].pc = "begun"
  /\ Read(p, [Go(p, "head") EXCEPT
                !.back = IF View(p).after = 0 THEN 0 ELSE View(p).after - Slack])
  /\ UNCHANGED Outside

ReadHead(p) ==
  LET back == proc[p].back
      visits == HEAD > 1 /\ Times[HEAD] > back /\ Times[HEAD - 1] >= back
  IN  /\ proc[p].pc = "head"
      /\ proc' = [proc EXCEPT ![p] = [Go(p, IF visits THEN "commit" ELSE "scanned")
                                        EXCEPT !.at = HEAD]]
      /\ UNCHANGED file /\ UNCHANGED Outside

(* on_commit: db_saw_commit stores the time of HEAD.                       *)
OnCommit(p) ==
  /\ proc[p].pc = "commit"
  /\ Write(p, [Go(p, "files") EXCEPT !.todo = modified[proc[p].at], !.saw = TRUE],
           [View(p) EXCEPT !.after = Times[proc[p].at]])
  /\ UNCHANGED Outside

(* on_chapter counts, and commits the batch before this chapter.           *)
OnChapter(p) ==
  LET next == [Go(p, "chapter") EXCEPT !.num = @ + 1]
  IN  /\ proc[p].pc = "files" /\ proc[p].todo # {}
      /\ IF next.num % BatchSize = 0
         THEN Commit(p, next)
         ELSE proc' = [proc EXCEPT ![p] = next] /\ UNCHANGED file
      /\ UNCHANGED Outside

(* storydb_saw_chapter, with storydb_get_story before it in the scan.      *)
WithStory(d, t) ==
  IF TheStory \in DOMAIN d.stories THEN d
  ELSE [d EXCEPT !.stories = Put(d.stories, TheStory, NewStory(t))]

Saw(d, n, t) ==
  [d EXCEPT !.chapters = ChaptersAfterSaw(d.chapters, <<TheStory, n>>, t),
            !.stories = StoriesAfterSaw(d.stories, TheStory, t)]

(* Mutant of SawChapter: the diff hands a file over again. *)
SawChapterAgain(p) ==
  /\ proc[p].pc = "chapter"
  /\ \E n \in proc[p].todo :
       LET t == Times[proc[p].at]
       IN  Write(p, Go(p, "files"), Saw(WithStory(View(p), t), n, t))
  /\ UNCHANGED Outside

SawChapter(p) ==
  /\ proc[p].pc = "chapter"
  /\ \E n \in proc[p].todo :
       LET t == Times[proc[p].at]
           d == Saw(WithStory(View(p), t), n, t)
           changes == SawChanges(View(p).chapters, <<TheStory, n>>, t)
       IN  Write(p, [Go(p, "files") EXCEPT !.todo = @ \ {n}, !.restart = @ \/ changes],
                 [d EXCEPT !.noted[n] = Larger(@, proc[p].at)])
  /\ UNCHANGED Outside

AllSeen(p) ==
  /\ proc[p].pc = "files" /\ proc[p].todo = {}
  /\ proc' = [proc EXCEPT ![p] = Go(p, "scanned")]
  /\ UNCHANGED file /\ UNCHANGED Outside

Scanned(p) ==
  /\ proc[p].pc = "scanned"
  /\ Commit(p, Go(p, "category"))
  /\ UNCHANGED Outside

-----------------------------------------------------------------------------
(* The export, main.c:591-629 *)

(* db_get_category inserts a category it does not find and answers time    *)
(* zero for it, which the assertion after it does not accept: the hook     *)
(* dies, and its row goes with it.                                         *)
GetCategory(p) ==
  /\ proc[p].pc = "category"
  /\ IF View(p).category = "absent"
     THEN Write(p, Go(p, "dying"), [View(p) EXCEPT !.category = "zero"])
     ELSE Read(p, Go(p, IF View(p).category = "timed" THEN "chosen" ELSE "dying"))
  /\ UNCHANGED Outside

Chosen(p) ==
  /\ proc[p].pc = "chosen"
  /\ Commit(p, Go(p, "stories"))
  /\ UNCHANGED Outside

(* Mutant of ForStory: `after' is read again instead of kept from the      *)
(* start of the run.                                                       *)
ForStoryReread(p) ==
  LET d == View(p)
      count == CountChapters(d.chapters, TheStory)
      due == DueChapters(d.chapters, TheStory, d.after - Slack, count, TRUE)
  IN  /\ proc[p].pc = "stories"
      /\ Read(p, [Go(p, "pages") EXCEPT !.todo = due, !.count = count,
                                         !.bound = d.after - Slack])
      /\ UNCHANGED Outside

(* for_stories and for_story as far as for_chapters.  A count that is not  *)
(* the stored one marks the chapter before the last.                       *)
ForStory(p) ==
  LET d == View(p)
      visited == TheStory \in DueStories(d.stories, proc[p].back)
      count == CountChapters(d.chapters, TheStory)
      marks == count # d.stories[TheStory].chapters /\ count > 1
      m == IF marks THEN Saw(d, count - 1, d.stories[TheStory].updated) ELSE d
      changes == marks /\ SawChanges(d.chapters, <<TheStory, count - 1>>,
                                     d.stories[TheStory].updated)
      next == [Go(p, "pages") EXCEPT
                 !.todo = DueChapters(m.chapters, TheStory, proc[p].back, count, TRUE),
                 !.bound = proc[p].back, !.restart = @ \/ changes, !.count = count]
  IN  /\ proc[p].pc = "stories"
      /\ IF ~visited THEN Read(p, Go(p, "exported"))
         ELSE IF marks THEN Write(p, next, m) ELSE Read(p, next)
      /\ UNCHANGED Outside

(* for_chapter: the last chapter marks the one before it (which needs a    *)
(* `next' link), and a page at least as new as the row is left alone.  To  *)
(* make one, create_chapter runs an UPDATE (under_construction), changed   *)
(* or not.  Then, if any row was updated since the process began, by the   *)
(* scan, for_story or just now, storydb_for_chapters starts its cursor     *)
(* again from the time of the chapter at hand.                             *)
ForChapter(p) ==
  /\ proc[p].pc = "pages"
  /\ \E n \in proc[p].todo :
       LET d == View(p)
           t == d.chapters[<<TheStory, n>>].updated
           links == n > 1 /\ n = proc[p].count
           makes == page[n].mtime < t
           m == IF links THEN Saw(d, n - 1, t) ELSE d
           restarts == \/ proc[p].restart
                       \/ links /\ SawChanges(d.chapters, <<TheStory, n - 1>>, t)
           again == DueChapters(m.chapters, TheStory, t, proc[p].count, TRUE)
           waiting == {other \in proc[p].todo \ {n} : d.noted[other] > page[other].head}
           next == IF restarts
                   THEN [proc[p] EXCEPT !.todo = again, !.bound = t, !.restart = FALSE,
                                        !.any = TRUE, !.cut = @ \/ ~(waiting \subseteq again)]
                   ELSE [proc[p] EXCEPT !.todo = @ \ {n}, !.any = TRUE]
       IN  /\ \A other \in proc[p].todo : n <= other
           /\ IF links \/ makes THEN Write(p, next, m) ELSE Read(p, next)
           /\ page' = IF makes /\ proc'[p].pc = "pages"
                      THEN [page EXCEPT ![n] = [mtime |-> t, head |-> HEAD]]
                      ELSE page
  /\ UNCHANGED <<modified, runs, kills, lost>>

(* The end of for_story and of for_stories. *)
StoryDone(p) ==
  LET d == View(p)
      changed == proc[p].count # d.stories[TheStory].chapters
  IN  /\ proc[p].pc = "pages" /\ proc[p].todo = {}
      /\ IF changed /\ proc[p].any
         THEN Write(p, Go(p, "exported"),
                    [d EXCEPT !.stories[TheStory].chapters = proc[p].count])
         ELSE Read(p, Go(p, "exported"))
      /\ UNCHANGED Outside

Alone(p) == \A q \in Others(p) : proc[q].pc = "off"

(* main.c:625.  An export that ends alone has made up for one run that was *)
(* lost before it (BacklogExported), not for two; one that was cut short   *)
(* is itself lost, in part.                                                *)
Exported(p) ==
  /\ proc[p].pc = "exported"
  /\ Commit(p, [Go(p, "done") EXCEPT !.saw = FALSE, !.marked = FALSE])
  /\ lost' = IF proc'[p].pc # "done" THEN lost
             ELSE IF proc[p].cut THEN IF proc[p].marked THEN lost + 1 ELSE lost
             ELSE IF Alone(p) /\ lost <= 1 THEN 0 ELSE lost
  /\ UNCHANGED <<modified, page, runs, kills>>

CaughtUpCategory(p) ==
  /\ proc[p].pc = "done"
  /\ Write(p, Go(p, "closing"), View(p))
  /\ UNCHANGED Outside

CloseAndExit(p) ==
  /\ proc[p].pc = "closing"
  /\ Commit(p, Idle)
  /\ UNCHANGED Outside

-----------------------------------------------------------------------------
(* The end of a process, which frees its locks and undoes its transaction. *)
Gone(p) ==
  /\ proc' = [proc EXCEPT ![p] = Idle]
  /\ lost' = IF proc[p].marked THEN lost + 1 ELSE lost
  /\ UNCHANGED <<modified, file, page, runs>>

Exit(p) == proc[p].pc = "dying" /\ Gone(p) /\ UNCHANGED kills

Kill(p) ==
  /\ proc[p].pc \notin {"off", "dying"} /\ kills < MaxKills
  /\ kills' = kills + 1
  /\ Gone(p)

Step(p) ==
  \/ Schema(p) \/ SchemaDone(p) \/ CheckCommitting(p) \/ InsertCommitting(p) \/ Opened(p)
  \/ LastSeenCommit(p) \/ ReadHead(p) \/ OnCommit(p) \/ OnChapter(p) \/ SawChapter(p)
  \/ AllSeen(p) \/ Scanned(p)
  \/ GetCategory(p) \/ Chosen(p) \/ ForStory(p) \/ ForChapter(p) \/ StoryDone(p)
  \/ Exported(p) \/ CaughtUpCategory(p) \/ CloseAndExit(p) \/ Exit(p)

Next == Push \/ \E p \in Hook : Start(p) \/ Kill(p) \/ Step(p)

Spec == Init /\ [][Next]_vars

-----------------------------------------------------------------------------
(* db.c:140-148 looks for the row of `committing' and inserts it in two    *)
(* statements ("yay, race conditions"): however many hooks open a new      *)
(* file at once, it never has a second row.                                *)
OneCommittingRow == file.rows <= 1

(* HEAD is read after `after', in the transaction that will store HEAD's   *)
(* time: no hook, however slow, ever stores an older time than another     *)
(* one has stored before it.                                               *)
AfterMonotone == [][file.after <= file'.after]_vars

(* What one hook has recorded of a chapter, another one that is late, or   *)
(* dies, does not undo: greatest(updated, seen) never goes back.           *)
NotedStays ==
  [][\A k \in DOMAIN file.chapters :
       k \in DOMAIN file'.chapters
       /\ Actual(file.chapters[k]) <= Actual(file'.chapters[k])]_vars

(* main.c keeps `after' from the start of the run for the export at its    *)
(* end, so that a run can make up for one that died before it.  If no more *)
(* than one was lost, or was cut short by a restart of its cursor (which   *)
(* leaves out older chapters still due, Export, DueExported), and no       *)
(* commit is large enough to be committed in parts, then a hook that ends  *)
(* alone and was not cut short itself has left no noted change without a   *)
(* page made from it.                                                      *)
SmallCommits == \A c \in 1 .. HEAD : Cardinality(modified[c]) < BatchSize

(* Chapters that are new in one commit get different stamps, the later     *)
(* ones back from the commit's time (storydb.c:133-143).  As many as there *)
(* are chapters have to fit into the slack, and between two commits: a     *)
(* stamp from before the slack is not due, and a page of the commit before *)
(* would pass for as new as the row.                                       *)
StampsFit ==
  /\ Cardinality(Chapter) <= Slack
  /\ \A i, j \in 1 .. Len(Times) : i < j => Cardinality(Chapter) <= Times[j] - Times[i]

BacklogExported ==
  [][\A p \in Hook :
       /\ proc[p].pc = "exported" /\ proc'[p].pc = "done" /\ Alone(p)
       /\ ~proc[p].cut /\ lost <= 1 /\ SmallCommits /\ StampsFit
       => \A n \in Chapter : file'.noted[n] <= page[n].head]_vars
==============================================================================
