# A TLA+ model of story-generator

`generate` is a git post-update hook. It finds out from the history which chapters of which stories
changed, notes that in the SQLite database `storyinfo.sqlite`, and writes an HTML page for each chapter
that is due and a table of contents for each story: "populate html/<story>/ and keep them up to date as
the markup changes" (`README.md:1`). Small programs beside it (`ready`, `make-log`, ...) read or change
the same database. This directory holds TLA+ modules for the core of that, the TLC runs that check
them, proofs for TLAPS, and this text. Paths are those of the repository; C files without a
directory are under `src/`.

Contents: [1 the system](#1-the-system), [2 modules](#2-modules-and-how-they-correspond-to-the-code),
[3 runs](#3-runs), [4 proofs](#4-proofs), [5 findings](#5-where-the-code-and-its-words-differ),
[6 what is left out](#6-what-is-left-out), [7 plan](#7-plan).


## 1. The system

| part | source | state | operations | talks to |
|---|---|---|---|---|
| story database | `storydb.c`, `db.sql.stmt`, `schema.sql`, `indexes.sql` | tables `stories`, `chapters`; the flag `need_restart_for_chapters` | `storydb_get_story`, `storydb_saw_chapter`, `storydb_for_stories`, `storydb_for_chapters`, `storydb_set_chapters`, `storydb_sync_stories_updated`, ... | SQLite; callbacks into `main.c` |
| transactions, table `committing`, categories | `db.c` | `transaction_level`, `saw_commit`, rows `committing`, `categories` | `db_open`, `db_retransaction`, `db_close_and_exit`, `db_saw_commit`, `db_last_seen_commit`, `db_caught_up_category` | SQLite |
| commit walk | `storygit.c` `git_for_commits` | the list `todo`, the commit `me` | visit a parent, push, pop the latest, skip | libgit2; the callback `on_commit` |
| changed chapters of a commit | `storygit.c` `git_for_chapters_changed`, `one_file`, `file_changed` | none | diff two trees, parse paths | libgit2; the callback `on_chapter` |
| `generate`, first half: scan | `main.c:400-589` | `g.timestamp`, `g.num` | `on_commit`, `on_chapter` | walk, diff, database |
| `generate`, second half: export | `main.c:70-395, 591-629` | the counts of `for_story`, pages and contents on disk | `for_story`, `for_chapter`, `setupsrc` | database; `create.c`; the file system |
| markup | `create.c`, template files | a libxml document | `create_chapter`, `create_contents` | htmlish, libxml2 |
| `ready`, `make-log` | `ready.c`, `make-log.c` | none | one UPDATE each, reports | database |
| other programs | `make-contents.c`, `describe.c`, `find-chapters-to-publish.c`, `set-censored.c`, `news-log.c`, `list-commits.c`, `test_git.c` | none | reports, titles | database, git |
| small libraries and build tools | `itoa.c`, `repo.c`, `statements2source.c`, `make-sql.c`, `db_oid/` | none | pure functions and I/O | |

How they interact. `generate` is sequential, but it is built from callbacks that change what their
caller is iterating over: `on_commit` runs inside the walk, `on_chapter` inside a diff, `for_story` and
`for_chapter` inside SQL cursors over the rows they update. It keeps one transaction open all the time and
commits it at chosen places (`db_retransaction`). There is no busy handler and every SQLite error ends in `abort()`,
so two programs that meet on the database do not wait for each other: one of them dies and loses its
transaction. Pages are renamed into place at once, their rows are committed later. The input (git) moves on at any time.

What is hard, and what would make each part correct:

* **Database.** One `updated` for several chapters against a UNIQUE `created`; `updated` that may move
  back; a story's time that has to cover its chapters'. Correct: stamps stay distinct, due chapters
  stay due, and no chapter is hidden because its story looks old.
* **Transactions.** A crash between any two commits, other programs in the gaps. Correct: committed
  tables are consistent whatever was lost, and the walk's progress is never ahead of what it noted.
* **Walk.** Merges, equal times, a memory (`todo`) that forgets, and a search of it that may miss. Correct: each edge
  once, latest first, nothing recent missing, and an end.
* **Scan.** What ends a walk early, a commit in the middle of a batch, a diff in the right direction.
  Correct: what a commit changed is recorded once the commit counts as seen.
* **Export.** Cursors under update, counts one export behind, repeated runs. Correct: what is due gets a
  page, what is not `ready` does not, and the site settles.
* **Files.** A markup file may be gone, or older or newer than its row; a descriptor may be lost at every row. Correct:
  the cursor ends, files and rows agree, and a limit is not taken for a missing story.
* **Processes side by side.** Locks are refused, the refused one dies with its export undone. Correct: nobody undoes
  what another has noted, and a later run makes up for a lost one.
* **Functions.** Widths, lists of ten, text at the end of a buffer. Correct: each against what its users take from it.

`PROJECT.json` lists the hazards line by line, with the property that would notice each of them.


## 2. Modules, and how they correspond to the code

```
StoryTables              the two tables as values, the SQL as operators
  |- StoryTablesProofs     lemmas on those operators and on finite sets of numbers
  |- StoryDb               all programs on the tables, transactions, locks: the abstract specification
  |    |- MCStoryDb          bound and symmetry for TLC
  |    '- StoryDbProofs      invariants of StoryDb
  |- Scan                  first half of generate; refines StoryDb (INSTANCE ... WITH)
  |    |- MCScan             symmetry for TLC
  |    '- ScanProofs         what is committed when, and the refinement
  |- Export                second half of generate, one story, over many runs
  |    '- ExportProofs       the cursors, and `ready'
  |- Sources               one call of storydb_for_chapters with files, options and descriptors
  |    '- SourcesProofs      the story keeps its place, files and rows agree, the link
  |- Hooks                 whole generate processes side by side on one database file
  |    |- MCHooks            times and symmetry for TLC
  |    '- HooksProofs        what the locks are enough for, and that a lost run is made up for
  '- Listing               who links to which page
TodoList                 comparison and search of the list todo
  '- CommitWalk            git_for_commits on any commit graph
       |- MCCommitWalk       the graphs for TLC
       '- CommitWalkProofs   order, each edge once, none left out
Diff, Itoa, SqlText, Info, OpenFiles    functions without state of their own
  '- Pure                those, Listing and TodoList on any of the inputs they are given
       |- MCPure           small inputs for TLC
       '- PureProofs       what each is for, for inputs of any size
```

Definitions marked "Mutant of X" are not part of the model. Each is X with a plausible bug. Putting one
in place of X must make TLC report the property `PROJECT.json` names beside it, which shows that the
property depends on the code.

**StoryTables.** `stories` is a function from locations to rows `[created, updated, chapters, ready]`,
`chapters` one from `<<story, number>>` to `[created, updated, seen]`. `ChaptersAfterSaw`,
`StoriesAfterSaw`, `FreshCreated` are `saw_chapter` (`storydb.c:106-180`): an existing row gets its new
`updated` and keeps the larger of its old stamps in `seen`; a new row takes the first unused `created`
at or below the time it is given. `DueStories`, `DueChapters`, `ReadyOf` are FOR_STORIES and FOR_CHAPTERS.
A time of 0 stands for SQL's NULL where the code treats both alike.

**StoryDb.** `stories`/`chapters` are what the connection of `generate` sees, `saved` what is committed,
`phase` whether its transaction is not there, without a lock yet, or holding one. Each
call is an action for any arguments, in any order, with `Abandon` (abort or kill) always possible.
`ready` and `make-log` get through only while no lock is held. It is the
abstract specification of any program using the library, and `Scan` is shown to implement it.

**TodoList, CommitWalk.** One action for each way round the loop over a commit's parents (`TooOld`, `Visit`),
one for taking the next commit (`Pop`). `Places` is the search of `todo`: linear below `LinearBelow` (10)
entries, else the halving probe of `storygit.c:214-240` (`BinaryStarts`, with its indices from 0 as in the code).
Each of the handler's calls is kept in `calls`, a history variable, with the length `todo` had when the parent was looked for (`waiting`).
`Pushed` is the sort by time (qsort is not stable, so any order of equal times), `AfterSkip` what GFC_SKIP
does to the list. The handler may answer anything. `meTree` records that popped commits have no tree, which
`Scan` needs. `AsInt` is the cut of a 64-bit difference to the `int` that `later_commits_last` returns, for an
int of any width.

**Scan.** One line of commits, each a tree of chapter files; pushes and crashes between any two steps.
`OnCommit` is `on_commit` with both calls of `db_saw_commit` and the diff; `OnChapter`, `GetStory`,
`SawChapter` are the three parts of `on_chapter`, separate because it may commit or abort between
them. `committing` holds `after` and `before`. `Diff` has the direction that libgit2 ends up with: `git_diff_tree_to_tree` is
given the later tree as the old one (`storygit.c:395`), but its two flags are joined by `||` (`storygit.c:390-392`), which makes 1,
`GIT_DIFF_REVERSE`, and swaps the sides back. A file that a commit adds comes as added, one it removes as deleted.

**Export.** One story, any number of runs with any category, pushes and `ready` between runs. `ForStory` is
`for_story` up to the call of `storydb_for_chapters`; `Step` and `ForChapter` are the cursor and its handler,
with the restart; `TouchContents`, `NoContentsYet`, `CreateContents` are the three ends of `for_story`.
`page` says of a page whether it is there, its file time and whether it links on, `contents` its time and length. What a
run notes is what `Scan.tla` shows is noted, the files HEAD added or modified at HEAD's time: `ScanFile` is one file, after which
a batch may be committed, `EndScan` the commit of `main.c:589`. The fields `g.rows` and `g.due` are history variables
that only properties read.

**Sources.** What Export leaves out of the inner cursor: the time of each chapter's markup file, or that it is
gone; `fix_srctimes` (the file's time corrects the row, or the row the file), `adjust_times` and `fix_titles`;
the descriptor `setupsrc` has opened when `for_chapter` returns early. `Visit` is the whole of `for_chapter`
for one row. Rows, files and pages start in any combination, since the options are there to repair
whatever clones and lost databases leave behind.

**Hooks.** Several whole processes, each a program counter with what it holds of SQLite's file locks:
`shared` by reading, `reserved` by writing, `pending` when it could not commit because others still read. `Read`,
`Write` and `Commit` say when a lock is refused. There is no busy handler, so the refused process dies: `dying` keeps the
locks until `Exit`. The steps follow `db_open`, `db_last_seen_commit`, `on_commit`, `on_chapter`, `db_get_category`,
`for_story`, `for_chapter`, the commit at `main.c:625` and `db_caught_up_category`, in that order and with the commits
where the code has them. A process has its own `restart`, which is `need_restart_for_chapters`: the scan sets it, or `for_story`'s
mark, or the last chapter's, and the next chapter handed over starts the cursor again from that chapter's time (`bound`, and
`todo`, what is due by it). All chapter files exist in every commit and the whole story is shown, so that
one step per database call is enough. The history variables `noted` (the last commit whose change a row has), `head` of a page (the commit
it was made at), `cut` of a process (a restart of its cursor has passed over a chapter that still waits for its page) and `lost` (runs
lost or cut short since one has made up for them) are what `BacklogExported` is stated with. A
run starts on an empty database, or on one that `upgrade.sql` has filled (no category gets a time otherwise) and whose chapters have been
served up to any number (`ServedFile`).

**Diff** is `file_changed` with `one_file` over the paths that differ between two trees, in the direction `Scan` has; a path is
reduced to what `one_file` can tell apart. **Itoa** is the digit loop and `storydb_start_cache`'s reading of its answer.
**SqlText** is `make-sql.c` and `output_sql` over tokens, with the part of a C compiler that reads their output.
**Listing** has the links of `create.c`, `make-log.c`, `make-contents.c` and `find-chapters-to-publish.c`, and which
pages there are. **Info** is how title, description and source get from files and the environment into the row
and the page. **OpenFiles** counts descriptors over a run of `for_stories`. In **Pure**, `Init` picks a function and
an input. Most answer in one step; of three loops each round is a step, as in the code: `TellPath` is one call of `file_changed` (the
paths in any order), `DescribeNext` one round of `storydb_for_undescribed` (with any answer), `OpenNext` one story of `for_stories`.
They keep nothing between calls.


## 3. Runs

| run | what it asks | bounds, and why they are enough |
|---|---|---|
| `storydb` | types, distinct stamps, stories cover `updated` of their chapters, due chapters stay due, `ready` is never lost | 2 stories (symmetric), 2 chapters, 3 adjacent stamps, 8 calls. Stamp 4 leaves room to search down; 8 calls hold two inserts, a delete, a reinsert, a commit and a loss. The proofs of section 4 hold for all sizes |
| `storydb_sync` | violation: a `seen` later than its story, after `make-log` | as above |
| `walk` | once while the search is linear, latest first, everything recent, ends | all graphs of 4 commits with up to two parents and increasing times: chains, merges, criss-cross, equal times on branches; merges of 4 branches, which may have parents among themselves; `after` absent, on and between commits; every answer at each step. `LinearBelow` is 3, so that the merges search `todo` by halves, where a commit may be missed. Order, completeness, and once while the search is linear, are proved for all graphs and the code's 10 |
| `scan` | types, a small commit is recorded with the mark that it was seen, rows are never ahead of the mark, the mark never moves back, refinement of StoryDb | 2 stories of 1 chapter (the UNIQUE abort needs two new stories) and 2 versions, both symmetric, 4 commits pushed one or two at a time, so that files are added, modified, removed and added again; gaps below and above `Slack`, of which `LastTime` lets one be the longer; a commit at every 2nd call, so that it falls inside a commit's chapters |
| `scan_multi` | violation: commits before HEAD are not recorded | 3 commits, batches larger than any run, so no crash is needed |
| `scan_removed` | violation: the row of a removed chapter is not dropped | the same |
| `export` | types, the story keeps its place in the cursor, the cursor misses nothing by its last bound, `ready` is respected, the pages settle | 3 chapters (first, previous, last), a category that hides the last chapter, one that shows all, one without a time; 2 pushes, 1 crash |
| `export_restart` | violation: a chapter due at the start is passed over | only the html category, two chapters modified at a time |
| `export_growth` | violation: a grown story is never published | no crash and no `ready`; two pushes that add a chapter or nothing |
| `sources` | the cursor ends, the process dies of a missing file only, files and rows agree, the previous page gets its link, the story keeps its place | 2 chapters (the last and the one before it), 3 times for rows and files on either side of the one page time, room for one descriptor below the last. Row, file, page and `seen` are independent, so every order of the four occurs |
| `hooks` | one row in `committing`, `after` and stamps never go back, a lost run is made up for | 2 slots (symmetric), 3 starts, 1 kill: a hook can be overtaken, die, and be made up for by a third. An empty database and ones served up to 1 or 2 chapters; commits below and at the batch size; one gap below `Slack`, both as wide as `StampsFit` asks |
| `pure` | eight properties of the functions without state | 210 numbers of up to 3 digits, lists of up to 12 times (the linear search ends at 10), texts of up to 5 tokens, all pairs of small trees with their paths in every order, 2 stories described with every answer in every round, up to 6 stories with 3 to 7 descriptors. Six of the eight are proved for inputs of any size |

Numbers of the code that became constants: 100 seconds of slack (`Slack`), a commit every 100 chapters
(`BatchSize`), 10 entries before the halving search (`LinearBelow`, 3 in `walk` and 10 in `pure`). `MaxCalls`,
`MaxCommits`, `LastTime`, `MaxPush`, `MaxPushes`, `MaxModified`, `MaxCrashes`, `MaxRuns`, `MaxKills`, `MaxLength` and
`MaxNumber` are bounds of the model. `MaxOpen` and `most` are a process's limit of
descriptors, less those it holds from the start. Every cfg has `CHECK_DEADLOCK
FALSE`: all behaviours end, the walk, a cursor and a function when they are done, the others when their bounds
are used up or nobody starts a run.

The properties in words:

* `StampsDistinct`: no mix of calls, losses and commits breaks the UNIQUE indexes on `created`.
* `UpdatedCovered`: a story is never older than its chapters' `updated`. FOR_STORIES depends on it.
* `ActualMonotone`: greatest(`updated`, `seen`) of a chapter goes back only when a transaction is lost.
* `ReadyNeverLost`: only `ready` changes a committed `ready`, whatever `generate` had read before.
* `VisitedOnce`, `LatestFirst`, `AllVisited`, `Terminates`: the promises of the comments in `storygit.c`. The first holds as long as
  `todo` is never searched by halves; the others in any case.
* `SmallCommitRecorded`: `after` is written before the chapters it is about, yet a commit of fewer chapters than a batch
  becomes durable together with it, in all the files it added or modified.
* `RowsNotAhead`, `AfterMonotone`: the mark is never behind the rows and never moves back, with one process (`scan`)
  and with several (`hooks`).
* `ImplementsStoryDb`: each step of the scan is a step of StoryDb or a stutter.
* `StoryStays`: nothing noted during an export moves the story in the index that `for_stories` is stepping through.
* `CursorComplete`: the restart flag does its work as far as the bound last used reaches.
* `ReadyRespected`: no page past `ready` is written for readers.
* `PagesSettle`: from some time on `for_chapter` skips every page, though every run notes HEAD's files again.
* `Ends`: a cursor that restarts whenever its handler changed a row comes to an end all the same.
* `DiesOfMissing`, `TimesAgree`, `LinkFollows`: what a call with the repair options leaves behind it.
* `OneCommittingRow`: the SELECT and INSERT of `db.c:140-148` ("yay, race conditions") never make two rows.
* `NotedStays`: a slow or dying hook does not undo what another has noted.
* `BacklogExported`: `main.c` keeps the `after` of its start for its export, so that it makes up for a run that died
  in between. A run that ends alone makes up for one that was lost or cut short, if it is not cut short itself: its cursor was not
  started again past a chapter that still waits for its page (`cut`). Besides, no commit may be as large as a batch, and the stamps that
  new chapters of a commit get have to fit between it and the one before, and into the slack (`StampsFit`).
* `OrderSound`, `SearchComplete`, `DiffReplays`, `NumbersPrinted`, `SqlSurvives`, `LinksResolve`, `InfoKept`,
  `OutOfDescriptors`: a function against what it is for; the comment before each in `Pure` says what that is.

**Fairness.** `CommitWalk` and `Sources` have `WF_vars(Next)`: a loop in one thread goes on, and nothing chooses for the
handler or the files. `Export` has `WF_vars(Generate)`: a running process goes on, and the hook is started
again by later pushes or by hand. `Push`, `SetReady` and `Abandon` are never fair. `StoryDb`, `Hooks` and
`Scan` check safety only and state no fairness, since nothing says how often a hook that
aborts is run again. `Pure` has no liveness.


## 4. Proofs

`StoryTablesProofs` and `StoryDbProofs` hold for any finite set of stories and of chapters
(`TableAssumption`), any positive stamps (`StampAssumption`), any counts (`CountAssumption`) and any set of
programs. No fact is assumed beyond these and the library's. `GreatestExists` is
the fact most searches end by: a finite set of integers that is not empty has a greatest element.

*Lemmas on the operators.* `FreshCreatedIsFree`: the search for an unused `created` ends at an unused
stamp not above the time it started from. This is a pigeonhole argument: n rows cannot use all n + 1 candidates.
`SawChapterConsistent` and `SyncConsistent`: `saw_chapter` and the sync keep a consistent pair of tables consistent.

*The inductive invariant* `IInv` of StoryDb:

* `Consistent` (types, distinct stamps, chapters covered by their stories) for the pair `generate` sees and for the
  committed pair. Neither is inductive alone: `Abandon` makes the second the first, a commit the first the second.
* `phase # "busy" => saved = tables`: without it a one-statement program could commit somebody's unfinished
  changes. It is what "no statement since BEGIN" buys.

`InitIInv` and `NextIInv` (a step for each action) give `Invariance`. From it follow `Typing`,
`UniqueStamps`, `StoryCoversUpdated` and, with a case split on the step, `ActualStampMonotone`.
`ReadyIsKept` needs one more conjunct, `ReadySaved`: the stories `generate` sees have the
committed `ready`. Without it a commit could write back an old value.

`StoryCoversSeen` is the other side of the run `storydb_sync`: if `make-log` is never run, the
stories cover `seen` as well. So the sync is the only cause of that violation.

*The walk.* `CommitWalkProofs` is about any finite graph, any `after` and any answers. `WalkTyping` and `NothingLeftOut`
assume nothing more. `WalkInv`, for the latter, says where a commit can be: whatever the walk has met (`Known`: HEAD and
every parent handed over) is at hand, waits in `todo`, or has had all its recent parents handed over; and of the commit at hand
the parents before `i` have been (`NoneForgotten`). A parent is not pushed only where the search says it is in `todo`, and what the search
finds is there, so that neither a missed search nor a wrong order of times leaves an edge out. A skip may, which the
property allows for. At the end `todo` is empty, so `Known` is closed under recent parents, and `Reachable`, the least such set, is
inside it (`DoneIsAll`).

`LatestComesFirst` assumes `Chronological` (no commit is older than its parents). Its invariant `InOrder` adds to the types that
nothing in `todo` is later than the commit at hand (`TodoBehind`) and nothing handed over was earlier (`CallsAhead`).
`ShortWalkVisitsOnce` assumes `StrictlyChronological`, since two commits of one time may be taken in the wrong order. `VisitedOnce`
itself has the other condition, `NeverHalved`: fewer than `LinearBelow` entries at every hand-over so far. Its invariant `OnceInOrder` adds `Once`: no commit waits twice in
`todo`, none waits that is at hand or was handed over as a base, and of the commit at hand only the parents before
`i` were handed over. `NeverHalved` is needed: see section 5.

*The scan.* `ScanProofs` is about any stories and chapters, any slack and size of a batch, and any line of commits whose
times increase. Its invariant:

* `TablesInv`: what generate sees and what is committed are both consistent, and in each no row is later than its own `after`; the
  committed `after` is not above the pending one, nor that above the latest commit. `RowsNotAhead` is the committed half. The
  pending half is needed because a batch makes it the committed one.
* `RunInv`: until the first commit of a run is noted nothing is pending, and from then on `g.timestamp` is `after`. So
  the rows of a run get the time of the mark and none gets a later one. `PlaceInv` says what goes with each place of the
  program, of which the deepest part is arithmetic: the files counted and the files left are together those of the diff. A commit smaller than
  a batch can therefore not be interrupted by one.
* `RunRecords`: each file that HEAD's commit added or modified is recorded or still to come; `SavedRecords`: for a small commit it
  is recorded in the committed tables. `SmallCommitRecorded` is that.

`AfterMonotone` follows by a case split on the step: a push of later commits does not matter, because the walk reads HEAD after `after` and stops below it.
`Implements` is the refinement: under the mapping of `Scan`'s INSTANCE, `Begin` is StoryDb's begin, each statement of `on_commit`
and `on_chapter` its action for some arguments, a batch its retransaction, `Abandon` the loss of
the transaction, and the steps of the walk stutter.

*The export.* `ExportProofs` is about any number of chapters, any categories, times, pushes, marks, crashes and runs. Its invariant:

* `TablesInv`: consistency of both pairs of tables, no other story than the one, and nothing pending between two runs, without which
  a run could start from rows that a killed one had left.
* `VisitInv`: during a visit the story's time is `g.stamp`, no row has gone, and `numchaps` respects `ready`. Every call of `saw_chapter` is made with
  a time that the story already has, which by `SawOlderLeavesStories` leaves `stories` alone: `StoryStays`.
* `PlaceInv`: what `for_chapter` was called with is still the row, because nothing but `for_chapter` writes.
* `CursorInv`: behind the cursor, every row due by the cursor's own bound has a page as new as itself. A call of
  `saw_chapter` that does not ask for a restart leaves the rows behind it as they are (`SawInVisit`); one that does puts the cursor
  before the first row. At the end everything is behind the cursor: `CursorComplete`. It does not say that the
  *first* bound is served, which is false (`export_restart`).

`ReadyIsRespected` follows from `VisitInv` and `PlaceInv`: pages are made at `pc = "chapter"` only.

*The inner cursor.* `SourcesProofs` is about any number of chapters, any times and any options. `Covered` (tables
consistent, every row there) is inductive: whatever time a file has, it is used for a row only if it is
earlier than the row's, and the stamp of the link is the row's own, so no statement asks for a time later than the
story's. `StoryKeepsItsPlace` and `TablesStayConsistent` follow. The other three need, besides the types: `PlainInv`, that without
`fix_srctimes` no descriptor has been lost (`MissingSourceOnly`); `TimesInv`, that a file that was looked at agrees with
its row at all times and not only at the end (`FixedTimesAgree`); `LinkInv`, that a page without the link is not
newer than it was at the start while its row has got the last chapter's time (`LinkIsDue`). `RunInv` is for the latter: the chapter
before the last is below `ready`, so that it is never passed over.

*Processes side by side.* `HooksProofs` is about any number of processes, starts, kills, chapters and commits whose times
increase, and any batch size. `LockInv` says of each process what its lock buys (`Sees`): with a shared lock it sees the file; with any lock it
is not behind the file (`NotBehind`: in `after`, and in any chapter's greatest(`updated`, `seen`)), and what it has read for a later step still holds (`Placed`): no
row at `inserting`, an `after` not later than the HEAD it read at `commit`, rows for every page it has to make. Without a lock it is at none of those
places. With `OneWriter` this is inductive, because a commit of changes needs all other locks gone. One lemma per kind
of statement (`ReadKeeps`, `WriteKeeps`, `CommitKeeps`, `QuietKeeps`) serves all the steps of a process, each of which is shown to be of its kind.
`OneRow`, `AfterNeverBack`, `NotedIsKept` follow and, with the pages (`PagesInv`), `Typing`. The mutants `CheckBefore` and `LastSeenBefore`, which read without keeping a lock, break
`Placed`, and TLC finds them.

*A lost run is made up for.* `LostRunMadeUpFor` is the longest argument of `HooksProofs`. A
change is *pending* when it is noted and no page was made from it. A run is *cut short* when a restart of its cursor passes over a
chapter with a pending change (`storydb.c:448-458`). The theorem says that a run which ends its export alone and is not cut short
leaves nothing pending, if at most one run was lost or cut short since the last such run. The
invariant is `LockInv`, `PagesInv` and, where `StampsFit` and `SmallCommits` hold, `Backed`:

* `Sound` of the file, and of what each process with a lock sees: stories are not later than `after`, a noted chapter has a row whose stamp is
  less than the number of chapters before its commit, and the row of a pending change is later than the page (`Older`). Without the
  last, `for_chapter` would skip the page it has to make.
* `Run` of each process: where it is (`Place`: which lock goes with which step, and that its bound `back` is not later than what is stored), what it
  sees (`Visible`: the `after` and the notes of the file, ahead only while it scans, and only by the commit it scans), and what it has done
  (`Chapters`: what is to come is due by the cursor's bound of now, which a restart moves on; `Pass`: a change still pending at its pages
  is to come or was not due, unless the run was cut short).
* `Weight`, the count. A run *owes* a change from when it has stored `after` until it ends its export, if its own
  bound is before the row's stamp. Of each pending change one run owes it, or one was lost; once the stored `after` has left it
  behind for every later run, two do, or one and a loss. A run that was cut short counts as a loss when it ends. So with at most one loss a pending change is owed by a run that is still there or
  is due for the next one. A run that is alone owes alone, and `Pass` says it has nothing left.

Every kind of step has a lemma (`ReadBacked`, `WriteBacked`, `CommitEffect`, `GoneBacked`) and every action one more. The invariant is needed in this
size because a change is followed through all processes that may have read its row before it was noted.

*The functions.* `PureProofs` is about inputs of any size (`PureAssumption` says only what they are: lists of times, trees of files with plain
names, limits of three descriptors or more):

* `ComparisonSoundFor`: for an int of any width and a list of any length. Two numbers less than half the range apart keep their order
  when cut down (`SmallModulo`).
* `ShortSearchComplete`: in a sorted list the entries of one time are one run (`LinearSearchFinds`), found from its first place
  on and also from a later one.
* `NoDeadLinksFor`: each program's idea of what is shown is the chapters up to one number (`ShownChapters`), so all links
  lead to pages that are there.
* `DiffReplaysFor`: the loop's invariant `DiffInv` has the rows as those of a tree that is half the one, half the other: the
  parent's tree on the paths that are left, the commit's elsewhere (`Mixed`). `ToldMixed` is one call; plain names are what makes a
  path and a chapter the same thing.
* `InfoKeptFor`: `DescribeInv` keeps, over any answers, every text that was there, and each story answered in full
  described. Which story a round asks for is never one of these (`TurnAsks`).
* `DiesOfDescriptors`: `FilesInv` says that as long as the process lives three descriptors are free, which is what a story
  needs to be told from a missing one; and that after a page made from nothing, exactly three. The next story with a directory then dies.

*What the proofs changed.* Some statements were narrower or wider than the code, which the small instances could not show:

* `BacklogExported` was false beyond the run's bounds. Two runs may be lost after they have stored `after`; a third, which ends
  alone, was then taken to have made up for both, and a fourth finds a change that is behind every bound (TLC: one process at a time, 4 starts, 2 kills,
  batches of 3). A run that ends alone makes up for one lost run, and `lost` now says so.
* `BacklogExported` also needed `StampsFit`. New chapters of one commit get different stamps, counted down from its time. With more chapters than
  seconds of slack the earliest is not due in the next run (3 chapters, slack 1); with commits closer together than there are
  chapters, it is not later than a page of the commit before (5 chapters, commits at 10, 11 and 12). TLC finds both. The slack of the
  code is 100 seconds.
* A first `Hooks` took the restart of the cursor to change nothing, since every chapter due is handed over. It does: with the bound
  moved to the time of the row at hand, `Pass` cannot be kept, and `BacklogExported` is false without `cut` (a commit modifies chapter 2 and its
  run is lost, the next modifies chapter 1: TLC).
* `Hooks` used to start with all chapters served, so that no export met a new row. `Init` is more general now.
* The loops of Diff, Info and OpenFiles were one step each, with the answer computed by a fold. One step per round is closer to the code, and
  has an invariant.
* `SmallCommitRecorded` had a new row recorded at the commit's time. With three files in one batch that is false: `FreshCreated` gives a
  new row the latest stamp that is free, so it may be as many seconds early as there are other chapters. `RecordedSince` now says so.
* `TypeOK` of Hooks had page times in `Nat`; for the same reason only `Int` holds for every number of chapters.
* `TypeOK` and `AllVisited` of the walk were thought to need times in order. They do not, and the theorems do not
  assume it.

*Only model-checked:*

* Liveness (`Terminates`, `Ends`, `PagesSettle`), which the prover does not reach.
* `NumbersPrinted` and `SqlSurvives`: digits and tokens are computed by recursion over the input, and induction over data is out of reach.

Each property proved here is also checked by a run on a small instance, except `StoryCoversSeen` and `TablesStayConsistent`;
the run `storydb` does not meet the assumption of the former.


## 5. Where the code and its words differ

Each of these is the counterexample of one run. They are reported as behaviour, with the line that says otherwise.

1. `storydb_sync`: `storydb_sync_stories_updated` takes `max(updated)` and ignores `seen`, which
   `schema.sql:36` says acts like `updated`. A chapter marked seen can lose its story from FOR_STORIES.
2. `scan_multi`: popped commits have no tree and `return true` is `GFC_STOP`: only HEAD's own diff is read.
3. `scan_removed`: `on_chapter` looks for the file before it drops the row (`main.c:433`). A removed file is not there, so
   the row of a removed chapter stays, against "either deleted, pass old_file, true" (`storygit.c:321`) and "if we've reduced our
   chapters" (`main.c:312`).
4. `export_restart`: the restart bound is the time of the row at hand while rows come in order of the
   primary key, not "in order of ascending updated" (`storydb.c:449-453`).
5. `export_growth`: the new count is stored only if a chapter was due by the old one, so a story may grow
   and stay unpublished.

The passing properties have the conditions they have, or say what they say, because of the following:

* `VisitedOnce`, `SearchComplete`: from ten entries on, the halving search does not look at the place it ends at, so a commit that is
  in `todo` may be pushed again and handed over twice, against "visited exactly once" (`storygit.c:108`).
* `OrderSound`: author times more than 68 years apart compare the wrong way round in a 32-bit int.
* `BacklogExported`: the scan's own notes make the cursor start again at the first row it hands over, from that row's time, and
  older chapters that a lost run has left are passed over, as in `export_restart`. A hook slower than a later one commits its second batch after the later one has stored
  `after`; when both then die the note is behind every later bound. The same after two lost runs in a row, even if a whole run
  between them and the next went well. And chapters that are new in a commit must fit, a second each, between it and the one
  before and into the slack of 100 seconds.
* `Ends`: with `fix_srctimes` the file's time and the stamp of the link may take turns in a row for ever. Only
  running out of descriptors ends that, by an abort that loses the run. With `fix_titles` as well nothing does.
* `LinkFollows`: a page made later than the stamp of a last chapter that was hidden then keeps its missing link.
* `SmallCommitRecorded`, `DiffReplays`: the direction of the diff is right because two mistakes cancel, the order of the trees and
  the `||` between the flags (`storygit.c:390-395`).
* `DiffReplays`: `chapter1.hish~` counts as chapter 1, and `markup/chapters.txt` ends the process (`storygit.c:341`).
* `NumbersPrinted`: the tenth story cache of a process is never started, since `itoa` answers how many digits it wrote and
  `ensure_eq` wants `true`.
* `SqlSurvives`: a backslash in SQL is not escaped. No SQL file of the repository has one.
* `LinksResolve`: `ready` may be told of a chapter the story does not have, and the contents then link to it.
* `OutOfDescriptors`: one descriptor is lost for every due story, and just before they run out a page may be made
  from nothing.

Known from reading, without a run: a category that is not in the database never gets a page, since `db_get_category` answers time 0 for the
row it inserts, and the assertion at `main.c:597` aborts the run and rolls the row back (`GetCategory` of Hooks, `CategoryIsNew`
of Export); `storydb_get_story` does not look for a free `created`, so two new stories in one commit abort this run and each later
one until HEAD moves; `before` of `committing` is updated only where it is not NULL, and it always is
NULL, so "if interrupted, we start halfway" (`db.c:204-206`) never happens; the branch for the chapter after the last
(`main.c:185`) is not reached, since FOR_CHAPTERS leaves that row out; RECENT_CHAPTERS has no use for its second parameter, and
`make-log.c:46-48` drops the only chapter of a story that `db.sql.stmt:29` says is always ready; "empty strings will set the
db value to NULL" (`storydb.h`) is not what COALESCE does; an empty description file empties the page and not the
row; only the outermost `<construction>` is stripped (`create.c:113`).


## 6. What is left out

* The tree surgery on markup (`create.c:65-137`, templates, htmlish, libxml2): of a page only its time, its
  links and its title are modelled. Titles of chapters, `under_construction`, censored stories: no modelled guard reads them.
* Options of `generate`: the `after`, `before` and `story` overrides, `recheck`, `recreate_contents`.
* What a story cache holds; the statement registry of `db.c`; messages.
* Several stories in one export, except for their descriptors; merges in `Scan` and `Hooks` (CommitWalk has them);
  a hidden last chapter and other categories in `Hooks` (Export has them); removed chapters in either (in `Scan` they
  are, and their rows stay).
* Widths other than that of the comparison: row numbers and times are mathematical integers. Times become too large for the
  32-bit bind of `db_caught_up_category` in 2038.
* Unreadable trees and renames in the diff: no flag asks libgit2 to look for renames.
* `set-censored.c`, `list-commits.c`, `test_git.c`: written against an older interface of the library, they
  do not compile with this one. `news-log.c`: prints commits and keeps nothing. `repo.c`: opens the repository and reports errors.
* How `statements2source.c` finds the statements of a file (SQLite's parser does that), vendored templates, build files.
* SQLite, libgit2 and the rest are external. What is taken from them: locks are taken at the first statement
  of a transaction, a reader keeps a writer from committing and a waiting writer keeps readers out, a cursor looks
  at a row when it comes to it, FOR_CHAPTERS runs in order of the primary key, and `GIT_DIFF_REVERSE` (1) swaps the sides
  of a diff.


## 7. Plan

Done, in the order of importance: StoryTables, StoryDb and its proofs; CommitWalk, with its order and its completeness proved; Scan, its
invariants and its refinement of StoryDb proved; Export of one story and Sources, all their safety properties proved; Hooks, all its
properties proved; the functions without state, proved but for the two that are computed by recursion. Every safety property a
passing run checks is a theorem now, except `NumbersPrinted` and `SqlSurvives`.

What could come next:

1. **Extend the model.** Several stories under the cursor of `for_stories` in one export; an abstract specification of the
   export ("a page is as new as its row, and no page is past `ready`") that Export and Sources both implement.
2. **Prove more.** `ReadyIsRespected` carried over to Sources, which has the same guards. How many entries `todo` has on a
   history with few branches at a time, so that `NeverHalved` of the walk becomes a condition on the graph.
