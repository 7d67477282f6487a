--------------------------------- MODULE Scan ---------------------------------
(***************************************************************************)
(* The first half of `generate' (main.c:530-589): what of the git history  *)
(* gets into the tables.  The history is one line of commits, each a time  *)
(* and a tree of chapter files; git_for_commits walks it from HEAD back    *)
(* (CommitWalk has the walk over merges), on_commit notes the commits in   *)
(* `committing' and has the chapter files of the two trees compared, and   *)
(* on_chapter notes each changed file in the tables of StoryTables.        *)
(* Commits may be pushed and generate may die between any two steps.       *)
(***************************************************************************)
EXTENDS StoryTables, Sequences

CONSTANTS
  Version,      \* contents a chapter file can have
  FirstTime,    \* author time of the first commit
  Gaps,         \* how much later the next commit can be
  LastTime,     \* bound on the author times
  MaxCommits,   \* bound on the history
  MaxPush,      \* bound on the commits of one push
  Slack,        \* main.c looks this much further back than `after' (100)
  BatchSize     \* on_chapter commits at every BatchSize-th call (100)

ASSUME ScanAssumption ==
  /\ Gaps \subseteq Nat \ {0} /\ MaxCommits \in Nat \ {0} /\ MaxPush \in Nat
  /\ Slack \in Nat /\ FirstTime \in Nat /\ FirstTime > Slack
  /\ LastTime \in Nat /\ LastTime >= FirstTime
  /\ BatchSize \in Nat \ {0}

VARIABLES
  history,             \* the commits up to HEAD: [time, tree]
  stories, chapters,   \* the tables as generate sees them
  committing,          \* the row of table committing: [after, before], 0 is NULL
  saved,               \* all three as last committed
  pc,                  \* "off" or where generate is
  locked,              \* a statement was run since the last BEGIN
  since,               \* `after' of the walk, 0 for do_after = false
  at, haveTree,        \* me: its place in history, and whether me.tree is loaded
  timestamp,           \* g.timestamp
  num,                 \* g.num
  deltas,              \* changes libgit2 has not handed over yet
  delta                \* the one on_chapter is working on

tables == <<stories, chapters, committing>>
walk == <<since, at, haveTree, timestamp, num>>
vars == <<history, tables, saved, pc, locked, walk, deltas, delta>>

Tree == UNION {[S -> Version] : S \in SUBSET Key}
Delta == [key : Key, deleted : BOOLEAN]
NoDelta == [key |-> <<>>, deleted |-> FALSE]

HEAD == Len(history)
Time(c) == history[c].time
HasFile(c, k) == k \in DOMAIN history[c].tree

TypeOK ==
  /\ history \in Seq([time : Nat, tree : Tree]) /\ HEAD <= MaxCommits
  /\ IsStoryTable(stories) /\ IsChapterTable(chapters)
  /\ committing \in [after : Nat, before : 0 .. HEAD]
  /\ IsStoryTable(saved.stories) /\ IsChapterTable(saved.chapters)
  /\ saved.committing \in [after : Nat, before : 0 .. HEAD]
  /\ pc \in {"off", "begun", "walking", "files", "story", "chapter", "scanned"}
  /\ locked \in BOOLEAN /\ since \in Nat /\ at \in 0 .. HEAD
  /\ haveTree \in BOOLEAN /\ timestamp \in Nat /\ num \in 0 .. Cardinality(Key)
  /\ deltas \subseteq Delta /\ delta \in Delta \cup {NoDelta}

Snapshot == [stories |-> stories, chapters |-> chapters, committing |-> committing]

Init ==
  /\ history = <<>>
  /\ stories = EmptyTable /\ chapters = EmptyTable
  /\ committing = [after |-> 0, before |-> 0]   \* INSERT ... DEFAULT VALUES
  /\ saved = Snapshot
  /\ pc = "off" /\ locked = FALSE
  /\ since = 0 /\ at = 0 /\ haveTree = FALSE /\ timestamp = 0 /\ num = 0
  /\ deltas = {} /\ delta = NoDelta

-----------------------------------------------------------------------------
(* git, outside the program *)

Commits(previous) ==
  {c \in {[time |-> previous.time + gap, tree |-> tree] : gap \in Gaps, tree \in Tree} :
     c.time <= LastTime}

(* A push of one or two commits; the working tree is checked out at HEAD.  *)
Push ==
  /\ \/ /\ history = <<>>
        /\ \E tree \in Tree : history' = <<[time |-> FirstTime, tree |-> tree]>>
     \/ /\ history # <<>> /\ HEAD + 1 <= MaxCommits
        /\ \E c \in Commits(history[HEAD]) : history' = Append(history, c)
     \/ /\ history # <<>> /\ MaxPush >= 2 /\ HEAD + 2 <= MaxCommits
        /\ \E c \in Commits(history[HEAD]) : \E d \in Commits(c) :
             history' = history \o <<c, d>>
  /\ UNCHANGED <<tables, saved, pc, locked, walk, deltas, delta>>

-----------------------------------------------------------------------------
(* The process is gone, and its variables with it. *)
Exit ==
  /\ pc' = "off" /\ locked' = FALSE
  /\ since' = 0 /\ at' = 0 /\ haveTree' = FALSE /\ timestamp' = 0 /\ num' = 0
  /\ deltas' = {} /\ delta' = NoDelta

(* db_abort, a failed assert or a kill: the open transaction is lost and   *)
(* the next run starts from nothing.                                       *)
Abandon ==
  /\ pc # "off" /\ Exit
  /\ stories' = saved.stories /\ chapters' = saved.chapters
  /\ committing' = saved.committing
  /\ UNCHANGED <<history, saved>>

Begin ==
  /\ pc = "off" /\ history # <<>>
  /\ pc' = "begun"
  /\ UNCHANGED <<history, tables, saved, locked, walk, deltas, delta>>

WalkStart == IF committing.before # 0 THEN committing.before ELSE HEAD

(* db_last_seen_commit, and the start of git_for_commits at `before' or at *)
(* HEAD.                                                                   *)
StartWalk ==
  LET back == IF committing.after # 0 THEN committing.after - Slack ELSE 0
  IN  /\ pc = "begun"
      /\ since' = back /\ at' = WalkStart /\ haveTree' = TRUE
      /\ pc' = IF Time(WalkStart) <= back THEN "scanned" ELSE "walking"
      /\ locked' = TRUE
      /\ UNCHANGED <<history, tables, saved, timestamp, num, deltas, delta>>

(* Mutants of SawCommit: the parent's time is noted, and: the time is      *)
(* noted at every commit.                                                  *)
SawParent(row, base, parent) ==
  [row EXCEPT !.after = IF timestamp = 0 THEN Time(parent) ELSE row.after]

SawEveryCommit(row, base, parent) == [row EXCEPT !.after = Time(base)]

(* db_saw_commit for base and then for parent.  saw_commit, which lets     *)
(* `after' be written once in a run, and g.timestamp are set together.     *)
SawCommit(row, base, parent) ==
  [after  |-> IF timestamp = 0 THEN Time(base) ELSE row.after,
   before |-> IF row.before # 0 THEN parent ELSE row.before]

(* git_diff_tree_to_tree(base, parent) takes the later tree for the old    *)
(* one, but the two flags joined by || are 1, GIT_DIFF_REVERSE, and libgit2 *)
(* swaps the sides back: a file the commit removes comes as DELETED.       *)
Diff(base, parent) ==
  LET old == history[parent].tree
      new == history[base].tree
  IN  {[key |-> k, deleted |-> k \notin DOMAIN new] :
         k \in {k \in DOMAIN old \cup DOMAIN new :
                  ~(k \in DOMAIN old /\ k \in DOMAIN new /\ old[k] = new[k])}}

OnCommit ==
  /\ pc = "walking" /\ at > 1 /\ Time(at - 1) >= since
  /\ committing' = SawCommit(committing, at, at - 1)
  /\ timestamp' = IF timestamp = 0 THEN Time(at) ELSE timestamp
  /\ IF haveTree
     THEN pc' = "files" /\ deltas' = Diff(at, at - 1)
     ELSE pc' = "scanned" /\ UNCHANGED deltas     \* true is GFC_STOP
  /\ locked' = TRUE
  /\ UNCHANGED <<history, stories, chapters, saved, since, at, haveTree, num, delta>>

(* The root, or a parent that is too old: nothing is left to do.           *)
WalkEnds ==
  /\ pc = "walking" /\ ~(at > 1 /\ Time(at - 1) >= since)
  /\ pc' = "scanned"
  /\ UNCHANGED <<history, tables, saved, locked, walk, deltas, delta>>

(* All deltas done: GFC_CONTINUE, and the parent is popped from todo.      *)
NextCommit ==
  /\ pc = "files" /\ deltas = {}
  /\ pc' = "walking" /\ at' = at - 1 /\ haveTree' = FALSE
  /\ UNCHANGED <<history, tables, saved, locked, since, timestamp, num, deltas, delta>>

-----------------------------------------------------------------------------
(* Mutant of OnChapter: every call commits. *)
OnChapterCommits ==
  /\ pc = "files"
  /\ \E d \in deltas :
       /\ deltas' = deltas \ {d}
       /\ IF HasFile(HEAD, d.key)
          THEN pc' = "story" /\ delta' = d
          ELSE UNCHANGED <<pc, delta>>
  /\ num' = num + 1
  /\ saved' = Snapshot /\ locked' = FALSE
  /\ UNCHANGED <<history, tables, since, at, haveTree, timestamp>>

(* on_chapter: count, commit the batch before this one, and leave it at    *)
(* that if the file is not in the working tree.                            *)
OnChapter ==
  /\ pc = "files"
  /\ \E d \in deltas :
       /\ deltas' = deltas \ {d}
       /\ IF HasFile(HEAD, d.key)
          THEN pc' = "story" /\ delta' = d
          ELSE UNCHANGED <<pc, delta>>
  /\ num' = num + 1
  /\ IF num' % BatchSize = 0
     THEN saved' = Snapshot /\ locked' = FALSE
     ELSE UNCHANGED <<saved, locked>>
  /\ UNCHANGED <<history, tables, since, at, haveTree, timestamp>>

(* Mutant of GetStory: the stamp is taken although another story has it. *)
GetAnyStory ==
  LET s == delta.key[1]
  IN  /\ pc = "story" /\ pc' = "chapter" /\ locked' = TRUE
      /\ stories' = IF s \in DOMAIN stories THEN stories
                    ELSE Put(stories, s, NewStory(timestamp))
      /\ UNCHANGED <<history, chapters, committing, saved, walk, deltas, delta>>

(* storydb_get_story, the argument of storydb_saw_chapter.                 *)
GetStory ==
  LET s == delta.key[1]
  IN  /\ pc = "story"
      /\ IF s \in DOMAIN stories \/ StampFree(stories, timestamp)
         THEN /\ stories' = IF s \in DOMAIN stories THEN stories
                            ELSE Put(stories, s, NewStory(timestamp))
              /\ pc' = "chapter" /\ locked' = TRUE
              /\ UNCHANGED <<history, chapters, committing, saved, walk, deltas, delta>>
         ELSE Abandon

SawChapter ==
  LET k == delta.key
  IN  /\ pc = "chapter"
      /\ IF delta.deleted
         THEN chapters' = Drop(chapters, k) /\ UNCHANGED stories
         ELSE /\ chapters' = ChaptersAfterSaw(chapters, k, timestamp)
              /\ stories' = StoriesAfterSaw(stories, k[1], timestamp)
      /\ pc' = "files" /\ delta' = NoDelta
      /\ UNCHANGED <<history, committing, saved, locked, walk, deltas>>

(* main.c:589 commits; what follows is the export.                         *)
Finish ==
  /\ pc = "scanned" /\ Exit
  /\ saved' = Snapshot
  /\ UNCHANGED <<history, tables>>

Next ==
  \/ Push \/ Abandon \/ Begin \/ StartWalk \/ OnCommit \/ WalkEnds
  \/ NextCommit \/ OnChapter \/ GetStory \/ SawChapter \/ Finish

Spec == Init /\ [][Next]_vars

-----------------------------------------------------------------------------
(* The files a commit adds or modifies, and those it removes. *)
Changed(c) ==
  IF c <= 1 THEN {}
  ELSE {k \in DOMAIN history[c].tree :
          HasFile(c - 1, k) => history[c].tree[k] # history[c - 1].tree[k]}

Removed(c) == IF c <= 1 THEN {} ELSE DOMAIN history[c - 1].tree \ DOMAIN history[c].tree

StillThere(k, c) == \A d \in c .. HEAD : HasFile(d, k)

(* A new row has the latest stamp no other chapter has (FreshCreated), so  *)
(* it may be as many seconds early as there are other chapters.            *)
RecordedSince(k, t) ==
  k \in DOMAIN saved.chapters /\ Actual(saved.chapters[k]) + Cardinality(Key) > t

LastSeen(c) == saved.committing.after = Time(c)

(* `committing.after' is written before the chapters of the commit it      *)
(* names, and a crash may come after any batch.  If the commit has fewer   *)
(* chapter files than on_chapter commits at a time, the two are committed  *)
(* together: a file it added or modified is recorded, with its time or, if *)
(* it had no row, with one that is free.                                   *)
SmallCommitRecorded ==
  \A c \in 1 .. HEAD : LastSeen(c) /\ c > 1 /\ Cardinality(Diff(c, c - 1)) < BatchSize =>
    \A k \in Changed(c) : StillThere(k, c) => RecordedSince(k, Time(c))

(* No committed row is later than `committing.after', which db_saw_commit  *)
(* writes before the first chapter: a run that looks back to `after' finds *)
(* every row of the runs before it older.                                  *)
RowsNotAhead ==
  /\ \A k \in DOMAIN saved.chapters : Actual(saved.chapters[k]) <= saved.committing.after
  /\ \A s \in DOMAIN saved.stories : saved.stories[s].updated <= saved.committing.after

(* A run never moves `after' back, however the walk is cut short.          *)
AfterMonotone == [][saved.committing.after <= saved'.committing.after]_vars

(* A chapter whose file HEAD removes has lost its row once a run has seen  *)
(* HEAD (storygit.c:321 "either deleted, pass old_file, true", and         *)
(* main.c:312 "if we've reduced our chapters").                            *)
RemovedIsDropped ==
  history # <<>> /\ LastSeen(HEAD) => DOMAIN saved.chapters \cap Removed(HEAD) = {}

(* README.md:1 "keep them up to date as the markup changes": when a run    *)
(* has seen HEAD, a change of an earlier commit is recorded as well.       *)
EveryCommitRecorded ==
  \A c \in 1 .. HEAD : saved.committing.after >= Time(c) =>
    \A k \in Changed(c) : StillThere(k, c) => RecordedSince(k, Time(c))

(* The tables as StoryDb has them: each step of the scan is a step of      *)
(* generate there, or none.                                                *)
Db == INSTANCE StoryDb WITH
        saved <- [stories |-> saved.stories, chapters |-> saved.chapters],
        phase <- IF pc = "off" THEN "off" ELSE IF locked THEN "busy" ELSE "idle",
        Stamp <- FirstTime .. LastTime,
        Count <- {0},
        Programs <- {"generate"}

ImplementsStoryDb == Db!Spec
==============================================================================
