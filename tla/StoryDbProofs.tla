---------------------------- MODULE StoryDbProofs ----------------------------
(***************************************************************************)
(* Every behaviour of StoryDb keeps both the tables generate sees and the  *)
(* committed tables consistent, for any stories, chapters and stamps.      *)
(***************************************************************************)
EXTENDS StoryDb, StoryTablesProofs

(* The strengthening the safety theorems need: the pair of tables must be  *)
(* consistent as a whole, on both sides of the transaction, since Abandon  *)
(* copies one side over the other, and ready and make-log commit what      *)
(* generate sees because nothing of it is uncommitted then.                *)
IInv ==
  /\ Consistent(stories, chapters)
  /\ saved = [stories |-> saved.stories, chapters |-> saved.chapters]
  /\ Consistent(saved.stories, saved.chapters)
  /\ phase \in {"off", "idle", "busy"}
  /\ phase # "busy" => saved = tables

LEMMA InitIInv == Init => IInv
BY EmptyTablesConsistent DEF Init, IInv, tables

(* A step of generate inside its transaction has only the working tables   *)
(* to answer for.                                                          *)
LEMMA StatementIInv ==
  ASSUME IInv, Statement, Consistent(stories', chapters')
  PROVE  IInv'
BY DEF IInv, Statement

LEMMA AbandonIInv == ASSUME IInv, Abandon PROVE IInv'
BY DEF IInv, Abandon, tables

LEMMA CommitIInv ==
  ASSUME IInv, Retransaction \/ CloseAndExit PROVE IInv'
BY DEF IInv, Retransaction, CloseAndExit, Commit, tables

LEMMA GetStoryIInv ==
  ASSUME IInv, NEW s \in Story, NEW t \in Stamp, GetStory(s, t)
  PROVE  IInv'
<1>1. CASE StampFree(stories, t)
  <2>1. t \in Int
    BY StampAssumption
  <2>2. Consistent(stories', chapters')
    BY <1>1, <2>1, NewStoryConsistent DEF GetStory, IInv
  <2> QED BY <1>1, <2>2, StatementIInv DEF GetStory
<1>2. CASE ~ StampFree(stories, t)
  BY <1>2, AbandonIInv DEF GetStory
<1> QED BY <1>1, <1>2

LEMMA SawChapterIInv ==
  ASSUME IInv, NEW s \in Story, NEW n \in Chapter, NEW t \in Stamp,
         SawChapter(s, n, t)
  PROVE  IInv'
<1>1. t \in Int
  BY StampAssumption
<1>2. Consistent(stories', chapters')
  BY <1>1, SawChapterConsistent DEF SawChapter, IInv
<1> QED BY <1>2, StatementIInv DEF SawChapter

LEMMA SawDeletedIInv ==
  ASSUME IInv, NEW s \in Story, NEW n \in Chapter, SawDeleted(s, n)
  PROVE  IInv'
<1>1. Consistent(stories', chapters')
  BY DropConsistent DEF SawDeleted, IInv
<1> QED BY <1>1, StatementIInv DEF SawDeleted

(* set_chapters and set-ready write a column no consistency is about.      *)
LEMMA CountColumnConsistent ==
  ASSUME Consistent(stories, chapters), NEW s \in DOMAIN stories, NEW c \in Nat
  PROVE  /\ Consistent([stories EXCEPT ![s].chapters = c], chapters)
         /\ Consistent([stories EXCEPT ![s].ready = c], chapters)
<1>1. IsStoryTable(stories)
  BY DEF Consistent
<1>2. ASSUME NEW new, \/ new = [stories EXCEPT ![s].chapters = c]
                      \/ new = [stories EXCEPT ![s].ready = c]
      PROVE  Consistent(new, chapters)
  <2>1. /\ DOMAIN new = DOMAIN stories
        /\ \A x \in DOMAIN stories : /\ new[x].created = stories[x].created
                                     /\ new[x].updated = stories[x].updated
    BY <1>1, <1>2 DEF IsStoryTable, StoryRow
  <2>2. IsStoryTable(new)
    BY <1>1, <1>2 DEF IsStoryTable, StoryRow
  <2> QED BY <2>1, <2>2, SameStampsConsistent
<1> QED BY <1>2

LEMMA SetChaptersIInv ==
  ASSUME IInv, NEW s \in Story, NEW c \in Count, SetChapters(s, c)
  PROVE  IInv'
<1>1. Consistent(stories', chapters')
  BY CountAssumption, CountColumnConsistent DEF SetChapters, IInv
<1> QED BY <1>1, StatementIInv DEF SetChapters

LEMMA AutocommitIInv ==
  ASSUME IInv, Autocommit, Consistent(stories', chapters')
  PROVE  IInv'
BY DEF IInv, Autocommit, tables

LEMMA SetReadyIInv ==
  ASSUME IInv, NEW s \in Story, NEW c \in Count, SetReady(s, c)
  PROVE  IInv'
<1>1. Consistent(stories', chapters')
  BY CountAssumption, CountColumnConsistent DEF SetReady, Autocommit, IInv
<1> QED BY <1>1, AutocommitIInv DEF SetReady

LEMMA SyncIInv == ASSUME IInv, SyncStoriesUpdated PROVE IInv'
<1>1. Consistent(stories', chapters')
  BY SyncConsistent DEF SyncStoriesUpdated, CanSync, Autocommit, IInv
<1> QED BY <1>1, AutocommitIInv DEF SyncStoriesUpdated

LEMMA NextIInv == IInv /\ [Next]_vars => IInv'
<1> SUFFICES ASSUME IInv, [Next]_vars PROVE IInv'
  OBVIOUS
<1>1. CASE OpenDb
  BY <1>1 DEF IInv, OpenDb, tables
<1>2. CASE Look
  BY <1>2, StatementIInv DEF Look, IInv
<1>3. CASE Retransaction \/ CloseAndExit
  BY <1>3, CommitIInv
<1>4. CASE Abandon
  BY <1>4, AbandonIInv
<1>5. CASE \E s \in Story, t \in Stamp : GetStory(s, t)
  BY <1>5, GetStoryIInv
<1>6. CASE \E s \in Story, n \in Chapter, t \in Stamp : SawChapter(s, n, t)
  BY <1>6, SawChapterIInv
<1>7. CASE \E s \in Story, n \in Chapter : SawDeleted(s, n)
  BY <1>7, SawDeletedIInv
<1>8. CASE \E s \in Story, c \in Count : SetChapters(s, c)
  BY <1>8, SetChaptersIInv
<1>9. CASE \E s \in Story, c \in Count : SetReady(s, c)
  BY <1>9, SetReadyIInv
<1>10. CASE SyncStoriesUpdated
  BY <1>10, SyncIInv
<1>11. CASE UNCHANGED vars
  BY <1>11 DEF vars, IInv, tables
<1> QED
  BY <1>1, <1>2, <1>3, <1>4, <1>5, <1>6, <1>7, <1>8, <1>9, <1>10, <1>11
     DEF Next, Generate, Others

THEOREM Invariance == Spec => []IInv
BY InitIInv, NextIInv, PTL DEF Spec

(* The tables keep their types.                                            *)
THEOREM Typing == Spec => []TypeOK
<1>1. IInv => TypeOK
  BY DEF IInv, TypeOK, Consistent
<1> QED BY <1>1, Invariance, PTL

(* No row that generate writes or commits collides with another on         *)
(* `created': the UNIQUE indexes never stop a chapter.                     *)
THEOREM UniqueStamps == Spec => []StampsDistinct
<1>1. IInv => StampsDistinct
  BY DEF IInv, StampsDistinct, Consistent
<1> QED BY <1>1, Invariance, PTL

(* A story is never older than the `updated' of one of its chapters.       *)
THEOREM StoryCoversUpdated == Spec => []UpdatedCovered
<1>1. IInv => UpdatedCovered
  BY DEF IInv, UpdatedCovered, Consistent
<1> QED BY <1>1, Invariance, PTL

-----------------------------------------------------------------------------
LEMMA ActualIsInt ==
  ASSUME NEW r \in ChapterRow PROVE Actual(r) \in Int
BY DEF ChapterRow, Actual, Larger

(* Rows that a step leaves alone keep their stamp. *)
LEMMA SameRowsMonotone ==
  ASSUME IsChapterTable(chapters),
         \A k \in DOMAIN chapters \cap DOMAIN chapters' : chapters'[k] = chapters[k]
  PROVE  \A k \in DOMAIN chapters \cap DOMAIN chapters' :
           Actual(chapters[k]) <= Actual(chapters'[k])
BY ActualIsInt DEF IsChapterTable

(* A chapter's last change, GREATEST(updated, seen), goes back only when   *)
(* its row is deleted or the transaction is lost.                          *)
THEOREM ActualStampMonotone == Spec => ActualMonotone
<1> DEFINE Rises == \A k \in DOMAIN chapters \cap DOMAIN chapters' :
                      Actual(chapters[k]) <= Actual(chapters'[k])
<1>1. IInv /\ [Next]_vars => [Abandon \/ Rises]_vars
  <2> SUFFICES ASSUME IInv, Next PROVE Abandon \/ Rises
    OBVIOUS
  <2>0. IsChapterTable(chapters)
    BY DEF IInv, Consistent
  <2>1. CASE UNCHANGED chapters
    BY <2>0, <2>1, SameRowsMonotone
  <2>2. ASSUME NEW s \in Story, NEW t \in Stamp, GetStory(s, t)
        PROVE  Abandon \/ Rises
    <3>1. UNCHANGED chapters \/ Abandon
      BY <2>2 DEF GetStory
    <3> QED BY <2>1, <3>1
  <2>3. ASSUME NEW s \in Story, NEW n \in Chapter, SawDeleted(s, n)
        PROVE  Rises
    <3>1. \A k \in DOMAIN chapters \cap DOMAIN chapters' : chapters'[k] = chapters[k]
      BY <2>3 DEF SawDeleted, Drop, Restrict
    <3> QED BY <2>0, <3>1, SameRowsMonotone
  <2>4. ASSUME NEW s \in Story, NEW n \in Chapter, NEW t \in Stamp,
               SawChapter(s, n, t)
        PROVE  Rises
    <3> DEFINE j == <<s, n>>
    <3>1. j \in Key /\ t \in Int
      BY StampAssumption DEF Key
    <3>2. chapters' = ChaptersAfterSaw(chapters, j, t)
      BY <2>4 DEF SawChapter
    <3> HIDE DEF j
    <3>3. /\ \A x \in DOMAIN chapters : x # j => chapters'[x] = chapters[x]
          /\ j \in DOMAIN chapters => chapters'[j] = SeenAgain(chapters[j], t)
      BY <2>0, <3>1, <3>2, ChaptersAfterSawTable DEF IInv, Consistent
    <3>4. ASSUME NEW k \in DOMAIN chapters
          PROVE  Actual(chapters[k]) <= Actual(chapters'[k])
      <4>1. chapters[k] \in ChapterRow
        BY <2>0 DEF IsChapterTable
      <4>2. CASE k = j
        BY <3>1, <3>3, <4>1, <4>2, SeenAgainRow
      <4>3. CASE k # j
        BY <3>3, <4>1, <4>3, ActualIsInt
      <4> QED BY <4>2, <4>3
    <3> QED BY <3>4
  <2>5. Next => \/ UNCHANGED chapters \/ Abandon
                \/ \E s \in Story, t \in Stamp : GetStory(s, t)
                \/ \E s \in Story, n \in Chapter : SawDeleted(s, n)
                \/ \E s \in Story, n \in Chapter, t \in Stamp : SawChapter(s, n, t)
    BY DEF Next, Generate, Others, OpenDb, Look, Retransaction, CloseAndExit, Commit,
           SetChapters, SetReady, SyncStoriesUpdated, Autocommit
  <2> QED BY <2>1, <2>2, <2>3, <2>4, <2>5
<1> QED BY <1>1, Invariance, PTL DEF Spec, ActualMonotone

-----------------------------------------------------------------------------
LEMMA NextSeenCovered ==
  ASSUME "make-log" \notin Programs, IInv, SeenCovered, [Next]_vars
  PROVE  SeenCovered'
<1>1. CASE UNCHANGED <<stories, chapters, saved>>
  BY <1>1 DEF SeenCovered
<1>2. CASE Retransaction \/ CloseAndExit
  BY <1>2 DEF SeenCovered, Retransaction, CloseAndExit, Commit, tables
<1>3. CASE Abandon
  BY <1>3 DEF SeenCovered, Abandon
<1>4. ASSUME NEW s \in Story, NEW t \in Stamp, GetStory(s, t)
      PROVE  SeenCovered'
  <2>1. CASE ~ StampFree(stories, t)
    BY <1>3, <1>4, <2>1 DEF GetStory
  <2>2. CASE StampFree(stories, t)
    <3>1. /\ UNCHANGED <<chapters, saved>>
          /\ stories' = Put(stories, s, NewStory(t))
          /\ s \notin DOMAIN stories
      BY <1>4, <2>2 DEF GetStory, Statement
    <3>2. /\ DOMAIN stories' = DOMAIN stories \cup {s}
          /\ \A x \in DOMAIN stories : stories'[x] = stories[x]
      BY <3>1 DEF Put
    <3> QED BY <3>1, <3>2 DEF SeenCovered, SeenCoveredIn
  <2> QED BY <2>1, <2>2
<1>5. ASSUME NEW s \in Story, NEW n \in Chapter, NEW t \in Stamp,
             SawChapter(s, n, t)
      PROVE  SeenCovered'
  <2>1. t \in Int
    BY StampAssumption
  <2>2. SeenCoveredIn(stories', chapters')
    BY <1>5, <2>1, SawChapterSeenCovered DEF SawChapter, IInv, SeenCovered
  <2> QED BY <1>5, <2>2 DEF SawChapter, Statement, SeenCovered
<1>6. ASSUME NEW s \in Story, NEW n \in Chapter, SawDeleted(s, n)
      PROVE  SeenCovered'
  BY <1>6 DEF SawDeleted, Statement, Drop, Restrict, SeenCovered, SeenCoveredIn
<1>7. ASSUME NEW s \in Story, NEW c \in Count,
             SetChapters(s, c) \/ SetReady(s, c)
      PROVE  SeenCovered'
  <2>1. /\ UNCHANGED chapters
        /\ \/ stories' = [stories EXCEPT ![s].chapters = c]
           \/ stories' = [stories EXCEPT ![s].ready = c]
    BY <1>7 DEF SetChapters, SetReady, Autocommit
  <2>2. /\ DOMAIN stories' = DOMAIN stories
        /\ \A x \in DOMAIN stories : stories'[x].updated = stories[x].updated
    BY <2>1 DEF IInv, Consistent, IsStoryTable, StoryRow
  <2>3. SeenCoveredIn(stories', chapters')
    BY <2>1, <2>2 DEF SeenCovered, SeenCoveredIn
  <2>4. saved' = saved \/ saved' = tables'
    BY <1>7 DEF SetChapters, Statement, SetReady, Autocommit
  <2> QED BY <2>3, <2>4 DEF SeenCovered, tables
<1>8. [Next]_vars =>
        \/ UNCHANGED <<stories, chapters, saved>>
        \/ Retransaction \/ CloseAndExit \/ Abandon
        \/ \E s \in Story, t \in Stamp : GetStory(s, t)
        \/ \E s \in Story, n \in Chapter, t \in Stamp : SawChapter(s, n, t)
        \/ \E s \in Story, n \in Chapter : SawDeleted(s, n)
        \/ \E s \in Story, c \in Count : SetChapters(s, c) \/ SetReady(s, c)
  BY DEF Next, Generate, Others, OpenDb, Look, Statement, SyncStoriesUpdated, vars
<1> QED BY <1>1, <1>2, <1>3, <1>4, <1>5, <1>6, <1>7, <1>8

(* As long as make-log is never run, a chapter marked seen is in a story   *)
(* that for_stories visits: only storydb_sync_stories_updated breaks that. *)
THEOREM StoryCoversSeen ==
  ASSUME "make-log" \notin Programs
  PROVE  Spec => []SeenCovered
<1>1. Init => SeenCovered
  BY DEF Init, SeenCovered, SeenCoveredIn, EmptyTable, tables
<1>2. IInv /\ SeenCovered /\ [Next]_vars => SeenCovered'
  BY NextSeenCovered
<1> QED BY <1>1, <1>2, Invariance, PTL DEF Spec
-----------------------------------------------------------------------------
KeepsReady(old, new) ==
  \A s \in DOMAIN old : s \in DOMAIN new /\ new[s].ready = old[s].ready

(* What generate has pending never touches a committed `ready'.            *)
ReadySaved == KeepsReady(saved.stories, stories)

(* The steps of generate in its transaction, and make-log's.               *)
LEMMA StoriesKeepReady ==
  ASSUME IInv, [Next]_vars,
         ~ (\E s \in Story, c \in Count : SetReady(s, c)), ~ Abandon
  PROVE  KeepsReady(stories, stories')
<1> USE DEF KeepsReady
<1>0. \A s \in DOMAIN stories : stories[s] \in StoryRow
  BY DEF IInv, Consistent, IsStoryTable
<1>1. CASE UNCHANGED stories
  BY <1>1
<1>2. ASSUME NEW s \in Story, NEW t \in Stamp, GetStory(s, t)
      PROVE  KeepsReady(stories, stories')
  <2>1. stories' = Put(stories, s, NewStory(t)) /\ s \notin DOMAIN stories
    BY <1>2 DEF GetStory
  <2> QED BY <2>1 DEF Put
<1>3. ASSUME NEW s \in Story, NEW n \in Chapter, NEW t \in Stamp,
             SawChapter(s, n, t)
      PROVE  KeepsReady(stories, stories')
  <2>1. stories' = StoriesAfterSaw(stories, s, t)
    BY <1>3 DEF SawChapter
  <2> QED BY <1>0, <2>1 DEF StoriesAfterSaw, StoryRow
<1>4. ASSUME NEW s \in Story, NEW c \in Count, SetChapters(s, c)
      PROVE  KeepsReady(stories, stories')
  BY <1>0, <1>4 DEF SetChapters, StoryRow
<1>5. CASE SyncStoriesUpdated
  <2>1. stories' = StoriesAfterSync(stories, chapters)
    BY <1>5 DEF SyncStoriesUpdated
  <2> QED BY <1>0, <2>1 DEF StoriesAfterSync, StoryRow
<1>6. [Next]_vars =>
        \/ UNCHANGED stories \/ Abandon \/ SyncStoriesUpdated
        \/ \E s \in Story, t \in Stamp : GetStory(s, t)
        \/ \E s \in Story, n \in Chapter, t \in Stamp : SawChapter(s, n, t)
        \/ \E s \in Story, c \in Count : SetChapters(s, c) \/ SetReady(s, c)
  BY DEF Next, Generate, Others, OpenDb, Look, Retransaction, CloseAndExit, Commit,
         SawDeleted, vars
<1> QED BY <1>1, <1>2, <1>3, <1>4, <1>5, <1>6

(* The committed tables change by a commit of what generate sees, or by    *)
(* ready or make-log.                                                      *)
LEMMA SavedSteps ==
  ASSUME [Next]_vars
  PROVE  \/ saved' = saved
         \/ saved' = tables /\ UNCHANGED stories
         \/ saved' = tables' /\ SyncStoriesUpdated
         \/ saved' = tables' /\ \E s \in Story, c \in Count : SetReady(s, c)
BY DEF Next, Generate, Others, OpenDb, Look, Retransaction, CloseAndExit, Commit, Abandon,
       GetStory, SawChapter, SawDeleted, SetChapters, SetReady, SyncStoriesUpdated,
       Statement, Autocommit, vars

LEMMA SetReadyOthers ==
  ASSUME IInv, NEW s \in Story, NEW c \in Count, SetReady(s, c)
  PROVE  /\ DOMAIN stories' = DOMAIN stories /\ s \in DOMAIN stories
         /\ \A x \in DOMAIN stories \ {s} : stories'[x] = stories[x]
BY DEF SetReady

LEMMA NextReadySaved ==
  ASSUME IInv, ReadySaved, [Next]_vars
  PROVE  ReadySaved'
<1>1. CASE Abandon
  BY <1>1 DEF Abandon, ReadySaved, KeepsReady
<1>2. CASE saved' = tables'
  BY <1>2 DEF tables, ReadySaved, KeepsReady
<1>3. CASE saved' = tables /\ UNCHANGED stories
  BY <1>3 DEF tables, ReadySaved, KeepsReady
<1>4. CASE saved' = saved /\ ~ Abandon /\ saved' # tables'
  <2>1. ~ (\E s \in Story, c \in Count : SetReady(s, c))
    BY <1>4 DEF SetReady, Autocommit
  <2>2. KeepsReady(stories, stories')
    BY <1>4, <2>1, StoriesKeepReady
  <2> QED BY <1>4, <2>2 DEF ReadySaved, KeepsReady
<1> QED BY <1>1, <1>2, <1>3, <1>4, SavedSteps

(* Nothing but the `ready' program changes a committed `ready'.            *)
THEOREM ReadyIsKept == Spec => ReadyNeverLost
<1>1. Init => ReadySaved
  BY DEF Init, ReadySaved, KeepsReady, tables
<1>2. IInv /\ ReadySaved /\ [Next]_vars => ReadySaved'
  BY NextReadySaved
<1> DEFINE Kept == \A s \in DOMAIN saved.stories \cap DOMAIN saved'.stories :
                     \/ saved'.stories[s].ready = saved.stories[s].ready
                     \/ \E c \in Count : SetReady(s, c)
<1>3. IInv /\ ReadySaved /\ [Next]_vars => [Kept]_vars
  <2> SUFFICES ASSUME IInv, ReadySaved, [Next]_vars PROVE Kept
    OBVIOUS
  <2>1. CASE saved' = saved
    BY <2>1
  <2>2. CASE saved' = tables /\ UNCHANGED stories
    BY <2>2 DEF tables, ReadySaved, KeepsReady
  <2>3. CASE saved' = tables' /\ SyncStoriesUpdated
    <3>1. stories' = StoriesAfterSync(stories, chapters)
      BY <2>3 DEF SyncStoriesUpdated
    <3>2. \A s \in DOMAIN stories : stories[s] \in StoryRow
      BY DEF IInv, Consistent, IsStoryTable
    <3>3. KeepsReady(stories, stories')
      BY <3>1, <3>2 DEF KeepsReady, StoriesAfterSync, StoryRow
    <3> QED BY <2>3, <3>3 DEF tables, ReadySaved, KeepsReady
  <2>4. ASSUME saved' = tables', NEW s \in Story, NEW c \in Count, SetReady(s, c)
        PROVE  Kept
    <3>1. \A x \in DOMAIN saved.stories \ {s} :
             saved'.stories[x].ready = saved.stories[x].ready
      BY <2>4, SetReadyOthers DEF tables, ReadySaved, KeepsReady
    <3> QED BY <2>4, <3>1
  <2> QED BY <2>1, <2>2, <2>3, <2>4, SavedSteps
<1> QED BY <1>1, <1>2, <1>3, Invariance, PTL DEF Spec, ReadyNeverLost
=============================================================================
