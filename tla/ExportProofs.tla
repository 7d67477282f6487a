------------------------------ MODULE ExportProofs ------------------------------
(***************************************************************************)
(* The export of a story, for any chapters, categories, pushes, marks,     *)
(* crashes and runs: the story keeps its place under the cursor of         *)
(* for_stories, the cursor of for_chapters misses nothing it should have   *)
(* come to, and no chapter later than `ready' is written for readers.      *)
(***************************************************************************)
EXTENDS Export, StoryTablesProofs

(* Both pairs of tables are consistent, what is pending and what a killed  *)
(* run falls back to.  Nothing is pending between two runs.                *)
TablesInv ==
  /\ Consistent(stories, chapters) /\ DOMAIN stories \subseteq {ThisStory}
  /\ Consistent(saved.stories, saved.chapters) /\ DOMAIN saved.stories \subseteq {ThisStory}
  /\ saved = [stories |-> saved.stories, chapters |-> saved.chapters,
              lastSeen |-> saved.lastSeen]
  /\ pc = "off" => saved = Snapshot

(* What for_story found stays true while for_chapters is under way: the    *)
(* story's time and mark, and the rows there were.  Something has been     *)
(* looked at only if there is a chapter that may be.                       *)
VisitInv ==
  /\ pc # "off" => g.category \in Category
  /\ pc \in {"scanning", "scanned"} => ~g.any
  /\ Visiting =>
       /\ ThisStory \in DOMAIN stories /\ stories[ThisStory].updated = g.stamp
       /\ g.rows \subseteq ChaptersOf(chapters, ThisStory)
       /\ ~AllReady(g.category) =>
            stories[ThisStory].ready = 0 \/ g.numchaps <= stories[ThisStory].ready
       /\ AllReady(g.category) \/ g.any => g.numchaps \in Nat

(* What for_chapter is called with is the row it is called for.            *)
PlaceInv ==
  pc = "chapter" =>
    /\ find.chapter \in ChaptersOf(chapters, ThisStory)
    /\ find.stamp = chapters[<<ThisStory, find.chapter>>].updated
    /\ AllReady(g.category) \/ find.chapter <= g.numchaps

Passed(n) == n < find.chapter \/ (pc = "chapters" /\ n = find.chapter)

(* Behind the cursor, every chapter that is due by its bound has a page as *)
(* new as its row.  A restart puts nothing behind it.                      *)
CursorInv ==
  pc \in {"chapters", "chapter"} =>
    \A n \in DueChapters(chapters, ThisStory, find.bound, g.numchaps,
                         AllReady(g.category)) \cap g.rows :
      Passed(n) => Fresh(n)

IInv == TypeOK /\ TablesInv /\ VisitInv /\ PlaceInv /\ CursorInv /\ CursorComplete

-----------------------------------------------------------------------------
(* Lemmas about the operators. *)

LEMMA ChapterNumbers ==
  /\ Cardinality(Chapter) \in Nat /\ IsFiniteSet(Chapter)
  /\ Chapter = 1 .. Cardinality(Chapter)
BY ExportAssumption, TableAssumption, FS_CardinalityType

LEMMA RowCount ==
  ASSUME NEW ch, NEW s
  PROVE  CountChapters(ch, s) \in 0 .. Cardinality(Chapter)
<1>1. ChaptersOf(ch, s) \subseteq Chapter
  BY DEF ChaptersOf
<1>2. /\ IsFiniteSet(ChaptersOf(ch, s))
      /\ Cardinality(ChaptersOf(ch, s)) <= Cardinality(Chapter)
  BY <1>1, ChapterNumbers, FS_Subset
<1>3. Cardinality(ChaptersOf(ch, s)) \in Nat
  BY <1>2, FS_CardinalityType
<1> QED BY <1>2, <1>3, ChapterNumbers DEF CountChapters

LEMMA ReadyType ==
  ASSUME NEW row \in StoryRow, NEW allReady \in BOOLEAN
  PROVE  ReadyOf(row, allReady) \in Nat \cup {-1}
<1>1. row.chapters \in Nat /\ row.ready \in Nat
  BY DEF StoryRow
<1> QED BY <1>1 DEF ReadyOf

LEMMA VisitRecord ==
  ASSUME NEW category \in Category \cup {""}, NEW after \in Int,
         NEW ready \in Nat \cup {-1}, NEW numchaps \in Nat \cup {-1}, NEW count \in Nat,
         NEW stamp \in Int, NEW changed \in BOOLEAN, NEW any \in BOOLEAN,
         NEW title \in BOOLEAN, NEW todo \in SUBSET Chapter,
         NEW rows \in SUBSET Chapter, NEW due \in SUBSET Chapter
  PROVE  [category |-> category, after |-> after, ready |-> ready, numchaps |-> numchaps,
          count |-> count, stamp |-> stamp, changed |-> changed, any |-> any,
          title |-> title, todo |-> todo, rows |-> rows, due |-> due] \in Visits
BY DEF Visits

LEMMA NoVisitType ==
  /\ NoVisit \in Visits
  /\ NoFind \in [bound : Int, chapter : {0} \cup Chapter, stamp : Int]
<1>1. "" \in Category \cup {""} /\ 0 \in Nat \cup {-1} /\ 0 \in Nat /\ 0 \in Int
  OBVIOUS
<1>2. FALSE \in BOOLEAN /\ {} \in SUBSET Chapter
  OBVIOUS
<1>3. NoVisit \in Visits
  BY <1>1, <1>2, VisitRecord, Zenon DEF NoVisit
<1> QED BY <1>3 DEF NoFind

LEMMA AllReadyType == \A c : AllReady(c) \in BOOLEAN
BY DEF AllReady

LEMMA RowTypes ==
  ASSUME NEW st, NEW ch, Consistent(st, ch)
  PROVE  /\ \A s \in DOMAIN st : /\ st[s] \in StoryRow /\ st[s].updated \in Int
                                 /\ st[s].chapters \in Nat /\ st[s].ready \in Nat
         /\ \A k \in DOMAIN ch : ch[k].updated \in Int /\ ch[k].updated <= st[k[1]].updated
BY DEF Consistent, IsStoryTable, IsChapterTable, StoryRow, ChapterRow, UpdatedCoveredIn

(* A call of storydb_saw_chapter under the cursor of for_stories: with a   *)
(* time the story has reached it leaves `stories' alone and drops no row,  *)
(* and if it does not ask for a restart the rows there were stay as they   *)
(* are.                                                                    *)
LEMMA SawInVisit ==
  ASSUME NEW st, NEW ch, Consistent(st, ch), ThisStory \in DOMAIN st,
         NEW n \in Chapter, NEW t \in Int, t <= st[ThisStory].updated
  PROVE  LET k == <<ThisStory, n>>
             new == ChaptersAfterSaw(ch, k, t)
         IN  /\ StoriesAfterSaw(st, ThisStory, t) = st
             /\ Consistent(st, new)
             /\ DOMAIN new = DOMAIN ch \cup {k}
             /\ \A x \in DOMAIN ch : x # k \/ ~SawChanges(ch, k, t) => new[x] = ch[x]
<1> DEFINE k == <<ThisStory, n>>
           new == ChaptersAfterSaw(ch, k, t)
<1>1. StoriesAfterSaw(st, ThisStory, t) = st
  BY SawOlderLeavesStories DEF Consistent
<1>2. Consistent(StoriesAfterSaw(st, ThisStory, t), new)
  BY SawChapterConsistent
<1>3. k \in Key
  BY ExportAssumption DEF Key
<1>4. /\ DOMAIN new = DOMAIN ch \cup {k}
      /\ \A x \in DOMAIN ch : x # k => new[x] = ch[x]
      /\ k \in DOMAIN ch => new[k] = SeenAgain(ch[k], t)
  BY <1>3, ChaptersAfterSawTable DEF Consistent
<1>5. k \in DOMAIN ch /\ ~SawChanges(ch, k, t) => new[k] = ch[k]
  BY <1>4 DEF SawChanges, SeenAgain
<1> QED BY <1>1, <1>2, <1>4, <1>5

LEMMA ChaptersOfGrow ==
  ASSUME NEW ch, NEW new, DOMAIN ch \subseteq DOMAIN new, NEW s
  PROVE  ChaptersOf(ch, s) \subseteq ChaptersOf(new, s)
BY DEF ChaptersOf

-----------------------------------------------------------------------------
(* The initial states. *)

LEMMA InitTables ==
  ASSUME NEW n \in Imported, NEW st, NEW ch,
         st = IF n = 0 THEN EmptyTable
              ELSE Put(EmptyTable, ThisStory,
                       [created |-> 1, updated |-> n, chapters |-> n, ready |-> 0]),
         ch = [k \in {ThisStory} \X (1 .. n) |->
                 [created |-> k[2], updated |-> k[2], seen |-> k[2]]]
  PROVE  Consistent(st, ch) /\ DOMAIN st \subseteq {ThisStory}
<1>1. n \in Nat /\ 1 .. n \subseteq Chapter /\ n <= Cardinality(Chapter)
  BY ExportAssumption, ChapterNumbers
<1>2. DOMAIN ch = {ThisStory} \X (1 .. n) /\ DOMAIN ch \subseteq Key
  BY <1>1, ExportAssumption DEF Key
<1>3. \A k \in DOMAIN ch : /\ k[1] = ThisStory /\ k[2] \in Int /\ 1 <= k[2] /\ k[2] <= n
                           /\ k = <<k[1], k[2]>>
                           /\ ch[k] = [created |-> k[2], updated |-> k[2], seen |-> k[2]]
  BY <1>1, <1>2
<1>4. IsChapterTable(ch)
  <2>1. \A k \in DOMAIN ch : ch[k] \in ChapterRow
    BY <1>3 DEF ChapterRow
  <2> QED BY <1>2, <2>1 DEF IsChapterTable
<1>5. StampsDistinctIn(ch)
  BY <1>3 DEF StampsDistinctIn
<1>6. CASE n = 0
  <2>1. DOMAIN ch = {}
    BY <1>1, <1>3, <1>6
  <2> QED BY <1>4, <1>5, <1>6, <2>1
          DEF Consistent, EmptyTable, IsStoryTable, StampsDistinctIn, UpdatedCoveredIn
<1>7. CASE n # 0
  <2> DEFINE row == [created |-> 1, updated |-> n, chapters |-> n, ready |-> 0]
  <2>1. row \in StoryRow /\ row.updated = n
    BY <1>1 DEF StoryRow
  <2>2. DOMAIN st = {ThisStory} /\ st[ThisStory] = row /\ st = [s \in {ThisStory} |-> row]
    BY <1>7 DEF Put, EmptyTable
  <2> HIDE DEF row
  <2>3. IsStoryTable(st) /\ StampsDistinctIn(st)
    BY <2>1, <2>2, ExportAssumption DEF IsStoryTable, StampsDistinctIn
  <2>4. UpdatedCoveredIn(st, ch)
    <3>1. \A k \in DOMAIN ch : ch[k].updated = k[2]
      BY <1>3
    <3> QED BY <1>3, <2>1, <2>2, <3>1 DEF UpdatedCoveredIn
  <2> QED BY <1>4, <1>5, <2>2, <2>3, <2>4 DEF Consistent
<1> QED BY <1>6, <1>7

LEMMA InitIInv == Init => IInv
<1> SUFFICES ASSUME Init PROVE IInv
  OBVIOUS
<1> DEFINE row(n) == [created |-> 1, updated |-> n, chapters |-> n, ready |-> 0]
           last(n, c) == IF n = 0 THEN 0 ELSE ReadyOf(row(n), AllReady(c))
<1>1. PICK n \in Imported :
        /\ files \in n .. n + 1 /\ files <= Cardinality(Chapter)
        /\ stories = IF n = 0 THEN EmptyTable ELSE Put(EmptyTable, ThisStory, row(n))
        /\ chapters = [k \in {ThisStory} \X (1 .. n) |->
                         [created |-> k[2], updated |-> k[2], seen |-> k[2]]]
        /\ page = [x \in Category \X Chapter |->
                     IF x[2] <= last(n, x[1])
                     THEN [there |-> TRUE, mtime |-> x[2], next |-> x[2] < last(n, x[1])]
                     ELSE NoPage]
        /\ contents = [c \in Category |->
                         IF n = 0 THEN NoContents
                         ELSE [there |-> TRUE, mtime |-> n, count |-> last(n, c)]]
  BY DEF Init
<1>2. /\ head = [time |-> FirstTime, parent |-> 0, changed |-> {}]
      /\ pushes = 0 /\ crashes = 0 /\ lastSeen = 0 /\ saved = Snapshot
      /\ pc = "off" /\ g = NoVisit /\ find = NoFind /\ needRestart = FALSE
  BY DEF Init
<1>3. n \in Nat /\ Cardinality(Chapter) \in Nat
  BY ExportAssumption, ChapterNumbers
<1>4. Consistent(stories, chapters) /\ DOMAIN stories \subseteq {ThisStory}
  BY <1>1, InitTables
<1>5. TablesInv
  BY <1>2, <1>4 DEF TablesInv, Snapshot
<1>6. ASSUME NEW c PROVE last(n, c) \in Nat
  <2>1. CASE n = 0
    BY <2>1
  <2>2. CASE n # 0
    <3>1. row(n).chapters = n /\ row(n).ready = 0
      OBVIOUS
    <3> HIDE DEF row
    <3> QED BY <1>3, <2>2, <3>1 DEF ReadyOf
  <2> QED BY <2>1, <2>2
<1>7. page \in [Category \X Chapter -> [there : BOOLEAN, mtime : Int, next : BOOLEAN]]
  <2>1. ASSUME NEW x \in Category \X Chapter
        PROVE  page[x] \in [there : BOOLEAN, mtime : Int, next : BOOLEAN]
    <3>1. x[2] \in Int /\ last(n, x[1]) \in Int
      BY <1>6, ChapterNumbers
    <3>2. (x[2] < last(n, x[1])) \in BOOLEAN
      OBVIOUS
    <3> HIDE DEF last
    <3> QED BY <1>1, <3>1, <3>2 DEF NoPage
  <2>2. page = [x \in Category \X Chapter |-> page[x]]
    BY <1>1
  <2> QED BY <2>1, <2>2
<1>8. contents \in [Category -> [there : BOOLEAN, mtime : Int, count : Nat]]
  <2>1. ASSUME NEW c \in Category
        PROVE  contents[c] \in [there : BOOLEAN, mtime : Int, count : Nat]
    <3>1. last(n, c) \in Nat
      BY <1>6
    <3> HIDE DEF last
    <3> QED BY <1>1, <1>3, <3>1 DEF NoContents
  <2>2. contents = [c \in Category |-> contents[c]]
    BY <1>1
  <2> QED BY <2>1, <2>2
<1>9. files \in 0 .. Cardinality(Chapter) /\ head.time \in Nat
  BY <1>1, <1>2, <1>3, ExportAssumption DEF FirstTime
<1>10. head \in [time : Nat, parent : Nat, changed : SUBSET Chapter]
  BY <1>2, <1>9
<1>11. g \in Visits
  BY <1>2, NoVisitType
<1>12. find \in [bound : Int, chapter : {0} \cup Chapter, stamp : Int]
  BY <1>2, NoVisitType
<1>13. needRestart \in BOOLEAN
  BY <1>2
<1>14. /\ IsStoryTable(stories) /\ IsChapterTable(chapters) /\ lastSeen \in Nat
       /\ IsStoryTable(saved.stories) /\ IsChapterTable(saved.chapters)
       /\ saved.lastSeen \in Nat
  BY <1>2, <1>4 DEF Consistent, Snapshot
<1>15. pushes \in 0 .. MaxPushes /\ crashes \in 0 .. MaxCrashes
  BY <1>2, ExportAssumption
<1>16. TypeOK
  BY <1>2, <1>7, <1>8, <1>9, <1>10, <1>11, <1>12, <1>13, <1>14, <1>15 DEF TypeOK
<1> QED BY <1>2, <1>5, <1>16
        DEF IInv, VisitInv, PlaceInv, CursorInv, CursorComplete, Visiting, NoVisit

-----------------------------------------------------------------------------
(* The steps outside a visit: all there is to say of their next state is   *)
(* about the tables, the types and what is chosen.                         *)

LEMMA NotVisiting ==
  ASSUME pc \notin {"chapters", "chapter", "contents"},
         pc # "off" => g.category \in Category,
         pc \in {"scanning", "scanned"} => ~g.any
  PROVE  VisitInv /\ PlaceInv /\ CursorInv /\ CursorComplete
BY DEF VisitInv, PlaceInv, CursorInv, CursorComplete, Visiting

LEMMA PushIInv == ASSUME IInv, Push PROVE IInv'
<1>1. PICK gap \in Gaps, modified \in SUBSET (1 .. files) :
        /\ files' \in {files, files + 1} /\ files' <= Cardinality(Chapter)
        /\ head' = [time |-> head.time + gap, parent |-> head.time,
                    changed |-> modified \cup (files + 1) .. files']
  BY DEF Push
<1>2. /\ pc = "off" /\ pushes < MaxPushes /\ pushes' = pushes + 1
      /\ UNCHANGED <<crashes, tables, saved, site, pc, g, find, needRestart>>
  BY DEF Push
<1>3. files \in 0 .. Cardinality(Chapter) /\ head.time \in Nat /\ gap \in Nat
      /\ pushes \in 0 .. MaxPushes
  BY ExportAssumption DEF IInv, TypeOK
<1>4. files' \in 0 .. Cardinality(Chapter) /\ pushes' \in 0 .. MaxPushes
  BY <1>1, <1>2, <1>3, ChapterNumbers, ExportAssumption
<1>5. modified \subseteq Chapter /\ (files + 1) .. files' \subseteq Chapter
  BY <1>1, <1>3, <1>4, ChapterNumbers
<1>6. head' \in [time : Nat, parent : Nat, changed : SUBSET Chapter]
  BY <1>1, <1>3, <1>5
<1>7. TypeOK'
  BY <1>2, <1>4, <1>6 DEF IInv, TypeOK, tables, site
<1>8. TablesInv'
  BY <1>2 DEF IInv, TablesInv, Snapshot, tables
<1> QED BY <1>2, <1>7, <1>8
        DEF IInv, VisitInv, PlaceInv, CursorInv, CursorComplete, Visiting

LEMMA SetReadyIInv == ASSUME IInv, SetReady PROVE IInv'
<1>1. PICK c \in Marks : stories' = [stories EXCEPT ![ThisStory].ready = c]
  BY DEF SetReady
<1>2. /\ pc = "off" /\ ThisStory \in DOMAIN stories
      /\ saved' = [saved EXCEPT !.stories = stories']
      /\ UNCHANGED <<tree, crashes, chapters, lastSeen, site, pc, g, find, needRestart>>
  BY DEF SetReady
<1>3. /\ Consistent(stories, chapters) /\ DOMAIN stories = {ThisStory}
      /\ Consistent(saved.stories, saved.chapters)
      /\ saved = [stories |-> saved.stories, chapters |-> saved.chapters,
                  lastSeen |-> saved.lastSeen]
  BY <1>2 DEF IInv, TablesInv
<1>4. c \in Nat /\ stories[ThisStory] \in StoryRow
  BY <1>3, RowTypes, ExportAssumption
<1>5. /\ DOMAIN stories' = DOMAIN stories
      /\ stories' = [s \in {ThisStory} |-> [stories[ThisStory] EXCEPT !.ready = c]]
  BY <1>1, <1>3 DEF Consistent, IsStoryTable
<1>6. /\ stories'[ThisStory] = [stories[ThisStory] EXCEPT !.ready = c]
      /\ stories'[ThisStory] \in StoryRow
      /\ stories'[ThisStory].created = stories[ThisStory].created
      /\ stories'[ThisStory].updated = stories[ThisStory].updated
  BY <1>4, <1>5 DEF StoryRow
<1>7. IsStoryTable(stories')
  BY <1>3, <1>5, <1>6, ExportAssumption DEF IsStoryTable
<1>8. Consistent(stories', chapters)
  BY <1>3, <1>5, <1>6, <1>7, SameStampsConsistent
<1>9. saved.stories = stories /\ saved.chapters = chapters /\ saved.lastSeen = lastSeen
  BY <1>2 DEF IInv, TablesInv, Snapshot
<1>10. /\ saved' = [stories |-> stories', chapters |-> chapters, lastSeen |-> lastSeen]
       /\ saved'.stories = stories' /\ saved'.chapters = chapters /\ saved'.lastSeen = lastSeen
  BY <1>2, <1>3, <1>9
<1>11. TablesInv'
  BY <1>2, <1>3, <1>5, <1>8, <1>10 DEF TablesInv, Snapshot
<1>12. TypeOK'
  BY <1>2, <1>8, <1>10 DEF IInv, TypeOK, Consistent, tree, site
<1> QED BY <1>2, <1>11, <1>12
        DEF IInv, VisitInv, PlaceInv, CursorInv, CursorComplete, Visiting

(* db_check's abort: what is pending is lost, what is written stays.       *)
LEMMA RollbackIInv ==
  ASSUME IInv, Rollback, crashes' \in 0 .. MaxCrashes
  PROVE  IInv'
<1>1. /\ pc' = "off" /\ g' = NoVisit /\ find' = NoFind /\ needRestart' = FALSE
      /\ stories' = saved.stories /\ chapters' = saved.chapters
      /\ lastSeen' = saved.lastSeen /\ UNCHANGED <<tree, saved, site>>
  BY DEF Rollback, Exit
<1>2. TablesInv'
  BY <1>1 DEF IInv, TablesInv, Snapshot
<1>3. NoVisit \in Visits /\ NoFind \in [bound : Int, chapter : {0} \cup Chapter, stamp : Int]
  BY NoVisitType
<1>4. needRestart' \in BOOLEAN
  BY <1>1
<1>5. TypeOK'
  BY <1>1, <1>3, <1>4 DEF IInv, TypeOK, tree, site
<1> QED BY <1>1, <1>2, <1>5
        DEF IInv, VisitInv, PlaceInv, CursorInv, CursorComplete, Visiting

LEMMA AbandonIInv == ASSUME IInv, Abandon PROVE IInv'
<1>1. crashes \in 0 .. MaxCrashes /\ crashes < MaxCrashes /\ crashes' = crashes + 1 /\ Rollback
  BY DEF IInv, TypeOK, Abandon
<1>2. crashes' \in 0 .. MaxCrashes
  BY <1>1, ExportAssumption
<1> QED BY <1>1, <1>2, RollbackIInv

LEMMA CategoryIsNewIInv == ASSUME IInv, CategoryIsNew PROVE IInv'
BY RollbackIInv DEF CategoryIsNew, IInv, TypeOK

LEMMA ScanIInv == ASSUME IInv, NEW category \in Category, Scan(category) PROVE IInv'
<1> DEFINE after == IF lastSeen # 0 THEN lastSeen - Slack ELSE 0
           todo == IF Visited(after) THEN head.changed ELSE {}
<1>1. /\ pc = "off" /\ pc' = "scanning"
      /\ g' = [NoVisit EXCEPT !.category = category, !.after = after, !.todo = todo]
      /\ lastSeen' = IF Visited(after) THEN head.time ELSE lastSeen
      /\ UNCHANGED <<tree, crashes, stories, chapters, saved, site, find, needRestart>>
  BY DEF Scan
<1>2. /\ lastSeen \in Nat /\ head.time \in Nat
      /\ head.changed \subseteq Chapter
  BY DEF IInv, TypeOK
<1>3. after \in Int /\ todo \in SUBSET Chapter
  BY <1>2, ExportAssumption
<1>4. g' \in Visits /\ g'.category = category /\ ~g'.any
  <2> HIDE DEF after, todo
  <2>1. NoVisit \in Visits
    BY NoVisitType
  <2>2. NoVisit.any = FALSE
    BY DEF NoVisit
  <2> QED BY <1>1, <1>3, <2>1, <2>2 DEF Visits
<1>5. lastSeen' \in Nat
  BY <1>1, <1>2
<1>6. TypeOK'
  BY <1>1, <1>4, <1>5 DEF IInv, TypeOK, tree, site
<1>7. TablesInv'
  BY <1>1 DEF IInv, TablesInv
<1> QED BY <1>1, <1>4, <1>6, <1>7
        DEF IInv, VisitInv, PlaceInv, CursorInv, CursorComplete, Visiting

LEMMA EndScanIInv == ASSUME IInv, EndScan PROVE IInv'
<1>1. /\ pc = "scanning" /\ pc' = "scanned" /\ saved' = Snapshot
      /\ UNCHANGED <<tree, crashes, tables, site, g, find, needRestart>>
  BY DEF EndScan
<1>2. TablesInv'
  BY <1>1 DEF IInv, TablesInv, Snapshot, tables
<1>3. TypeOK'
  BY <1>1 DEF IInv, TypeOK, Snapshot, tree, tables, site
<1> QED BY <1>1, <1>2, <1>3
        DEF IInv, VisitInv, PlaceInv, CursorInv, CursorComplete, Visiting

LEMMA NotDueIInv == ASSUME IInv, NotDue PROVE IInv'
<1>1. /\ pc = "scanned" /\ pc' = "exported"
      /\ UNCHANGED <<tree, crashes, tables, saved, site, g, find, needRestart>>
  BY DEF NotDue
<1>2. TablesInv' /\ TypeOK'
  BY <1>1 DEF IInv, TablesInv, TypeOK, Snapshot, tree, tables, site
<1> QED BY <1>1, <1>2
        DEF IInv, VisitInv, PlaceInv, CursorInv, CursorComplete, Visiting

LEMMA FinishIInv == ASSUME IInv, Finish PROVE IInv'
<1>1. /\ pc' = "off" /\ g' = NoVisit /\ find' = NoFind /\ needRestart' = FALSE
      /\ saved' = Snapshot /\ UNCHANGED <<tree, crashes, tables, site>>
  BY DEF Finish, Exit
<1>2. TablesInv'
  BY <1>1 DEF IInv, TablesInv, Snapshot, tables
<1>3. NoVisit \in Visits /\ NoFind \in [bound : Int, chapter : {0} \cup Chapter, stamp : Int]
  BY NoVisitType
<1>4. needRestart' \in BOOLEAN
  BY <1>1
<1>5. TypeOK'
  BY <1>1, <1>3, <1>4 DEF IInv, TypeOK, Snapshot, tree, tables, site
<1> QED BY <1>1, <1>2, <1>5
        DEF IInv, VisitInv, PlaceInv, CursorInv, CursorComplete, Visiting

(* on_chapter may insert the story first, then makes or updates a row.     *)
LEMMA ScanFileIInv == ASSUME IInv, NEW n \in Chapter, ScanFile(n) PROVE IInv'
<1> DEFINE k == <<ThisStory, n>>
           known == IF ThisStory \in DOMAIN stories THEN stories
                    ELSE Put(stories, ThisStory, NewStory(head.time))
<1>1. /\ pc = "scanning" /\ n \in g.todo /\ g' = [g EXCEPT !.todo = @ \ {n}]
      /\ saved' \in {saved, Snapshot}
      /\ stories' = StoriesAfterSaw(known, ThisStory, head.time)
      /\ chapters' = ChaptersAfterSaw(chapters, k, head.time)
      /\ needRestart' = (needRestart \/ SawChanges(chapters, k, head.time))
      /\ UNCHANGED <<tree, crashes, lastSeen, site, pc, find>>
  BY DEF ScanFile
<1>2. head.time \in Int
  BY DEF IInv, TypeOK
<1>3. Consistent(known, chapters) /\ DOMAIN known = {ThisStory}
  <2>1. CASE ThisStory \in DOMAIN stories
    BY <2>1 DEF IInv, TablesInv
  <2>2. CASE ThisStory \notin DOMAIN stories
    <3>1. DOMAIN stories = {}
      BY <2>2 DEF IInv, TablesInv
    <3>2. StampFree(stories, head.time)
      BY <3>1 DEF StampFree, UsedStamps
    <3>3. Consistent(known, chapters)
      BY <1>2, <2>2, <3>2, NewStoryConsistent, ExportAssumption DEF IInv, TablesInv
    <3> QED BY <2>2, <3>1, <3>3 DEF Put
  <2> QED BY <2>1, <2>2
<1>4. Consistent(stories', chapters') /\ DOMAIN stories' = {ThisStory}
  <2> HIDE DEF known
  <2>1. Consistent(StoriesAfterSaw(known, ThisStory, head.time),
                   ChaptersAfterSaw(chapters, k, head.time))
    BY <1>2, <1>3, SawChapterConsistent
  <2>2. DOMAIN StoriesAfterSaw(known, ThisStory, head.time) = {ThisStory}
    BY <1>3 DEF StoriesAfterSaw
  <2> QED BY <1>1, <2>1, <2>2
<1> HIDE DEF k, known
<1>5. TablesInv'
  <2>1. CASE saved' = saved
    BY <1>1, <1>4, <2>1 DEF IInv, TablesInv
  <2>2. CASE saved' = Snapshot
    BY <1>1, <1>4, <2>2 DEF IInv, TablesInv, Snapshot
  <2> QED BY <1>1, <2>1, <2>2
<1>6. needRestart' \in BOOLEAN
  BY <1>1 DEF IInv, TypeOK
<1>7. g' \in Visits /\ g'.category = g.category /\ g'.any = g.any
  BY <1>1 DEF IInv, TypeOK, Visits
<1>8. saved'.lastSeen \in Nat
  BY <1>1 DEF IInv, TypeOK, Snapshot
<1>9. TypeOK'
  BY <1>1, <1>4, <1>5, <1>6, <1>7, <1>8 DEF IInv, TypeOK, TablesInv, Consistent, tree, site
<1> QED BY <1>1, <1>5, <1>7, <1>9
        DEF IInv, VisitInv, PlaceInv, CursorInv, CursorComplete, Visiting

-----------------------------------------------------------------------------
(* The visit. *)

LEMMA ForStoryIInv == ASSUME IInv, ForStory PROVE IInv'
<1> DEFINE row == stories[ThisStory]
           ready == ReadyOf(row, AllReady(g.category))
           count == CountChapters(chapters, ThisStory)
           numchaps == IF ~AllReady(g.category) /\ ready # 0 THEN ready ELSE count
           marks == count # row.chapters /\ count > 1
           rows == ChaptersOf(chapters', ThisStory)
           due == DueChapters(chapters', ThisStory, g.after, numchaps, AllReady(g.category))
<1>1. /\ pc = "scanned" /\ ThisStory \in DueStories(stories, g.after)
      /\ IF marks THEN Saw(count - 1, row.updated) ELSE UNCHANGED <<stories, chapters>>
      /\ needRestart' = (needRestart \/ (marks /\ SawRestarts(count - 1, row.updated)))
      /\ g' = [g EXCEPT !.ready = ready, !.numchaps = numchaps, !.count = count,
                        !.changed = (count # row.chapters), !.stamp = row.updated,
                        !.rows = rows, !.due = due]
      /\ find' = [NoFind EXCEPT !.bound = g.after]
      /\ pc' = "chapters"
      /\ UNCHANGED <<tree, crashes, lastSeen, saved, site>>
  BY DEF ForStory
<1>2. Consistent(stories, chapters) /\ ThisStory \in DOMAIN stories
  BY <1>1 DEF IInv, TablesInv, DueStories
<1>3. /\ row \in StoryRow /\ row.updated \in Int /\ row.ready \in Nat
      /\ row.chapters \in Nat
  BY <1>2, RowTypes
<1>4. count \in 0 .. Cardinality(Chapter)
  BY RowCount
<1>5. stories' = stories /\ Consistent(stories, chapters')
  <2> HIDE DEF count
  <2>1. CASE marks
    <3>1. count - 1 \in Chapter
      BY <1>4, <2>1, ChapterNumbers
    <3>2. /\ chapters' = ChaptersAfterSaw(chapters, <<ThisStory, count - 1>>, row.updated)
          /\ stories' = StoriesAfterSaw(stories, ThisStory, row.updated)
      BY <1>1, <2>1 DEF Saw
    <3>3. row.updated <= stories[ThisStory].updated
      BY <1>3
    <3> QED BY <1>2, <1>3, <3>1, <3>2, <3>3, SawInVisit
  <2>2. CASE ~marks
    BY <1>1, <1>2, <2>2
  <2> QED BY <2>1, <2>2
<1>6. ready \in Nat \cup {-1}
  BY <1>3, ReadyType, AllReadyType
<1>7. numchaps \in Nat \cup {-1} /\ (AllReady(g.category) => numchaps \in Nat)
  BY <1>4, <1>6, ChapterNumbers
<1>8. rows \in SUBSET Chapter /\ due \in SUBSET Chapter
  BY DEF ChaptersOf, DueChapters
<1>9. ~AllReady(g.category) => row.ready = 0 \/ numchaps <= row.ready
  BY <1>3 DEF ReadyOf
<1>10. g \in Visits /\ g.after \in Int /\ g.category \in Category /\ ~g.any
  BY <1>1 DEF IInv, TypeOK, VisitInv, Visits
<1>11. (count # row.chapters) \in BOOLEAN
  OBVIOUS
<1>12. count \in Nat
  BY <1>4, ChapterNumbers
<1> HIDE DEF ready, count, numchaps, rows, due
<1>13. /\ g' \in Visits /\ g'.category = g.category /\ g'.numchaps = numchaps
       /\ g'.stamp = row.updated /\ g'.rows = rows /\ g'.any = g.any
  BY <1>1, <1>3, <1>6, <1>7, <1>8, <1>10, <1>11, <1>12 DEF Visits
<1>14. find' \in [bound : Int, chapter : {0} \cup Chapter, stamp : Int] /\ find'.chapter = 0
  BY <1>1, <1>10 DEF NoFind
<1>15. needRestart' \in BOOLEAN
  BY <1>1 DEF IInv, TypeOK
<1>16. TypeOK'
  BY <1>1, <1>5, <1>13, <1>14, <1>15 DEF IInv, TypeOK, Consistent, tree, site
<1>17. TablesInv'
  BY <1>1, <1>5 DEF IInv, TablesInv
<1>18. VisitInv'
  BY <1>1, <1>2, <1>5, <1>7, <1>9, <1>10, <1>13 DEF VisitInv, Visiting, rows
<1>19. CursorInv'
  <2>1. \A n \in Chapter : ~Passed(n)'
    <3>1. \A n \in Chapter : n > 0
      BY ChapterNumbers
    <3>2. find'.chapter = 0
      BY <1>14
    <3> QED BY <3>1, <3>2, ChapterNumbers DEF Passed
  <2> QED BY <2>1 DEF CursorInv, DueChapters, ChaptersOf
<1> QED BY <1>1, <1>16, <1>17, <1>18, <1>19 DEF IInv, PlaceInv, CursorComplete

(* The cursor moves on to the next due chapter, or has come to the end.    *)
LEMMA StepIInv == ASSUME IInv, Step PROVE IInv'
<1> DEFINE Due == DueChapters(chapters, ThisStory, find.bound, g.numchaps, AllReady(g.category))
<1>1. /\ pc = "chapters" /\ pc' # "off"
      /\ UNCHANGED <<tree, crashes, tables, saved, site, g, needRestart>>
  BY DEF Step
<1>2. /\ \A n \in Due : n \in Chapter /\ n \in Int /\ n \in ChaptersOf(chapters, ThisStory)
      /\ \A n \in Due : AllReady(g.category) \/ n <= g.numchaps
      /\ find.chapter \in Int
  BY ChapterNumbers DEF DueChapters, ChaptersOf, IInv, TypeOK
<1>3. Ahead = {n \in Due : n > find.chapter}
  BY DEF Ahead
<1>4. TablesInv'
  BY <1>1 DEF IInv, TablesInv, tables
<1>5. CASE Ahead = {} /\ pc' = "contents" /\ UNCHANGED find
  <2>1. TypeOK'
    BY <1>1, <1>5 DEF IInv, TypeOK, tree, tables, site
  <2>2. VisitInv'
    BY <1>1, <1>5 DEF IInv, VisitInv, Visiting, tables
  <2>3. \A n \in Due : Passed(n)
    BY <1>1, <1>2, <1>3, <1>5 DEF Passed
  <2>4. \A n \in Due \cap g.rows : Fresh(n)
    BY <1>1, <2>3 DEF IInv, CursorInv
  <2>5. \A n \in Due \cap g.rows : Fresh(n)'
    BY <1>1, <2>4 DEF Fresh, tables, site
  <2>6. CursorComplete'
    BY <1>1, <1>5, <2>5 DEF CursorComplete, tables
  <2> QED BY <1>4, <1>5, <2>1, <2>2, <2>6 DEF IInv, PlaceInv, CursorInv
<1>6. CASE \E n \in Ahead :
            /\ \A m \in Ahead : n <= m
            /\ find' = [find EXCEPT !.chapter = n,
                                    !.stamp = chapters[<<ThisStory, n>>].updated]
            /\ pc' = "chapter"
  <2> PICK n \in Ahead :
            /\ \A m \in Ahead : n <= m
            /\ find' = [find EXCEPT !.chapter = n,
                                    !.stamp = chapters[<<ThisStory, n>>].updated]
            /\ pc' = "chapter"
    BY <1>6
  <2>1. n \in Due /\ n > find.chapter
    BY <1>3
  <2>2. chapters[<<ThisStory, n>>].updated \in Int
    BY <1>2, <2>1, RowTypes DEF ChaptersOf, IInv, TablesInv
  <2>3. /\ find' \in [bound : Int, chapter : {0} \cup Chapter, stamp : Int]
        /\ find'.chapter = n /\ find'.bound = find.bound
        /\ find'.stamp = chapters[<<ThisStory, n>>].updated
    BY <1>2, <2>1, <2>2 DEF IInv, TypeOK
  <2>4. TypeOK'
    BY <1>1, <2>3 DEF IInv, TypeOK, tree, tables, site
  <2>5. VisitInv'
    BY <1>1, <2>1 DEF IInv, VisitInv, Visiting, tables
  <2>6. PlaceInv'
    BY <1>1, <1>2, <2>1, <2>3 DEF PlaceInv, tables
  <2>7. CursorInv'
    <3>1. ASSUME NEW m \in Due \cap g.rows, Passed(m)' PROVE Fresh(m)'
      <4>1. m \in Int /\ m < n
        BY <1>2, <2>3, <3>1 DEF Passed
      <4>2. m \notin Ahead
        BY <1>2, <2>1, <4>1
      <4>3. ~(m > find.chapter)
        BY <1>3, <4>2
      <4>4. Passed(m)
        BY <1>1, <1>2, <4>1, <4>3 DEF Passed
      <4>5. Fresh(m)
        BY <1>1, <4>4 DEF IInv, CursorInv
      <4> QED BY <1>1, <4>5 DEF Fresh, tables, site
    <3> QED BY <1>1, <2>3, <3>1 DEF CursorInv, tables
  <2> QED BY <1>4, <2>4, <2>5, <2>6, <2>7 DEF IInv, CursorComplete
<1> QED BY <1>5, <1>6 DEF Step

(* for_chapter may mark the chapter before, with a time the story has      *)
(* reached.  If a recorded row changes by that, the cursor starts again;   *)
(* otherwise what was behind it is still fresh, and so is its chapter.     *)
LEMMA ForChapterIInv == ASSUME IInv, ForChapter PROVE IInv'
<1> DEFINE n == find.chapter
           t == find.stamp
           c == g.category
           restarts == \/ needRestart
                       \/ PreviousNeedsLink /\ SawRestarts(n - 1, t)
           Due(ch, f) == DueChapters(ch, ThisStory, f.bound, g.numchaps, AllReady(c))
<1>1. /\ pc = "chapter" /\ pc' = "chapters" /\ needRestart' = FALSE
      /\ IF PreviousNeedsLink THEN Saw(n - 1, t) ELSE UNCHANGED <<stories, chapters>>
      /\ find' = IF restarts THEN [NoFind EXCEPT !.bound = t] ELSE find
      /\ UNCHANGED <<tree, crashes, lastSeen, saved, contents>>
  BY DEF ForChapter
<1>2. /\ \/ Skip /\ g' = [g EXCEPT !.any = TRUE] /\ UNCHANGED page
         \/ /\ page' = [page EXCEPT ![<<c, n>>] =
                          [there |-> TRUE, mtime |-> t, next |-> n < g.ready]]
            /\ \E title \in {g.title, TRUE} : g' = [g EXCEPT !.any = TRUE, !.title = title]
  BY DEF ForChapter
<1>3. /\ Consistent(stories, chapters) /\ ThisStory \in DOMAIN stories
      /\ stories[ThisStory].updated = g.stamp /\ c \in Category
      /\ n \in ChaptersOf(chapters, ThisStory) /\ t = chapters[<<ThisStory, n>>].updated
      /\ AllReady(c) \/ n <= g.numchaps
      /\ g.rows \subseteq ChaptersOf(chapters, ThisStory)
  BY <1>1 DEF IInv, TablesInv, VisitInv, PlaceInv, Visiting
<1>4. /\ n \in Chapter /\ n \in Int /\ t \in Int /\ t <= stories[ThisStory].updated
      /\ <<ThisStory, n>> \in DOMAIN chapters
  BY <1>3, RowTypes, ChapterNumbers DEF ChaptersOf
<1>5. /\ stories' = stories /\ Consistent(stories, chapters')
      /\ DOMAIN chapters \subseteq DOMAIN chapters'
      /\ chapters'[<<ThisStory, n>>] = chapters[<<ThisStory, n>>]
      /\ ~restarts => \A x \in DOMAIN chapters : chapters'[x] = chapters[x]
  <2>1. CASE PreviousNeedsLink
    <3>1. n - 1 \in Chapter
      BY <1>4, <2>1, ChapterNumbers DEF PreviousNeedsLink
    <3>2. /\ chapters' = ChaptersAfterSaw(chapters, <<ThisStory, n - 1>>, t)
          /\ stories' = StoriesAfterSaw(stories, ThisStory, t)
      BY <1>1, <2>1 DEF Saw
    <3>3. <<ThisStory, n>> # <<ThisStory, n - 1>>
      BY <1>4
    <3>4. ~restarts => ~SawChanges(chapters, <<ThisStory, n - 1>>, t)
      BY <2>1 DEF SawRestarts
    <3>5. <<ThisStory, n>> \in DOMAIN chapters
      BY <1>4
    <3> HIDE DEF n, t, restarts
    <3>6. /\ StoriesAfterSaw(stories, ThisStory, t) = stories
          /\ Consistent(stories, chapters')
          /\ DOMAIN chapters' = DOMAIN chapters \cup {<<ThisStory, n - 1>>}
          /\ \A x \in DOMAIN chapters :
               x # <<ThisStory, n - 1>> \/ ~SawChanges(chapters, <<ThisStory, n - 1>>, t)
                 => chapters'[x] = chapters[x]
      BY <1>3, <1>4, <3>1, <3>2, SawInVisit
    <3> QED BY <3>2, <3>3, <3>4, <3>5, <3>6
  <2>2. CASE ~PreviousNeedsLink
    BY <1>1, <1>3, <2>2
  <2> QED BY <2>1, <2>2
<1>6. /\ g' \in Visits /\ g'.any = TRUE
      /\ g'.category = g.category /\ g'.numchaps = g.numchaps /\ g'.stamp = g.stamp
      /\ g'.rows = g.rows
  <2>1. TRUE \in BOOLEAN /\ g \in Visits /\ g.title \in BOOLEAN
    BY DEF IInv, TypeOK, Visits
  <2> QED BY <1>2, <2>1 DEF Visits
<1>7. /\ page' \in [Category \X Chapter -> [there : BOOLEAN, mtime : Int, next : BOOLEAN]]
      /\ page'[<<c, n>>].there /\ page'[<<c, n>>].mtime >= t
      /\ \A m \in Chapter \ {n} : page'[<<c, m>>] = page[<<c, m>>]
  <2>1. /\ page \in [Category \X Chapter -> [there : BOOLEAN, mtime : Int, next : BOOLEAN]]
        /\ <<c, n>> \in Category \X Chapter
    BY <1>3, <1>4 DEF IInv, TypeOK
  <2>2. CASE Skip /\ UNCHANGED page
    BY <2>1, <2>2 DEF Skip
  <2>3. CASE page' = [page EXCEPT ![<<c, n>>] =
                        [there |-> TRUE, mtime |-> t, next |-> n < g.ready]]
    <3> DEFINE new == [there |-> TRUE, mtime |-> t, next |-> n < g.ready]
    <3>1. TRUE \in BOOLEAN /\ (n < g.ready) \in BOOLEAN
      OBVIOUS
    <3>2. new \in [there : BOOLEAN, mtime : Int, next : BOOLEAN]
      BY <1>4, <3>1
    <3>3. new.there /\ new.mtime >= t
      BY <1>4
    <3>4. \A m \in Chapter \ {n} : <<c, m>> # <<c, n>>
      OBVIOUS
    <3> HIDE DEF new
    <3> QED BY <2>1, <2>3, <3>2, <3>3, <3>4 DEF new
  <2> QED BY <1>2, <2>2, <2>3
<1>8. /\ find' \in [bound : Int, chapter : {0} \cup Chapter, stamp : Int]
      /\ restarts => find'.chapter = 0
      /\ ~restarts => find' = find
  BY <1>1, <1>4 DEF IInv, TypeOK, NoFind
<1>9. TypeOK'
  BY <1>1, <1>5, <1>6, <1>7, <1>8 DEF IInv, TypeOK, Consistent, tree
<1>10. TablesInv'
  BY <1>1, <1>5 DEF IInv, TablesInv
<1>11. g'.numchaps \in Nat
  <2>1. CASE AllReady(c)
    BY <1>1, <1>6, <2>1 DEF IInv, VisitInv, Visiting
  <2>2. CASE ~AllReady(c)
    <3>1. g.numchaps \in Nat \cup {-1}
      BY DEF IInv, TypeOK, Visits
    <3>2. n > 0 /\ n \in Int
      BY <1>4, ChapterNumbers
    <3>3. n <= g.numchaps
      BY <1>3, <2>2
    <3> HIDE DEF n
    <3> QED BY <1>6, <3>1, <3>2, <3>3
  <2> QED BY <2>1, <2>2
<1>12. VisitInv'
  BY <1>1, <1>3, <1>5, <1>6, <1>11, ChaptersOfGrow DEF IInv, VisitInv, Visiting
<1>13. CursorInv'
  <2>1. CASE restarts
    <3>1. \A m \in Chapter : ~Passed(m)'
      BY <1>8, <2>1, ChapterNumbers DEF Passed
    <3> QED BY <3>1 DEF CursorInv, DueChapters, ChaptersOf
  <2>2. CASE ~restarts
    <3>1. ASSUME NEW m \in Due(chapters', find') \cap g.rows, Passed(m)'
          PROVE  Fresh(m)'
      <4>1. m \in Chapter /\ m \in Int /\ <<ThisStory, m>> \in DOMAIN chapters
        BY <1>3, ChapterNumbers DEF ChaptersOf
      <4>2. chapters'[<<ThisStory, m>>] = chapters[<<ThisStory, m>>]
        BY <1>5, <2>2, <4>1
      <4>3. CASE m = n
        BY <1>3, <1>6, <1>7, <4>2, <4>3 DEF Fresh
      <4>4. CASE m # n
        <5>1. m \in Due(chapters, find)
          BY <1>8, <2>2, <4>1, <4>2 DEF DueChapters, ChaptersOf
        <5>2. find' = find
          BY <1>8, <2>2
        <5>3. m < n
          BY <1>1, <1>4, <3>1, <4>1, <4>4, <5>2 DEF Passed
        <5>4. Fresh(m)
          BY <1>1, <5>1, <5>3 DEF IInv, CursorInv, Passed
        <5> QED BY <1>6, <1>7, <4>1, <4>2, <4>4, <5>4 DEF Fresh
      <4> QED BY <4>3, <4>4
    <3> QED BY <1>6, <3>1 DEF CursorInv
  <2> QED BY <2>1, <2>2
<1> QED BY <1>1, <1>9, <1>10, <1>12, <1>13 DEF IInv, PlaceInv, CursorComplete

(* The rest of for_story: db_set_chapters notes how many were exported.    *)
LEMMA EndStoryIInv == ASSUME IInv, EndStory PROVE IInv'
<1>1. /\ pc = "contents" /\ pc' = "exported"
      /\ UNCHANGED <<tree, crashes, chapters, lastSeen, saved, page, g, find, needRestart>>
  BY DEF EndStory, TouchContents, NoContentsYet, CreateContents
<1>2. \/ contents' = contents
      \/ contents' = [contents EXCEPT ![g.category].mtime = g.stamp]
      \/ /\ g.any
         /\ contents' = [contents EXCEPT ![g.category] =
                           [there |-> TRUE, mtime |-> g.stamp, count |-> g.numchaps]]
  BY DEF EndStory, TouchContents, NoContentsYet, CreateContents
<1>3. stories' \in {stories, [stories EXCEPT ![ThisStory].chapters = g.count]}
  BY DEF EndStory, TouchContents, NoContentsYet, CreateContents
<1>4. /\ Consistent(stories, chapters) /\ ThisStory \in DOMAIN stories
      /\ g.category \in Category /\ g \in Visits
      /\ g.any => g.numchaps \in Nat
  BY <1>1 DEF IInv, TypeOK, TablesInv, VisitInv, Visiting
<1>5. g.stamp \in Int /\ g.count \in Nat
  BY <1>4 DEF Visits
<1>6. contents' \in [Category -> [there : BOOLEAN, mtime : Int, count : Nat]]
  <2>1. contents \in [Category -> [there : BOOLEAN, mtime : Int, count : Nat]]
    BY DEF IInv, TypeOK
  <2>2. CASE contents' = contents
    BY <2>1, <2>2
  <2>3. CASE contents' = [contents EXCEPT ![g.category].mtime = g.stamp]
    BY <1>4, <1>5, <2>1, <2>3
  <2>4. CASE /\ g.any
             /\ contents' = [contents EXCEPT ![g.category] =
                               [there |-> TRUE, mtime |-> g.stamp, count |-> g.numchaps]]
    <3>1. TRUE \in BOOLEAN
      OBVIOUS
    <3> QED BY <1>4, <1>5, <2>1, <2>4, <3>1
  <2> QED BY <1>2, <2>2, <2>3, <2>4
<1>7. Consistent(stories', chapters) /\ DOMAIN stories' = DOMAIN stories
  <2>1. CASE stories' = stories
    BY <1>4, <2>1
  <2>2. CASE stories' = [stories EXCEPT ![ThisStory].chapters = g.count]
    <3>1. /\ DOMAIN stories' = DOMAIN stories
          /\ \A s \in DOMAIN stories : s # ThisStory => stories'[s] = stories[s]
          /\ stories'[ThisStory] = [stories[ThisStory] EXCEPT !.chapters = g.count]
          /\ stories' = [s \in DOMAIN stories' |-> stories'[s]]
      BY <1>4, <2>2
    <3>2. \A s \in DOMAIN stories : stories[s] \in StoryRow
      BY <1>4, RowTypes
    <3>3. /\ stories'[ThisStory] \in StoryRow
          /\ stories'[ThisStory].created = stories[ThisStory].created
          /\ stories'[ThisStory].updated = stories[ThisStory].updated
      BY <1>4, <1>5, <3>1, <3>2 DEF StoryRow
    <3>4. IsStoryTable(stories')
      BY <1>4, <3>1, <3>2, <3>3 DEF Consistent, IsStoryTable
    <3>5. \A s \in DOMAIN stories : /\ stories'[s].created = stories[s].created
                                    /\ stories'[s].updated = stories[s].updated
      BY <3>1, <3>3
    <3> QED BY <1>4, <3>1, <3>4, <3>5, SameStampsConsistent
  <2> QED BY <1>3, <2>1, <2>2
<1>8. TypeOK'
  BY <1>1, <1>6, <1>7 DEF IInv, TypeOK, Consistent, tree
<1>9. TablesInv'
  BY <1>1, <1>7 DEF IInv, TablesInv
<1> QED BY <1>1, <1>4, <1>8, <1>9
        DEF IInv, VisitInv, PlaceInv, CursorInv, CursorComplete, Visiting

-----------------------------------------------------------------------------
LEMMA StutterIInv == ASSUME IInv, UNCHANGED vars PROVE IInv'
<1>1. UNCHANGED <<head, files, pushes, crashes, stories, chapters, lastSeen, saved, page,
                  contents, pc, g, find, needRestart>>
  BY DEF vars, tree, tables, site
<1>2. TypeOK' /\ TablesInv'
  BY <1>1 DEF IInv, TypeOK, TablesInv, Snapshot
<1>3. VisitInv' /\ PlaceInv'
  BY <1>1 DEF IInv, VisitInv, PlaceInv, Visiting
<1>4. CursorInv' /\ CursorComplete'
  BY <1>1 DEF IInv, CursorInv, CursorComplete, Passed, Fresh
<1> QED BY <1>2, <1>3, <1>4 DEF IInv

LEMMA NextIInv == IInv /\ [Next]_vars => IInv'
<1> SUFFICES ASSUME IInv, [Next]_vars PROVE IInv'
  OBVIOUS
<1>1. CASE Push BY <1>1, PushIInv
<1>2. CASE SetReady BY <1>2, SetReadyIInv
<1>3. CASE Abandon BY <1>3, AbandonIInv
<1>4. CASE \E c \in Category : Scan(c) BY <1>4, ScanIInv
<1>5. CASE \E n \in Chapter : ScanFile(n) BY <1>5, ScanFileIInv
<1>6. CASE EndScan BY <1>6, EndScanIInv
<1>7. CASE ForStory BY <1>7, ForStoryIInv
<1>8. CASE NotDue BY <1>8, NotDueIInv
<1>9. CASE CategoryIsNew BY <1>9, CategoryIsNewIInv
<1>10. CASE Step BY <1>10, StepIInv
<1>11. CASE ForChapter BY <1>11, ForChapterIInv
<1>12. CASE EndStory BY <1>12, EndStoryIInv
<1>13. CASE Finish BY <1>13, FinishIInv
<1>14. CASE UNCHANGED vars BY <1>14, StutterIInv
<1> QED
  BY <1>1, <1>2, <1>3, <1>4, <1>5, <1>6, <1>7, <1>8, <1>9, <1>10, <1>11, <1>12, <1>13, <1>14
     DEF Next, Generate

THEOREM Invariance == Spec => []IInv
BY InitIInv, NextIInv, PTL DEF Spec

(* Every variable keeps its type through any number of runs, whatever was  *)
(* killed in between; in particular for_chapter never asks saw_chapter for *)
(* a chapter 0 (main.c:196-203), and a contents page is written with a     *)
(* count that is not negative although `ready' may be -1 (main.c:329-345). *)
THEOREM Typing == Spec => []TypeOK
<1>1. IInv => TypeOK
  BY DEF IInv
<1> QED BY <1>1, Invariance, PTL

(* for_stories' cursor over stories.updated is safe from what its handler  *)
(* notes (storydb.c:344-385, main.c:196-203, 311-321): while the story is  *)
(* being exported its time stays what it was when the cursor came to it.   *)
THEOREM StoryKeepsItsPlace == Spec => []StoryStays
<1>1. IInv => StoryStays
  BY DEF IInv, VisitInv, StoryStays
<1> QED BY <1>1, Invariance, PTL

(* need_restart_for_chapters does its work (storydb.c:106, 148-163,        *)
(* 448-459): whatever rows are updated behind the cursor of for_chapters,  *)
(* when it ends, every chapter recorded at the start and due by the bound  *)
(* last bound has a page at least as new as its row.                       *)
THEOREM CursorMissesNothing == Spec => []CursorComplete
<1>1. IInv => CursorComplete
  BY DEF IInv
<1> QED BY <1>1, Invariance, PTL

(* `ready' is kept to (main.c:323-345, storydb.c:424-444): no page of a    *)
(* chapter later than the one the program `ready' was told is written or   *)
(* rewritten outside sneakpeek.                                            *)
THEOREM ReadyIsRespected == Spec => ReadyRespected
<1> DEFINE A == \A c \in Category, n \in Chapter :
                  page'[<<c, n>>] # page[<<c, n>>] /\ ~AllReady(c) =>
                    stories[ThisStory].ready = 0 \/ n <= stories[ThisStory].ready
<1>1. IInv /\ Next => A
  <2> SUFFICES ASSUME IInv, Next, NEW c \in Category, NEW n \in Chapter,
                      page'[<<c, n>>] # page[<<c, n>>], ~AllReady(c)
               PROVE  stories[ThisStory].ready = 0 \/ n <= stories[ThisStory].ready
    OBVIOUS
  <2>1. ForChapter
    <3>1. ~ UNCHANGED page
      OBVIOUS
    <3>2. /\ Push => UNCHANGED page
          /\ SetReady => UNCHANGED page
          /\ Rollback => UNCHANGED page
          /\ Finish => UNCHANGED page
      BY DEF Push, SetReady, Rollback, Finish, site
    <3>3. /\ (\E d \in Category : Scan(d)) => UNCHANGED page
          /\ (\E m \in Chapter : ScanFile(m)) => UNCHANGED page
          /\ EndScan => UNCHANGED page
      BY DEF Scan, ScanFile, EndScan, site
    <3>4. /\ ForStory => UNCHANGED page
          /\ NotDue => UNCHANGED page
          /\ Step => UNCHANGED page
          /\ EndStory => UNCHANGED page
      BY DEF ForStory, NotDue, Step, EndStory, site
    <3> QED BY <3>1, <3>2, <3>3, <3>4 DEF Next, Generate, Abandon, CategoryIsNew
  <2>2. /\ pc = "chapter" /\ c = g.category /\ n = find.chapter
    <3>1. /\ pc = "chapter"
          /\ \/ UNCHANGED page
             \/ page' = [page EXCEPT ![<<g.category, find.chapter>>] =
                            [there |-> TRUE, mtime |-> find.stamp,
                             next |-> find.chapter < g.ready]]
      BY <2>1 DEF ForChapter
    <3>2. page \in [Category \X Chapter -> [there : BOOLEAN, mtime : Int, next : BOOLEAN]]
      BY DEF IInv, TypeOK
    <3>3. <<c, n>> \in Category \X Chapter
      OBVIOUS
    <3>4. <<c, n>> = <<g.category, find.chapter>>
      BY <3>1, <3>2, <3>3
    <3> QED BY <3>1, <3>4
  <2>3. /\ stories[ThisStory].ready = 0 \/ g.numchaps <= stories[ThisStory].ready
        /\ n <= g.numchaps /\ ThisStory \in DOMAIN stories
    BY <2>2 DEF IInv, VisitInv, PlaceInv, Visiting
  <2>4. stories[ThisStory].ready \in Nat
    BY <2>3, RowTypes DEF IInv, TablesInv
  <2>5. n \in Int
    BY ChapterNumbers
  <2>6. g.numchaps \in Nat \cup {-1}
    BY DEF IInv, TypeOK, Visits
  <2> QED BY <2>3, <2>4, <2>5, <2>6
<1>2. IInv /\ [Next]_vars => [A]_vars
  BY <1>1
<1> QED BY <1>2, Invariance, PTL DEF Spec, ReadyRespected
===============================================================================
