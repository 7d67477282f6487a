----------------------------- MODULE SourcesProofs -----------------------------
(***************************************************************************)
(* storydb_for_chapters never moves the time of its story, whatever the    *)
(* files, options and rows: for any number of chapters and any times.      *)
(***************************************************************************)
EXTENDS Sources, StoryTablesProofs

(* The story is as late as its latest chapter, and every row is there, so  *)
(* that saw_chapter only updates.                                          *)
Covered ==
  /\ Consistent(stories, chapters)
  /\ DOMAIN stories = {TheStory} /\ DOMAIN chapters = Key
  /\ file \in [Chapter -> Int]

(* One call of saw_chapter from inside the cursor's handler.               *)
LEMMA SawOlder ==
  ASSUME NEW ch, Consistent(stories, ch), DOMAIN stories = {TheStory}, DOMAIN ch = Key,
         NEW n \in Chapter, NEW t \in Int, t <= stories[TheStory].updated
  PROVE  /\ StoriesAfterSaw(stories, TheStory, t) = stories
         /\ Consistent(stories, ChaptersAfterSaw(ch, Key1(n), t))
         /\ DOMAIN ChaptersAfterSaw(ch, Key1(n), t) = Key
<1>1. StoriesAfterSaw(stories, TheStory, t) = stories
  BY SawOlderLeavesStories DEF Consistent
<1>2. Consistent(StoriesAfterSaw(stories, TheStory, t), ChaptersAfterSaw(ch, Key1(n), t))
  BY SawChapterConsistent DEF Key1
<1>3. Key1(n) \in Key
  BY SourcesAssumption DEF Key, Key1
<1>4. DOMAIN ChaptersAfterSaw(ch, Key1(n), t) = Key
  BY <1>3 DEF ChaptersAfterSaw, Put
<1> QED BY <1>1, <1>2, <1>4

LEMMA FunctionInto ==
  ASSUME NEW D, NEW R, NEW S, NEW f \in [D -> R], R \subseteq S
  PROVE  f \in [D -> S]
  OBVIOUS

LEMMA InitCovered == Init => Covered
<1> SUFFICES ASSUME Init PROVE Covered
  OBVIOUS
<1> DEFINE U == {chapters[k].updated : k \in Key}
<1>1. PICK upd \in [Chapter -> Stamp], seen \in [Chapter -> Stamp] :
        chapters = [k \in Key |-> [created |-> k[2], updated |-> upd[k[2]], seen |-> seen[k[2]]]]
  BY DEF Init
<1>2. PICK mark \in Mark :
        stories = [s \in Story |-> [created |-> 1, updated |-> Max(U),
                                    chapters |-> Cardinality(Chapter), ready |-> mark]]
  BY DEF Init
<1>3. Key = {TheStory} \X Chapter /\ Key # {} /\ IsFiniteSet(Key)
  <2>1. Key = {TheStory} \X Chapter /\ Chapter # {}
    BY SourcesAssumption DEF Key
  <2>2. IsFiniteSet(Key)
    BY TableAssumption, FS_Product DEF Key
  <2>3. PICK c \in Chapter : TRUE
    BY <2>1
  <2>4. <<TheStory, c>> \in Key
    BY <2>1, <2>3
  <2> QED BY <2>1, <2>2, <2>4
<1>4. Stamp \subseteq Int /\ Chapter \subseteq Int /\ Cardinality(Chapter) \in Nat
  BY SourcesAssumption, TableAssumption, FS_CardinalityType
<1>5. IsChapterTable(chapters) /\ DOMAIN chapters = Key
  <2>1. DOMAIN chapters = Key
    BY <1>1
  <2>2. ASSUME NEW k \in Key PROVE chapters[k] \in ChapterRow
    <3>1. k[2] \in Chapter
      BY <1>3
    <3>2. ASSUME NEW f \in [Chapter -> Stamp] PROVE f[k[2]] \in Int
      BY <1>4, <3>1
    <3>3. upd[k[2]] \in Int /\ seen[k[2]] \in Int
      BY <3>2
    <3>4. k[2] \in Int
      BY <1>4, <3>1
    <3> QED BY <1>1, <3>3, <3>4 DEF ChapterRow
  <2>3. chapters = [k \in Key |-> chapters[k]]
    BY <1>1
  <2> QED BY <2>1, <2>2, <2>3 DEF IsChapterTable
<1>6. StampsDistinctIn(chapters)
  BY <1>1, <1>3 DEF StampsDistinctIn
<1>7. /\ Max(U) \in Int
      /\ \A k \in Key : chapters[k].updated <= Max(U)
  <2>1. U \in SUBSET Int /\ U # {}
    BY <1>1, <1>3, <1>4, <1>5 DEF IsChapterTable, ChapterRow
  <2>2. IsFiniteSet(U)
    <3> DEFINE f == [k \in Key |-> chapters[k].updated]
    <3>1. f \in Surjection(Key, U)
      BY DEF Surjection
    <3> QED BY <1>3, <3>1, FS_Surjection
  <2>3. PICK x \in U : \A y \in U : y <= x
    BY <2>1, <2>2, GreatestExists
  <2>4. \A y \in U : x >= y
    BY <2>1, <2>3
  <2>5. Max(U) \in U /\ \A y \in U : Max(U) >= y
    BY <2>4 DEF Max
  <2> QED BY <2>1, <2>5
<1>8. /\ DOMAIN stories = {TheStory} /\ stories[TheStory].updated = Max(U)
      /\ stories[TheStory] \in StoryRow
      /\ stories = [s \in {TheStory} |-> stories[s]]
  BY <1>2, <1>4, <1>7, SourcesAssumption DEF StoryRow
<1>9. IsStoryTable(stories) /\ StampsDistinctIn(stories)
  BY <1>8, SourcesAssumption DEF IsStoryTable, StampsDistinctIn
<1>10. UpdatedCoveredIn(stories, chapters)
  <2>1. \A k \in Key : k[1] = TheStory
    BY <1>3
  <2> HIDE DEF U
  <2>2. ASSUME NEW k \in Key
        PROVE  k[1] \in DOMAIN stories /\ chapters[k].updated <= stories[k[1]].updated
    <3>1. k[1] = TheStory
      BY <2>1
    <3> QED BY <1>7, <1>8, <3>1
  <2> QED BY <1>5, <2>2 DEF UpdatedCoveredIn
<1>11. file \in [Chapter -> Int]
  <2>1. file \in [Chapter -> {0} \cup Stamp]
    BY DEF Init
  <2>2. {0} \subseteq Int /\ Stamp \subseteq Int
    BY SourcesAssumption
  <2>3. {0} \cup Stamp \subseteq Int
    BY <2>2, Zenon
  <2> QED BY <2>1, <2>3, FunctionInto
<1> QED
  BY <1>5, <1>6, <1>8, <1>9, <1>10, <1>11 DEF Covered, Consistent

(* for_chapter calls saw_chapter up to twice: with the time of a file that *)
(* is older than the row, and for the page that needs a link.              *)
LEMMA VisitCovered ==
  ASSUME Covered, NEW n \in Chapter, Visit(n)
  PROVE  Covered' /\ stories' = stories
<1> DEFINE stamp == chapters[Key1(n)].updated
           t == Corrected(n, stamp)
           now == stories[TheStory].updated
           first == AfterFile(n, stamp)
<1>1. stamp \in Int /\ now \in Int /\ stamp <= now
  <2>1. Key1(n) \in DOMAIN chapters /\ Key1(n)[1] = TheStory
    BY SourcesAssumption DEF Covered, Key, Key1
  <2>2. stamp \in Int
    BY <2>1 DEF Covered, Consistent, IsChapterTable, ChapterRow
  <2>3. now \in Int
    BY DEF Covered, Consistent, IsStoryTable, StoryRow
  <2> QED BY <2>1, <2>2, <2>3 DEF Covered, Consistent, UpdatedCoveredIn
<1>2. file[n] \in Int
  BY DEF Covered
<1>3. t \in Int /\ t <= now
  BY <1>1, <1>2 DEF Corrected, OlderFile
<1>4. /\ OlderFile(n, stamp) => StoriesAfterSaw(stories, TheStory, file[n]) = stories
      /\ Consistent(stories, first) /\ DOMAIN first = Key
  <2>1. CASE OlderFile(n, stamp)
    <3>1. file[n] <= now
      BY <1>1, <1>2, <2>1 DEF OlderFile
    <3> QED BY <1>2, <2>1, <3>1, SawOlder DEF AfterFile, Covered
  <2>2. CASE ~ OlderFile(n, stamp)
    BY <2>2 DEF AfterFile, Covered
  <2> QED BY <2>1, <2>2
<1>5. /\ StoriesAfterSaw(stories, TheStory, t) = stories
      /\ PreviousNeedsLink(n) => /\ Consistent(stories, AfterLink(n, stamp))
                                 /\ DOMAIN AfterLink(n, stamp) = Key
  <2>1. StoriesAfterSaw(stories, TheStory, t) = stories
    BY <1>3, SawOlderLeavesStories DEF Covered, Consistent
  <2>2. ASSUME PreviousNeedsLink(n) PROVE n - 1 \in Chapter
    BY <2>2, SourcesAssumption, TableAssumption, FS_CardinalityType DEF PreviousNeedsLink
  <2> QED BY <1>3, <1>4, <2>1, <2>2, SawOlder DEF AfterLink, Covered
<1>6. Consistent(stories, AfterLink(n, stamp)) /\ DOMAIN AfterLink(n, stamp) = Key
  BY <1>4, <1>5 DEF AfterLink
<1>7. StoriesAfter(n, stamp) = stories
  BY <1>4, <1>5 DEF StoriesAfter
<1>8. chapters' = AfterLink(n, stamp) /\ stories' = StoriesAfter(n, stamp)
  BY DEF Visit
<1>9. file' \in [Chapter -> Int]
  BY <1>1 DEF Visit, Covered
<1> QED BY <1>6, <1>7, <1>8, <1>9 DEF Covered

LEMMA NextCovered == Covered /\ [Next]_vars => Covered' /\ stories' = stories
<1> SUFFICES ASSUME Covered, [Next]_vars PROVE Covered' /\ stories' = stories
  OBVIOUS
<1>1. CASE Finish
  BY <1>1 DEF Finish, Covered
<1>2. CASE \E n \in Chapter : Visit(n)
  BY <1>2, VisitCovered
<1>3. CASE UNCHANGED vars
  BY <1>3 DEF vars, Covered
<1> QED BY <1>1, <1>2, <1>3 DEF Next

(* for_stories' cursor over stories.updated is safe from its handler       *)
(* (storydb.c:344-385, main.c:107-244): whichever options are set, however *)
(* often for_chapters restarts, no call moves the time of the story.       *)
THEOREM StoryKeepsItsPlace == Spec => StoryStays
<1>1. Spec => []Covered
  BY InitCovered, NextCovered, PTL DEF Spec
<1>2. Covered /\ [Next]_vars => [stories' = stories]_vars
  BY NextCovered
<1> QED BY <1>1, <1>2, PTL DEF Spec, StoryStays

(* Nor does it leave a chapter later than its story, or two rows with the  *)
(* same `created', or drop or add a row.                                   *)
THEOREM TablesStayConsistent ==
  Spec => [](Consistent(stories, chapters) /\ DOMAIN chapters = Key)
<1>1. Spec => []Covered
  BY InitCovered, NextCovered, PTL DEF Spec
<1>2. Covered => Consistent(stories, chapters) /\ DOMAIN chapters = Key
  BY DEF Covered
<1> QED BY <1>1, <1>2, PTL

-----------------------------------------------------------------------------
(* The rest of what the call keeps: the type of everything, the times of   *)
(* rows and files, and what is left of the page that needs a link.         *)

Updated(n) == chapters[Key1(n)].updated

StampsInv == \A n \in Chapter : Updated(n) \in Stamp

(* `ready' is at least 1, and shows all chapters before the last.          *)
RunInv ==
  /\ run.ready >= 1
  /\ run.numchaps > 1 => run.numchaps - 1 < run.ready

(* Without fix_srctimes nothing is leaked and only a missing source kills. *)
PlainInv ==
  ~Fixing =>
    /\ leaked = 0
    /\ pc = "dead" => \E n \in Chapter : file[n] = 0

(* A file that was looked at has its row's time, whichever was corrected.  *)
TimesInv ==
  Fixing /\ leaked < MaxOpen =>
    \A n \in Chapter \ {run.numchaps - 1} :
      visited[n] # 0 /\ file[n] # 0 => file[n] = Updated(n)

(* The page before the last links on, or is as old as it was; its row has  *)
(* the time the last chapter was handled with.                             *)
LinkInv ==
  LET last == run.numchaps
  IN  last \in Chapter \ {1} =>
        /\ page[last - 1].next \/ page[last - 1].mtime <= before[last - 1].mtime
        /\ ~Fixing /\ visited[last] # 0 => Updated(last - 1) = visited[last]

Rest == TypeOK /\ StampsInv /\ RunInv /\ PlainInv /\ TimesInv /\ LinkInv

IInv == Covered /\ Rest

LEMMA ChapterNumbers ==
  /\ Cardinality(Chapter) \in Nat \ {0} /\ Chapter = 1 .. Cardinality(Chapter)
  /\ \A n \in Chapter : n \in Int /\ n >= 1 /\ Key1(n) \in Key
  /\ \A n \in Chapter \ {1} : n - 1 \in Chapter
<1>1. Cardinality(Chapter) \in Nat /\ Chapter = 1 .. Cardinality(Chapter) /\ Chapter # {}
  BY SourcesAssumption, TableAssumption, FS_CardinalityType
<1>2. Cardinality(Chapter) # 0
  BY <1>1
<1>3. \A n \in Chapter : n \in Int /\ n >= 1 /\ n - 1 <= Cardinality(Chapter)
  BY <1>1
<1>4. \A n \in Chapter : Key1(n) \in Key
  BY SourcesAssumption DEF Key, Key1
<1>5. ASSUME NEW n \in Chapter \ {1} PROVE n - 1 \in Chapter
  <2>1. n \in 1 .. Cardinality(Chapter) /\ n # 1
    BY <1>1
  <2>2. n - 1 \in 1 .. Cardinality(Chapter)
    BY <1>1, <2>1
  <2> QED BY <1>1, <2>2
<1> QED BY <1>1, <1>2, <1>3, <1>4, <1>5

LEMMA StampNumbers == /\ Stamp \subseteq Int /\ 0 \notin Stamp /\ {0} \cup Stamp \subseteq Int
                      /\ PageTime \subseteq Int
                      /\ MaxOpen \in Nat /\ MaxOpen >= 2
BY SourcesAssumption

LEMMA PageTypes ==
  ASSUME NEW p \in Pages, NEW n \in Chapter
  PROVE  /\ p[n] \in {NoPage} \cup [mtime : PageTime \cup Stamp, next : BOOLEAN]
         /\ p[n].mtime \in Int /\ p[n].next \in BOOLEAN
<1>1. p[n] \in {NoPage} \cup [mtime : PageTime \cup Stamp, next : BOOLEAN]
  BY DEF Pages
<1>2. CASE p[n] = NoPage
  BY <1>1, <1>2 DEF NoPage
<1>3. CASE p[n] \in [mtime : PageTime \cup Stamp, next : BOOLEAN]
  <2>1. p[n].mtime \in PageTime \cup Stamp /\ p[n].next \in BOOLEAN
    BY <1>3
  <2>2. p[n].mtime \in Int
    BY <2>1, StampNumbers
  <2> QED BY <1>1, <2>1, <2>2
<1> QED BY <1>1, <1>2, <1>3

LEMMA InitRest == Init => Rest
<1> SUFFICES ASSUME Init PROVE Rest
  OBVIOUS
<1> DEFINE count == Cardinality(Chapter)
<1>1. PICK upd \in [Chapter -> Stamp], seen \in [Chapter -> Stamp] :
        chapters = [k \in Key |-> [created |-> k[2], updated |-> upd[k[2]], seen |-> seen[k[2]]]]
  BY DEF Init
<1> DEFINE newest == Max({chapters[k].updated : k \in Key})
<1>2. PICK mark \in Mark, allReady \in BOOLEAN, options \in Option :
        LET row == [created |-> 1, updated |-> newest, chapters |-> count, ready |-> mark]
            ready == ReadyOf(row, allReady)
        IN  run = [options |-> options, allReady |-> allReady, ready |-> ready,
                   numchaps |-> IF ~allReady /\ ready # 0 THEN ready ELSE count]
  BY DEF Init
<1>3. /\ file \in [Chapter -> {0} \cup Stamp]
      /\ page \in [Chapter -> {NoPage} \cup [mtime : PageTime, next : {FALSE}]]
      /\ before = page /\ find = [after |-> 0, chapter |-> 0] /\ needRestart \in BOOLEAN
      /\ leaked = 0 /\ visited = [n \in Chapter |-> 0] /\ pc = "running"
  BY DEF Init
<1>4. \A n \in Chapter : Updated(n) = upd[n]
  BY <1>1, ChapterNumbers DEF Updated, Key1
<1>5. StampsInv
  BY <1>4 DEF StampsInv
<1>6. count \in Nat \ {0} /\ mark \in Nat
  BY ChapterNumbers, SourcesAssumption
<1> DEFINE ready == IF allReady THEN count ELSE IF mark # 0 THEN mark
                    ELSE IF count = 1 THEN 1 ELSE count - 1
<1>7. run = [options |-> options, allReady |-> allReady, ready |-> ready,
             numchaps |-> IF ~allReady /\ ready # 0 THEN ready ELSE count]
  BY <1>2 DEF ReadyOf
<1>8. ready \in Nat /\ ready >= 1 /\ (allReady => ready = count)
  BY <1>6
<1>9. RunInv /\ run \in [options : Option, allReady : BOOLEAN, ready : Nat, numchaps : Nat]
  <2> HIDE DEF ready
  <2>1. (IF ~allReady /\ ready # 0 THEN ready ELSE count) = ready
    BY <1>8
  <2>2. run = [options |-> options, allReady |-> allReady, ready |-> ready, numchaps |-> ready]
    BY <1>7, <2>1
  <2> QED BY <1>8, <2>2 DEF RunInv
<1>10. page \in Pages /\ \A n \in Chapter : page[n].next = FALSE
  <2>1. {NoPage} \cup [mtime : PageTime, next : {FALSE}]
          \subseteq {NoPage} \cup [mtime : PageTime \cup Stamp, next : BOOLEAN]
    OBVIOUS
  <2>2. page \in Pages
    BY <1>3, <2>1, FunctionInto DEF Pages
  <2>3. ASSUME NEW n \in Chapter PROVE page[n].next = FALSE
    <3>1. page[n] \in {NoPage} \cup [mtime : PageTime, next : {FALSE}]
      BY <1>3
    <3>2. NoPage.next = FALSE
      BY DEF NoPage
    <3>3. \A p \in [mtime : PageTime, next : {FALSE}] : p.next = FALSE
      OBVIOUS
    <3> HIDE DEF NoPage
    <3> QED BY <3>1, <3>2, <3>3
  <2> QED BY <2>2, <2>3
<1>11. visited \in [Chapter -> {0} \cup Stamp]
  BY <1>3
<1>12. IsStoryTable(stories) /\ IsChapterTable(chapters)
  BY InitCovered DEF Covered, Consistent
<1>13. leaked \in 0 .. MaxOpen
  BY <1>3, StampNumbers
<1>14. TypeOK
  BY <1>3, <1>9, <1>10, <1>11, <1>12, <1>13 DEF TypeOK
<1>15. PlainInv /\ TimesInv
  BY <1>3 DEF PlainInv, TimesInv
<1>16. LinkInv
  <2> SUFFICES ASSUME run.numchaps \in Chapter \ {1}
               PROVE  /\ page[run.numchaps - 1].mtime <= before[run.numchaps - 1].mtime
                      /\ visited[run.numchaps] = 0
    BY DEF LinkInv
  <2>1. run.numchaps - 1 \in Chapter
    BY ChapterNumbers
  <2> QED BY <1>3, <1>10, <2>1, PageTypes
<1> QED BY <1>5, <1>9, <1>14, <1>15, <1>16 DEF Rest

(* What a call of for_chapter does to the row's time and to the row before *)
(* it: all other rows keep theirs.                                         *)
LEMMA VisitRows ==
  ASSUME Covered, Rest, NEW n \in Chapter, Visit(n)
  PROVE  LET t == Corrected(n, Updated(n))
         IN  /\ t \in Stamp /\ t \in Int
             /\ OlderFile(n, Updated(n)) => t = file[n]
             /\ ~OlderFile(n, Updated(n)) => t = Updated(n)
             /\ Updated(n)' = t
             /\ PreviousNeedsLink(n) => n - 1 \in Chapter /\ Updated(n - 1)' = t
             /\ \A m \in Chapter : m = n \/ (PreviousNeedsLink(n) /\ m = n - 1)
                                   \/ Updated(m)' = Updated(m)
<1> DEFINE stamp == Updated(n)
           t == Corrected(n, stamp)
           first == AfterFile(n, stamp)
<1>1. stamp \in Stamp /\ (file[n] = 0 \/ file[n] \in Stamp)
  BY DEF Rest, TypeOK, StampsInv
<1>2. t \in Stamp /\ t \in Int
  BY <1>1, StampNumbers DEF Corrected, OlderFile
<1>3. chapters' = AfterLink(n, stamp)
  BY DEF Visit, Updated
<1>4. DOMAIN chapters = Key /\ \A m \in Chapter : Key1(m) \in Key
  BY ChapterNumbers DEF Covered
<1>5. \A m, l \in Chapter : Key1(m) = Key1(l) => m = l
  BY DEF Key1
<1>6. ASSUME NEW ch, DOMAIN ch = Key, NEW m \in Chapter, NEW u \in Int,
             \A k \in Key : ch[k] \in ChapterRow
      PROVE  LET new == ChaptersAfterSaw(ch, Key1(m), u)
             IN  /\ DOMAIN new = Key
                 /\ new[Key1(m)].updated = u
                 /\ \A l \in Chapter : l # m => new[Key1(l)] = ch[Key1(l)]
  <2>1. ChaptersAfterSaw(ch, Key1(m), u) = Put(ch, Key1(m), SeenAgain(ch[Key1(m)], u))
    BY <1>4, <1>6 DEF ChaptersAfterSaw
  <2>2. SeenAgain(ch[Key1(m)], u).updated = u
    BY <1>4, <1>6, SeenAgainRow
  <2> QED BY <1>4, <1>5, <1>6, <2>1, <2>2 DEF Put
<1>7. \A k \in Key : chapters[k] \in ChapterRow
  BY DEF Covered, Consistent, IsChapterTable
<1>8. /\ DOMAIN first = Key /\ first[Key1(n)].updated = t
      /\ \A m \in Chapter : m # n => first[Key1(m)] = chapters[Key1(m)]
      /\ \A k \in Key : first[k] \in ChapterRow
  <2>1. CASE OlderFile(n, stamp)
    <3>1. first = ChaptersAfterSaw(chapters, Key1(n), t) /\ t = file[n]
      BY <2>1 DEF AfterFile, Corrected
    <3>2. StampsDistinctIn(chapters) /\ IsChapterTable(chapters)
      BY DEF Covered, Consistent
    <3> HIDE DEF first, t
    <3>3. IsChapterTable(first)
      <4>1. Key1(n) \in Key
        BY <1>4
      <4> QED BY <1>2, <3>1, <3>2, <4>1, ChaptersAfterSawTable
    <3>4. DOMAIN first = Key
      BY <1>2, <1>4, <1>6, <1>7, <3>1
    <3> QED BY <1>2, <1>4, <1>6, <1>7, <3>1, <3>3, <3>4 DEF IsChapterTable
  <2>2. CASE ~OlderFile(n, stamp)
    BY <1>4, <1>7, <2>2 DEF AfterFile, Corrected, Updated
  <2> QED BY <2>1, <2>2
<1>9. CASE PreviousNeedsLink(n)
  <2>1. n - 1 \in Chapter /\ n - 1 # n
    BY <1>9, ChapterNumbers DEF PreviousNeedsLink
  <2>2. chapters' = ChaptersAfterSaw(first, Key1(n - 1), t)
    BY <1>3, <1>9 DEF AfterLink
  <2> HIDE DEF first, t
  <2>3. /\ chapters'[Key1(n - 1)].updated = t
        /\ \A l \in Chapter : l # n - 1 => chapters'[Key1(l)] = first[Key1(l)]
    BY <1>2, <1>6, <1>8, <2>1, <2>2
  <2>4. /\ Updated(n)' = t /\ Updated(n - 1)' = t
        /\ \A m \in Chapter : m = n \/ m = n - 1 \/ Updated(m)' = Updated(m)
    BY <1>8, <2>1, <2>3 DEF Updated, Key1
  <2> QED BY <1>2, <1>9, <2>1, <2>4 DEF Corrected, t
<1>10. CASE ~PreviousNeedsLink(n)
  <2>1. chapters' = first
    BY <1>3, <1>10 DEF AfterLink
  <2> HIDE DEF first, t
  <2>2. Updated(n)' = t /\ \A m \in Chapter : m = n \/ Updated(m)' = Updated(m)
    BY <1>8, <2>1 DEF Updated, Key1
  <2> QED BY <1>2, <1>10, <2>2 DEF Corrected, t
<1> QED BY <1>9, <1>10

(* One call of for_chapter keeps the rest.                                 *)
LEMMA VisitRest ==
  ASSUME Covered, Rest, NEW n \in Chapter, Visit(n)
  PROVE  Rest'
<1> DEFINE stamp == Updated(n)
           t == Corrected(n, stamp)
           last == run.numchaps
<1>1. /\ t \in Stamp /\ t \in Int
      /\ OlderFile(n, stamp) => t = file[n]
      /\ ~OlderFile(n, stamp) => t = stamp
      /\ Updated(n)' = t
      /\ PreviousNeedsLink(n) => n - 1 \in Chapter /\ Updated(n - 1)' = t
      /\ \A m \in Chapter : m = n \/ (PreviousNeedsLink(n) /\ m = n - 1)
                            \/ Updated(m)' = Updated(m)
  BY VisitRows
<1>2. /\ pc = "running"
      /\ file' = IF NewerFile(n, stamp) THEN [file EXCEPT ![n] = stamp] ELSE file
      /\ visited' = [visited EXCEPT ![n] = t]
      /\ find' = IF Restarts(n, stamp) THEN [after |-> stamp, chapter |-> 0]
                 ELSE [find EXCEPT !.chapter = n]
      /\ needRestart' = FALSE
      /\ SkipPage(n, t) \/ MakePage(n, t)
      /\ before' = before /\ run' = run
  BY DEF Visit, Updated
<1> HIDE DEF t, stamp
<1>3. stamp \in Stamp /\ stamp \in Int
  BY StampNumbers DEF Rest, StampsInv, stamp
<1>4. file \in [Chapter -> {0} \cup Stamp] /\ visited \in [Chapter -> {0} \cup Stamp]
  BY DEF Rest, TypeOK
<1>5. /\ file' \in [Chapter -> {0} \cup Stamp]
      /\ file'[n] = IF NewerFile(n, stamp) THEN stamp ELSE file[n]
      /\ \A m \in Chapter : m # n => file'[m] = file[m]
  BY <1>2, <1>3, <1>4
<1>6. /\ visited' \in [Chapter -> {0} \cup Stamp] /\ visited'[n] = t
      /\ \A m \in Chapter : m # n => visited'[m] = visited[m]
  BY <1>1, <1>2, <1>4
<1>7. find'.after \in {0} \cup Stamp /\ find'.chapter \in {0} \cup Chapter
  BY <1>2, <1>3 DEF Rest, TypeOK
<1>8. /\ page \in Pages /\ page[n] \in {NoPage} \cup [mtime : PageTime \cup Stamp, next : BOOLEAN]
      /\ leaked \in 0 .. MaxOpen /\ MaxOpen \in Nat /\ MaxOpen >= 2
      /\ run.ready \in Nat
  BY PageTypes, StampNumbers DEF Rest, TypeOK
<1>9. /\ leaked' \in 0 .. MaxOpen /\ leaked <= leaked'
      /\ ~Fixing => leaked' = leaked
  <2>1. CASE SkipPage(n, t)
    <3>1. leaked' = leaked \/ (leaked' = leaked + 1 /\ Opened(n))
      BY <2>1 DEF SkipPage
    <3> QED BY <1>8, <3>1 DEF Opened
  <2>2. CASE MakePage(n, t)
    BY <1>8, <2>2 DEF MakePage
  <2> QED BY <1>2, <2>1, <2>2
<1>10. /\ pc' \in {"running", "dead"}
       /\ pc' = "dead" /\ ~Fixing /\ leaked = 0 => file[n] = 0
  <2>1. ~Fixing /\ leaked = 0 /\ "abort" \in Sourced(n) => file[n] = 0
    BY <1>8 DEF Sourced
  <2>2. CASE SkipPage(n, t)
    BY <1>2, <2>1, <2>2 DEF SkipPage
  <2>3. CASE MakePage(n, t)
    <3>1. PICK source \in Sourced(n) :
            IF source = "abort" \/ leaked + (IF Opened(n) THEN 1 ELSE 0) = MaxOpen
            THEN pc' = "dead" ELSE UNCHANGED pc
      BY <2>3 DEF MakePage
    <3>2. ~Fixing /\ leaked = 0 => leaked + (IF Opened(n) THEN 1 ELSE 0) # MaxOpen
      BY <1>8 DEF Opened
    <3> QED BY <1>2, <2>1, <3>1, <3>2
  <2> QED BY <1>2, <2>2, <2>3
<1>11. /\ page' \in Pages
       /\ \A m \in Chapter : m # n => page'[m] = page[m]
       /\ \/ page'[n] = page[n]
          \/ page'[n].mtime = t /\ t <= page[n].mtime /\ page'[n].next = page[n].next
          \/ page'[n].next = (n < run.ready)
  <2>1. CASE page' = page
    BY <1>8, <2>1
  <2>2. CASE Skip(n, t) /\ page' = [page EXCEPT ![n].mtime = t]
    <3>1. page[n] \in [mtime : PageTime \cup Stamp, next : BOOLEAN]
      BY <1>8, <2>2 DEF Skip, NoPage
    <3>2. [page[n] EXCEPT !.mtime = t] \in [mtime : PageTime \cup Stamp, next : BOOLEAN]
      BY <1>1, <3>1
    <3>3. page'[n] = [page[n] EXCEPT !.mtime = t] /\ \A m \in Chapter : m # n => page'[m] = page[m]
      BY <1>8, <2>2 DEF Pages
    <3>4. page'[n].mtime = t /\ page'[n].next = page[n].next
      BY <3>1, <3>3
    <3>5. page' \in Pages
      BY <1>8, <2>2, <3>2, <3>3 DEF Pages
    <3>6. t <= page[n].mtime
      BY <1>1, <2>2, PageTypes, <1>8 DEF Skip
    <3> QED BY <3>3, <3>4, <3>5, <3>6
  <2>3. CASE page' = [page EXCEPT ![n] = [mtime |-> t, next |-> n < run.ready]]
    <3> DEFINE new == [mtime |-> t, next |-> n < run.ready]
    <3>1. (n < run.ready) \in BOOLEAN
      OBVIOUS
    <3>2. new \in [mtime : PageTime \cup Stamp, next : BOOLEAN] /\ new.next = (n < run.ready)
      BY <1>1, <3>1
    <3> HIDE DEF new
    <3>3. page'[n] = new /\ \A m \in Chapter : m # n => page'[m] = page[m]
      BY <1>8, <2>3 DEF Pages, new
    <3>4. page' \in Pages
      BY <1>8, <2>3, <3>2 DEF Pages, new
    <3> QED BY <3>2, <3>3, <3>4
  <2>4. /\ SkipPage(n, t) => page' = page \/ (Skip(n, t) /\ page' = [page EXCEPT ![n].mtime = t])
        /\ MakePage(n, t) =>
             page' = page \/ page' = [page EXCEPT ![n] = [mtime |-> t, next |-> n < run.ready]]
    BY DEF SkipPage, MakePage
  <2> QED BY <1>2, <2>1, <2>2, <2>3, <2>4
<1>12. IsStoryTable(stories') /\ IsChapterTable(chapters')
  BY VisitCovered DEF Covered, Consistent
<1>13. TypeOK'
  <2>1. needRestart' \in BOOLEAN
    BY <1>2
  <2> QED BY <1>2, <1>5, <1>6, <1>7, <1>9, <1>10, <1>11, <1>12, <2>1 DEF Rest, TypeOK
<1>14. StampsInv'
  <2>1. ASSUME NEW m \in Chapter PROVE Updated(m)' \in Stamp
    BY <1>1 DEF Rest, StampsInv
  <2> QED BY <2>1 DEF StampsInv
<1>15. RunInv'
  BY <1>2 DEF Rest, RunInv
<1>16. PlainInv'
  <2>1. Fixing' = Fixing
    BY <1>2 DEF Fixing, Has
  <2>2. ~Fixing => file' = file
    BY <1>2 DEF NewerFile
  <2> QED BY <1>2, <1>9, <1>10, <2>1, <2>2 DEF Rest, PlainInv
<1>17. TimesInv'
  <2> SUFFICES ASSUME Fixing', leaked' < MaxOpen, NEW m \in Chapter, m # run.numchaps - 1,
                      visited'[m] # 0, file'[m] # 0
               PROVE  file'[m] = Updated(m)'
    BY <1>2 DEF TimesInv
  <2>1. Fixing /\ leaked < MaxOpen
    BY <1>2, <1>8, <1>9 DEF Fixing, Has
  <2>2. ~(PreviousNeedsLink(n) /\ m = n - 1)
    BY DEF PreviousNeedsLink
  <2>3. CASE m = n
    <3>1. file[n] \in {0} \cup Stamp
      BY <1>4
    <3>2. file[n] \in Int
      BY <3>1, StampNumbers
    <3>3. file[n] # 0
      BY <1>5, <2>3 DEF NewerFile
    <3>4. CASE file[n] < stamp
      BY <1>1, <1>5, <2>1, <2>3, <3>2, <3>3, <3>4, <1>3 DEF OlderFile, NewerFile
    <3>5. CASE file[n] > stamp
      BY <1>1, <1>5, <2>1, <2>3, <3>2, <3>3, <3>5, <1>3 DEF OlderFile, NewerFile
    <3>6. CASE file[n] = stamp
      BY <1>1, <1>5, <2>1, <2>3, <3>2, <3>3, <3>6, <1>3 DEF OlderFile, NewerFile
    <3> QED BY <1>3, <3>2, <3>4, <3>5, <3>6
  <2>4. CASE m # n
    BY <1>1, <1>5, <1>6, <2>1, <2>2, <2>4 DEF Rest, TimesInv
  <2> QED BY <2>3, <2>4
<1>18. LinkInv'
  <2> SUFFICES ASSUME last \in Chapter \ {1}
               PROVE  /\ page'[last - 1].next \/ page'[last - 1].mtime <= before[last - 1].mtime
                      /\ ~Fixing /\ visited'[last] # 0 =>
                           chapters'[Key1(last - 1)].updated = visited'[last]
    BY <1>2 DEF LinkInv, Fixing, Has, Updated
  <2>1. last - 1 \in Chapter /\ last \in Int /\ last > 1 /\ last - 1 # last
    BY ChapterNumbers
  <2>2. /\ page[last - 1].next \/ page[last - 1].mtime <= before[last - 1].mtime
        /\ ~Fixing /\ visited[last] # 0 => Updated(last - 1) = visited[last]
        /\ last - 1 < run.ready
    BY <2>1 DEF Rest, LinkInv, RunInv
  <2>3. /\ page[last - 1].mtime \in Int /\ before[last - 1].mtime \in Int
        /\ page[last - 1].next \in BOOLEAN
    BY <1>8, <2>1, PageTypes DEF Rest, TypeOK
  <2>4. page'[last - 1].next \/ page'[last - 1].mtime <= before[last - 1].mtime
    <3>1. CASE n # last - 1
      <4>1. page'[last - 1] = page[last - 1]
        BY <1>11, <2>1, <3>1
      <4> QED BY <2>2, <4>1
    <3>2. CASE n = last - 1
      <4>1. CASE page'[n] = page[n]
        BY <2>2, <3>2, <4>1
      <4>2. CASE page'[n].mtime = t /\ t <= page[n].mtime /\ page'[n].next = page[n].next
        <5>1. CASE page[n].next
          BY <3>2, <4>2, <5>1
        <5>2. CASE page[n].mtime <= before[n].mtime
          <6>1. page'[n].mtime <= before[n].mtime
            BY <1>1, <2>3, <3>2, <4>2, <5>2
          <6> QED BY <3>2, <6>1
        <5> QED BY <2>2, <3>2, <5>1, <5>2
      <4>3. CASE page'[n].next = (n < run.ready)
        BY <2>2, <3>2, <4>3
      <4> QED BY <1>11, <4>1, <4>2, <4>3
    <3> QED BY <3>1, <3>2
  <2>5. ASSUME ~Fixing, visited'[last] # 0
        PROVE  chapters'[Key1(last - 1)].updated = visited'[last]
    <3>1. CASE n = last
      <4>1. PreviousNeedsLink(n)
        BY <2>1, <3>1 DEF PreviousNeedsLink
      <4>2. Updated(n - 1)' = t
        BY <1>1, <4>1
      <4> QED BY <1>6, <3>1, <4>2 DEF Updated
    <3>2. CASE n # last
      <4>1. visited'[last] = visited[last] /\ ~PreviousNeedsLink(n)
        BY <1>6, <3>2 DEF PreviousNeedsLink
      <4>2. t = stamp
        BY <1>1, <2>5 DEF OlderFile
      <4>3. PICK m \in Chapter : m = last - 1
        BY <2>1
      <4>4. Updated(m)' = Updated(m)
        BY <1>1, <4>1, <4>2 DEF stamp
      <4> QED BY <2>2, <2>5, <4>1, <4>3, <4>4 DEF Updated
    <3> QED BY <3>1, <3>2
  <2> QED BY <2>4, <2>5
<1> QED BY <1>13, <1>14, <1>15, <1>16, <1>17, <1>18 DEF Rest

LEMMA NextIInv == IInv /\ [Next]_vars => IInv'
<1> SUFFICES ASSUME IInv, [Next]_vars PROVE IInv'
  OBVIOUS
<1>1. Covered'
  BY NextCovered DEF IInv
<1>2. CASE UNCHANGED vars
  BY <1>1, <1>2 DEF IInv, vars, Rest, TypeOK, StampsInv, RunInv, PlainInv, TimesInv, LinkInv,
                    Updated, Fixing, Has
<1>3. CASE Finish
  <2>1. Rest'
    BY <1>3 DEF Finish, IInv, Rest, TypeOK, StampsInv, RunInv, PlainInv, TimesInv, LinkInv,
                Updated, Fixing, Has
  <2> QED BY <1>1, <2>1 DEF IInv
<1>4. CASE \E n \in Chapter : Visit(n)
  BY <1>1, <1>4, VisitRest DEF IInv
<1> QED BY <1>2, <1>3, <1>4 DEF Next

THEOREM Invariance == Spec => []IInv
<1>1. Init => IInv
  BY InitCovered, InitRest DEF IInv
<1> QED BY <1>1, NextIInv, PTL DEF Spec

(* Everything keeps its type, on any files, pages and rows; in particular  *)
(* for_chapter opens no more than the process can, and no row, page or     *)
(* cursor gets a time that no file or row had.                             *)
THEOREM Typing == Spec => []TypeOK
<1>1. IInv => TypeOK
  BY DEF IInv, Rest
<1> QED BY <1>1, Invariance, PTL

(* setupsrc's early returns (main.c:117-131): without fix_srctimes nothing *)
(* is left open, so that only a missing source can end the process,        *)
(* however many chapters there are and however often the cursor restarts.  *)
THEOREM MissingSourceOnly == Spec => []DiesOfMissing
<1>1. IInv => DiesOfMissing
  BY DEF IInv, Rest, PlainInv, DiesOfMissing
<1> QED BY <1>1, Invariance, PTL

(* fix_srctimes (main.c:127-145) makes files and rows agree, in whichever  *)
(* direction each has to be corrected and however its own corrections move *)
(* the cursor; only the chapter before the last may be marked again.       *)
THEOREM FixedTimesAgree == Spec => []TimesAgree
<1>1. IInv => TimesAgree
  BY DEF IInv, Rest, TimesInv, TimesAgree, Updated
<1> QED BY <1>1, Invariance, PTL

(* main.c:196-203: marking the chapter before the last is enough for its   *)
(* link.  The page is made with the link whenever it is made, it never     *)
(* gets a later time without being made, and its row has the last          *)
(* chapter's time: a page that was older than that is older than its row.  *)
THEOREM LinkIsDue == Spec => []LinkFollows
<1>1. IInv => LinkFollows
  <2> SUFFICES ASSUME IInv, ~Fixing, run.numchaps \in Chapter \ {1}, visited[run.numchaps] # 0,
                      before[run.numchaps - 1].mtime < visited[run.numchaps]
               PROVE  \/ page[run.numchaps - 1].next
                      \/ page[run.numchaps - 1].mtime < Updated(run.numchaps - 1)
    BY DEF LinkFollows, Updated
  <2> DEFINE m == run.numchaps - 1
  <2>1. m \in Chapter
    BY ChapterNumbers
  <2>2. /\ page[m].next \/ page[m].mtime <= before[m].mtime
        /\ Updated(m) = visited[run.numchaps]
    BY DEF IInv, Rest, LinkInv
  <2>3. page[m].mtime \in Int /\ before[m].mtime \in Int
    BY <2>1, PageTypes DEF IInv, Rest, TypeOK
  <2>4. visited[run.numchaps] \in {0} \cup Stamp
    BY DEF IInv, Rest, TypeOK
  <2>5. visited[run.numchaps] \in Int
    BY <2>4, StampNumbers
  <2> QED BY <2>2, <2>3, <2>5
<1> QED BY <1>1, Invariance, PTL
===============================================================================
