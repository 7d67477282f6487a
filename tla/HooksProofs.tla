------------------------------ MODULE HooksProofs ------------------------------
(***************************************************************************)
(* What SQLite's locks do for any number of generate processes on one      *)
(* database file, without a busy handler: no second row in `committing',   *)
(* no `after' that goes back, no chapter's change undone, and a lost run    *)
(* that the next one makes up for.                                         *)
(***************************************************************************)
EXTENDS Hooks, StoryTablesProofs

Fields == DOMAIN Idle
Locks == {"none", "shared", "reserved", "pending"}
Writing == {"reserved", "pending"}
N == Cardinality(Chapter)

(* A database file when HEAD is commit h: `after' is the time of a commit. *)
Stored(h) == {0} \cup {Times[c] : c \in 1 .. h}

IsFile(d, h) ==
  /\ DOMAIN d = {"schema", "rows", "after", "category", "stories", "chapters", "noted"}
  /\ d.schema \in BOOLEAN /\ d.category \in {"absent", "zero", "timed"}
  /\ d.rows \in Nat /\ d.rows <= 1
  /\ d.after \in Stored(h)
  /\ Consistent(d.stories, d.chapters)
  /\ d.noted \in [Chapter -> 0 .. h]

(* No chapter of a table is older, or gone, in a later one.                *)
Kept(old, new) ==
  \A k \in DOMAIN old : k \in DOMAIN new /\ Actual(old[k]) <= Actual(new[k])

(* What a process sees of file f is as far as the file, or further.        *)
NotBehind(d, f, h) ==
  /\ IsFile(d, h)
  /\ f.after <= d.after
  /\ Kept(f.chapters, d.chapters)

Early == {"off", "opening", "opened", "checking", "inserting", "checked", "begun", "head",
          "commit"}

(* How far a process r that sees d has come.  What it read for a later     *)
(* step is still so when that step is taken; `num' has a bound because     *)
(* every file counted is taken out of `todo'.                              *)
Placed(r, d, h) ==
  /\ r.pc \in PCs /\ r.back \in Nat /\ r.bound \in Int /\ r.at \in 0 .. h /\ r.count \in Nat
  /\ r.num \in 0 .. N /\ r.todo \subseteq Chapter
  /\ r.pc \in Early => r.num = 0
  /\ r.pc \in {"commit", "files", "chapter"} => r.at \in 1 .. h
  /\ r.pc = "files" => r.num + Cardinality(r.todo) <= N
  /\ r.pc = "chapter" => r.todo # {} /\ r.num + Cardinality(r.todo) <= N + 1
  /\ r.pc = "inserting" => d.rows = 0
  /\ r.pc = "commit" => d.after <= Times[r.at]
  /\ r.pc = "pages" => /\ TheStory \in DOMAIN d.stories
                       /\ r.todo \subseteq ChaptersOf(d.chapters, TheStory)

(* A process without a lock has read nothing it will go by.  One with a    *)
(* lock sees the file, or what it wrote itself.                            *)
LockPlaces == {"inserting", "head", "commit", "pages"}

Sees(r, f, h) ==
  /\ DOMAIN r = Fields /\ r.lock \in Locks
  /\ r.lock = "pending" => r.pc = "dying"
  /\ r.lock = "shared" => r.view = f
  /\ r.lock = "none" => r.pc \notin LockPlaces
  /\ Placed(r, r.view, h)
  /\ r.lock # "none" => NotBehind(r.view, f, h)

OneWriter(procs) ==
  \A p, q \in Hook : procs[p].lock \in Writing /\ procs[q].lock \in Writing => p = q

LockInv ==
  /\ modified \in Seq(SUBSET Chapter) /\ HEAD <= Len(Times)
  /\ IsFile(file, HEAD)
  /\ DOMAIN proc = Hook
  /\ \A p \in Hook : Sees(proc[p], file, HEAD)
  /\ OneWriter(proc)

(* The invariant and two of the action properties, of one step.            *)
Forward ==
  /\ LockInv'
  /\ file.after <= file'.after
  /\ Kept(file.chapters, file'.chapters)

-----------------------------------------------------------------------------
LEMMA StoredNat ==
  ASSUME LockInv
  PROVE  HEAD \in Nat /\ Stored(HEAD) \subseteq Nat /\ file.after \in Nat
<1>1. HEAD \in Nat /\ \A c \in 1 .. HEAD : Times[c] \in Nat
  BY HooksAssumption DEF LockInv, HEAD
<1> QED BY <1>1 DEF Stored, LockInv, IsFile

LEMMA ActualInt ==
  ASSUME NEW ch, IsChapterTable(ch), NEW k \in DOMAIN ch
  PROVE  Actual(ch[k]) \in Int
<1>1. ch[k] \in ChapterRow
  BY DEF IsChapterTable
<1> QED BY <1>1 DEF ChapterRow, Actual, Larger

LEMMA KeptTransitive ==
  ASSUME NEW a, NEW b, NEW c, IsChapterTable(a), IsChapterTable(b), IsChapterTable(c),
         Kept(a, b), Kept(b, c)
  PROVE  Kept(a, c)
<1> SUFFICES ASSUME NEW k \in DOMAIN a
             PROVE  k \in DOMAIN c /\ Actual(a[k]) <= Actual(c[k])
  BY DEF Kept
<1>1. k \in DOMAIN b /\ Actual(a[k]) <= Actual(b[k])
  BY DEF Kept
<1>2. k \in DOMAIN c /\ Actual(b[k]) <= Actual(c[k])
  BY <1>1 DEF Kept
<1>3. Actual(a[k]) \in Int /\ Actual(b[k]) \in Int /\ Actual(c[k]) \in Int
  BY <1>1, <1>2, ActualInt
<1> QED BY <1>1, <1>2, <1>3

LEMMA FileStays ==
  ASSUME LockInv
  PROVE  file.after <= file.after /\ Kept(file.chapters, file.chapters)
<1>1. file.after <= file.after
  BY StoredNat
<1>2. IsChapterTable(file.chapters)
  BY DEF LockInv, IsFile, Consistent
<1>3. \A k \in DOMAIN file.chapters : Actual(file.chapters[k]) \in Int
  BY <1>2, ActualInt
<1> QED BY <1>1, <1>3 DEF Kept

(* Only these fields of a process have to do with its place.               *)
LEMMA SamePlace ==
  ASSUME NEW r, NEW s, NEW d, NEW h, Placed(r, d, h),
         s.pc = r.pc, s.back = r.back, s.at = r.at, s.count = r.count, s.num = r.num,
         s.todo = r.todo, s.bound = r.bound
  PROVE  Placed(s, d, h)
BY DEF Placed

(* The steps of a process, each as the kind of statement it is.            *)
LEMMA Plain ==
  ASSUME LockInv, NEW p \in Hook
  PROVE  \A pc : /\ DOMAIN Go(p, pc) = Fields /\ Go(p, pc).pc = pc
                 /\ Go(p, pc).lock = proc[p].lock /\ Go(p, pc).at = proc[p].at
                 /\ Go(p, pc).view = proc[p].view /\ Go(p, pc).back = proc[p].back
                 /\ Go(p, pc).bound = proc[p].bound
                 /\ Go(p, pc).count = proc[p].count /\ Go(p, pc).num = proc[p].num
                  /\ Go(p, pc).todo = proc[p].todo
<1>1. Sees(proc[p], file, HEAD)
  BY DEF LockInv
<1> QED BY <1>1 DEF Go, Sees, Fields, Idle

(* Places that nothing more is known of. *)
Special == {"inserting", "commit", "files", "chapter", "pages"}

LEMMA PlainPlaced ==
  ASSUME LockInv, NEW p \in Hook
  PROVE  \A pc, d : pc \in PCs \ Special /\ (pc \in Early => proc[p].pc \in Early)
                    => Placed(Go(p, pc), d, HEAD)
<1> SUFFICES ASSUME NEW pc \in PCs \ Special, NEW d, pc \in Early => proc[p].pc \in Early
             PROVE  Placed(Go(p, pc), d, HEAD)
  OBVIOUS
<1>1. Placed(proc[p], proc[p].view, HEAD)
  BY DEF LockInv, Sees
<1> QED BY <1>1, Plain DEF Placed, Special

(* A step of p that leaves the file alone.                                 *)
LEMMA OwnStep ==
  ASSUME LockInv, NEW p \in Hook, NEW next, Sees(next, file, HEAD),
         next.lock \in Writing => \A q \in Others(p) : proc[q].lock \notin Writing,
         proc' = [proc EXCEPT ![p] = next], file' = file, modified' = modified
  PROVE  Forward
<1>1. DOMAIN proc' = Hook /\ \A q \in Hook : proc'[q] = IF q = p THEN next ELSE proc[q]
  BY DEF LockInv
<1>2. HEAD' = HEAD
  BY DEF HEAD
<1>3. \A q \in Hook : Sees(proc'[q], file, HEAD)
  BY <1>1 DEF LockInv
<1>4. OneWriter(proc')
  BY <1>1 DEF LockInv, OneWriter, Others
<1>6. IsFile(file, HEAD)
  BY DEF LockInv
<1>7. LockInv'
  BY <1>1, <1>2, <1>3, <1>4, <1>6 DEF LockInv
<1> QED BY FileStays, <1>7 DEF Forward

(* What p sees before a step, and still after one that has only read.      *)
LEMMA ViewKeeps ==
  ASSUME LockInv, NEW p \in Hook, proc[p].pc # "dying"
  PROVE  NotBehind(View(p), file, HEAD)
<1>2. Sees(proc[p], file, HEAD) /\ IsFile(file, HEAD)
  BY DEF LockInv
<1> QED BY FileStays, <1>2 DEF View, Sees, NotBehind

LEMMA DyingKeeps ==
  ASSUME LockInv, NEW p \in Hook, NEW lock \in Locks, Dies(p, lock), modified' = modified,
         lock = proc[p].lock \/ (proc[p].lock = "reserved" /\ lock = "pending")
  PROVE  Forward
<1> DEFINE next == [proc[p] EXCEPT !.pc = "dying", !.lock = lock]
<1>1. Sees(proc[p], file, HEAD)
  BY DEF LockInv
<1>2. /\ DOMAIN next = Fields /\ next.pc = "dying" /\ next.lock = lock
      /\ next.view = proc[p].view /\ next.at = proc[p].at /\ next.back = proc[p].back
      /\ next.bound = proc[p].bound
      /\ next.count = proc[p].count /\ next.num = proc[p].num /\ next.todo = proc[p].todo
  BY <1>1 DEF Sees, Fields, Idle
<1>3. Sees(next, file, HEAD)
  <2> HIDE DEF next
  <2>1. Placed(next, next.view, HEAD)
    BY <1>1, <1>2 DEF Sees, Placed, PCs, Early
  <2> QED BY <1>1, <1>2, <2>1 DEF Sees, NotBehind, LockPlaces
<1>4. lock \in Writing => \A q \in Others(p) : proc[q].lock \notin Writing
  BY DEF LockInv, OneWriter, Others, Writing, Locks
<1>5. proc' = [proc EXCEPT ![p] = next] /\ file' = file
  BY DEF Dies
<1> HIDE DEF next
<1> QED BY <1>2, <1>3, <1>4, <1>5, OwnStep

LEMMA ReadKeeps ==
  ASSUME LockInv, NEW p \in Hook, NEW next, proc[p].pc # "dying",
         DOMAIN next = Fields, next.lock = proc[p].lock,
         Placed(next, View(p), HEAD),
         Read(p, next), modified' = modified
  PROVE  Forward
<1>1. Sees(proc[p], file, HEAD)
  BY DEF LockInv
<1>2. CASE \E q \in Others(p) : proc[q].lock = "pending"
  <2>1. Dies(p, proc[p].lock) /\ proc[p].lock \in Locks
    BY <1>1, <1>2 DEF Read, Sees
  <2> QED BY <2>1, DyingKeeps
<1>3. CASE ~ \E q \in Others(p) : proc[q].lock = "pending"
  <2> DEFINE r == [next EXCEPT !.lock = IF @ = "none" THEN "shared" ELSE @, !.view = View(p)]
  <2>1. proc' = [proc EXCEPT ![p] = r] /\ file' = file
    BY <1>3 DEF Read
  <2>2. /\ DOMAIN r = Fields /\ r.pc = next.pc /\ r.at = next.at /\ r.view = View(p)
        /\ r.back = next.back /\ r.count = next.count /\ r.num = next.num
        /\ r.bound = next.bound
        /\ r.todo = next.todo
        /\ r.lock = IF proc[p].lock = "none" THEN "shared" ELSE proc[p].lock
    BY DEF Fields, Idle
  <2>3. NotBehind(View(p), file, HEAD)
    BY ViewKeeps
  <2>4. Sees(r, file, HEAD)
    <3> HIDE DEF r
    <3>1. Placed(r, View(p), HEAD)
      BY <2>2, SamePlace
    <3> QED BY <1>1, <2>2, <2>3, <3>1 DEF Sees, View, Locks
  <2>5. r.lock \in Writing => \A q \in Others(p) : proc[q].lock \notin Writing
    <3> HIDE DEF r
    <3> QED BY <2>2 DEF LockInv, OneWriter, Others, Writing
  <2> HIDE DEF r
  <2> QED BY <2>1, <2>4, <2>5, OwnStep
<1> QED BY <1>2, <1>3

LEMMA WriteKeeps ==
  ASSUME LockInv, NEW p \in Hook, NEW next, NEW view, proc[p].pc # "dying",
         DOMAIN next = Fields,
         NotBehind(view, file, HEAD), Placed(next, view, HEAD),
         Write(p, next, view), modified' = modified
  PROVE  Forward
<1>1. Sees(proc[p], file, HEAD)
  BY DEF LockInv
<1>2. CASE \E q \in Others(p) : proc[q].lock \in Writing
  <2>1. Dies(p, proc[p].lock) /\ proc[p].lock \in Locks
    BY <1>1, <1>2 DEF Write, Sees, Writing
  <2> QED BY <2>1, DyingKeeps
<1>3. CASE ~ \E q \in Others(p) : proc[q].lock \in Writing
  <2> DEFINE r == [next EXCEPT !.lock = "reserved", !.view = view]
  <2>1. proc' = [proc EXCEPT ![p] = r] /\ file' = file
    BY <1>3 DEF Write, Writing
  <2>2. /\ DOMAIN r = Fields /\ r.pc = next.pc /\ r.at = next.at /\ r.view = view
        /\ r.back = next.back /\ r.count = next.count /\ r.num = next.num
        /\ r.bound = next.bound
        /\ r.todo = next.todo /\ r.lock = "reserved"
    BY DEF Fields, Idle
  <2> HIDE DEF r
  <2>3. Placed(r, view, HEAD)
    BY <2>2, SamePlace
  <2>4. Sees(r, file, HEAD)
    BY <2>2, <2>3 DEF Sees, Locks
  <2> QED BY <1>3, <2>1, <2>4, OwnStep
<1> QED BY <1>2, <1>3

(* A commit of changes has the file to itself: whatever others had read of *)
(* it, they have given up.                                                 *)
LEMMA CommitKeeps ==
  ASSUME LockInv, NEW p \in Hook, NEW next, proc[p].pc # "dying",
         DOMAIN next = Fields, next.pc \notin LockPlaces, \A d : Placed(next, d, HEAD),
         Commit(p, next), modified' = modified
  PROVE  Forward
<1>1. Sees(proc[p], file, HEAD) /\ IsFile(file, HEAD)
  BY DEF LockInv
<1>2. CASE proc[p].lock # "reserved"
  <2> DEFINE r == [next EXCEPT !.lock = "none", !.view = EmptyTable]
  <2>1. proc' = [proc EXCEPT ![p] = r] /\ file' = file
    BY <1>2 DEF Commit
  <2>2. /\ DOMAIN r = Fields /\ r.pc = next.pc /\ r.at = next.at
        /\ r.back = next.back /\ r.count = next.count /\ r.num = next.num
        /\ r.bound = next.bound
        /\ r.todo = next.todo /\ r.lock = "none"
    BY DEF Fields, Idle
  <2> HIDE DEF r
  <2>3. Placed(r, r.view, HEAD)
    BY <2>2, SamePlace
  <2>4. Sees(r, file, HEAD)
    BY <2>2, <2>3 DEF Sees, Locks
  <2> QED BY <2>1, <2>2, <2>4, OwnStep DEF Writing
<1>3. CASE proc[p].lock = "reserved" /\ \E q \in Others(p) : proc[q].lock # "none"
  <2>1. Dies(p, "pending") /\ "pending" \in Locks
    BY <1>3 DEF Commit, Locks
  <2> QED BY <1>3, <2>1, DyingKeeps
<1>4. CASE proc[p].lock = "reserved" /\ ~ \E q \in Others(p) : proc[q].lock # "none"
  <2> DEFINE r == [next EXCEPT !.lock = "none", !.view = EmptyTable, !.marked = next.saw]
  <2>1. proc' = [proc EXCEPT ![p] = r] /\ file' = proc[p].view
    BY <1>4 DEF Commit
  <2>2. /\ DOMAIN r = Fields /\ r.pc = next.pc /\ r.at = next.at
        /\ r.back = next.back /\ r.count = next.count /\ r.num = next.num
        /\ r.bound = next.bound
        /\ r.todo = next.todo /\ r.lock = "none"
    BY DEF Fields, Idle
  <2> HIDE DEF r
  <2>3. NotBehind(proc[p].view, file, HEAD)
    BY <1>1, <1>4 DEF Sees
  <2>4. HEAD' = HEAD
    BY DEF HEAD
  <2>5. \A q \in Hook : proc'[q] = IF q = p THEN r ELSE proc[q]
    BY <2>1 DEF LockInv
  <2>6. \A q \in Hook : proc'[q].lock = "none"
    BY <1>4, <2>2, <2>5 DEF Others
  <2>7. Placed(r, r.view, HEAD)
    BY <2>2, SamePlace
  <2>8. Sees(r, file', HEAD)
    BY <2>2, <2>7 DEF Sees, Locks
  <2>9. \A q \in Others(p) : Sees(proc[q], file', HEAD)
    BY <1>4 DEF LockInv, Sees, Others
  <2>10. \A q \in Hook : Sees(proc'[q], file', HEAD)
    BY <2>5, <2>8, <2>9 DEF Others
  <2>11. OneWriter(proc')
    BY <2>6 DEF OneWriter, Writing
  <2>12. DOMAIN proc' = Hook
    BY <2>1 DEF LockInv
  <2>13. IsFile(file', HEAD)
    BY <2>1, <2>3 DEF NotBehind
  <2>14. LockInv'
    BY <2>4, <2>10, <2>11, <2>12, <2>13 DEF LockInv
  <2> QED BY <1>4, <2>1, <2>3, <2>14 DEF Forward, NotBehind
<1> QED BY <1>2, <1>3, <1>4

-----------------------------------------------------------------------------
LEMMA SawKeeps ==
  ASSUME NEW d, NEW n \in Chapter, NEW t \in Int, IsFile(file, HEAD),
         NotBehind(d, file, HEAD), TheStory \in DOMAIN d.stories
  PROVE  LET m == Saw(d, n, t)
         IN  /\ NotBehind(m, file, HEAD)
             /\ DOMAIN m.stories = DOMAIN d.stories
             /\ ChaptersOf(d.chapters, TheStory) \subseteq ChaptersOf(m.chapters, TheStory)
<1> DEFINE k == <<TheStory, n>>
           st == StoriesAfterSaw(d.stories, TheStory, t)
           ch == ChaptersAfterSaw(d.chapters, k, t)
           m == Saw(d, n, t)
<1>1. IsFile(d, HEAD) /\ Consistent(d.stories, d.chapters)
  BY DEF NotBehind, IsFile
<1>2. Consistent(st, ch)
  BY <1>1, SawChapterConsistent
<1>3. k \in Key /\ IsChapterTable(d.chapters) /\ StampsDistinctIn(d.chapters)
  BY <1>1, HooksAssumption DEF Key, Consistent
<1>4. /\ IsChapterTable(ch) /\ DOMAIN ch = DOMAIN d.chapters \cup {k}
      /\ \A x \in DOMAIN d.chapters : x # k => ch[x] = d.chapters[x]
      /\ k \in DOMAIN d.chapters => ch[k] = SeenAgain(d.chapters[k], t)
  BY <1>3, ChaptersAfterSawTable
<1>5. DOMAIN st = DOMAIN d.stories
  BY <1>1, StoriesAfterSawTable DEF Consistent
<1>6. Kept(d.chapters, ch)
  <2> SUFFICES ASSUME NEW x \in DOMAIN d.chapters
               PROVE  x \in DOMAIN ch /\ Actual(d.chapters[x]) <= Actual(ch[x])
    BY DEF Kept
  <2>1. x \in DOMAIN ch /\ Actual(d.chapters[x]) \in Int /\ d.chapters[x] \in ChapterRow
    BY <1>3, <1>4, ActualInt DEF IsChapterTable
  <2>2. CASE x # k
    BY <1>4, <2>1, <2>2
  <2>3. CASE x = k
    <3>1. Actual(d.chapters[x]) <= Actual(SeenAgain(d.chapters[x], t))
      BY <2>1, SeenAgainRow
    <3> QED BY <1>4, <2>1, <2>3, <3>1
  <2> QED BY <2>2, <2>3
<1>7. Kept(file.chapters, ch)
  <2>1. IsChapterTable(file.chapters) /\ Kept(file.chapters, d.chapters)
    BY DEF IsFile, Consistent, NotBehind
  <2> QED BY <1>3, <1>4, <1>6, <2>1, KeptTransitive
<1>8. DOMAIN d = {"schema", "rows", "after", "category", "stories", "chapters", "noted"}
  BY <1>1 DEF IsFile
<1>9. /\ DOMAIN m = DOMAIN d /\ m.stories = st /\ m.chapters = ch
      /\ m.schema = d.schema /\ m.rows = d.rows /\ m.after = d.after
      /\ m.category = d.category /\ m.noted = d.noted
  <2> HIDE DEF st, ch
  <2>1. m = [d EXCEPT !.chapters = ch, !.stories = st]
    BY DEF m, Saw, st, ch
  <2> QED BY <1>8, <2>1
<1>10. ChaptersOf(d.chapters, TheStory) \subseteq ChaptersOf(ch, TheStory)
  BY <1>4 DEF ChaptersOf
<1> HIDE DEF m, st, ch
<1>11. IsFile(m, HEAD)
  BY <1>1, <1>2, <1>9 DEF IsFile
<1> QED BY <1>5, <1>7, <1>9, <1>10, <1>11 DEF NotBehind, m

(* storydb_get_story makes the row of a story that has none.               *)
LEMMA WithStoryKeeps ==
  ASSUME NEW d, NEW t \in Int, NotBehind(d, file, HEAD)
  PROVE  LET m == WithStory(d, t)
         IN  NotBehind(m, file, HEAD) /\ TheStory \in DOMAIN m.stories
<1> DEFINE m == WithStory(d, t)
<1>1. CASE TheStory \in DOMAIN d.stories
  BY <1>1 DEF WithStory
<1>2. CASE TheStory \notin DOMAIN d.stories
  <2> DEFINE st == Put(d.stories, TheStory, NewStory(t))
  <2>1. IsFile(d, HEAD) /\ Consistent(d.stories, d.chapters)
    BY DEF NotBehind, IsFile
  <2>2. DOMAIN d.stories = {}
    BY <1>2, <2>1, HooksAssumption DEF Consistent, IsStoryTable
  <2>3. StampFree(d.stories, t) /\ TheStory \in Story
    BY <2>2, HooksAssumption DEF StampFree, UsedStamps
  <2>4. Consistent(st, d.chapters)
    BY <1>2, <2>1, <2>3, NewStoryConsistent
  <2>5. DOMAIN d = {"schema", "rows", "after", "category", "stories", "chapters", "noted"}
    BY <2>1 DEF IsFile
  <2>6. TheStory \in DOMAIN st
    BY DEF Put
  <2>7. /\ DOMAIN m = DOMAIN d /\ m.stories = st /\ m.chapters = d.chapters
        /\ m.schema = d.schema /\ m.rows = d.rows /\ m.after = d.after
        /\ m.category = d.category /\ m.noted = d.noted
    <3> HIDE DEF st
    <3>1. m = [d EXCEPT !.stories = st]
      BY <1>2 DEF m, WithStory, st
    <3> QED BY <2>5, <3>1
  <2> HIDE DEF m, st
  <2>8. IsFile(m, HEAD)
    BY <2>1, <2>4, <2>7 DEF IsFile
  <2> QED BY <2>6, <2>7, <2>8 DEF NotBehind, m
<1> QED BY <1>1, <1>2

-----------------------------------------------------------------------------
LEMMA ServedFileIs ==
  ASSUME NEW last \in Chapter
  PROVE  /\ IsFile(ServedFile(last), 1)
         /\ DOMAIN ServedFile(last).chapters = Story \X (1 .. last)
         /\ Story \X (1 .. last) \subseteq Key
<1> DEFINE st == ServedFile(last).stories
           ch == ServedFile(last).chapters
           Old == Story \X (1 .. last)
<1>1. Times[1] \in Int /\ Times[1] \in Stored(1) /\ last \in Nat /\ 1 .. last \subseteq Chapter
  <2>1. N \in Nat /\ Chapter = 1 .. N
    BY HooksAssumption, TableAssumption, FS_CardinalityType DEF N
  <2> QED BY <2>1, HooksAssumption DEF Stored
<1>2. /\ DOMAIN ServedFile(last)
           = {"schema", "rows", "after", "category", "stories", "chapters", "noted"}
      /\ ServedFile(last).schema = TRUE /\ ServedFile(last).category = "timed"
      /\ ServedFile(last).rows = 1 /\ ServedFile(last).after = Times[1]
      /\ ServedFile(last).noted = [n \in Chapter |-> IF n <= last THEN 1 ELSE 0]
      /\ st = [s \in Story |-> [NewStory(Times[1]) EXCEPT !.chapters = last]]
      /\ ch = [k \in Old |-> [created |-> k[2], updated |-> Times[1], seen |-> Times[1]]]
  BY DEF ServedFile
<1>20. Old \subseteq Key
  BY <1>1 DEF Key
<1> HIDE DEF st, ch
<1>3. /\ [NewStory(Times[1]) EXCEPT !.chapters = last] \in StoryRow
      /\ [NewStory(Times[1]) EXCEPT !.chapters = last].updated = Times[1]
  BY <1>1 DEF NewStory, StoryRow
<1>4. IsStoryTable(st) /\ StampsDistinctIn(st)
  <2>1. DOMAIN st = Story /\ \A s \in Story : st[s] \in StoryRow
    BY <1>2, <1>3
  <2>2. st = [s \in DOMAIN st |-> st[s]]
    BY <1>2
  <2>3. \A j, k \in DOMAIN st : j = k
    BY <2>1, HooksAssumption
  <2> QED BY <2>1, <2>2, <2>3 DEF IsStoryTable, StampsDistinctIn
<1>5. \A k \in Old : /\ k[1] = TheStory /\ k[1] \in Story /\ k[2] \in Int
                     /\ k = <<TheStory, k[2]>>
  <2> TAKE k \in Old
  <2>1. PICK s \in Story, n \in 1 .. last : k = <<s, n>>
    OBVIOUS
  <2> QED BY <1>1, <2>1, HooksAssumption
<1>10. ASSUME NEW k \in Old
       PROVE  /\ ch[k] = [created |-> k[2], updated |-> Times[1], seen |-> Times[1]]
              /\ ch[k].created = k[2] /\ ch[k].updated = Times[1]
  <2>1. ch[k] = [created |-> k[2], updated |-> Times[1], seen |-> Times[1]]
    BY <1>2
  <2> QED BY <2>1
<1>6. IsChapterTable(ch)
  <2>1. DOMAIN ch = Old /\ ch = [k \in DOMAIN ch |-> ch[k]]
    BY <1>2
  <2>2. ASSUME NEW k \in Old PROVE ch[k] \in ChapterRow
    <3>1. k[2] \in Int
      BY <1>5
    <3>2. ch[k] = [created |-> k[2], updated |-> Times[1], seen |-> Times[1]]
      BY <1>10
    <3> QED BY <1>1, <3>1, <3>2 DEF ChapterRow
  <2> HIDE DEF Old
  <2> QED BY <1>20, <2>1, <2>2 DEF IsChapterTable
<1>7. StampsDistinctIn(ch)
  <2>1. ASSUME NEW j \in Old, NEW k \in Old, ch[j].created = ch[k].created
        PROVE  j = k
    <3>1. ch[j].created = j[2] /\ ch[k].created = k[2]
      BY <1>10
    <3>2. j[2] = k[2]
      BY <2>1, <3>1
    <3>3. j = <<TheStory, j[2]>> /\ k = <<TheStory, k[2]>>
      BY <1>5
    <3> QED BY <3>2, <3>3
  <2> QED BY <1>2, <2>1 DEF StampsDistinctIn
<1>8. UpdatedCoveredIn(st, ch)
  <2>1. ASSUME NEW k \in DOMAIN ch
        PROVE  k[1] \in DOMAIN st /\ ch[k].updated <= st[k[1]].updated
    <3>1. k \in Old
      BY <1>2
    <3>2. k[1] \in Story /\ ch[k].updated = Times[1]
      BY <1>5, <1>10, <3>1
    <3>3. st[k[1]].updated = Times[1]
      BY <1>2, <1>3, <3>2
    <3> QED BY <1>1, <1>2, <3>2, <3>3
  <2> QED BY <2>1 DEF UpdatedCoveredIn
<1>9. Consistent(st, ch)
  BY <1>4, <1>6, <1>7, <1>8 DEF Consistent
<1>11. ServedFile(last).noted \in [Chapter -> 0 .. 1]
  BY <1>2
<1>12. Consistent(ServedFile(last).stories, ServedFile(last).chapters)
  BY <1>9 DEF st, ch
<1>13. ServedFile(last).rows \in Nat /\ ServedFile(last).rows <= 1
  BY <1>2
<1>15. TRUE \in BOOLEAN
  OBVIOUS
<1>16. ServedFile(last).schema \in BOOLEAN
  <2>1. ServedFile(last).schema = TRUE
    BY <1>2
  <2> QED BY <1>15, <2>1, Zenon
<1>14. /\ ServedFile(last).after \in Stored(1)
       /\ ServedFile(last).category \in {"absent", "zero", "timed"}
  BY <1>1, <1>2
<1>17. DOMAIN ServedFile(last).chapters = Old
  BY <1>2 DEF ch
<1> HIDE DEF Old
<1>18. IsFile(ServedFile(last), 1)
  BY <1>2, <1>11, <1>12, <1>13, <1>14, <1>16 DEF IsFile
<1> QED BY <1>17, <1>18, <1>20 DEF Old

LEMMA IdlePlaced == \A d, h : h \in Nat => Placed(Idle, d, h)
<1>1. N \in Nat
  BY TableAssumption, FS_CardinalityType DEF N
<1> QED BY <1>1 DEF Placed, Idle, PCs, Early

LEMMA InitLockInv == Init => LockInv
<1> SUFFICES ASSUME Init PROVE LockInv
  OBVIOUS
<1>1. HEAD = 1 /\ modified \in Seq(SUBSET Chapter) /\ HEAD <= Len(Times)
  BY HooksAssumption DEF Init, HEAD
<1>2. 0 \in Stored(1)
  BY DEF Stored
<1>3. IsFile(NewFile, 1)
  BY <1>2, EmptyTablesConsistent DEF IsFile, NewFile
<1>4. IsFile(file, HEAD)
  BY <1>1, <1>3, ServedFileIs DEF Init
<1>5. DOMAIN proc = Hook /\ \A p \in Hook : proc[p] = Idle
  BY DEF Init
<1>6. Sees(Idle, file, HEAD)
  <2>1. Placed(Idle, Idle.view, HEAD)
    BY <1>1, IdlePlaced
  <2> QED BY <2>1 DEF Sees, Fields, Idle, Locks, LockPlaces
<1>7. OneWriter(proc)
  BY <1>5 DEF OneWriter, Idle, Writing
<1> QED BY <1>1, <1>4, <1>5, <1>6, <1>7 DEF LockInv

(* A push only makes HEAD later.                                           *)
LEMMA PushKeeps == ASSUME LockInv, Push PROVE Forward
<1>1. /\ HEAD' = HEAD + 1 /\ HEAD \in Nat /\ HEAD' <= Len(Times)
      /\ modified' \in Seq(SUBSET Chapter) /\ file' = file /\ proc' = proc
  BY HooksAssumption DEF Push, LockInv, HEAD
<1>2. 1 .. HEAD \subseteq 1 .. HEAD' /\ 0 .. HEAD \subseteq 0 .. HEAD'
  BY <1>1
<1>3. Stored(HEAD) \subseteq Stored(HEAD')
  BY <1>2 DEF Stored
<1>4. \A d : IsFile(d, HEAD) => IsFile(d, HEAD')
  <2> SUFFICES ASSUME NEW d, IsFile(d, HEAD) PROVE IsFile(d, HEAD')
    OBVIOUS
  <2>1. d.noted \in [Chapter -> 0 .. HEAD']
    BY <1>2 DEF IsFile
  <2> QED BY <1>3, <2>1 DEF IsFile
<1>5. ASSUME NEW p \in Hook PROVE Sees(proc[p], file, HEAD')
  <2>1. Sees(proc[p], file, HEAD)
    BY DEF LockInv
  <2>2. Placed(proc[p], proc[p].view, HEAD')
    BY <1>2, <2>1 DEF Sees, Placed
  <2> QED BY <1>4, <2>1, <2>2 DEF Sees, NotBehind
<1>6. LockInv'
  BY <1>1, <1>4, <1>5 DEF LockInv
<1> QED BY <1>1, <1>6, FileStays DEF Forward

LEMMA StartKeeps == ASSUME LockInv, NEW p \in Hook, Start(p) PROVE Forward
<1> DEFINE next == Go(p, "opening")
<1>1. Sees(proc[p], file, HEAD)
  BY DEF LockInv
<1>2. proc' = [proc EXCEPT ![p] = next] /\ file' = file /\ modified' = modified
  BY DEF Start
<1>3. proc[p].pc = "off"
  BY DEF Start
<1>4. /\ DOMAIN next = Fields /\ next.pc = "opening" /\ next.lock = proc[p].lock
      /\ next.view = proc[p].view
  BY Plain
<1>5. Placed(next, next.view, HEAD)
  BY <1>3, PlainPlaced DEF PCs, Early, Special
<1> HIDE DEF next
<1>6. Sees(next, file, HEAD)
  BY <1>1, <1>3, <1>4, <1>5 DEF Sees, NotBehind, LockPlaces
<1>7. next.lock \in Writing => \A q \in Others(p) : proc[q].lock \notin Writing
  BY <1>4 DEF LockInv, OneWriter, Others
<1> QED BY <1>2, <1>6, <1>7, OwnStep

(* The end of a process, by itself or from outside.                        *)
LEMMA GoneKeeps == ASSUME LockInv, NEW p \in Hook, Gone(p) PROVE Forward
<1>1. Sees(Idle, file, HEAD)
  <2>1. HEAD \in Nat
    BY StoredNat
  <2>2. Placed(Idle, Idle.view, HEAD)
    BY <2>1, IdlePlaced
  <2> QED BY <2>2 DEF Sees, Fields, Idle, Locks, LockPlaces
<1>2. Idle.lock \notin Writing
  BY DEF Idle, Writing
<1> QED BY <1>1, <1>2, OwnStep DEF Gone

-----------------------------------------------------------------------------
(* A step that neither asks SQLite nor gets to a place that goes by what   *)
(* was read.                                                               *)
LEMMA QuietKeeps ==
  ASSUME LockInv, NEW p \in Hook, NEW next, proc[p].pc # "dying",
         DOMAIN next = Fields, next.lock = proc[p].lock, next.view = proc[p].view,
         next.pc \notin LockPlaces \/ proc[p].lock # "none",
         Placed(next, proc[p].view, HEAD),
         proc' = [proc EXCEPT ![p] = next], file' = file, modified' = modified
  PROVE  Forward
<1>1. Sees(proc[p], file, HEAD)
  BY DEF LockInv
<1>2. Sees(next, file, HEAD)
  BY <1>1 DEF Sees, NotBehind
<1>3. next.lock \in Writing => \A q \in Others(p) : proc[q].lock \notin Writing
  BY DEF LockInv, OneWriter, Others
<1> QED BY <1>2, <1>3, OwnStep

LEMMA PlainKeeps ==
  ASSUME LockInv, NEW p \in Hook, NEW pc \in PCs \ Special, proc[p].pc # "dying",
         pc \in Early => proc[p].pc \in Early, modified' = modified
  PROVE  /\ Read(p, Go(p, pc)) => Forward
         /\ pc # "head" /\ Commit(p, Go(p, pc)) => Forward
         /\ \A view : /\ Write(p, Go(p, pc), view)
                      /\ NotBehind(view, file, HEAD)
                      => Forward
<1>1. /\ DOMAIN Go(p, pc) = Fields /\ Go(p, pc).pc = pc /\ Go(p, pc).lock = proc[p].lock
      /\ \A d : Placed(Go(p, pc), d, HEAD)
  BY Plain, PlainPlaced
<1>2. ASSUME Read(p, Go(p, pc)) PROVE Forward
  BY <1>1, <1>2, ReadKeeps
<1>3. ASSUME pc # "head", Commit(p, Go(p, pc)) PROVE Forward
  <2>1. Go(p, pc).pc \notin LockPlaces
    BY <1>1, <1>3 DEF Special, LockPlaces
  <2> QED BY <1>1, <1>3, <2>1, CommitKeeps
<1>4. ASSUME NEW view, Write(p, Go(p, pc), view), NotBehind(view, file, HEAD)
      PROVE  Forward
  BY <1>1, <1>4, WriteKeeps
<1> QED BY <1>2, <1>3, <1>4

LEMMA OpeningKeeps ==
  ASSUME LockInv, NEW p \in Hook,
         Schema(p) \/ SchemaDone(p) \/ CheckCommitting(p) \/ InsertCommitting(p) \/ Opened(p)
  PROVE  Forward
<1>1. /\ Sees(proc[p], file, HEAD) /\ NotBehind(View(p), file, HEAD)
      /\ proc[p].pc # "dying" /\ modified' = modified /\ proc[p].pc \in Early
  <2>1. proc[p].pc # "dying" /\ modified' = modified /\ proc[p].pc \in Early
    BY DEF Schema, SchemaDone, CheckCommitting, InsertCommitting, Opened, Outside, Early
  <2> QED BY <2>1, ViewKeeps DEF LockInv
<1>2. {"opened", "checking", "checked", "begun"} \subseteq PCs \ Special
  BY DEF PCs, Special
<1>3. CASE Schema(p)
  <2>1. CASE View(p).schema
    <3>1. Read(p, Go(p, "opened"))
      BY <1>3, <2>1 DEF Schema
    <3> QED BY <1>1, <1>2, <3>1, PlainKeeps
  <2>2. CASE ~ View(p).schema
    <3> DEFINE d == [View(p) EXCEPT !.schema = TRUE]
    <3>1. Write(p, Go(p, "opened"), d)
      BY <1>3, <2>2 DEF Schema
    <3>2. NotBehind(d, file, HEAD)
      BY <1>1 DEF NotBehind, IsFile
    <3> HIDE DEF d
    <3> QED BY <1>1, <1>2, <3>1, <3>2, PlainKeeps
  <2> QED BY <2>1, <2>2
<1>4. CASE SchemaDone(p)
  <2>1. Commit(p, Go(p, "checking"))
    BY <1>4 DEF SchemaDone
  <2> QED BY <1>1, <1>2, <2>1, PlainKeeps
<1>5. CASE CheckCommitting(p)
  <2>1. CASE View(p).rows = 0
    <3> DEFINE next == Go(p, "inserting")
    <3>1. Read(p, next)
      BY <1>5, <2>1 DEF CheckCommitting
    <3>2. /\ DOMAIN next = Fields /\ next.pc = "inserting" /\ next.lock = proc[p].lock
          /\ next.at = proc[p].at /\ next.back = proc[p].back /\ next.num = proc[p].num
          /\ next.bound = proc[p].bound
          /\ next.count = proc[p].count /\ next.todo = proc[p].todo
      BY Plain
    <3> HIDE DEF next
    <3>3. Placed(next, View(p), HEAD)
      BY <1>1, <2>1, <3>2 DEF Placed, Sees, PCs
    <3> QED BY <1>1, <3>1, <3>2, <3>3, ReadKeeps
  <2>2. CASE View(p).rows # 0
    <3>1. Read(p, Go(p, "checked"))
      BY <1>5, <2>2 DEF CheckCommitting
    <3> QED BY <1>1, <1>2, <3>1, PlainKeeps
  <2> QED BY <2>1, <2>2
<1>6. CASE InsertCommitting(p)
  <2> DEFINE d == [View(p) EXCEPT !.rows = @ + 1]
  <2>1. proc[p].pc = "inserting" /\ Write(p, Go(p, "checking"), d)
    BY <1>6 DEF InsertCommitting
  <2>2. View(p).rows = 0
    BY <1>1, <2>1 DEF Sees, Placed, View, LockPlaces
  <2>3. NotBehind(d, file, HEAD)
    BY <1>1, <2>2 DEF NotBehind, IsFile
  <2> HIDE DEF d
  <2> QED BY <1>1, <1>2, <2>1, <2>3, PlainKeeps
<1>7. CASE Opened(p)
  <2>1. Commit(p, Go(p, "begun"))
    BY <1>7 DEF Opened
  <2> QED BY <1>1, <1>2, <2>1, PlainKeeps
<1> QED BY <1>3, <1>4, <1>5, <1>6, <1>7

(* db_saw_commit stores the time of a HEAD that was read while a lock kept *)
(* `after' from moving, and HEAD only gets later.                          *)
LEMMA ScanKeeps ==
  ASSUME LockInv, NEW p \in Hook, LastSeenCommit(p) \/ ReadHead(p) \/ OnCommit(p)
  PROVE  Forward
<1>1. /\ Sees(proc[p], file, HEAD) /\ NotBehind(View(p), file, HEAD)
      /\ proc[p].pc # "dying" /\ modified' = modified /\ proc[p].pc \in Early
  <2>1. proc[p].pc # "dying" /\ modified' = modified /\ proc[p].pc \in Early
    BY DEF LastSeenCommit, ReadHead, OnCommit, Outside, Early
  <2> QED BY <2>1, ViewKeeps DEF LockInv
<1>2. Placed(proc[p], proc[p].view, HEAD)
  BY <1>1 DEF Sees
<1>3. CASE LastSeenCommit(p)
  <2> DEFINE back == IF View(p).after = 0 THEN 0 ELSE View(p).after - Slack
             next == [Go(p, "head") EXCEPT !.back = back]
  <2>1. Read(p, next)
    BY <1>3 DEF LastSeenCommit
  <2>2. /\ DOMAIN next = Fields /\ next.pc = "head" /\ next.lock = proc[p].lock
        /\ next.at = proc[p].at /\ next.back = back /\ next.num = proc[p].num
        /\ next.bound = proc[p].bound
        /\ next.count = proc[p].count /\ next.todo = proc[p].todo
    BY Plain DEF Fields, Idle
  <2>3. back \in Nat
    <3>1. View(p).after \in Stored(HEAD)
      BY <1>1 DEF NotBehind, IsFile
    <3>2. \A c \in 1 .. HEAD : Times[c] \in Nat /\ Times[c] > Slack
      <4> TAKE c \in 1 .. HEAD
      <4>1. /\ c \in 1 .. Len(Times) /\ Times[c] \in Nat /\ Times[1] \in Nat
            /\ 1 \in 1 .. Len(Times)
        BY StoredNat, HooksAssumption DEF LockInv
      <4>2. 1 < c => Times[1] < Times[c]
        BY <4>1, HooksAssumption
      <4> QED BY <4>1, <4>2, HooksAssumption
    <3> QED BY <3>1, <3>2, HooksAssumption DEF Stored
  <2> HIDE DEF next, back
  <2>4. Placed(next, View(p), HEAD)
    BY <1>1, <1>2, <2>2, <2>3 DEF Placed, PCs
  <2> QED BY <1>1, <2>1, <2>2, <2>4, ReadKeeps
<1>4. CASE ReadHead(p)
  <2> DEFINE pc == IF /\ HEAD > 1 /\ Times[HEAD] > proc[p].back
                      /\ Times[HEAD - 1] >= proc[p].back
                   THEN "commit" ELSE "scanned"
             next == [Go(p, pc) EXCEPT !.at = HEAD]
  <2>1. /\ proc[p].pc = "head" /\ file' = file /\ proc' = [proc EXCEPT ![p] = next]
    BY <1>4 DEF ReadHead
  <2>2. /\ DOMAIN next = Fields /\ next.pc = pc /\ next.lock = proc[p].lock
        /\ next.view = proc[p].view /\ next.at = HEAD
        /\ next.back = proc[p].back /\ next.num = proc[p].num
        /\ next.bound = proc[p].bound
        /\ next.count = proc[p].count /\ next.todo = proc[p].todo
    BY Plain DEF Fields, Idle
  <2>3. proc[p].lock # "none" /\ IsFile(proc[p].view, HEAD)
    BY <1>1, <2>1 DEF Sees, NotBehind, LockPlaces
  <2>4. ASSUME HEAD > 1 PROVE HEAD \in 1 .. HEAD /\ proc[p].view.after <= Times[HEAD]
    <3>1. HEAD \in Nat /\ HEAD <= Len(Times) /\ \A c \in 1 .. HEAD : Times[c] \in Nat
      BY StoredNat, HooksAssumption DEF LockInv
    <3>2. \A c \in 1 .. HEAD : Times[c] <= Times[HEAD]
      <4> TAKE c \in 1 .. HEAD
      <4>1. c < HEAD => Times[c] < Times[HEAD]
        BY <2>4, <3>1, HooksAssumption
      <4> QED BY <3>1, <4>1
    <3>3. 0 <= Times[HEAD]
      BY <2>4, <3>1
    <3> QED BY <2>3, <2>4, <3>1, <3>2, <3>3 DEF IsFile, Stored
  <2>5. pc \in {"commit", "scanned"} /\ (pc = "commit" => HEAD > 1) /\ HEAD \in 0 .. HEAD
    BY StoredNat
  <2> HIDE DEF pc, next
  <2>6. Placed(next, proc[p].view, HEAD)
    BY <1>1, <1>2, <2>2, <2>4, <2>5 DEF Placed, PCs, Early
  <2> QED BY <1>1, <2>1, <2>2, <2>3, <2>6, QuietKeeps
<1>5. CASE OnCommit(p)
  <2> DEFINE next == [Go(p, "files") EXCEPT !.todo = modified[proc[p].at], !.saw = TRUE]
             d == [View(p) EXCEPT !.after = Times[proc[p].at]]
  <2>1. proc[p].pc = "commit" /\ Write(p, next, d)
    BY <1>5 DEF OnCommit
  <2>2. /\ DOMAIN next = Fields /\ next.pc = "files" /\ next.at = proc[p].at
        /\ next.back = proc[p].back /\ next.num = proc[p].num
        /\ next.bound = proc[p].bound
        /\ next.count = proc[p].count /\ next.todo = modified[proc[p].at]
    BY Plain DEF Fields, Idle
  <2>3. /\ View(p) = proc[p].view
        /\ proc[p].at \in 1 .. HEAD /\ View(p).after <= Times[proc[p].at]
    BY <1>1, <1>2, <2>1 DEF Sees, Placed, View, LockPlaces
  <2>4. NotBehind(d, file, HEAD)
    <3>1. Times[proc[p].at] \in Stored(HEAD) /\ Stored(HEAD) \subseteq Nat
      BY <2>3, StoredNat DEF Stored
    <3>2. NotBehind(View(p), file, HEAD)
      BY <1>1
    <3>3. file.after <= Times[proc[p].at]
      BY <2>3, <3>1, <3>2, StoredNat DEF NotBehind, IsFile
    <3> QED BY <3>1, <3>2, <3>3 DEF NotBehind, IsFile
  <2>5. modified[proc[p].at] \in SUBSET Chapter
    BY <2>3 DEF LockInv, HEAD
  <2>6. Cardinality(modified[proc[p].at]) <= N
    BY <2>5, TableAssumption, FS_Subset DEF N
  <2>7. Cardinality(modified[proc[p].at]) \in Nat
    BY <2>5, TableAssumption, FS_Subset, FS_CardinalityType
  <2> HIDE DEF next, d
  <2>8. Placed(next, d, HEAD)
    BY <1>1, <1>2, <2>1, <2>2, <2>5, <2>6, <2>7 DEF Placed, PCs, Early
  <2> QED BY <1>1, <2>1, <2>2, <2>4, <2>8, WriteKeeps
<1> QED BY <1>3, <1>4, <1>5

LEMMA ChapterKeeps ==
  ASSUME LockInv, NEW p \in Hook, OnChapter(p) \/ SawChapter(p) \/ AllSeen(p) \/ Scanned(p)
  PROVE  Forward
<1>1. /\ proc[p].pc # "dying" /\ modified' = modified
      /\ NotBehind(View(p), file, HEAD)
      /\ IsFile(file, HEAD) /\ Placed(proc[p], proc[p].view, HEAD)
  <2>1. proc[p].pc # "dying" /\ modified' = modified
    BY DEF OnChapter, SawChapter, AllSeen, Scanned, Outside
  <2> QED BY <2>1, ViewKeeps DEF LockInv, Sees
<1>2. /\ proc[p].todo \subseteq Chapter /\ IsFiniteSet(proc[p].todo)
      /\ Cardinality(proc[p].todo) \in Nat /\ N \in Nat
  BY <1>1, TableAssumption, FS_Subset, FS_CardinalityType DEF Placed, N
<1>3. CASE OnChapter(p)
  <2> DEFINE next == [Go(p, "chapter") EXCEPT !.num = @ + 1]
  <2>1. proc[p].pc = "files" /\ proc[p].todo # {}
    BY <1>3 DEF OnChapter
  <2>2. /\ DOMAIN next = Fields /\ next.pc = "chapter" /\ next.lock = proc[p].lock
        /\ next.view = proc[p].view /\ next.at = proc[p].at /\ next.back = proc[p].back
        /\ next.bound = proc[p].bound
        /\ next.num = proc[p].num + 1 /\ next.count = proc[p].count
        /\ next.todo = proc[p].todo
    BY Plain DEF Fields, Idle
  <2>3. Commit(p, next) \/ (proc' = [proc EXCEPT ![p] = next] /\ file' = file)
    BY <1>3 DEF OnChapter
  <2> HIDE DEF next
  <2>4. Cardinality(proc[p].todo) # 0
    BY <1>2, <2>1, FS_EmptySet
  <2>5. \A d : Placed(next, d, HEAD)
    BY <1>1, <1>2, <2>1, <2>2, <2>4 DEF Placed, PCs, Early
  <2>6. next.pc \notin LockPlaces
    BY <2>2 DEF LockPlaces
  <2> QED BY <1>1, <2>2, <2>3, <2>5, <2>6, CommitKeeps, QuietKeeps
<1>4. CASE SawChapter(p)
  <2> DEFINE t == Times[proc[p].at]
             w == WithStory(View(p), t)
             saw(n) == Saw(w, n, t)
             changes(n) == SawChanges(View(p).chapters, <<TheStory, n>>, t)
             next(n) == [Go(p, "files") EXCEPT !.todo = @ \ {n}, !.restart = @ \/ changes(n)]
             d(n) == [saw(n) EXCEPT !.noted[n] = Larger(@, proc[p].at)]
  <2>1. proc[p].pc = "chapter"
    BY <1>4 DEF SawChapter
  <2>2. PICK n \in proc[p].todo : Write(p, next(n), d(n))
    BY <1>4 DEF SawChapter
  <2>3. /\ DOMAIN next(n) = Fields /\ next(n).pc = "files" /\ next(n).at = proc[p].at
        /\ next(n).back = proc[p].back /\ next(n).num = proc[p].num
        /\ next(n).bound = proc[p].bound
        /\ next(n).count = proc[p].count /\ next(n).todo = proc[p].todo \ {n}
    BY Plain DEF Fields, Idle
  <2>4. n \in Chapter /\ proc[p].at \in 1 .. HEAD /\ t \in Int
    <3>1. n \in Chapter /\ proc[p].at \in 1 .. HEAD
      BY <1>1, <1>2, <2>1 DEF Placed
    <3>2. HEAD \in Nat /\ HEAD <= Len(Times)
      BY StoredNat DEF LockInv
    <3> QED BY <3>1, <3>2, HooksAssumption
  <2> HIDE DEF t
  <2>5. NotBehind(w, file, HEAD) /\ TheStory \in DOMAIN w.stories
    BY <1>1, <2>4, WithStoryKeeps
  <2> HIDE DEF w
  <2>6. NotBehind(saw(n), file, HEAD)
    BY <1>1, <2>4, <2>5, SawKeeps
  <2>7. NotBehind(d(n), file, HEAD)
    <3> DEFINE a == saw(n)
               x == Larger(a.noted[n], proc[p].at)
    <3>1. IsFile(a, HEAD)
      BY <2>6 DEF NotBehind
    <3> HIDE DEF a
    <3>2. x \in 0 .. HEAD
      BY <2>4, <3>1, StoredNat DEF IsFile, Larger
    <3>3. d(n) = [a EXCEPT !.noted = [a.noted EXCEPT ![n] = x]]
      BY DEF a
    <3>4. [a.noted EXCEPT ![n] = x] \in [Chapter -> 0 .. HEAD]
      BY <3>1, <3>2 DEF IsFile
    <3> DEFINE new == [a.noted EXCEPT ![n] = x]
    <3> HIDE DEF new, x, d
    <3>5. NotBehind([a EXCEPT !.noted = new], file, HEAD)
      BY <2>6, <3>4 DEF NotBehind, IsFile, new, a
    <3> QED BY <3>3, <3>5 DEF new
  <2>8. Cardinality(proc[p].todo \ {n}) = Cardinality(proc[p].todo) - 1
    BY <1>2, FS_RemoveElement
  <2> HIDE DEF next, d
  <2>9. Placed(next(n), d(n), HEAD)
    BY <1>1, <1>2, <2>1, <2>3, <2>8 DEF Placed, PCs, Early
  <2> QED BY <1>1, <2>2, <2>3, <2>7, <2>9, WriteKeeps
<1>5. CASE AllSeen(p)
  <2> DEFINE next == Go(p, "scanned")
  <2>1. file' = file /\ proc' = [proc EXCEPT ![p] = next]
    BY <1>5 DEF AllSeen
  <2>2. /\ DOMAIN next = Fields /\ next.pc = "scanned" /\ next.lock = proc[p].lock
        /\ next.view = proc[p].view
    BY Plain
  <2>3. Placed(next, proc[p].view, HEAD) /\ "scanned" \notin LockPlaces
    BY PlainPlaced DEF PCs, Early, Special, LockPlaces
  <2> HIDE DEF next
  <2> QED BY <1>1, <2>1, <2>2, <2>3, QuietKeeps
<1>6. CASE Scanned(p)
  <2>1. Commit(p, Go(p, "category"))
    BY <1>6 DEF Scanned
  <2>2. "category" \in PCs \ Special /\ "category" \notin Early
    BY DEF PCs, Special, Early
  <2> QED BY <1>1, <2>1, <2>2, PlainKeeps
<1> QED BY <1>3, <1>4, <1>5, <1>6

(* A new category is made only by a process about to die of it.            *)
LEMMA CategoryKeeps ==
  ASSUME LockInv, NEW p \in Hook, GetCategory(p) \/ Chosen(p)
  PROVE  Forward
<1>1. /\ proc[p].pc # "dying" /\ modified' = modified
      /\ NotBehind(View(p), file, HEAD)
  <2>1. proc[p].pc # "dying" /\ modified' = modified
    BY DEF GetCategory, Chosen, Outside
  <2> QED BY <2>1, ViewKeeps
<1>2. {"chosen", "dying", "stories"} \subseteq (PCs \ Special) \ Early
  BY DEF PCs, Special, Early
<1>3. CASE GetCategory(p)
  <2>1. CASE View(p).category = "absent"
    <3> DEFINE d == [View(p) EXCEPT !.category = "zero"]
    <3>1. Write(p, Go(p, "dying"), d)
      BY <1>3, <2>1 DEF GetCategory
    <3>2. NotBehind(d, file, HEAD)
      BY <1>1 DEF NotBehind, IsFile
    <3> HIDE DEF d
    <3> QED BY <1>1, <1>2, <3>1, <3>2, PlainKeeps
  <2>2. CASE View(p).category # "absent"
    <3>1. Read(p, Go(p, "chosen")) \/ Read(p, Go(p, "dying"))
      BY <1>3, <2>2 DEF GetCategory
    <3> QED BY <1>1, <1>2, <3>1, PlainKeeps
  <2> QED BY <2>1, <2>2
<1>4. CASE Chosen(p)
  <2>1. Commit(p, Go(p, "stories"))
    BY <1>4 DEF Chosen
  <2> QED BY <1>1, <1>2, <2>1, PlainKeeps
<1> QED BY <1>3, <1>4

LEMMA StoriesKeeps == ASSUME LockInv, NEW p \in Hook, ForStory(p) PROVE Forward
<1> DEFINE d == View(p)
           count == CountChapters(d.chapters, TheStory)
           marks == count # d.stories[TheStory].chapters /\ count > 1
           m == IF marks THEN Saw(d, count - 1, d.stories[TheStory].updated) ELSE d
           changes == marks /\ SawChanges(d.chapters, <<TheStory, count - 1>>,
                                          d.stories[TheStory].updated)
           next == [Go(p, "pages") EXCEPT
                      !.todo = DueChapters(m.chapters, TheStory, proc[p].back, count, TRUE),
                      !.bound = proc[p].back, !.restart = @ \/ changes, !.count = count]
<1>1. /\ proc[p].pc # "dying" /\ modified' = modified
      /\ NotBehind(d, file, HEAD)
      /\ IsFile(file, HEAD) /\ Placed(proc[p], proc[p].view, HEAD)
  <2>1. proc[p].pc # "dying" /\ modified' = modified
    BY DEF ForStory, Outside
  <2> QED BY <2>1, ViewKeeps DEF LockInv, Sees
<1>2. CASE TheStory \notin DueStories(d.stories, proc[p].back)
  <2>1. Read(p, Go(p, "exported"))
    BY <1>2 DEF ForStory
  <2>2. "exported" \in (PCs \ Special) \ Early
    BY DEF PCs, Special, Early
  <2> QED BY <1>1, <2>1, <2>2, PlainKeeps
<1>3. CASE TheStory \in DueStories(d.stories, proc[p].back)
  <2>1. IF marks THEN Write(p, next, m) ELSE Read(p, next)
    BY <1>3 DEF ForStory
  <2>2. /\ TheStory \in DOMAIN d.stories /\ d.stories[TheStory] \in StoryRow
        /\ d.stories[TheStory].updated \in Int
    <3>1. TheStory \in DOMAIN d.stories
      BY <1>3 DEF DueStories
    <3>2. d.stories[TheStory] \in StoryRow
      BY <1>1, <3>1 DEF NotBehind, IsFile, Consistent, IsStoryTable
    <3> QED BY <3>1, <3>2 DEF StoryRow
  <2>3. count \in 0 .. N /\ N \in Nat
    <3>1. ChaptersOf(d.chapters, TheStory) \in SUBSET Chapter
      BY DEF ChaptersOf
    <3>2. IsFiniteSet(ChaptersOf(d.chapters, TheStory)) /\ count <= N
      BY <3>1, TableAssumption, FS_Subset DEF CountChapters, N
    <3> QED BY <3>2, TableAssumption, FS_CardinalityType DEF CountChapters, N
  <2>4. ASSUME marks PROVE count - 1 \in Chapter
    <3>1. Chapter = 1 .. N
      BY HooksAssumption DEF N
    <3> QED BY <2>3, <2>4, <3>1
  <2>5. NotBehind(m, file, HEAD) /\ DOMAIN m.stories = DOMAIN d.stories
    <3>1. CASE marks
      <4> DEFINE n == count - 1
                 t == d.stories[TheStory].updated
      <4>1. n \in Chapter /\ t \in Int
        BY <2>2, <2>4, <3>1
      <4>2. m = Saw(d, n, t)
        BY <3>1
      <4> HIDE DEF n, t, m, d
      <4> QED BY <1>1, <2>2, <4>1, <4>2, SawKeeps
    <3>2. CASE ~marks
      BY <1>1, <3>2
    <3> QED BY <3>1, <3>2
  <2> DEFINE due == DueChapters(m.chapters, TheStory, proc[p].back, count, TRUE)
  <2>6. /\ DOMAIN next = Fields /\ next.pc = "pages" /\ next.lock = proc[p].lock
        /\ next.at = proc[p].at /\ next.back = proc[p].back /\ next.num = proc[p].num
        /\ next.bound = proc[p].back
        /\ next.count = count /\ next.todo = due
    BY Plain DEF Fields, Idle
  <2>7. due \subseteq ChaptersOf(m.chapters, TheStory) /\ due \subseteq Chapter
    BY DEF DueChapters, ChaptersOf
  <2> HIDE DEF due, count, next, m
  <2>8. Placed(next, m, HEAD)
    BY <1>1, <2>2, <2>3, <2>5, <2>6, <2>7 DEF Placed, PCs, Early
  <2>9. CASE marks
    <3>1. Write(p, next, m)
      BY <2>1, <2>9
    <3> QED BY <1>1, <2>5, <2>6, <2>8, <3>1, WriteKeeps
  <2>10. CASE ~marks
    <3>1. Read(p, next) /\ m = View(p)
      BY <2>1, <2>10 DEF m
    <3> QED BY <1>1, <2>6, <2>8, <3>1, ReadKeeps
  <2> QED BY <2>9, <2>10
<1> QED BY <1>2, <1>3

LEMMA PagesKeeps == ASSUME LockInv, NEW p \in Hook, ForChapter(p) PROVE Forward
<1>1. /\ proc[p].pc = "pages" /\ modified' = modified
      /\ NotBehind(View(p), file, HEAD)
      /\ IsFile(file, HEAD) /\ Sees(proc[p], file, HEAD)
  <2>1. proc[p].pc = "pages" /\ modified' = modified
    BY DEF ForChapter
  <2> QED BY <2>1, ViewKeeps DEF LockInv
<1>2. proc[p].lock # "none" /\ View(p) = proc[p].view /\ Placed(proc[p], View(p), HEAD)
  BY <1>1 DEF Sees, View, LockPlaces
<1> DEFINE d == View(p)
           t(n) == d.chapters[<<TheStory, n>>].updated
           links(n) == n > 1 /\ n = proc[p].count
           m(n) == IF links(n) THEN Saw(d, n - 1, t(n)) ELSE d
           restarts(n) == \/ proc[p].restart
                          \/ links(n) /\ SawChanges(d.chapters, <<TheStory, n - 1>>, t(n))
           again(n) == DueChapters(m(n).chapters, TheStory, t(n), proc[p].count, TRUE)
           waiting(n) == {other \in proc[p].todo \ {n} : d.noted[other] > page[other].head}
           next(n) == IF restarts(n)
                      THEN [proc[p] EXCEPT !.todo = again(n), !.bound = t(n), !.restart = FALSE,
                                           !.any = TRUE,
                                           !.cut = @ \/ ~(waiting(n) \subseteq again(n))]
                      ELSE [proc[p] EXCEPT !.todo = @ \ {n}, !.any = TRUE]
<1>3. PICK n \in proc[p].todo :
        Write(p, next(n), m(n)) \/ (Read(p, next(n)) /\ ~links(n))
  BY DEF ForChapter
<1>4. n \in ChaptersOf(d.chapters, TheStory) /\ TheStory \in DOMAIN d.stories
  BY <1>1, <1>2 DEF Placed
<1>5. n \in Chapter /\ t(n) \in Int
  <2>1. n \in Chapter /\ <<TheStory, n>> \in DOMAIN d.chapters
    BY <1>4 DEF ChaptersOf
  <2>2. IsChapterTable(d.chapters)
    BY <1>1 DEF NotBehind, IsFile, Consistent
  <2> QED BY <2>1, <2>2 DEF IsChapterTable, ChapterRow
<1>6. /\ NotBehind(m(n), file, HEAD)
      /\ DOMAIN m(n).stories = DOMAIN d.stories
      /\ ChaptersOf(d.chapters, TheStory) \subseteq ChaptersOf(m(n).chapters, TheStory)
  <2>1. CASE links(n)
    <3> DEFINE k == n - 1
               s == t(n)
    <3>1. k \in Chapter /\ s \in Int
      <4>1. Chapter = 1 .. N /\ N \in Nat
        BY HooksAssumption, TableAssumption, FS_CardinalityType DEF N
      <4> QED BY <1>5, <2>1, <4>1
    <3>2. m(n) = Saw(d, k, s)
      BY <2>1
    <3> HIDE DEF k, s, m, d
    <3> QED BY <1>1, <1>4, <3>1, <3>2, SawKeeps DEF d
  <2>2. CASE ~links(n)
    BY <1>1, <2>2
  <2> QED BY <2>1, <2>2
<1>7. /\ DOMAIN next(n) = Fields /\ next(n).pc = "pages" /\ next(n).lock = proc[p].lock
      /\ next(n).at = proc[p].at /\ next(n).back = proc[p].back
      /\ next(n).num = proc[p].num /\ next(n).count = proc[p].count
      /\ next(n).todo \in {proc[p].todo \ {n}, again(n)}
      /\ next(n).bound \in {proc[p].bound, t(n)}
  <2>1. DOMAIN proc[p] = Fields /\ proc[p].pc = "pages"
    BY <1>1 DEF Sees
  <2>2. CASE restarts(n)
    BY <2>1, <2>2 DEF Fields, Idle
  <2>3. CASE ~restarts(n)
    BY <2>1, <2>3 DEF Fields, Idle
  <2> QED BY <2>2, <2>3
<1>12. again(n) \subseteq ChaptersOf(m(n).chapters, TheStory) /\ again(n) \subseteq Chapter
  BY DEF DueChapters, ChaptersOf
<1>8. ~links(n) => m(n) = d
  OBVIOUS
<1> HIDE DEF next, m, links, again, t, d
<1>9. Placed(next(n), m(n), HEAD)
  <2>1. /\ proc[p].back \in Nat /\ proc[p].at \in 0 .. HEAD /\ proc[p].count \in Nat
        /\ proc[p].num \in 0 .. N /\ proc[p].bound \in Int /\ proc[p].todo \subseteq Chapter
        /\ proc[p].todo \subseteq ChaptersOf(d.chapters, TheStory)
    BY <1>1, <1>2 DEF Placed, d
  <2>2. next(n).todo \subseteq Chapter /\ next(n).bound \in Int
    BY <1>5, <1>7, <1>12, <2>1
  <2>3. /\ TheStory \in DOMAIN m(n).stories
        /\ next(n).todo \subseteq ChaptersOf(m(n).chapters, TheStory)
    BY <1>4, <1>6, <1>7, <1>12, <2>1
  <2> QED BY <1>7, <2>1, <2>2, <2>3 DEF Placed, PCs, Early
<1>10. CASE Write(p, next(n), m(n))
  BY <1>1, <1>6, <1>7, <1>9, <1>10, WriteKeeps
<1>11. CASE Read(p, next(n)) /\ ~links(n)
  BY <1>1, <1>7, <1>8, <1>9, <1>11, ReadKeeps DEF d
<1> QED BY <1>3, <1>10, <1>11

LEMMA ExportKeeps ==
  ASSUME LockInv, NEW p \in Hook,
         StoryDone(p) \/ Exported(p) \/ CaughtUpCategory(p) \/ CloseAndExit(p)
  PROVE  Forward
<1>1. /\ proc[p].pc # "dying" /\ modified' = modified
      /\ NotBehind(View(p), file, HEAD)
      /\ IsFile(file, HEAD) /\ Sees(proc[p], file, HEAD)
  <2>1. proc[p].pc # "dying" /\ modified' = modified
    BY DEF StoryDone, Exported, CaughtUpCategory, CloseAndExit, Outside
  <2> QED BY <2>1, ViewKeeps DEF LockInv
<1>2. {"exported", "done", "closing"} \subseteq (PCs \ Special) \ Early
  BY DEF PCs, Special, Early
<1>3. CASE StoryDone(p)
  <2> DEFINE d == View(p)
             st == [d.stories EXCEPT ![TheStory].chapters = proc[p].count]
             new == [d EXCEPT !.stories = st]
  <2>1. Write(p, Go(p, "exported"), new) \/ Read(p, Go(p, "exported"))
    BY <1>3 DEF StoryDone
  <2>2. proc[p].pc = "pages" /\ proc[p].count \in Nat /\ TheStory \in DOMAIN d.stories
    BY <1>1, <1>3 DEF StoryDone, Sees, Placed, View, LockPlaces
  <2>3. IsFile(d, HEAD) /\ IsStoryTable(d.stories) /\ Consistent(d.stories, d.chapters)
    BY <1>1 DEF NotBehind, IsFile, Consistent
  <2>4. /\ IsStoryTable(st) /\ DOMAIN st = DOMAIN d.stories
        /\ \A s \in DOMAIN d.stories : /\ st[s].created = d.stories[s].created
                                       /\ st[s].updated = d.stories[s].updated
    <3>1. d.stories \in [DOMAIN d.stories -> StoryRow] /\ DOMAIN d.stories \subseteq Story
      BY <2>3 DEF IsStoryTable
    <3>2. [d.stories[TheStory] EXCEPT !.chapters = proc[p].count] \in StoryRow
      BY <2>2, <3>1 DEF StoryRow
    <3>3. /\ st \in [DOMAIN d.stories -> StoryRow]
          /\ \A s \in DOMAIN d.stories :
               st[s] = IF s = TheStory
                       THEN [d.stories[TheStory] EXCEPT !.chapters = proc[p].count]
                       ELSE d.stories[s]
      BY <2>2, <3>1, <3>2
    <3>4. \A s \in DOMAIN d.stories : d.stories[s] \in StoryRow
      BY <3>1
    <3> HIDE DEF st
    <3> QED BY <3>1, <3>3, <3>4 DEF IsStoryTable, StoryRow
  <2> HIDE DEF st
  <2>5. Consistent(st, d.chapters)
    BY <2>3, <2>4, SameStampsConsistent
  <2>6. NotBehind(new, file, HEAD)
    BY <1>1, <2>5 DEF NotBehind, IsFile
  <2> HIDE DEF new
  <2> QED BY <1>1, <1>2, <2>1, <2>6, PlainKeeps
<1>4. CASE Exported(p)
  <2> DEFINE next == [Go(p, "done") EXCEPT !.saw = FALSE, !.marked = FALSE]
  <2>1. Commit(p, next)
    BY <1>4 DEF Exported
  <2>2. /\ DOMAIN next = Fields /\ next.pc = "done"
        /\ next.at = Go(p, "done").at /\ next.back = Go(p, "done").back
        /\ next.bound = Go(p, "done").bound
        /\ next.num = Go(p, "done").num /\ next.count = Go(p, "done").count
        /\ next.todo = Go(p, "done").todo /\ Go(p, "done").pc = "done"
    BY Plain DEF Fields, Idle
  <2>3. \A d : Placed(Go(p, "done"), d, HEAD)
    BY <1>2, PlainPlaced
  <2> HIDE DEF next
  <2>4. \A d : Placed(next, d, HEAD)
    BY <2>2, <2>3, SamePlace
  <2> QED BY <1>1, <2>1, <2>2, <2>4, CommitKeeps DEF LockPlaces
<1>5. CASE CaughtUpCategory(p)
  <2>1. Write(p, Go(p, "closing"), View(p))
    BY <1>5 DEF CaughtUpCategory
  <2> QED BY <1>1, <1>2, <2>1, PlainKeeps
<1>6. CASE CloseAndExit(p)
  <2>1. Commit(p, Idle)
    BY <1>6 DEF CloseAndExit
  <2>2. DOMAIN Idle = Fields /\ Idle.pc \notin LockPlaces
    BY DEF Fields, Idle, LockPlaces
  <2>3. \A d : Placed(Idle, d, HEAD)
    BY StoredNat, IdlePlaced
  <2> QED BY <1>1, <2>1, <2>2, <2>3, CommitKeeps
<1> QED BY <1>3, <1>4, <1>5, <1>6

-----------------------------------------------------------------------------
LEMMA NextForward == LockInv /\ [Next]_vars => Forward
<1> SUFFICES ASSUME LockInv, [Next]_vars PROVE Forward
  OBVIOUS
<1>1. CASE Push
  BY <1>1, PushKeeps
<1>2. ASSUME NEW p \in Hook, Start(p) PROVE Forward
  BY <1>2, StartKeeps
<1>3. ASSUME NEW p \in Hook, Kill(p) PROVE Forward
  BY <1>3, GoneKeeps DEF Kill
<1>4. ASSUME NEW p \in Hook, Step(p) PROVE Forward
  BY <1>4, OpeningKeeps, ScanKeeps, ChapterKeeps, CategoryKeeps, StoriesKeeps, PagesKeeps,
     ExportKeeps, GoneKeeps DEF Step, Exit
<1>5. CASE UNCHANGED vars
  BY <1>5, FileStays DEF Forward, LockInv, HEAD, vars
<1> QED BY <1>1, <1>2, <1>3, <1>4, <1>5 DEF Next

LEMMA LocksHold == Spec => []LockInv
<1>1. LockInv /\ [Next]_vars => LockInv'
  BY NextForward DEF Forward
<1> QED BY <1>1, InitLockInv, PTL DEF Spec

(* The pages, which only a step of for_chapter touches.                    *)
PagesInv ==
  /\ DOMAIN page = Chapter
  /\ \A n \in Chapter : page[n].mtime \in Int /\ page[n].head \in 0 .. HEAD

LEMMA InitPages == Init => PagesInv
<1> SUFFICES ASSUME Init PROVE PagesInv
  OBVIOUS
<1>1. HEAD = 1 /\ Times[1] \in Int
  BY HooksAssumption DEF Init, HEAD
<1>2. file.noted \in [Chapter -> 0 .. 1]
  BY <1>1, InitLockInv DEF LockInv, IsFile
<1>3. \A n \in Chapter : file.noted[n] = 0 \/ file.noted[n] = 1
  BY <1>2
<1>4. /\ DOMAIN page = Chapter
      /\ \A n \in Chapter : /\ page[n].head = file.noted[n]
                            /\ page[n].mtime = IF file.noted[n] = 0 THEN 0
                                               ELSE Times[file.noted[n]]
  BY DEF Init
<1> QED BY <1>1, <1>3, <1>4 DEF PagesInv

LEMMA NextPages == ASSUME LockInv, PagesInv, [Next]_vars PROVE PagesInv'
<1>1. HEAD \in Nat /\ HEAD' \in Nat /\ HEAD <= HEAD'
  <2>1. HEAD \in Nat
    BY StoredNat
  <2>2. CASE Push
    BY <2>1, <2>2 DEF Push, HEAD, LockInv
  <2>3. CASE UNCHANGED modified
    BY <2>1, <2>3 DEF HEAD
  <2>4. Push \/ UNCHANGED modified
    BY DEF Next, vars, Start, Kill, Gone, Step, Schema, SchemaDone, CheckCommitting,
           InsertCommitting, Opened, LastSeenCommit, ReadHead, OnCommit, OnChapter,
           SawChapter, AllSeen, Scanned, GetCategory, Chosen, ForStory, ForChapter,
           StoryDone, Exported, CaughtUpCategory, CloseAndExit, Exit, Outside
  <2> QED BY <2>2, <2>3, <2>4
<1>2. CASE UNCHANGED page
  BY <1>1, <1>2 DEF PagesInv
<1>3. ASSUME NEW p \in Hook, ForChapter(p), page' # page PROVE PagesInv'
  <2> DEFINE t(n) == View(p).chapters[<<TheStory, n>>].updated
  <2>1. PICK n \in proc[p].todo : page' = [page EXCEPT ![n] = [mtime |-> t(n), head |-> HEAD]]
    BY <1>3 DEF ForChapter
  <2>2. proc[p].pc = "pages" /\ Sees(proc[p], file, HEAD) /\ HEAD' = HEAD
    BY <1>3 DEF ForChapter, LockInv, HEAD
  <2>3. /\ View(p) = proc[p].view /\ IsFile(View(p), HEAD)
        /\ n \in ChaptersOf(View(p).chapters, TheStory)
    BY <2>2 DEF Sees, Placed, View, LockPlaces, NotBehind
  <2>4. IsChapterTable(View(p).chapters) /\ <<TheStory, n>> \in DOMAIN View(p).chapters
    BY <2>3 DEF IsFile, Consistent, ChaptersOf
  <2>5. t(n) \in Int
    BY <2>4 DEF IsChapterTable, ChapterRow
  <2> HIDE DEF t
  <2> QED BY <1>1, <2>1, <2>2, <2>5 DEF PagesInv
<1>4. UNCHANGED page \/ \E p \in Hook : ForChapter(p)
  BY DEF Next, vars, Push, Start, Kill, Gone, Step, Schema, SchemaDone, CheckCommitting,
         InsertCommitting, Opened, LastSeenCommit, ReadHead, OnCommit, OnChapter,
         SawChapter, AllSeen, Scanned, GetCategory, Chosen, ForStory,
         StoryDone, Exported, CaughtUpCategory, CloseAndExit, Exit, Outside
<1> QED BY <1>2, <1>3, <1>4

(* What the processes and the file are, whatever the number of processes   *)
(* and of chapters: `num' in particular never counts further than there    *)
(* are chapters, and two processes never hold the lock to write.           *)
THEOREM Typing == Spec => []TypeOK
<1>1. LockInv /\ PagesInv => TypeOK
  <2> SUFFICES ASSUME LockInv, PagesInv PROVE TypeOK
    OBVIOUS
  <2>1. \A d : IsFile(d, HEAD) => IsDatabase(d)
    <3> SUFFICES ASSUME NEW d, IsFile(d, HEAD) PROVE IsDatabase(d)
      OBVIOUS
    <3>1. d.after \in Nat
      BY StoredNat DEF IsFile
    <3>2. d.schema \in BOOLEAN
      BY Zenon DEF IsFile
    <3> QED BY <3>1, <3>2 DEF IsFile, IsDatabase, Consistent
  <2>2. ASSUME NEW p \in Hook
        PROVE  /\ proc[p].pc \in PCs
               /\ proc[p].lock \in {"none", "shared", "reserved", "pending"}
               /\ proc[p].lock # "none" => IsDatabase(proc[p].view)
               /\ proc[p].back \in Nat /\ proc[p].bound \in Int /\ proc[p].at \in 0 .. HEAD
               /\ proc[p].num \in 0 .. Cardinality(Chapter) /\ proc[p].todo \subseteq Chapter
    <3>1. Sees(proc[p], file, HEAD)
      BY DEF LockInv
    <3> QED BY <2>1, <3>1 DEF Sees, Locks, NotBehind, Placed, N
  <2>3. IsDatabase(file)
    BY <2>1 DEF LockInv
  <2> QED BY <2>2, <2>3 DEF TypeOK, LockInv, PagesInv, OneWriter, Writing
<1>2. LockInv /\ PagesInv /\ [Next]_vars => PagesInv'
  BY NextPages
<1> QED BY <1>1, <1>2, InitPages, LocksHold, PTL DEF Spec

(* However many processes open a new database at once, the SELECT and the  *)
(* INSERT of db.c:140-148 leave one row in `committing': the SELECT's lock *)
(* keeps the answer true until the INSERT is committed.                    *)
THEOREM OneRow == Spec => []OneCommittingRow
<1>1. LockInv => OneCommittingRow
  BY DEF LockInv, IsFile, OneCommittingRow
<1> QED BY <1>1, LocksHold, PTL

(* No process, however slow, ever stores an older time than another has    *)
(* stored before it: `after' is read, HEAD is read and `after' is written  *)
(* (db.c:176-235, main.c:530-566) under one lock.                          *)
THEOREM AfterNeverBack == Spec => AfterMonotone
<1>1. LockInv /\ [Next]_vars => [file.after <= file'.after]_vars
  BY NextForward DEF Forward
<1> QED BY <1>1, LocksHold, PTL DEF Spec, AfterMonotone

(* What one process has recorded of a chapter no other undoes: a change is *)
(* committed only by a process that holds the file alone, from a view no   *)
(* older than the file, and saw_chapter (storydb.c:123-126) moves the time *)
(* replaced into `seen' if it is the later one.                            *)
THEOREM NotedIsKept == Spec => NotedStays
<1>1. LockInv /\ [Next]_vars
      => [\A k \in DOMAIN file.chapters :
            k \in DOMAIN file'.chapters
            /\ Actual(file.chapters[k]) <= Actual(file'.chapters[k])]_vars
  BY NextForward DEF Forward, Kept
<1> QED BY <1>1, LocksHold, PTL DEF Spec, NotedStays

-----------------------------------------------------------------------------
(***************************************************************************)
(* What a run that was lost, or cut short, leaves behind, the next one     *)
(* that ends alone and is not cut short has made up for: BacklogExported,  *)
(* for any number of processes, runs, commits and chapters.                *)
(*                                                                         *)
(* The argument counts.  A run owes a noted change when it has stored      *)
(* `after', has not ended its export, and keeps a bound from before the    *)
(* change.  Of every change without a page one run owes it or was lost,    *)
(* and from when `after' has left it behind for good, two: both lost only  *)
(* if two were.  A run that ends its pages owes nothing any more, unless a *)
(* restart of its cursor has cut it short: then what it owed is lost.      *)
(***************************************************************************)

BackOf(after) == IF after = 0 THEN 0 ELSE after - Slack

Has(d, n) == <<TheStory, n>> \in DOMAIN d.chapters
Row(d, n) == d.chapters[<<TheStory, n>>]
Stamp(d, n) == Actual(Row(d, n))
Count(d) == CountChapters(d.chapters, TheStory)

(* A change noted in d of which no page has been made.                     *)
Pending(d, pg, n) == d.noted[n] > pg[n].head

TimeOf(h) == IF h = 0 THEN 0 ELSE Times[h]
PageTimes(pg) == \A n \in Chapter : pg[n].mtime <= TimeOf(pg[n].head)

(* What holds of a database between any two statements.                    *)
Timely(d) == \A s \in DOMAIN d.stories : d.stories[s].updated <= d.after

NotedRow(d, n) ==
  d.noted[n] > 0 => /\ Has(d, n) /\ Times[d.noted[n]] <= d.after
                    /\ Times[d.noted[n]] - N < Stamp(d, n)

(* Only for a link to the next chapter is a row set back (main.c:199-203), *)
(* and the last one never is.                                              *)
NotSetBack(d, n) == Has(d, n) => Row(d, n).seen <= Row(d, n).updated

(* A page older than a noted change is also older than the row.            *)
Older(d, pg, n) == Pending(d, pg, n) => pg[n].mtime < Row(d, n).updated

Sound(d, pg) ==
  /\ Timely(d) /\ SeenCoveredIn(d.stories, d.chapters)
  /\ \A n \in Chapter : /\ NotedRow(d, n) /\ Older(d, pg, n)
                        /\ Count(d) <= n => NotSetBack(d, n)

-----------------------------------------------------------------------------
(* Arithmetic of the commit times.                                         *)
LEMMA ChapterNumbers == N \in Nat /\ Chapter = 1 .. N
BY HooksAssumption, TableAssumption, FS_CardinalityType DEF N

LEMMA CommitTimes ==
  ASSUME StampsFit, LockInv
  PROVE  /\ HEAD \in Nat /\ Slack \in Nat /\ N \in Nat /\ N <= Slack
         /\ \A c \in 1 .. HEAD : Times[c] \in Nat /\ Slack < Times[c]
         /\ \A b, c \in 1 .. HEAD : b < c => N <= Times[c] - Times[b] /\ Times[b] < Times[c]
<1>1. HEAD \in Nat /\ HEAD <= Len(Times) /\ Len(Times) \in Nat
  BY StoredNat, HooksAssumption DEF LockInv
<1>2. \A c \in 1 .. HEAD : c \in 1 .. Len(Times) /\ Times[c] \in Nat
  BY <1>1, HooksAssumption
<1>3. \A c \in 1 .. HEAD : Slack < Times[c]
  <2> TAKE c \in 1 .. HEAD
  <2>1. 1 \in 1 .. Len(Times) /\ Times[1] \in Nat
    BY HooksAssumption
  <2>2. 1 < c => Times[1] < Times[c]
    BY <1>2, <2>1, HooksAssumption
  <2> QED BY <1>2, <2>1, <2>2, HooksAssumption
<1>4. \A b, c \in 1 .. HEAD : b < c => N <= Times[c] - Times[b] /\ Times[b] < Times[c]
  BY <1>2, HooksAssumption DEF StampsFit, N
<1> QED BY <1>1, <1>2, <1>3, <1>4, ChapterNumbers, HooksAssumption DEF StampsFit, N

LEMMA BackOfStored ==
  ASSUME StampsFit, LockInv, NEW a \in Stored(HEAD), NEW b \in Stored(HEAD), a <= b
  PROVE  BackOf(a) \in Nat /\ BackOf(b) \in Nat /\ BackOf(a) <= BackOf(b)
<1>1. /\ a = 0 \/ (a \in Nat /\ Slack < a)
      /\ b = 0 \/ (b \in Nat /\ Slack < b)
  BY CommitTimes DEF Stored
<1> QED BY <1>1, HooksAssumption DEF BackOf

LEMMA StoredNotAfterHead ==
  ASSUME StampsFit, LockInv, NEW a \in Stored(HEAD)
  PROVE  a <= TimeOf(HEAD) /\ TimeOf(HEAD) \in Nat
<1>1. HEAD \in Nat
  BY StoredNat
<1>2. CASE HEAD = 0
  BY <1>2 DEF Stored, TimeOf
<1>3. CASE HEAD # 0
  <2>1. HEAD \in 1 .. HEAD /\ Times[HEAD] \in Nat
    BY <1>1, <1>3, CommitTimes
  <2>2. \A c \in 1 .. HEAD : Times[c] <= Times[HEAD]
    BY <1>1, <2>1, CommitTimes
  <2> QED BY <1>3, <2>1, <2>2 DEF Stored, TimeOf
<1> QED BY <1>2, <1>3

-----------------------------------------------------------------------------
(* The rows of a database file.                                            *)
LEMMA RowTyped ==
  ASSUME NEW d, NEW h, IsFile(d, h), NEW n, Has(d, n)
  PROVE  /\ Row(d, n) \in ChapterRow /\ Stamp(d, n) \in Int
         /\ Row(d, n).updated \in Int /\ Row(d, n).seen \in Int
         /\ Row(d, n).updated <= Stamp(d, n) /\ Row(d, n).seen <= Stamp(d, n)
         /\ NotSetBack(d, n) => Stamp(d, n) = Row(d, n).updated
<1>1. Row(d, n) \in ChapterRow
  BY DEF IsFile, Consistent, IsChapterTable, Has, Row
<1>2. Row(d, n).updated \in Int /\ Row(d, n).seen \in Int
  BY <1>1 DEF ChapterRow
<1> QED BY <1>1, <1>2 DEF Stamp, Actual, Larger, NotSetBack

(* Nothing in the tables is later than `after'.                            *)
LEMMA RowTimely ==
  ASSUME LockInv, NEW d, IsFile(d, HEAD), NEW pg, Sound(d, pg), NEW n, Has(d, n)
  PROVE  /\ TheStory \in DOMAIN d.stories /\ d.stories[TheStory].updated \in Int
         /\ d.after \in Nat /\ d.stories[TheStory].updated <= d.after
         /\ Stamp(d, n) <= d.stories[TheStory].updated
         /\ Row(d, n).updated <= d.after
<1> DEFINE k == <<TheStory, n>>
<1>1. k \in DOMAIN d.chapters /\ k[1] = TheStory
  BY DEF Has
<1>2. /\ TheStory \in DOMAIN d.stories
      /\ d.chapters[k].updated <= d.stories[TheStory].updated
      /\ d.chapters[k].seen <= d.stories[TheStory].updated
  BY <1>1 DEF IsFile, Consistent, UpdatedCoveredIn, Sound, SeenCoveredIn
<1>3. d.stories[TheStory].updated \in Int
  BY <1>2 DEF IsFile, Consistent, IsStoryTable, StoryRow
<1>4. d.stories[TheStory].updated <= d.after /\ d.after \in Nat
  BY <1>2, StoredNat DEF Sound, Timely, IsFile
<1>5. Row(d, n).updated <= d.stories[TheStory].updated
  BY <1>2 DEF Row
<1>6. Row(d, n).updated \in Int /\ Row(d, n).seen \in Int
  BY RowTyped
<1> QED BY <1>2, <1>3, <1>4, <1>5, <1>6 DEF Stamp, Actual, Larger, Row

LEMMA CountGrows ==
  ASSUME NEW d, NEW m, DOMAIN d.chapters \subseteq DOMAIN m.chapters
  PROVE  Count(d) \in Nat /\ Count(m) \in Nat /\ Count(d) <= Count(m) /\ Count(d) <= N
<1> DEFINE A == ChaptersOf(d.chapters, TheStory)
           B == ChaptersOf(m.chapters, TheStory)
<1>1. A \in SUBSET B /\ B \in SUBSET Chapter /\ A \in SUBSET Chapter
  BY DEF ChaptersOf
<1>2. IsFiniteSet(B) /\ IsFiniteSet(A)
  BY <1>1, TableAssumption, FS_Subset
<1> HIDE DEF A, B
<1>3. /\ Cardinality(A) <= Cardinality(B)
      /\ Cardinality(A) \in Nat /\ Cardinality(B) \in Nat /\ Cardinality(A) <= N
  BY <1>1, <1>2, TableAssumption, FS_Subset, FS_CardinalityType DEF N
<1> QED BY <1>3 DEF Count, CountChapters, A, B

(* A noted change is one of a chapter that has a row.                      *)
LEMMA PendingHas ==
  ASSUME LockInv, PagesInv, NEW d, IsFile(d, HEAD), NEW n \in Chapter,
         NotedRow(d, n), Pending(d, page, n)
  PROVE  /\ d.noted[n] \in 1 .. HEAD /\ Has(d, n) /\ Times[d.noted[n]] <= d.after
         /\ Times[d.noted[n]] - N < Stamp(d, n)
<1>1. d.noted[n] \in 0 .. HEAD /\ page[n].head \in 0 .. HEAD /\ HEAD \in Nat
  BY StoredNat DEF IsFile, PagesInv
<1>2. d.noted[n] > 0
  BY <1>1 DEF Pending
<1> QED BY <1>1, <1>2 DEF NotedRow

-----------------------------------------------------------------------------
(* The one story's chapters use at most one stamp each.                    *)
LEMMA StampsUsed ==
  ASSUME NEW d, NEW h, IsFile(d, h), NEW n \in Chapter, ~Has(d, n)
  PROVE  Cardinality(DOMAIN d.chapters) \in Nat /\ Cardinality(DOMAIN d.chapters) < N
<1> DEFINE k == <<TheStory, n>>
           D == DOMAIN d.chapters
<1>1. IsFiniteSet(Key) /\ Cardinality(Key) = N /\ k \in Key
  <2>1. IsFiniteSet(Story) /\ Cardinality(Story) = 1
    BY HooksAssumption, FS_Singleton
  <2>2. Cardinality(Story \X Chapter) = 1 * N /\ IsFiniteSet(Story \X Chapter)
    BY <2>1, TableAssumption, FS_Product DEF N
  <2> QED BY <2>2, ChapterNumbers, HooksAssumption DEF Key
<1>2. D \in SUBSET (Key \ {k})
  BY DEF IsFile, Consistent, IsChapterTable, Has
<1>3. IsFiniteSet(Key \ {k}) /\ Cardinality(Key \ {k}) = N - 1
  BY <1>1, FS_RemoveElement
<1>4. Cardinality(D) <= N - 1 /\ IsFiniteSet(D)
  BY <1>2, <1>3, FS_Subset
<1>5. Cardinality(D) \in Nat
  BY <1>4, FS_CardinalityType
<1> QED BY <1>4, <1>5, ChapterNumbers

(* storydb_saw_chapter for chapter n at time t.                            *)
LEMMA SawIs ==
  ASSUME NEW d, NEW h, IsFile(d, h), TheStory \in DOMAIN d.stories,
         SeenCoveredIn(d.stories, d.chapters), NEW n \in Chapter, NEW t \in Int
  PROVE  LET m == Saw(d, n, t)
         IN  /\ IsFile(m, h) /\ m.after = d.after /\ m.noted = d.noted
             /\ SeenCoveredIn(m.stories, m.chapters)
             /\ DOMAIN m.stories = DOMAIN d.stories
             /\ m.stories[TheStory].updated = Larger(d.stories[TheStory].updated, t)
             /\ Has(m, n) /\ \A x : Has(m, x) => Has(d, x) \/ x = n
             /\ \A x : x # n /\ Has(d, x) => Row(m, x) = Row(d, x)
             /\ \A x : Has(d, x) => Has(m, x) /\ Stamp(d, x) <= Stamp(m, x)
             /\ Has(d, n) => Row(m, n) = SeenAgain(Row(d, n), t)
             /\ ~Has(d, n) => /\ Row(m, n).updated = Row(m, n).seen
                              /\ t - N < Row(m, n).seen /\ Row(m, n).seen <= t
             /\ DOMAIN d.chapters \subseteq DOMAIN m.chapters
<1> DEFINE k == <<TheStory, n>>
           st == StoriesAfterSaw(d.stories, TheStory, t)
           ch == ChaptersAfterSaw(d.chapters, k, t)
           m == Saw(d, n, t)
<1>1. Consistent(d.stories, d.chapters)
  BY DEF IsFile
<1>2. Consistent(st, ch)
  BY <1>1, SawChapterConsistent
<1>3. k \in Key /\ IsChapterTable(d.chapters) /\ StampsDistinctIn(d.chapters)
  BY <1>1, HooksAssumption DEF Key, Consistent
<1>4. SeenCoveredIn(st, ch)
  BY <1>1, SawChapterSeenCovered
<1>5. /\ IsChapterTable(ch) /\ DOMAIN ch = DOMAIN d.chapters \cup {k}
      /\ \A x \in DOMAIN d.chapters : x # k => ch[x] = d.chapters[x]
      /\ k \in DOMAIN d.chapters => ch[k] = SeenAgain(d.chapters[k], t)
      /\ k \notin DOMAIN d.chapters =>
           /\ ch[k].seen <= t /\ t - Cardinality(DOMAIN d.chapters) <= ch[k].seen
           /\ ch[k].updated = ch[k].seen
  BY <1>3, ChaptersAfterSawTable
<1>6. /\ DOMAIN st = DOMAIN d.stories
      /\ st[TheStory].updated = Larger(d.stories[TheStory].updated, t)
  <2>1. d.stories[TheStory] \in StoryRow
    BY <1>1 DEF Consistent, IsStoryTable
  <2> QED BY <2>1 DEF StoriesAfterSaw, StoryRow
<1>7. DOMAIN d = {"schema", "rows", "after", "category", "stories", "chapters", "noted"}
  BY DEF IsFile
<1>8. /\ DOMAIN m = DOMAIN d /\ m.stories = st /\ m.chapters = ch
      /\ m.schema = d.schema /\ m.rows = d.rows /\ m.after = d.after
      /\ m.category = d.category /\ m.noted = d.noted
  <2> HIDE DEF st, ch
  <2>1. m = [d EXCEPT !.chapters = ch, !.stories = st]
    BY DEF m, Saw, st, ch
  <2> QED BY <1>7, <2>1
<1> HIDE DEF m, st, ch
<1>9. IsFile(m, h)
  BY <1>2, <1>8 DEF IsFile
<1>10. /\ Has(m, n) /\ \A x : Has(m, x) => Has(d, x) \/ x = n
       /\ \A x : x # n /\ Has(d, x) => Has(m, x) /\ Row(m, x) = Row(d, x)
       /\ \A x : Has(d, x) => Has(m, x)
       /\ Has(d, n) => Row(m, n) = SeenAgain(Row(d, n), t)
       /\ DOMAIN d.chapters \subseteq DOMAIN m.chapters
  BY <1>5, <1>8 DEF Has, Row
<1>11. ~Has(d, n) => /\ Row(m, n).updated = Row(m, n).seen
                     /\ t - N < Row(m, n).seen /\ Row(m, n).seen <= t
  <2> SUFFICES ASSUME ~Has(d, n)
               PROVE  /\ Row(m, n).updated = Row(m, n).seen
                      /\ t - N < Row(m, n).seen /\ Row(m, n).seen <= t
    OBVIOUS
  <2>1. Row(m, n) = ch[k] /\ k \notin DOMAIN d.chapters
    BY <1>8 DEF Has, Row
  <2>2. Cardinality(DOMAIN d.chapters) \in Nat /\ Cardinality(DOMAIN d.chapters) < N
    BY StampsUsed
  <2>3. Row(m, n).seen \in Int /\ N \in Nat
    BY <1>9, <1>10, RowTyped, ChapterNumbers
  <2> HIDE DEF k
  <2> QED BY <1>5, <2>1, <2>2, <2>3
<1>12. \A x : Has(d, x) => Stamp(d, x) <= Stamp(m, x)
  <2> SUFFICES ASSUME NEW x, Has(d, x) PROVE Stamp(d, x) <= Stamp(m, x)
    OBVIOUS
  <2>1. Row(d, x) \in ChapterRow /\ Stamp(d, x) \in Int
    BY RowTyped
  <2>2. CASE x # n
    BY <1>10, <2>1, <2>2 DEF Stamp
  <2>3. CASE x = n
    <3>1. Stamp(d, n) <= Actual(SeenAgain(Row(d, n), t))
      BY <2>1, <2>3, SeenAgainRow DEF Stamp
    <3> QED BY <1>10, <2>3, <3>1 DEF Stamp
  <2> QED BY <2>2, <2>3
<1>13. SeenCoveredIn(m.stories, m.chapters)
  BY <1>4, <1>8
<1>14. /\ DOMAIN m.stories = DOMAIN d.stories
       /\ m.stories[TheStory].updated = Larger(d.stories[TheStory].updated, t)
  BY <1>6, <1>8
<1> QED BY <1>8, <1>9, <1>10, <1>11, <1>12, <1>13, <1>14 DEF m

(* A chapter seen in a diff that is being looked at, or marked for a link. *)
LEMMA SeenAgainIs ==
  ASSUME NEW r \in ChapterRow, NEW t \in Int
  PROVE  /\ SeenAgain(r, t) \in ChapterRow /\ SeenAgain(r, t).updated = t
         /\ r.seen <= r.updated /\ r.updated <= t => SeenAgain(r, t).seen <= t
<1>1. r.updated \in Int /\ r.seen \in Int
  BY DEF ChapterRow
<1>2. SeenAgain(r, t) \in ChapterRow /\ SeenAgain(r, t).updated = t
  BY SeenAgainRow
<1>3. SeenAgain(r, t).seen <= Larger(r.seen, r.updated) /\ SeenAgain(r, t).seen \in Int
  BY <1>2, SeenAgainRow DEF ChapterRow
<1> QED BY <1>1, <1>2, <1>3 DEF Larger

LEMMA SawSound ==
  ASSUME StampsFit, LockInv, PagesInv,
         NEW d, IsFile(d, HEAD), Sound(d, page), TheStory \in DOMAIN d.stories,
         NEW n \in Chapter, NEW t \in Int, t <= d.after,
         Has(d, n) /\ (Count(d) <= n \/ Pending(d, page, n)) => Row(d, n).updated <= t
  PROVE  Sound(Saw(d, n, t), page)
<1> DEFINE m == Saw(d, n, t)
<1>1. SeenCoveredIn(d.stories, d.chapters) /\ Timely(d)
  BY DEF Sound
<1>2. /\ IsFile(m, HEAD) /\ m.after = d.after /\ m.noted = d.noted
      /\ SeenCoveredIn(m.stories, m.chapters)
      /\ DOMAIN m.stories = DOMAIN d.stories
      /\ m.stories[TheStory].updated = Larger(d.stories[TheStory].updated, t)
      /\ Has(m, n) /\ \A x : Has(m, x) => Has(d, x) \/ x = n
      /\ \A x : x # n /\ Has(d, x) => Row(m, x) = Row(d, x)
      /\ \A x : Has(d, x) => Has(m, x) /\ Stamp(d, x) <= Stamp(m, x)
      /\ Has(d, n) => Row(m, n) = SeenAgain(Row(d, n), t)
      /\ ~Has(d, n) => Row(m, n).updated = Row(m, n).seen
      /\ DOMAIN d.chapters \subseteq DOMAIN m.chapters
  BY <1>1, SawIs
<1> HIDE DEF m
<1>3. Timely(m)
  <2>1. \A s \in DOMAIN m.stories : s = TheStory
    BY <1>2, HooksAssumption DEF IsFile, Consistent, IsStoryTable
  <2>2. d.stories[TheStory].updated \in Int /\ d.stories[TheStory].updated <= d.after
    BY <1>1 DEF IsFile, Consistent, IsStoryTable, StoryRow, Timely
  <2> QED BY <1>2, <2>1, <2>2 DEF Timely, Larger
<1>4. Count(d) \in Nat /\ Count(m) \in Nat /\ Count(d) <= Count(m)
  BY <1>2, CountGrows
<1>5. ASSUME NEW x \in Chapter PROVE NotedRow(m, x)
  <2> SUFFICES ASSUME m.noted[x] > 0
               PROVE  /\ Has(m, x) /\ Times[m.noted[x]] <= m.after
                      /\ Times[m.noted[x]] - N < Stamp(m, x)
    BY DEF NotedRow
  <2>1. /\ Has(d, x) /\ Times[d.noted[x]] <= d.after
        /\ Times[d.noted[x]] - N < Stamp(d, x)
    BY <1>2 DEF Sound, NotedRow
  <2>2. d.noted[x] \in 1 .. HEAD
    BY <1>2, StoredNat DEF IsFile
  <2>3. Times[d.noted[x]] \in Int /\ N \in Int
    BY <2>2, CommitTimes
  <2>4. Stamp(d, x) \in Int /\ Stamp(m, x) \in Int /\ Stamp(d, x) <= Stamp(m, x)
    BY <1>2, <2>1, RowTyped
  <2> QED BY <1>2, <2>1, <2>3, <2>4
<1>6. ASSUME NEW x \in Chapter PROVE Older(m, page, x)
  <2> SUFFICES ASSUME Pending(m, page, x) PROVE page[x].mtime < Row(m, x).updated
    BY DEF Older
  <2>1. Pending(d, page, x) /\ NotedRow(d, x) /\ Older(d, page, x)
    BY <1>2 DEF Pending, Sound
  <2>2. Has(d, x) /\ page[x].mtime < Row(d, x).updated
    BY <2>1, PendingHas DEF Older
  <2>3. CASE x # n
    BY <1>2, <2>2, <2>3
  <2>4. CASE x = n
    <3>1. Row(d, n) \in ChapterRow /\ Row(d, n).updated \in Int /\ page[n].mtime \in Int
      BY <2>2, <2>4, RowTyped DEF PagesInv
    <3>2. Row(m, n).updated = t
      BY <1>2, <2>2, <2>4, <3>1, SeenAgainIs
    <3> QED BY <2>1, <2>2, <2>4, <3>1, <3>2
  <2> QED BY <2>3, <2>4
<1>7. ASSUME NEW x \in Chapter, Count(m) <= x PROVE NotSetBack(m, x)
  <2>1. Count(d) <= x
    BY <1>4, <1>7, ChapterNumbers
  <2>2. NotSetBack(d, x)
    BY <2>1 DEF Sound
  <2>3. CASE x # n
    BY <1>2, <2>2, <2>3 DEF NotSetBack
  <2>4. CASE x = n /\ ~Has(d, n)
    <3>1. Row(m, n).updated \in Int
      BY <1>2, RowTyped
    <3> QED BY <1>2, <2>4, <3>1 DEF NotSetBack
  <2>5. CASE x = n /\ Has(d, n)
    <3>1. Row(d, n) \in ChapterRow /\ Row(d, n).updated <= t
          /\ Row(d, n).seen <= Row(d, n).updated
      BY <2>1, <2>2, <2>5, RowTyped DEF NotSetBack
    <3>2. Row(m, n).updated = t /\ Row(m, n).seen <= t
      BY <1>2, <2>5, <3>1, SeenAgainIs
    <3> QED BY <2>5, <3>2 DEF NotSetBack
  <2> QED BY <2>3, <2>4, <2>5
<1>8. Sound(m, page)
  BY <1>2, <1>3, <1>5, <1>6, <1>7 DEF Sound
<1> QED BY <1>8 DEF m

(* What else is written does not touch the stamps of rows.                 *)
LEMMA SameSound ==
  ASSUME LockInv, NEW d, IsFile(d, HEAD), NEW m, m.after \in Nat, NEW pg, Sound(d, pg),
         m.chapters = d.chapters, m.noted = d.noted, d.after <= m.after,
         DOMAIN m.stories = DOMAIN d.stories,
         \A s \in DOMAIN d.stories : m.stories[s].updated = d.stories[s].updated
  PROVE  Sound(m, pg)
<1>1. d.after \in Nat /\ m.after \in Nat
  BY StoredNat DEF IsFile
<1>2. \A s \in DOMAIN d.stories : d.stories[s].updated \in Int
  BY DEF IsFile, Consistent, IsStoryTable, StoryRow
<1>3. Timely(m)
  BY <1>1, <1>2 DEF Sound, Timely
<1>4. SeenCoveredIn(m.stories, m.chapters)
  BY DEF Sound, SeenCoveredIn
<1>5. /\ Count(m) = Count(d)
      /\ \A x : Has(m, x) = Has(d, x) /\ Row(m, x) = Row(d, x) /\ Stamp(m, x) = Stamp(d, x)
      /\ \A x : Pending(m, pg, x) = Pending(d, pg, x)
  BY DEF Count, Has, Row, Stamp, Pending
<1>6. ASSUME NEW x \in Chapter PROVE NotedRow(m, x)
  <2>1. NotedRow(d, x)
    BY DEF Sound
  <2>2. d.noted[x] \in 0 .. HEAD
    BY DEF IsFile
  <2>3. d.noted[x] > 0 => Times[d.noted[x]] \in Int
    BY <2>2, StoredNat, HooksAssumption DEF LockInv
  <2> QED BY <1>1, <1>5, <2>1, <2>3 DEF NotedRow
<1>7. ASSUME NEW x \in Chapter PROVE Older(m, pg, x) /\ (Count(m) <= x => NotSetBack(m, x))
  BY <1>5 DEF Sound, Older, NotSetBack
<1> QED BY <1>3, <1>4, <1>6, <1>7 DEF Sound

LEMMA WithStorySound ==
  ASSUME LockInv, NEW d, IsFile(d, HEAD), NEW pg, Sound(d, pg), NEW t \in Int, t <= d.after
  PROVE  LET w == WithStory(d, t)
         IN  /\ IsFile(w, HEAD) /\ Sound(w, pg) /\ TheStory \in DOMAIN w.stories
             /\ w.chapters = d.chapters /\ w.noted = d.noted /\ w.after = d.after
<1> DEFINE w == WithStory(d, t)
<1>1. CASE TheStory \in DOMAIN d.stories
  BY <1>1 DEF WithStory
<1>2. CASE TheStory \notin DOMAIN d.stories
  <2> DEFINE st == Put(d.stories, TheStory, NewStory(t))
  <2>1. Consistent(d.stories, d.chapters)
    BY DEF IsFile
  <2>2. DOMAIN d.stories = {}
    BY <1>2, <2>1, HooksAssumption DEF Consistent, IsStoryTable
  <2>3. DOMAIN d.chapters = {}
    BY <2>1, <2>2 DEF Consistent, UpdatedCoveredIn
  <2>4. StampFree(d.stories, t) /\ TheStory \in Story
    BY <2>2, HooksAssumption DEF StampFree, UsedStamps
  <2>5. Consistent(st, d.chapters)
    BY <1>2, <2>1, <2>4, NewStoryConsistent
  <2>6. DOMAIN st = {TheStory} /\ st[TheStory].updated = t
    BY <2>2 DEF Put, NewStory
  <2>7. DOMAIN d = {"schema", "rows", "after", "category", "stories", "chapters", "noted"}
    BY DEF IsFile
  <2>8. /\ DOMAIN w = DOMAIN d /\ w.stories = st /\ w.chapters = d.chapters
        /\ w.schema = d.schema /\ w.rows = d.rows /\ w.after = d.after
        /\ w.category = d.category /\ w.noted = d.noted
    <3> HIDE DEF st
    <3>1. w = [d EXCEPT !.stories = st]
      BY <1>2 DEF w, WithStory, st
    <3> QED BY <2>7, <3>1
  <2> HIDE DEF w, st
  <2>9. IsFile(w, HEAD)
    BY <2>5, <2>8 DEF IsFile
  <2>10. Timely(w) /\ SeenCoveredIn(w.stories, w.chapters)
    BY <2>3, <2>6, <2>8 DEF Timely, SeenCoveredIn
  <2>11. ASSUME NEW x \in Chapter
         PROVE  NotedRow(w, x) /\ Older(w, pg, x) /\ NotSetBack(w, x)
    <3>1. NotedRow(d, x) /\ Older(d, pg, x)
      BY DEF Sound
    <3>2. ~Has(w, x) /\ ~Has(d, x)
      BY <2>3, <2>8 DEF Has
    <3> QED BY <2>8, <3>1, <3>2 DEF NotedRow, Older, NotSetBack, Pending, Row
  <2>12. Sound(w, pg)
    BY <2>10, <2>11 DEF Sound
  <2> QED BY <2>6, <2>8, <2>9, <2>12 DEF w
<1> QED BY <1>1, <1>2

(* storydb_saw_chapter in the scan, at the time just stored as `after'.    *)
ScanSaw(d, n, c) ==
  [Saw(WithStory(d, Times[c]), n, Times[c]) EXCEPT !.noted[n] = Larger(@, c)]

LEMMA ScanSound ==
  ASSUME StampsFit, LockInv, PagesInv, PageTimes(page),
         NEW d, IsFile(d, HEAD), Sound(d, page), NEW n \in Chapter,
         NEW c \in 1 .. HEAD, d.after = Times[c],
         NEW m, m = ScanSaw(d, n, c)
  PROVE  /\ Sound(m, page) /\ m.after = d.after
         /\ m.noted = [d.noted EXCEPT ![n] = c]
<1> DEFINE t == Times[c]
           w == WithStory(d, t)
           a == Saw(w, n, t)
<1>1. t \in Int /\ Slack < t /\ N <= Slack /\ N \in Nat /\ Slack \in Nat
  BY CommitTimes
<1> HIDE DEF t
<1>2. /\ IsFile(w, HEAD) /\ Sound(w, page) /\ TheStory \in DOMAIN w.stories
      /\ w.chapters = d.chapters /\ w.noted = d.noted /\ w.after = t
  BY <1>1, WithStorySound DEF t
<1> HIDE DEF w
<1>3. Has(w, n) => Row(w, n).updated <= t
  BY <1>2, RowTimely
<1>4. Sound(a, page)
  BY <1>1, <1>2, <1>3, SawSound
<1>5. /\ IsFile(a, HEAD) /\ a.after = t /\ a.noted = d.noted
      /\ Has(a, n) /\ Row(a, n).updated \in Int /\ t - N < Row(a, n).updated
  <2>1. SeenCoveredIn(w.stories, w.chapters)
    BY <1>2 DEF Sound
  <2>2. /\ IsFile(a, HEAD) /\ a.after = t /\ a.noted = d.noted /\ Has(a, n)
        /\ Has(w, n) => Row(a, n) = SeenAgain(Row(w, n), t)
        /\ ~Has(w, n) => Row(a, n).updated = Row(a, n).seen /\ t - N < Row(a, n).seen
    BY <1>1, <1>2, <2>1, SawIs
  <2>3. CASE Has(w, n)
    <3>1. Row(w, n) \in ChapterRow
      BY <1>2, <2>3, RowTyped
    <3>2. Row(a, n).updated = t
      BY <1>1, <2>2, <2>3, <3>1, SeenAgainIs
    <3>3. 0 < N
      BY ChapterNumbers
    <3> QED BY <1>1, <2>2, <3>2, <3>3
  <2>4. CASE ~Has(w, n)
    BY <2>2, <2>4, RowTyped
  <2> QED BY <2>3, <2>4, <2>2
<1> HIDE DEF a
<1>6. d.noted \in [Chapter -> 0 .. HEAD] /\ d.noted[n] <= c
  <2>1. d.noted \in [Chapter -> 0 .. HEAD] /\ d.noted[n] \in 0 .. HEAD
    BY DEF IsFile
  <2>2. ASSUME c < d.noted[n] PROVE FALSE
    <3>1. d.noted[n] \in 1 .. HEAD /\ d.noted[n] > 0
      BY <2>1, <2>2
    <3>2. Times[d.noted[n]] <= t
      BY <3>1 DEF Sound, NotedRow, t
    <3>3. t < Times[d.noted[n]] /\ Times[d.noted[n]] \in Int
      BY <2>2, <3>1, CommitTimes DEF t
    <3> QED BY <1>1, <3>2, <3>3
  <2> QED BY <2>1, <2>2
<1> DEFINE noted == [d.noted EXCEPT ![n] = c]
<1>7. Larger(d.noted[n], c) = c
  BY <1>6 DEF Larger
<1>8. m = [a EXCEPT !.noted = noted]
  <2>1. m = [a EXCEPT !.noted = [a.noted EXCEPT ![n] = Larger(a.noted[n], c)]]
    BY DEF a, w, t, ScanSaw
  <2>2. [a.noted EXCEPT ![n] = Larger(a.noted[n], c)] = noted
    BY <1>5, <1>7
  <2> HIDE DEF noted
  <2> QED BY <2>1, <2>2
<1>9. noted \in [Chapter -> 0 .. HEAD] /\ noted[n] = c
      /\ \A x \in Chapter : x # n => noted[x] = d.noted[x]
  BY <1>6, CommitTimes
<1> HIDE DEF noted
<1>10. DOMAIN a = {"schema", "rows", "after", "category", "stories", "chapters", "noted"}
  BY <1>5 DEF IsFile
<1>11. /\ m.stories = a.stories /\ m.chapters = a.chapters /\ m.after = t /\ m.noted = noted
       /\ DOMAIN m = DOMAIN a /\ m.schema = a.schema /\ m.rows = a.rows
       /\ m.category = a.category
  BY <1>5, <1>8, <1>10
<1> HIDE <1>8
<1>12. /\ Count(m) = Count(a)
       /\ \A x : Has(m, x) = Has(a, x) /\ Row(m, x) = Row(a, x) /\ Stamp(m, x) = Stamp(a, x)
  BY <1>11 DEF Count, Has, Row, Stamp
<1>13. Timely(m) /\ SeenCoveredIn(m.stories, m.chapters)
  BY <1>4, <1>5, <1>11 DEF Sound, Timely
<1>14. ASSUME NEW x \in Chapter
       PROVE  NotedRow(m, x) /\ Older(m, page, x) /\ (Count(m) <= x => NotSetBack(m, x))
  <2>1. NotedRow(a, x) /\ Older(a, page, x) /\ (Count(a) <= x => NotSetBack(a, x))
    BY <1>4 DEF Sound
  <2>2. Count(m) <= x => NotSetBack(m, x)
    BY <1>12, <2>1 DEF NotSetBack
  <2>3. CASE x # n
    <3>1. m.noted[x] = a.noted[x]
      BY <1>5, <1>9, <1>11, <2>3
    <3> QED BY <1>5, <1>11, <1>12, <2>1, <2>2, <3>1 DEF NotedRow, Older, Pending
  <2>4. CASE x = n
    <3>1. m.noted[x] = c /\ Times[c] = t
      BY <1>9, <1>11, <2>4 DEF t
    <3>2. Row(a, n).updated <= Stamp(a, n) /\ Stamp(a, n) \in Int
      BY <1>5, RowTyped
    <3>3. NotedRow(m, x)
      BY <1>1, <1>5, <1>11, <1>12, <2>4, <3>1, <3>2 DEF NotedRow
    <3>4. ASSUME Pending(m, page, x) PROVE page[x].mtime < Row(m, x).updated
      <4>1. page[n].head \in 0 .. HEAD /\ page[n].head < c /\ page[n].mtime \in Int
        BY <2>4, <3>1, <3>4 DEF Pending, PagesInv
      <4>2. page[n].mtime <= TimeOf(page[n].head)
        BY DEF PageTimes
      <4>3. TimeOf(page[n].head) <= t - N /\ TimeOf(page[n].head) \in Int
        <5>1. CASE page[n].head = 0
          BY <1>1, <5>1 DEF TimeOf
        <5>2. CASE page[n].head # 0
          <6>1. page[n].head \in 1 .. HEAD
            BY <4>1, <5>2, CommitTimes
          <6>2. N <= Times[c] - Times[page[n].head] /\ Times[page[n].head] \in Int
            BY <4>1, <6>1, CommitTimes
          <6> QED BY <1>1, <3>1, <5>2, <6>2 DEF TimeOf
        <5> QED BY <5>1, <5>2
      <4> QED BY <1>1, <1>5, <1>12, <2>4, <4>1, <4>2, <4>3
    <3> QED BY <2>2, <3>3, <3>4 DEF Older
  <2> QED BY <2>3, <2>4
<1>15. Sound(m, page)
  BY <1>13, <1>14 DEF Sound
<1> QED BY <1>11, <1>15 DEF noted, t

(* A page made of n from the working tree of HEAD.                         *)
LEMMA PageSound ==
  ASSUME LockInv, PagesInv, NEW d, IsFile(d, HEAD), Sound(d, page),
         NEW n \in Chapter, NEW t, NEW pg,
         pg = [page EXCEPT ![n] = [mtime |-> t, head |-> HEAD]]
  PROVE  /\ Sound(d, pg)
         /\ \A x \in Chapter : Pending(d, pg, x) => x # n /\ Pending(d, page, x)
<1>1. /\ pg[n] = [mtime |-> t, head |-> HEAD] /\ pg[n].head = HEAD
      /\ \A x \in Chapter : x # n => pg[x] = page[x]
  BY DEF PagesInv
<1>2. d.noted[n] \in 0 .. HEAD /\ HEAD \in Nat
  BY StoredNat DEF IsFile
<1>3. \A x \in Chapter : Pending(d, pg, x) => x # n /\ Pending(d, page, x)
  BY <1>1, <1>2 DEF Pending
<1>4. \A x \in Chapter : Older(d, pg, x)
  BY <1>1, <1>3 DEF Sound, Older
<1> QED BY <1>3, <1>4 DEF Sound

LEMMA PageTimesMade ==
  ASSUME StampsFit, LockInv, PagesInv, PageTimes(page),
         NEW a \in Stored(HEAD), NEW n \in Chapter, NEW t \in Int, t <= a, NEW pg,
         pg = [page EXCEPT ![n] = [mtime |-> t, head |-> HEAD]]
  PROVE  PageTimes(pg)
<1>1. /\ pg[n] = [mtime |-> t, head |-> HEAD] /\ pg[n].head = HEAD /\ pg[n].mtime = t
      /\ \A x \in Chapter : x # n => pg[x] = page[x]
  BY DEF PagesInv
<1>2. a <= TimeOf(HEAD) /\ TimeOf(HEAD) \in Nat /\ a \in Nat
  BY StoredNotAfterHead, StoredNat
<1> QED BY <1>1, <1>2 DEF PageTimes

-----------------------------------------------------------------------------
(* A process r between two statements, the file being f, the pages pg, the *)
(* history m.  It sees sound tables; what they are ahead of the file in    *)
(* are the notes of the commit it is scanning.                             *)
Writes(r) == r.pc \in {"files", "chapter", "scanned"} /\ r.lock = "reserved"

Visible(r, f, pg) ==
  /\ Sound(r.view, pg)
  /\ Writes(r) => /\ r.at >= 1 /\ r.view.after = Times[r.at]
                  /\ \A n \in Chapter : r.view.noted[n] \in {f.noted[n], r.at}
  /\ ~Writes(r) => r.view.after = f.after /\ r.view.noted = f.noted

(* Before the export every place has its lock, and one that has not stored *)
(* `after' owes nothing yet; in a commit that fits into a batch no other   *)
(* process comes between (main.c:417-419).                                 *)
Place(r, f, m) ==
  /\ r.pc \in {"off", "begun", "category", "stories", "done"} => r.lock = "none"
  /\ r.pc \in {"head", "commit", "chosen"} => r.lock = "shared"
  /\ r.pc \in {"files", "chapter"} => r.lock = "reserved"
  /\ r.pc \in {"scanned", "pages", "exported"} => r.lock # "none"
  /\ r.pc \in Early \cup {"done", "closing"} => ~r.saw
  /\ r.pc \in Early \cup {"files", "chapter", "scanned", "done", "closing"} => ~r.marked
  /\ Writes(r) => r.saw
  /\ r.back <= BackOf(f.after)
  /\ r.pc \in {"head", "commit", "files", "chapter", "scanned"} => r.back = BackOf(f.after)
  /\ r.pc = "files" => r.num + Cardinality(r.todo) <= Cardinality(m[r.at])
  /\ r.pc = "chapter" => r.num + Cardinality(r.todo) <= Cardinality(m[r.at]) + 1

(* At its pages: what is still to come is due by the cursor's bound of     *)
(* now, the time the run goes back to or that of a restart.                *)
Chapters(r) ==
  /\ r.count <= Count(r.view)
  /\ \A n \in Chapter : r.count <= n => NotSetBack(r.view, n)
  /\ \A n \in r.todo : r.bound < Stamp(r.view, n)

(* What it has passed has its page, or was not due, unless it was cut      *)
(* short; and the last chapter's link moves the row before it only up, to  *)
(* a time beyond the bound, which what was passed is not.                  *)
Pass(r, f, pg) ==
  \A n \in Chapter :
    Pending(f, pg, n) /\ (n \notin r.todo \/ r.pc = "exported") =>
      /\ ~r.cut => Stamp(f, n) <= r.back
      /\ r.pc = "pages" /\ r.count \in r.todo => Stamp(r.view, n) <= r.bound

Run(r, f, pg, m) ==
  /\ Place(r, f, m)
  /\ r.lock # "none" /\ r.pc # "dying" => Visible(r, f, pg)
  /\ r.pc = "pages" => Chapters(r)
  /\ r.pc \in {"pages", "exported"} => Pass(r, f, pg)

(* The count.                                                              *)
Owes(r, f, n) == r.marked /\ r.back < Stamp(f, n)

Owed(procs, f, gone, n) ==
  /\ gone = 1 \/ \E p \in Hook : Owes(procs[p], f, n)
  /\ Stamp(f, n) <= BackOf(f.after) =>
       \/ gone = 1 /\ \E p \in Hook : Owes(procs[p], f, n)
       \/ \E p, q \in Hook : p # q /\ Owes(procs[p], f, n) /\ Owes(procs[q], f, n)

Weight(procs, f, pg, gone) ==
  gone \in Nat /\ (gone <= 1 => \A n \in Chapter : Pending(f, pg, n) => Owed(procs, f, gone, n))

Backed ==
  /\ Sound(file, page) /\ PageTimes(page)
  /\ \A p \in Hook : Run(proc[p], file, page, modified)
  /\ Weight(proc, file, page, lost)

(* Every change still owed after a step, by whoever owed it before.        *)
LEMMA StillOwed ==
  ASSUME NEW procs, NEW f, NEW pg, NEW gone, Weight(procs, f, pg, gone),
         NEW procs2, NEW f2, NEW pg2,
         ASSUME NEW n \in Chapter, Pending(f2, pg2, n)
         PROVE  /\ Pending(f, pg, n)
                /\ Stamp(f2, n) <= BackOf(f2.after) => Stamp(f, n) <= BackOf(f.after)
                /\ \A q \in Hook : Owes(procs[q], f, n) => Owes(procs2[q], f2, n)
  PROVE  Weight(procs2, f2, pg2, gone)
<1> SUFFICES ASSUME gone <= 1, NEW n \in Chapter, Pending(f2, pg2, n)
             PROVE  Owed(procs2, f2, gone, n)
  BY DEF Weight
<1>1. Owed(procs, f, gone, n)
  BY DEF Weight
<1>2. /\ Stamp(f2, n) <= BackOf(f2.after) => Stamp(f, n) <= BackOf(f.after)
      /\ \A q \in Hook : Owes(procs[q], f, n) => Owes(procs2[q], f2, n)
  OBVIOUS
<1> QED BY <1>1, <1>2 DEF Owed

(* A process that ends: what it owed was lost with it.                     *)
LEMMA GoneOwed ==
  ASSUME NEW procs, NEW f, NEW pg, NEW gone, Weight(procs, f, pg, gone), NEW p \in Hook,
         NEW procs2, \A q \in Hook : q # p => procs2[q] = procs[q],
         NEW gone2, gone2 = IF procs[p].marked THEN gone + 1 ELSE gone
  PROVE  Weight(procs2, f, pg, gone2)
<1>1. gone \in Nat
  BY DEF Weight
<1>2. CASE ~procs[p].marked
  <2>1. \A n : ~Owes(procs[p], f, n)
    BY <1>2 DEF Owes
  <2>2. \A n, q : q \in Hook /\ Owes(procs[q], f, n) => Owes(procs2[q], f, n)
    BY <2>1
  <2> QED BY <1>2, <2>2, StillOwed
<1>3. CASE procs[p].marked
  <2>1. gone2 = gone + 1
    BY <1>3
  <2>2. ASSUME gone2 <= 1, NEW n \in Chapter, Pending(f, pg, n)
        PROVE  Owed(procs2, f, gone2, n)
    <3>1. gone = 0 /\ gone2 = 1
      BY <1>1, <2>1, <2>2
    <3>2. Owed(procs, f, 0, n)
      BY <2>2, <3>1 DEF Weight
    <3>3. Stamp(f, n) <= BackOf(f.after) =>
            \E q, s \in Hook : q # s /\ Owes(procs[q], f, n) /\ Owes(procs[s], f, n)
      BY <3>2 DEF Owed
    <3>4. Stamp(f, n) <= BackOf(f.after) => \E q \in Hook : Owes(procs2[q], f, n)
      BY <3>3
    <3> QED BY <3>1, <3>4 DEF Owed
  <2> QED BY <1>1, <2>1, <2>2 DEF Weight
<1> QED BY <1>2, <1>3

-----------------------------------------------------------------------------
(* The kinds of statement, as HooksProofs has them for LockInv.            *)
Alike(r, s) ==
  /\ r.pc = s.pc /\ r.back = s.back /\ r.at = s.at /\ r.num = s.num
  /\ r.todo = s.todo /\ r.count = s.count /\ r.saw = s.saw
  /\ r.bound = s.bound /\ r.cut = s.cut

LEMMA AllFields ==
  ASSUME LockInv, NEW p \in Hook
  PROVE  /\ DOMAIN proc[p] = Fields
         /\ \A pc : /\ DOMAIN Go(p, pc) = Fields /\ Go(p, pc).pc = pc
                    /\ Go(p, pc).lock = proc[p].lock /\ Go(p, pc).at = proc[p].at
                    /\ Go(p, pc).view = proc[p].view /\ Go(p, pc).back = proc[p].back
                    /\ Go(p, pc).count = proc[p].count /\ Go(p, pc).num = proc[p].num
                    /\ Go(p, pc).todo = proc[p].todo /\ Go(p, pc).saw = proc[p].saw
                    /\ Go(p, pc).marked = proc[p].marked
                    /\ Go(p, pc).bound = proc[p].bound /\ Go(p, pc).cut = proc[p].cut
<1>1. DOMAIN proc[p] = Fields
  BY DEF LockInv, Sees
<1> QED BY <1>1 DEF Go, Fields, Idle

(* A step of p that leaves file and pages alone.                           *)
LEMMA OwnBacked ==
  ASSUME LockInv, Backed, NEW p \in Hook, NEW next, proc' = [proc EXCEPT ![p] = next],
         file' = file, page' = page, modified' = modified, lost' = lost,
         Run(next, file, page, modified),
         ~proc[p].marked \/ (next.marked = proc[p].marked /\ next.back = proc[p].back)
  PROVE  Backed'
<1>1. \A q \in Hook : proc'[q] = IF q = p THEN next ELSE proc[q]
  BY DEF LockInv
<1>2. \A q \in Hook : Run(proc'[q], file', page', modified')
  BY <1>1 DEF Backed
<1>3. PICK procs : procs = proc'
  OBVIOUS
<1>4. \A n, q : q \in Hook /\ Owes(proc[q], file, n) => Owes(procs[q], file, n)
  BY <1>1, <1>3 DEF Owes
<1>5. Weight(proc, file, page, lost)
  BY DEF Backed
<1>6. Weight(procs, file, page, lost)
  BY <1>4, <1>5, StillOwed
<1>7. Weight(proc', file', page', lost')
  BY <1>3, <1>6 DEF Weight, Owed
<1> QED BY <1>2, <1>7 DEF Backed

LEMMA DiesBacked ==
  ASSUME LockInv, Backed, NEW p \in Hook, NEW lock, Dies(p, lock),
         page' = page, modified' = modified, lost' = lost
  PROVE  Backed'
<1> DEFINE next == [proc[p] EXCEPT !.pc = "dying", !.lock = lock]
<1>1. proc' = [proc EXCEPT ![p] = next] /\ file' = file
  BY DEF Dies
<1>2. /\ next.pc = "dying" /\ next.marked = proc[p].marked /\ next.back = proc[p].back
  BY AllFields DEF Fields, Idle
<1> HIDE DEF next
<1>3. Run(proc[p], file, page, modified)
  BY DEF Backed
<1>4. Run(next, file, page, modified)
  BY <1>2, <1>3 DEF Run, Place, Writes, Early
<1> QED BY <1>1, <1>2, <1>4, OwnBacked

LEMMA ReadBacked ==
  ASSUME LockInv, Backed, NEW p \in Hook, NEW next, DOMAIN next = Fields,
         next.lock = proc[p].lock, next.marked = proc[p].marked,
         ~proc[p].marked \/ next.back = proc[p].back,
         Read(p, next), page' = page, modified' = modified, lost' = lost,
         ASSUME NEW r, Alike(r, next), r.marked = next.marked, r.view = View(p),
                r.lock = IF proc[p].lock = "none" THEN "shared" ELSE proc[p].lock
         PROVE  Run(r, file, page, modified)
  PROVE  Backed'
<1>1. CASE \E q \in Others(p) : proc[q].lock = "pending"
  <2>1. Dies(p, proc[p].lock)
    BY <1>1 DEF Read
  <2> QED BY <2>1, DiesBacked
<1>2. CASE ~ \E q \in Others(p) : proc[q].lock = "pending"
  <2> DEFINE r == [next EXCEPT !.lock = IF @ = "none" THEN "shared" ELSE @, !.view = View(p)]
  <2>1. proc' = [proc EXCEPT ![p] = r] /\ file' = file
    BY <1>2 DEF Read
  <2>2. /\ Alike(r, next) /\ r.marked = next.marked /\ r.view = View(p)
        /\ r.lock = IF proc[p].lock = "none" THEN "shared" ELSE proc[p].lock
        /\ r.back = next.back
    BY DEF Fields, Idle, Alike
  <2> HIDE DEF r
  <2>3. Run(r, file, page, modified)
    BY <2>2
  <2> QED BY <2>1, <2>2, <2>3, OwnBacked
<1> QED BY <1>1, <1>2

LEMMA WriteBacked ==
  ASSUME LockInv, Backed, NEW p \in Hook, NEW next, NEW view, DOMAIN next = Fields,
         next.marked = proc[p].marked, ~proc[p].marked \/ next.back = proc[p].back,
         Write(p, next, view), page' = page, modified' = modified, lost' = lost,
         ASSUME NEW r, Alike(r, next), r.marked = next.marked, r.view = view,
                r.lock = "reserved"
         PROVE  Run(r, file, page, modified)
  PROVE  Backed'
<1>1. CASE \E q \in Others(p) : proc[q].lock \in {"reserved", "pending"}
  <2>1. Dies(p, proc[p].lock)
    BY <1>1 DEF Write
  <2> QED BY <2>1, DiesBacked
<1>2. CASE ~ \E q \in Others(p) : proc[q].lock \in {"reserved", "pending"}
  <2> DEFINE r == [next EXCEPT !.lock = "reserved", !.view = view]
  <2>1. proc' = [proc EXCEPT ![p] = r] /\ file' = file
    BY <1>2 DEF Write
  <2>2. /\ Alike(r, next) /\ r.marked = next.marked /\ r.view = view
        /\ r.lock = "reserved" /\ r.back = next.back
    BY DEF Fields, Idle, Alike
  <2> HIDE DEF r
  <2>3. Run(r, file, page, modified)
    BY <2>2
  <2> QED BY <2>1, <2>2, <2>3, OwnBacked
<1> QED BY <1>1, <1>2

(* A process that ends.                                                    *)
LEMMA GoneBacked ==
  ASSUME StampsFit, LockInv, Backed, NEW p \in Hook, Gone(p)
  PROVE  Backed'
<1>1. /\ file' = file /\ page' = page /\ modified' = modified
      /\ lost' = IF proc[p].marked THEN lost + 1 ELSE lost
      /\ \A q \in Hook : proc'[q] = IF q = p THEN Idle ELSE proc[q]
  BY DEF Gone, LockInv
<1>2. Run(Idle, file, page, modified)
  <2>1. 0 <= BackOf(file.after)
    <3>1. file.after \in Stored(HEAD) /\ file.after <= file.after
      BY FileStays DEF LockInv, IsFile
    <3>2. BackOf(file.after) \in Nat
      BY <3>1, BackOfStored
    <3> QED BY <3>2
  <2> QED BY <2>1 DEF Run, Place, Idle, Writes, Early
<1>3. \A q \in Hook : Run(proc'[q], file, page, modified)
  BY <1>1, <1>2 DEF Backed
<1>4. PICK procs, gone2 : procs = proc' /\ gone2 = lost'
  OBVIOUS
<1>5. Weight(procs, file, page, gone2)
  <2>1. Weight(proc, file, page, lost)
    BY DEF Backed
  <2>2. \A q \in Hook : q # p => procs[q] = proc[q]
    BY <1>1, <1>4
  <2>3. gone2 = IF proc[p].marked THEN lost + 1 ELSE lost
    BY <1>1, <1>4
  <2> QED BY <2>1, <2>2, <2>3, GoneOwed
<1>6. Weight(proc', file', page', lost')
  BY <1>1, <1>4, <1>5 DEF Weight, Owed
<1> QED BY <1>1, <1>3, <1>6 DEF Backed

LEMMA CommitEffect ==
  ASSUME NEW p \in Hook, NEW next, DOMAIN next = Fields, Commit(p, next)
  PROVE  \/ Dies(p, "pending")
         \/ /\ proc[p].lock # "reserved" /\ file' = file
            /\ \E r : /\ proc' = [proc EXCEPT ![p] = r] /\ Alike(r, next)
                      /\ r.lock = "none" /\ r.marked = next.marked
         \/ /\ proc[p].lock = "reserved" /\ file' = proc[p].view
            /\ \A q \in Others(p) : proc[q].lock = "none"
            /\ \E r : /\ proc' = [proc EXCEPT ![p] = r] /\ Alike(r, next)
                      /\ r.lock = "none" /\ r.marked = next.saw
<1>1. CASE proc[p].lock # "reserved"
  <2> DEFINE r == [next EXCEPT !.lock = "none", !.view = EmptyTable]
  <2>1. proc' = [proc EXCEPT ![p] = r] /\ file' = file
    BY <1>1 DEF Commit
  <2>2. Alike(r, next) /\ r.lock = "none" /\ r.marked = next.marked
    BY DEF Alike, Fields, Idle
  <2> HIDE DEF r
  <2> QED BY <1>1, <2>1, <2>2
<1>2. CASE proc[p].lock = "reserved" /\ \E q \in Others(p) : proc[q].lock # "none"
  BY <1>2 DEF Commit
<1>3. CASE proc[p].lock = "reserved" /\ ~ \E q \in Others(p) : proc[q].lock # "none"
  <2> DEFINE r == [next EXCEPT !.lock = "none", !.view = EmptyTable, !.marked = next.saw]
  <2>1. proc' = [proc EXCEPT ![p] = r] /\ file' = proc[p].view
    BY <1>3 DEF Commit
  <2>2. Alike(r, next) /\ r.lock = "none" /\ r.marked = next.saw
    BY DEF Alike, Fields, Idle
  <2> HIDE DEF r
  <2> QED BY <1>3, <2>1, <2>2
<1> QED BY <1>1, <1>2, <1>3

(* What p sees becomes the file, which no one else has read.               *)
LEMMA FileMoves ==
  ASSUME StampsFit, LockInv, Backed, NEW p \in Hook, proc[p].lock = "reserved",
         proc[p].pc # "dying", NEW f, f = proc[p].view,
         \A q \in Others(p) : proc[q].lock = "none"
  PROVE  /\ IsFile(f, HEAD) /\ Sound(f, page) /\ Visible(proc[p], file, page)
         /\ BackOf(file.after) \in Nat /\ BackOf(f.after) \in Nat
         /\ BackOf(file.after) <= BackOf(f.after)
         /\ proc[p].back \in Nat /\ proc[p].back <= BackOf(file.after)
         /\ \A q \in Others(p) : Run(proc[q], f, page, modified)
         /\ \A n : Has(file, n) => /\ Has(f, n) /\ Stamp(file, n) <= Stamp(f, n)
                                   /\ Stamp(file, n) \in Int /\ Stamp(f, n) \in Int
<1>1. Sees(proc[p], file, HEAD) /\ Run(proc[p], file, page, modified) /\ IsFile(file, HEAD)
  BY DEF LockInv, Backed
<1>2. NotBehind(f, file, HEAD) /\ IsFile(f, HEAD)
  BY <1>1 DEF Sees, NotBehind
<1>3. Visible(proc[p], file, page) /\ Sound(f, page)
  BY <1>1 DEF Run, Visible
<1>4. /\ BackOf(file.after) \in Nat /\ BackOf(f.after) \in Nat
      /\ BackOf(file.after) <= BackOf(f.after)
  <2>1. file.after \in Stored(HEAD) /\ f.after \in Stored(HEAD) /\ file.after <= f.after
    BY <1>1, <1>2 DEF IsFile, NotBehind
  <2> QED BY <2>1, BackOfStored
<1>5. proc[p].back \in Nat /\ proc[p].back <= BackOf(file.after)
  BY <1>1 DEF Sees, Placed, Run, Place
<1>6. ASSUME NEW q \in Others(p) PROVE Run(proc[q], f, page, modified)
  <2>1. /\ Run(proc[q], file, page, modified) /\ proc[q].lock = "none"
        /\ proc[q].back \in Nat
    BY DEF Backed, Others, LockInv, Sees, Placed
  <2>2. proc[q].back <= BackOf(f.after)
    BY <1>4, <2>1 DEF Run, Place
  <2>3. Place(proc[q], f, modified)
    BY <2>1, <2>2 DEF Run, Place, Writes
  <2>4. proc[q].pc \notin {"pages", "exported"}
    BY <2>1 DEF Run, Place
  <2> QED BY <2>1, <2>3, <2>4 DEF Run
<1>7. ASSUME NEW n, Has(file, n)
      PROVE  /\ Has(f, n) /\ Stamp(file, n) <= Stamp(f, n)
             /\ Stamp(file, n) \in Int /\ Stamp(f, n) \in Int
  <2>1. Has(f, n) /\ Stamp(file, n) <= Stamp(f, n)
    BY <1>2, <1>7 DEF NotBehind, Kept, Has, Stamp, Row
  <2> QED BY <1>1, <1>2, <1>7, <2>1, RowTyped
<1> QED BY <1>2, <1>3, <1>4, <1>5, <1>6, <1>7

(* ... with the notes of before: what was owed is owed still.              *)
LEMMA NotesMove ==
  ASSUME StampsFit, LockInv, PagesInv, Backed, NEW p \in Hook, proc[p].lock = "reserved",
         proc[p].pc # "dying", ~Writes(proc[p]), NEW f, f = proc[p].view,
         \A q \in Others(p) : proc[q].lock = "none", NEW n \in Chapter, Pending(f, page, n)
  PROVE  /\ Pending(file, page, n) /\ f.after = file.after
         /\ \A q \in Hook : Owes(proc[q], file, n) => Owes(proc[q], f, n)
         /\ Stamp(f, n) <= BackOf(f.after) => Stamp(file, n) <= BackOf(file.after)
<1>1. f.after = file.after /\ f.noted = file.noted
  BY FileMoves DEF Visible
<1>2. Pending(file, page, n)
  BY <1>1 DEF Pending
<1>3. Has(file, n)
  BY <1>2, PendingHas DEF Backed, Sound, LockInv
<1>4. /\ Stamp(file, n) <= Stamp(f, n) /\ Stamp(file, n) \in Int /\ Stamp(f, n) \in Int
      /\ BackOf(f.after) \in Nat
  BY <1>3, FileMoves
<1>5. \A q \in Hook : proc[q].back \in Nat
  BY DEF LockInv, Sees, Placed
<1> QED BY <1>1, <1>2, <1>4, <1>5 DEF Owes

(* Before the scan, and after the export, nothing is stored that counts.   *)
LEMMA PlainCommitBacked ==
  ASSUME StampsFit, LockInv, PagesInv, Backed, NEW p \in Hook, NEW next,
         DOMAIN next = Fields, next.pc \in {"checking", "begun", "category", "stories", "off"},
         next.back <= BackOf(file.after), next.back \in Nat,
         ~proc[p].marked \/ (next.marked = proc[p].marked /\ next.back = proc[p].back),
         proc[p].pc # "dying", ~Writes(proc[p]),
         next.pc \notin {"stories", "category"} \/ proc[p].lock # "reserved",
         next.pc \in {"checking", "begun", "off"} =>
           ~next.saw /\ ~next.marked /\ ~proc[p].marked,
         Commit(p, next), page' = page, modified' = modified, lost' = lost
  PROVE  Backed'
<1>1. CASE Dies(p, "pending")
  BY <1>1, DiesBacked
<1>2. ASSUME proc[p].lock # "reserved", file' = file,
             NEW r, proc' = [proc EXCEPT ![p] = r], Alike(r, next),
             r.lock = "none", r.marked = next.marked
      PROVE  Backed'
  <2>1. Run(r, file, page, modified)
    BY <1>2 DEF Run, Place, Writes, Early, Alike
  <2>2. ~proc[p].marked \/ (r.marked = proc[p].marked /\ r.back = proc[p].back)
    BY <1>2 DEF Alike
  <2> QED BY <1>2, <2>1, <2>2, OwnBacked
<1>3. ASSUME proc[p].lock = "reserved", file' = proc[p].view,
             \A q \in Others(p) : proc[q].lock = "none",
             NEW r, proc' = [proc EXCEPT ![p] = r], Alike(r, next),
             r.lock = "none", r.marked = next.saw
      PROVE  Backed'
  <2>1. PICK f : f = proc[p].view
    OBVIOUS
  <2>2. /\ Sound(f, page) /\ BackOf(file.after) \in Nat /\ BackOf(f.after) \in Nat
        /\ BackOf(file.after) <= BackOf(f.after)
        /\ \A q \in Others(p) : Run(proc[q], f, page, modified)
    BY <1>3, <2>1, FileMoves
  <2>3. next.pc \in {"checking", "begun", "off"} /\ ~next.saw /\ ~proc[p].marked
    BY <1>3
  <2>4. r.back <= BackOf(f.after) /\ r.pc = next.pc /\ ~r.saw /\ ~r.marked
    BY <1>3, <2>2, <2>3 DEF Alike
  <2>5. Run(r, f, page, modified)
    BY <1>3, <2>3, <2>4 DEF Run, Place, Writes, Early
  <2>6. \A q \in Hook : proc'[q] = IF q = p THEN r ELSE proc[q]
    BY <1>3 DEF LockInv
  <2>7. \A q \in Hook : Run(proc'[q], f, page, modified)
    BY <2>2, <2>5, <2>6 DEF Others
  <2>8. PICK procs : procs = proc'
    OBVIOUS
  <2>9. ASSUME NEW n \in Chapter, Pending(f, page, n)
        PROVE  /\ Pending(file, page, n)
               /\ Stamp(f, n) <= BackOf(f.after) => Stamp(file, n) <= BackOf(file.after)
               /\ \A q \in Hook : Owes(proc[q], file, n) => Owes(procs[q], f, n)
    <3>1. /\ Pending(file, page, n)
          /\ Stamp(f, n) <= BackOf(f.after) => Stamp(file, n) <= BackOf(file.after)
          /\ \A q \in Hook : Owes(proc[q], file, n) => Owes(proc[q], f, n)
      BY <1>3, <2>1, <2>9, NotesMove
    <3>2. ~Owes(proc[p], file, n)
      BY <2>3 DEF Owes
    <3>3. \A q \in Hook : q # p => procs[q] = proc[q]
      BY <2>6, <2>8
    <3> QED BY <3>1, <3>2, <3>3
  <2>10. Weight(proc, file, page, lost)
    BY DEF Backed
  <2>11. Weight(procs, f, page, lost)
    BY <2>9, <2>10, StillOwed
  <2>12. Weight(proc', file', page', lost')
    BY <1>3, <2>1, <2>8, <2>11 DEF Weight, Owed
  <2>13. file' = f
    BY <1>3, <2>1
  <2> QED BY <2>2, <2>7, <2>12, <2>13 DEF Backed
<1> QED BY <1>1, <1>2, <1>3, CommitEffect

(* The scan is committed.  A change noted in it is later than any run's    *)
(* bound, and this run's own is the one that was right before (the new     *)
(* one is Slack before the commit's time, which the new stamps are not).   *)
LEMMA ScannedBacked ==
  ASSUME StampsFit, LockInv, PagesInv, Backed, NEW p \in Hook, Scanned(p)
  PROVE  Backed'
<1> DEFINE next == Go(p, "category")
<1>1. /\ proc[p].pc = "scanned" /\ Commit(p, next)
      /\ page' = page /\ modified' = modified /\ lost' = lost
  BY DEF Scanned, Outside
<1>2. /\ DOMAIN next = Fields /\ next.pc = "category" /\ next.back = proc[p].back
      /\ next.saw = proc[p].saw /\ next.marked = proc[p].marked
  BY AllFields
<1> HIDE DEF next
<1>3. Place(proc[p], file, modified) /\ proc[p].back \in Nat
  BY DEF Backed, Run, LockInv, Sees, Placed
<1>4. ~proc[p].marked /\ proc[p].back = BackOf(file.after) /\ proc[p].back <= BackOf(file.after)
  BY <1>1, <1>3 DEF Place
<1>5. CASE ~Writes(proc[p])
  <2>1. proc[p].lock # "reserved"
    BY <1>1, <1>5 DEF Writes
  <2> QED BY <1>1, <1>2, <1>3, <1>4, <1>5, <2>1, PlainCommitBacked
<1>6. CASE Dies(p, "pending")
  BY <1>1, <1>6, DiesBacked
<1>7. ASSUME Writes(proc[p]), proc[p].lock = "reserved", file' = proc[p].view,
             \A q \in Others(p) : proc[q].lock = "none",
             NEW r, proc' = [proc EXCEPT ![p] = r], Alike(r, next),
             r.lock = "none", r.marked = next.saw
      PROVE  Backed'
  <2>1. PICK f : f = proc[p].view
    OBVIOUS
  <2>2. /\ IsFile(f, HEAD) /\ Sound(f, page) /\ Visible(proc[p], file, page)
        /\ BackOf(file.after) \in Nat /\ BackOf(f.after) \in Nat
        /\ BackOf(file.after) <= BackOf(f.after)
        /\ \A q \in Others(p) : Run(proc[q], f, page, modified)
        /\ \A n : Has(file, n) => /\ Has(f, n) /\ Stamp(file, n) <= Stamp(f, n)
                                  /\ Stamp(file, n) \in Int /\ Stamp(f, n) \in Int
    BY <1>1, <1>7, <2>1, FileMoves
  <2>3. r.marked /\ r.pc = "category" /\ r.back = BackOf(file.after)
    BY <1>2, <1>3, <1>4, <1>7 DEF Alike, Place
  <2>4. Run(r, f, page, modified)
    BY <1>7, <2>2, <2>3 DEF Run, Place, Writes, Early
  <2>5. \A q \in Hook : proc'[q] = IF q = p THEN r ELSE proc[q]
    BY <1>7 DEF LockInv
  <2>6. \A q \in Hook : Run(proc'[q], f, page, modified)
    BY <2>2, <2>4, <2>5 DEF Others
  <2>7. PICK procs : procs = proc'
    OBVIOUS
  <2>8. ASSUME lost <= 1, NEW n \in Chapter, Pending(f, page, n)
        PROVE  Owed(procs, f, lost, n)
    <3>1. /\ Has(f, n) /\ Times[f.noted[n]] - N < Stamp(f, n) /\ Stamp(f, n) \in Int
          /\ f.noted[n] \in 1 .. HEAD
      BY <2>2, <2>8, PendingHas, RowTyped DEF Sound
    <3>2. Owes(procs[p], f, n) <=> BackOf(file.after) < Stamp(f, n)
      BY <2>3, <2>5, <2>7 DEF Owes
    <3>3. CASE f.noted[n] = file.noted[n]
      <4>1. Pending(file, page, n)
        BY <2>8, <3>3 DEF Pending
      <4>2. Owed(proc, file, lost, n)
        BY <2>8, <4>1 DEF Backed, Weight
      <4>3. Has(file, n)
        BY <4>1, PendingHas DEF Backed, Sound, LockInv
      <4>4. /\ Stamp(file, n) <= Stamp(f, n) /\ Stamp(file, n) \in Int
        BY <2>2, <4>3
      <4>5. ASSUME NEW q \in Hook, Owes(proc[q], file, n)
            PROVE  q # p /\ Owes(procs[q], f, n)
        <5>1. q # p /\ procs[q] = proc[q] /\ proc[q].back \in Nat
          BY <1>4, <2>5, <2>7, <4>5 DEF Owes, LockInv, Sees, Placed
        <5> QED BY <3>1, <4>4, <4>5, <5>1 DEF Owes
      <4>6. CASE Stamp(f, n) <= BackOf(file.after)
        <5>1. Stamp(file, n) <= BackOf(file.after)
          BY <2>2, <3>1, <4>4, <4>6
        <5> QED BY <4>2, <4>5, <5>1 DEF Owed
      <4>7. CASE ~(Stamp(f, n) <= BackOf(file.after))
        <5>1. Owes(procs[p], f, n)
          BY <2>2, <3>1, <3>2, <4>7
        <5> QED BY <4>2, <4>5, <5>1 DEF Owed
      <4> QED BY <4>6, <4>7
    <3>4. CASE f.noted[n] # file.noted[n]
      <4>1. f.noted[n] = proc[p].at /\ f.after = Times[f.noted[n]] /\ f.after \in Nat
        BY <1>7, <2>1, <2>2, <3>4, StoredNat DEF Visible, IsFile
      <4>2. Slack < f.after /\ N <= Slack /\ N \in Nat /\ Slack \in Nat
        BY <3>1, <4>1, CommitTimes
      <4>3. BackOf(f.after) < Stamp(f, n)
        BY <3>1, <4>1, <4>2 DEF BackOf
      <4>4. Owes(procs[p], f, n)
        BY <2>2, <3>1, <3>2, <4>3
      <4>5. ~(Stamp(f, n) <= BackOf(f.after))
        BY <2>2, <3>1, <4>3
      <4> QED BY <4>4, <4>5 DEF Owed
    <3> QED BY <3>3, <3>4
  <2>9. Weight(procs, f, page, lost)
    BY <2>8 DEF Weight, Backed
  <2>10. Weight(proc', file', page', lost')
    BY <1>1, <1>7, <2>1, <2>7, <2>9 DEF Weight, Owed
  <2>11. file' = f
    BY <1>7, <2>1
  <2> QED BY <1>1, <2>2, <2>6, <2>10, <2>11 DEF Backed
<1> QED BY <1>1, <1>2, <1>5, <1>6, <1>7, CommitEffect DEF Writes

(* An export that has ended owes nothing.                                  *)
LEMMA ExportedBacked ==
  ASSUME StampsFit, LockInv, PagesInv, Backed, NEW p \in Hook, Exported(p)
  PROVE  /\ Backed'
         /\ proc'[p].pc = "done" /\ Alone(p) /\ ~proc[p].cut /\ lost <= 1
            => \A n \in Chapter : file'.noted[n] <= page[n].head
<1> DEFINE next == [Go(p, "done") EXCEPT !.saw = FALSE, !.marked = FALSE]
<1>1. /\ proc[p].pc = "exported" /\ Commit(p, next) /\ page' = page /\ modified' = modified
      /\ lost' = IF proc'[p].pc # "done" THEN lost
                 ELSE IF proc[p].cut THEN IF proc[p].marked THEN lost + 1 ELSE lost
                 ELSE IF Alone(p) /\ lost <= 1 THEN 0 ELSE lost
  BY DEF Exported
<1>2. /\ DOMAIN next = Fields /\ next.pc = "done" /\ next.back = proc[p].back
      /\ ~next.saw /\ ~next.marked
  BY AllFields DEF Fields, Idle
<1> HIDE DEF next
<1>3. /\ Place(proc[p], file, modified) /\ Pass(proc[p], file, page) /\ ~Writes(proc[p])
      /\ proc[p].back \in Nat
  BY <1>1 DEF Backed, Run, Writes, LockInv, Sees, Placed
<1>4. ASSUME ~proc[p].cut, NEW n \in Chapter, Pending(file, page, n)
      PROVE  /\ Stamp(file, n) \in Int /\ Stamp(file, n) <= proc[p].back
             /\ ~Owes(proc[p], file, n)
  <2>1. Has(file, n) /\ IsFile(file, HEAD)
    BY <1>4, PendingHas DEF Backed, Sound, LockInv
  <2>2. Stamp(file, n) \in Int
    BY <2>1, RowTyped
  <2>3. Stamp(file, n) <= proc[p].back
    BY <1>1, <1>3, <1>4 DEF Pass
  <2> QED BY <1>3, <2>2, <2>3 DEF Owes
<1>5. ASSUME ~proc[p].cut, Alone(p), lost <= 1, NEW n \in Chapter
      PROVE  ~Pending(file, page, n)
  <2>1. \A q \in Hook : q # p => ~proc[q].marked
    BY <1>5 DEF Alone, Others, Backed, Run, Place, Early
  <2> SUFFICES ASSUME Pending(file, page, n) PROVE FALSE
    OBVIOUS
  <2>2. \A q \in Hook : ~Owes(proc[q], file, n)
    BY <1>4, <1>5, <2>1 DEF Owes
  <2>3. Owed(proc, file, lost, n)
    BY <1>5 DEF Backed, Weight
  <2>4. file.after \in Stored(HEAD) /\ file.after <= file.after
    BY FileStays DEF LockInv, IsFile
  <2>5. BackOf(file.after) \in Nat
    BY <2>4, BackOfStored
  <2>6. proc[p].back <= BackOf(file.after)
    BY <1>3 DEF Place
  <2>7. Stamp(file, n) <= BackOf(file.after)
    BY <1>3, <1>4, <1>5, <2>5, <2>6
  <2> QED BY <2>2, <2>3, <2>7 DEF Owed
<1>6. CASE Dies(p, "pending")
  <2>1. proc'[p].pc # "done"
    BY <1>6, AllFields DEF Dies, LockInv, Fields, Idle
  <2> QED BY <1>1, <1>6, <2>1, DiesBacked
<1>7. ASSUME NEW f, file' = f, f.after = file.after, f.noted = file.noted,
             NEW r, proc' = [proc EXCEPT ![p] = r], Alike(r, next),
             r.lock = "none", ~r.marked, Sound(f, page),
             \A q \in Others(p) : Run(proc[q], f, page, modified),
             \A q \in Hook, n \in Chapter : Pending(file, page, n) /\ Owes(proc[q], file, n)
                                            => Owes(proc[q], f, n),
             \A n \in Chapter : Pending(file, page, n) /\ Stamp(f, n) <= BackOf(f.after)
                                => Stamp(file, n) <= BackOf(file.after)
      PROVE  /\ Backed'
             /\ proc'[p].pc = "done" /\ Alone(p) /\ ~proc[p].cut /\ lost <= 1
                => \A n \in Chapter : file'.noted[n] <= page[n].head
  <2>1. Run(r, f, page, modified)
    BY <1>2, <1>3, <1>7 DEF Run, Place, Writes, Early, Alike
  <2>2. \A q \in Hook : proc'[q] = IF q = p THEN r ELSE proc[q]
    BY <1>7 DEF LockInv
  <2>3. \A q \in Hook : Run(proc'[q], f, page, modified)
    BY <1>7, <2>1, <2>2 DEF Others
  <2>4. \A n \in Chapter : Pending(f, page, n) = Pending(file, page, n)
    BY <1>7 DEF Pending
  <2>5. PICK procs, gone2 : procs = proc' /\ gone2 = lost'
    OBVIOUS
  <2>11. proc'[p].pc = "done"
    BY <1>2, <1>7, <2>2 DEF Alike
  <2>6. Weight(procs, f, page, gone2)
    <3>1. CASE ~proc[p].cut /\ Alone(p) /\ lost <= 1
      <4>1. gone2 = 0
        BY <1>1, <2>5, <2>11, <3>1
      <4> QED BY <1>5, <2>4, <3>1, <4>1 DEF Weight
    <3>3. CASE proc[p].cut
      <4>1. gone2 = IF proc[p].marked THEN lost + 1 ELSE lost
        BY <1>1, <2>5, <2>11, <3>3
      <4>2. \A q \in Hook : q # p => procs[q] = proc[q]
        BY <2>2, <2>5
      <4>3. Weight(proc, file, page, lost)
        BY DEF Backed
      <4>4. Weight(procs, file, page, gone2)
        BY <4>1, <4>2, <4>3, GoneOwed
      <4>5. ~procs[p].marked
        BY <1>7, <2>2, <2>5
      <4>6. ASSUME NEW n \in Chapter, Pending(f, page, n)
            PROVE  /\ Pending(file, page, n)
                   /\ Stamp(f, n) <= BackOf(f.after) => Stamp(file, n) <= BackOf(file.after)
                   /\ \A q \in Hook : Owes(procs[q], file, n) => Owes(procs[q], f, n)
        <5>1. Pending(file, page, n)
          BY <2>4, <4>6
        <5>2. \A q \in Hook : Owes(proc[q], file, n) => Owes(proc[q], f, n)
          BY <1>7, <5>1
        <5>3. ~Owes(procs[p], file, n)
          BY <4>5 DEF Owes
        <5> QED BY <1>7, <4>2, <5>1, <5>2, <5>3
      <4> QED BY <4>4, <4>6, StillOwed
    <3>2. CASE ~proc[p].cut /\ ~(Alone(p) /\ lost <= 1)
      <4>1. gone2 = lost
        BY <1>1, <2>5, <2>11, <3>2
      <4>2. ASSUME NEW n \in Chapter, Pending(f, page, n)
            PROVE  /\ Pending(file, page, n)
                   /\ Stamp(f, n) <= BackOf(f.after) => Stamp(file, n) <= BackOf(file.after)
                   /\ \A q \in Hook : Owes(proc[q], file, n) => Owes(procs[q], f, n)
        <5>1. Pending(file, page, n)
          BY <2>4, <4>2
        <5>2. ~Owes(proc[p], file, n)
          BY <1>4, <3>2, <5>1
        <5>3. \A q \in Hook : q # p => procs[q] = proc[q]
          BY <2>2, <2>5
        <5> QED BY <1>7, <5>1, <5>2, <5>3
      <4>3. Weight(proc, file, page, lost)
        BY DEF Backed
      <4> QED BY <4>1, <4>2, <4>3, StillOwed
    <3> QED BY <3>1, <3>2, <3>3
  <2>7. Weight(proc', file', page', lost')
    BY <1>1, <1>7, <2>5, <2>6 DEF Weight, Owed
  <2>8. Backed'
    BY <1>1, <1>7, <2>3, <2>7 DEF Backed
  <2>9. \A n \in Chapter : file.noted[n] \in Int /\ page[n].head \in Int
    BY StoredNat DEF LockInv, IsFile, PagesInv
  <2>10. Alone(p) /\ ~proc[p].cut /\ lost <= 1 => \A n \in Chapter : file.noted[n] <= page[n].head
    BY <1>5, <2>9 DEF Pending
  <2> QED BY <1>7, <2>8, <2>10
<1>8. ASSUME proc[p].lock # "reserved", file' = file,
             NEW r, proc' = [proc EXCEPT ![p] = r], Alike(r, next),
             r.lock = "none", r.marked = next.marked
      PROVE  /\ Backed'
             /\ proc'[p].pc = "done" /\ Alone(p) /\ ~proc[p].cut /\ lost <= 1
                => \A n \in Chapter : file'.noted[n] <= page[n].head
  <2>1. Sound(file, page) /\ \A q \in Others(p) : Run(proc[q], file, page, modified)
    BY DEF Backed, Others
  <2> QED BY <1>2, <1>7, <1>8, <2>1
<1>9. ASSUME proc[p].lock = "reserved", file' = proc[p].view,
             \A q \in Others(p) : proc[q].lock = "none",
             NEW r, proc' = [proc EXCEPT ![p] = r], Alike(r, next),
             r.lock = "none", r.marked = next.saw
      PROVE  /\ Backed'
             /\ proc'[p].pc = "done" /\ Alone(p) /\ ~proc[p].cut /\ lost <= 1
                => \A n \in Chapter : file'.noted[n] <= page[n].head
  <2>1. PICK f : f = proc[p].view
    OBVIOUS
  <2>2. /\ Sound(f, page) /\ Visible(proc[p], file, page)
        /\ \A q \in Others(p) : Run(proc[q], f, page, modified)
    BY <1>1, <1>9, <2>1, FileMoves
  <2>3. f.after = file.after /\ f.noted = file.noted
    BY <1>3, <2>1, <2>2 DEF Visible
  <2>4. ASSUME NEW n \in Chapter, Pending(file, page, n)
        PROVE  /\ \A q \in Hook : Owes(proc[q], file, n) => Owes(proc[q], f, n)
               /\ Stamp(f, n) <= BackOf(f.after) => Stamp(file, n) <= BackOf(file.after)
    <3>1. Pending(f, page, n)
      BY <2>3, <2>4 DEF Pending
    <3> QED BY <1>1, <1>3, <1>9, <2>1, <3>1, NotesMove
  <2>5. file' = f /\ ~r.marked
    BY <1>2, <1>9, <2>1
  <2> QED BY <1>7, <1>9, <2>2, <2>3, <2>4, <2>5
<1> QED BY <1>1, <1>2, <1>6, <1>8, <1>9, CommitEffect

-----------------------------------------------------------------------------
(* db_open and the scan.                                                   *)
LEMMA ViewSound ==
  ASSUME StampsFit, LockInv, Backed, NEW p \in Hook, proc[p].pc # "dying"
  PROVE  /\ IsFile(View(p), HEAD) /\ Sound(View(p), page) /\ Sound(file, page)
         /\ Place(proc[p], file, modified) /\ IsFile(file, HEAD)
         /\ proc[p].back \in Nat /\ BackOf(file.after) \in Nat
         /\ ~Writes(proc[p]) => View(p).after = file.after /\ View(p).noted = file.noted
         /\ Writes(proc[p]) => View(p) = proc[p].view /\ Visible(proc[p], file, page)
<1>1. Sees(proc[p], file, HEAD) /\ Run(proc[p], file, page, modified) /\ IsFile(file, HEAD)
  BY DEF LockInv, Backed
<1>2. file.after \in Stored(HEAD) /\ file.after <= file.after
  BY <1>1, FileStays DEF IsFile
<1>3. BackOf(file.after) \in Nat
  BY <1>2, BackOfStored
<1>4. CASE proc[p].lock = "none"
  BY <1>1, <1>3, <1>4 DEF View, Backed, Run, Writes, Sees, Placed
<1>5. CASE proc[p].lock # "none"
  BY <1>1, <1>3, <1>5 DEF View, Backed, Run, Visible, Sees, NotBehind, Placed
<1> QED BY <1>4, <1>5

LEMMA OpeningBacked ==
  ASSUME StampsFit, LockInv, PagesInv, Backed, NEW p \in Hook,
         Start(p) \/ Schema(p) \/ SchemaDone(p) \/ CheckCommitting(p) \/ InsertCommitting(p)
         \/ Opened(p)
  PROVE  Backed'
<1>1. /\ page' = page /\ modified' = modified /\ lost' = lost
      /\ proc[p].pc \in {"off", "opening", "opened", "checking", "inserting", "checked"}
  BY DEF Start, Schema, SchemaDone, CheckCommitting, InsertCommitting, Opened, Outside
<1>2. ~Writes(proc[p]) /\ proc[p].pc # "dying"
  BY <1>1 DEF Writes
<1>3. /\ IsFile(View(p), HEAD) /\ Sound(View(p), page) /\ Place(proc[p], file, modified)
      /\ View(p).after = file.after /\ View(p).noted = file.noted
      /\ proc[p].back \in Nat /\ proc[p].back <= BackOf(file.after)
      /\ ~proc[p].saw /\ ~proc[p].marked
  <2>1. /\ IsFile(View(p), HEAD) /\ Sound(View(p), page) /\ Place(proc[p], file, modified)
        /\ View(p).after = file.after /\ View(p).noted = file.noted /\ proc[p].back \in Nat
    BY <1>2, ViewSound
  <2> QED BY <1>1, <2>1 DEF Place, Early
<1>4. \A pc : /\ DOMAIN Go(p, pc) = Fields /\ Go(p, pc).pc = pc /\ Go(p, pc).lock = proc[p].lock
              /\ Go(p, pc).back = proc[p].back /\ Go(p, pc).saw = proc[p].saw
              /\ Go(p, pc).marked = proc[p].marked
  BY AllFields
<1>5. ASSUME NEW pc \in {"opening", "opened", "inserting", "checking", "checked"}, NEW r,
             r.pc = pc, r.back = proc[p].back, r.saw = proc[p].saw,
             r.marked = proc[p].marked,
             r.lock # "none" => /\ Sound(r.view, page) /\ r.view.after = file.after
                                /\ r.view.noted = file.noted
      PROVE  Run(r, file, page, modified)
  BY <1>3, <1>5 DEF Run, Place, Visible, Writes, Early
<1>6. ASSUME NEW pc \in {"opened", "inserting", "checked"}, Read(p, Go(p, pc)) PROVE Backed'
  BY <1>1, <1>3, <1>4, <1>5, <1>6, ReadBacked DEF Alike
<1>7. ASSUME NEW pc \in {"opened", "checking"}, NEW d, Write(p, Go(p, pc), d),
             Sound(d, page), d.after = file.after, d.noted = file.noted
      PROVE  Backed'
  <2>1. PICK next : next = Go(p, pc)
    OBVIOUS
  <2>2. ASSUME NEW r, Alike(r, next), r.marked = next.marked, r.view = d,
               r.lock = "reserved"
        PROVE  Run(r, file, page, modified)
    BY <1>4, <1>5, <1>7, <2>1, <2>2 DEF Alike
  <2> QED BY <1>1, <1>4, <1>7, <2>1, <2>2, WriteBacked
<1>8. ASSUME NEW pc \in {"checking", "begun"}, Commit(p, Go(p, pc)) PROVE Backed'
  <2>1. PICK next : next = Go(p, pc)
    OBVIOUS
  <2> QED BY <1>1, <1>2, <1>3, <1>4, <1>8, <2>1, PlainCommitBacked
<1>9. CASE Start(p)
  <2>1. proc' = [proc EXCEPT ![p] = Go(p, "opening")] /\ file' = file /\ proc[p].pc = "off"
    BY <1>9 DEF Start
  <2>2. proc[p].lock = "none"
    BY <1>3, <2>1 DEF Place
  <2>3. Run(Go(p, "opening"), file, page, modified)
    BY <1>4, <1>5, <2>2
  <2> QED BY <1>1, <1>3, <2>1, <2>3, OwnBacked
<1>10. CASE Schema(p)
  <2>1. CASE View(p).schema
    BY <1>6, <1>10, <2>1 DEF Schema
  <2>2. CASE ~View(p).schema
    <3> DEFINE d == [View(p) EXCEPT !.schema = TRUE]
    <3>1. Write(p, Go(p, "opened"), d)
      BY <1>10, <2>2 DEF Schema
    <3>2. /\ IsFile(d, HEAD) /\ d.chapters = View(p).chapters /\ d.stories = View(p).stories
          /\ d.after = View(p).after /\ d.noted = View(p).noted
      BY <1>3 DEF IsFile
    <3> HIDE DEF d
    <3>3. d.after \in Nat /\ d.after <= d.after
      BY <3>2, StoredNat DEF IsFile
    <3>4. Sound(d, page)
      BY <1>3, <3>2, <3>3, SameSound
    <3> QED BY <1>3, <1>7, <3>1, <3>2, <3>4
  <2> QED BY <2>1, <2>2
<1>11. CASE SchemaDone(p)
  BY <1>8, <1>11 DEF SchemaDone
<1>12. CASE CheckCommitting(p)
  <2>1. \E pc \in {"inserting", "checked"} : Read(p, Go(p, pc))
    BY <1>12 DEF CheckCommitting
  <2> QED BY <1>6, <2>1
<1>13. CASE InsertCommitting(p)
  <2> DEFINE d == [View(p) EXCEPT !.rows = @ + 1]
  <2>1. proc[p].pc = "inserting" /\ Write(p, Go(p, "checking"), d)
    BY <1>13 DEF InsertCommitting
  <2>2. View(p).rows = 0
    BY <2>1 DEF LockInv, Sees, Placed, View, LockPlaces
  <2>3. /\ IsFile(d, HEAD) /\ d.chapters = View(p).chapters /\ d.stories = View(p).stories
        /\ d.after = View(p).after /\ d.noted = View(p).noted
    BY <1>3, <2>2 DEF IsFile
  <2> HIDE DEF d
  <2>4. d.after \in Nat /\ d.after <= d.after
    BY <2>3, StoredNat DEF IsFile
  <2>5. Sound(d, page)
    BY <1>3, <2>3, <2>4, SameSound
  <2> QED BY <1>3, <1>7, <2>1, <2>3, <2>5
<1>14. CASE Opened(p)
  BY <1>8, <1>14 DEF Opened
<1> QED BY <1>9, <1>10, <1>11, <1>12, <1>13, <1>14

LEMMA HeadBacked ==
  ASSUME StampsFit, LockInv, PagesInv, Backed, NEW p \in Hook,
         LastSeenCommit(p) \/ ReadHead(p) \/ OnCommit(p)
  PROVE  Backed'
<1>1. /\ page' = page /\ modified' = modified /\ lost' = lost
      /\ proc[p].pc \in {"begun", "head", "commit"}
  BY DEF LastSeenCommit, ReadHead, OnCommit, Outside
<1>2. ~Writes(proc[p]) /\ proc[p].pc # "dying"
  BY <1>1 DEF Writes
<1>3. /\ IsFile(View(p), HEAD) /\ Sound(View(p), page) /\ Place(proc[p], file, modified)
      /\ View(p).after = file.after /\ View(p).noted = file.noted
      /\ proc[p].back \in Nat /\ BackOf(file.after) \in Nat
      /\ Sees(proc[p], file, HEAD) /\ Placed(proc[p], proc[p].view, HEAD)
  BY <1>2, ViewSound DEF LockInv, Sees
<1>4. ~proc[p].saw /\ ~proc[p].marked /\ proc[p].back <= BackOf(file.after)
  BY <1>1, <1>3 DEF Place, Early
<1>5. CASE LastSeenCommit(p)
  <2> DEFINE next == [Go(p, "head") EXCEPT
                        !.back = IF View(p).after = 0 THEN 0 ELSE View(p).after - Slack]
  <2>1. proc[p].pc = "begun" /\ Read(p, next)
    BY <1>5 DEF LastSeenCommit
  <2>2. /\ DOMAIN next = Fields /\ next.pc = "head" /\ next.lock = proc[p].lock
        /\ next.back = BackOf(View(p).after) /\ next.saw = proc[p].saw
        /\ next.marked = proc[p].marked
    BY AllFields DEF Fields, Idle, BackOf
  <2> HIDE DEF next
  <2>3. proc[p].lock = "none" /\ next.back = BackOf(file.after)
    BY <1>3, <2>1, <2>2 DEF Place
  <2>4. ASSUME NEW r, Alike(r, next), r.marked = next.marked, r.view = View(p),
               r.lock = IF proc[p].lock = "none" THEN "shared" ELSE proc[p].lock
        PROVE  Run(r, file, page, modified)
    BY <1>3, <1>4, <2>2, <2>3, <2>4 DEF Run, Place, Visible, Writes, Early, Alike
  <2> QED BY <1>1, <1>4, <2>1, <2>2, <2>4, ReadBacked
<1>6. CASE ReadHead(p)
  <2> DEFINE pc == IF /\ HEAD > 1 /\ Times[HEAD] > proc[p].back
                      /\ Times[HEAD - 1] >= proc[p].back
                   THEN "commit" ELSE "scanned"
             next == [Go(p, pc) EXCEPT !.at = HEAD]
  <2>1. /\ proc[p].pc = "head" /\ file' = file /\ proc' = [proc EXCEPT ![p] = next]
    BY <1>6 DEF ReadHead
  <2>2. /\ next.pc \in {"commit", "scanned"} /\ next.lock = proc[p].lock
        /\ next.view = proc[p].view /\ next.back = proc[p].back
        /\ next.saw = proc[p].saw /\ next.marked = proc[p].marked
    BY AllFields DEF Fields, Idle
  <2> HIDE DEF next
  <2>3. proc[p].lock = "shared" /\ proc[p].back = BackOf(file.after) /\ View(p) = proc[p].view
    BY <1>3, <2>1 DEF Place, View
  <2>4. Run(next, file, page, modified)
    BY <1>3, <1>4, <2>2, <2>3 DEF Run, Place, Visible, Writes, Early
  <2> QED BY <1>1, <1>4, <2>1, <2>4, OwnBacked
<1>7. CASE OnCommit(p)
  <2> DEFINE next == [Go(p, "files") EXCEPT !.todo = modified[proc[p].at], !.saw = TRUE]
             d == [View(p) EXCEPT !.after = Times[proc[p].at]]
  <2>1. proc[p].pc = "commit" /\ Write(p, next, d)
    BY <1>7 DEF OnCommit
  <2>2. /\ DOMAIN next = Fields /\ next.pc = "files" /\ next.at = proc[p].at
        /\ next.back = proc[p].back /\ next.num = proc[p].num /\ next.saw
        /\ next.todo = modified[proc[p].at] /\ next.marked = proc[p].marked
    BY AllFields DEF Fields, Idle
  <2> HIDE DEF next
  <2>3. /\ proc[p].lock = "shared" /\ proc[p].back = BackOf(file.after)
        /\ View(p) = proc[p].view
    BY <1>3, <2>1 DEF Place, View
  <2>4. /\ proc[p].at \in 1 .. HEAD /\ View(p).after <= Times[proc[p].at]
        /\ proc[p].num = 0
    BY <1>3, <2>1, <2>3 DEF Placed, Early
  <2>5. /\ Times[proc[p].at] \in Stored(HEAD)
        /\ IsFile(d, HEAD) /\ d.chapters = View(p).chapters /\ d.stories = View(p).stories
        /\ d.after = Times[proc[p].at] /\ d.noted = View(p).noted
    <3>1. Times[proc[p].at] \in Stored(HEAD)
      BY <2>4 DEF Stored
    <3> QED BY <1>3, <3>1 DEF IsFile
  <2> HIDE DEF d
  <2>6. Sound(d, page)
    BY <1>3, <2>4, <2>5, StoredNat, SameSound
  <2>7. /\ modified[proc[p].at] \in SUBSET Chapter
        /\ Cardinality(modified[proc[p].at]) \in Nat
    <3>1. modified[proc[p].at] \in SUBSET Chapter
      BY <2>4 DEF LockInv, HEAD
    <3> QED BY <3>1, TableAssumption, FS_Subset, FS_CardinalityType
  <2>8. proc[p].num + Cardinality(next.todo) <= Cardinality(modified[proc[p].at])
    BY <2>2, <2>4, <2>7
  <2>9. ASSUME NEW r, Alike(r, next), r.marked = next.marked, r.view = d,
               r.lock = "reserved"
        PROVE  Run(r, file, page, modified)
    <3>1. Place(r, file, modified)
      BY <1>4, <2>2, <2>3, <2>8, <2>9 DEF Place, Early, Alike
    <3>2. Visible(r, file, page)
      BY <1>3, <2>2, <2>4, <2>5, <2>6, <2>9 DEF Visible, Writes, Alike
    <3> QED BY <2>2, <2>9, <3>1, <3>2 DEF Run, Alike
  <2> QED BY <1>1, <1>4, <2>1, <2>2, <2>9, WriteBacked
<1> QED BY <1>5, <1>6, <1>7

(* A commit that fits into a batch is recorded in one transaction.         *)
LEMMA FilesBacked ==
  ASSUME StampsFit, SmallCommits, LockInv, PagesInv, Backed, NEW p \in Hook,
         OnChapter(p) \/ SawChapter(p) \/ AllSeen(p)
  PROVE  Backed'
<1>1. /\ page' = page /\ modified' = modified /\ lost' = lost
      /\ proc[p].pc \in {"files", "chapter"}
  BY DEF OnChapter, SawChapter, AllSeen, Outside
<1>2. /\ Place(proc[p], file, modified) /\ proc[p].back \in Nat /\ BackOf(file.after) \in Nat
      /\ IsFile(View(p), HEAD) /\ Placed(proc[p], proc[p].view, HEAD)
  BY <1>1, ViewSound DEF LockInv, Sees
<1>3. /\ proc[p].lock = "reserved" /\ proc[p].saw /\ ~proc[p].marked /\ Writes(proc[p])
      /\ proc[p].back = BackOf(file.after) /\ proc[p].at \in 1 .. HEAD
      /\ proc[p].back <= BackOf(file.after)
  BY <1>1, <1>2 DEF Place, Placed, Writes, Early
<1>4. View(p) = proc[p].view /\ Visible(proc[p], file, page)
  BY <1>1, <1>3, ViewSound
<1>5. /\ modified[proc[p].at] \in SUBSET Chapter /\ proc[p].todo \in SUBSET Chapter
      /\ Cardinality(modified[proc[p].at]) \in Nat /\ Cardinality(proc[p].todo) \in Nat
      /\ IsFiniteSet(proc[p].todo) /\ proc[p].num \in Nat
      /\ Cardinality(modified[proc[p].at]) < BatchSize
  <2>1. modified[proc[p].at] \in SUBSET Chapter /\ proc[p].todo \in SUBSET Chapter
    BY <1>2, <1>3 DEF LockInv, HEAD, Placed
  <2>2. /\ IsFiniteSet(modified[proc[p].at]) /\ IsFiniteSet(proc[p].todo)
    BY <2>1, TableAssumption, FS_Subset
  <2>3. proc[p].num \in Nat
    BY <1>2, ChapterNumbers DEF Placed
  <2> QED BY <1>3, <2>1, <2>2, <2>3, FS_CardinalityType DEF SmallCommits
<1>6. CASE OnChapter(p)
  <2> DEFINE next == [Go(p, "chapter") EXCEPT !.num = @ + 1]
  <2>1. /\ proc[p].pc = "files" /\ proc[p].todo # {}
        /\ next.num % BatchSize # 0 => proc' = [proc EXCEPT ![p] = next] /\ file' = file
    BY <1>6 DEF OnChapter
  <2>2. /\ next.pc = "chapter" /\ next.lock = proc[p].lock /\ next.view = proc[p].view
        /\ next.at = proc[p].at /\ next.back = proc[p].back /\ next.num = proc[p].num + 1
        /\ next.todo = proc[p].todo /\ next.saw = proc[p].saw
        /\ next.marked = proc[p].marked
    BY AllFields DEF Fields, Idle
  <2> HIDE DEF next
  <2>3. Cardinality(proc[p].todo) # 0
    BY <1>5, <2>1, FS_EmptySet
  <2>4. proc[p].num + Cardinality(proc[p].todo) <= Cardinality(modified[proc[p].at])
    BY <1>2, <2>1 DEF Place
  <2>5. next.num \in 1 .. (BatchSize - 1) /\ BatchSize \in Nat \ {0}
    BY <1>5, <2>2, <2>3, <2>4, HooksAssumption
  <2>6. next.num % BatchSize # 0
    BY <2>5
  <2>7. Place(next, file, modified)
    BY <1>3, <1>5, <2>2, <2>4 DEF Place, Early
  <2>8. Visible(next, file, page)
    BY <1>3, <1>4, <2>2 DEF Visible, Writes
  <2>9. Run(next, file, page, modified)
    BY <2>2, <2>7, <2>8 DEF Run
  <2> QED BY <1>1, <1>3, <2>1, <2>6, <2>9, OwnBacked
<1>7. CASE SawChapter(p)
  <2> DEFINE t == Times[proc[p].at]
             changes(n) == SawChanges(View(p).chapters, <<TheStory, n>>, t)
             next(n) == [Go(p, "files") EXCEPT !.todo = @ \ {n}, !.restart = @ \/ changes(n)]
             d(n) == [Saw(WithStory(View(p), t), n, t) EXCEPT !.noted[n] = Larger(@, proc[p].at)]
  <2>1. proc[p].pc = "chapter"
    BY <1>7 DEF SawChapter
  <2>2. PICK n \in proc[p].todo : Write(p, next(n), d(n))
    BY <1>7 DEF SawChapter
  <2>3. PICK m : m = d(n)
    OBVIOUS
  <2>4. PICK r1 : r1 = next(n)
    OBVIOUS
  <2>5. /\ DOMAIN r1 = Fields /\ r1.pc = "files" /\ r1.at = proc[p].at
        /\ r1.back = proc[p].back /\ r1.num = proc[p].num /\ r1.saw = proc[p].saw
        /\ r1.todo = proc[p].todo \ {n} /\ r1.marked = proc[p].marked
    BY <2>4, AllFields DEF Fields, Idle
  <2>6. /\ Sound(m, page) /\ m.after = View(p).after
        /\ m.noted = [View(p).noted EXCEPT ![n] = proc[p].at]
    <3>1. PICK v, c : v = View(p) /\ c = proc[p].at
      OBVIOUS
    <3>2. m = ScanSaw(v, n, c)
      BY <2>3, <3>1 DEF ScanSaw
    <3> HIDE DEF next, d, t
    <3>3. /\ IsFile(v, HEAD) /\ Sound(v, page) /\ v.after = Times[c] /\ n \in Chapter
          /\ c \in 1 .. HEAD
      BY <1>2, <1>3, <1>4, <1>5, <3>1 DEF Visible
    <3>4. PageTimes(page)
      BY DEF Backed
    <3>5. /\ Sound(m, page) /\ m.after = v.after
          /\ m.noted = [v.noted EXCEPT ![n] = c]
      BY <3>2, <3>3, <3>4, ScanSound
    <3> QED BY <3>1, <3>5
  <2> HIDE DEF next, d
  <2>7. Cardinality(r1.todo) = Cardinality(proc[p].todo) - 1
    BY <1>5, <2>2, <2>5, FS_RemoveElement
  <2>8. proc[p].num + Cardinality(r1.todo) <= Cardinality(modified[proc[p].at])
    BY <1>2, <1>5, <2>1, <2>7 DEF Place
  <2>9. \A x \in Chapter : m.noted[x] \in {file.noted[x], proc[p].at}
    BY <1>2, <1>3, <1>4, <2>6 DEF Visible, IsFile
  <2>10. ASSUME NEW r, Alike(r, r1), r.marked = r1.marked, r.view = m, r.lock = "reserved"
         PROVE  Run(r, file, page, modified)
    <3>1. Place(r, file, modified)
      BY <1>3, <2>5, <2>8, <2>10 DEF Place, Early, Alike
    <3>2. Writes(r) /\ r.at = proc[p].at
      BY <2>5, <2>10 DEF Writes, Alike
    <3>3. r.at >= 1 /\ r.view.after = Times[r.at]
      BY <1>3, <1>4, <2>6, <2>10, <3>2 DEF Visible
    <3>4. Visible(r, file, page)
      BY <2>6, <2>9, <2>10, <3>2, <3>3 DEF Visible
    <3> QED BY <2>5, <2>10, <3>1, <3>4 DEF Run, Alike
  <2>11. Write(p, r1, m)
    BY <2>2, <2>3, <2>4
  <2> QED BY <1>1, <1>3, <2>5, <2>10, <2>11, WriteBacked
<1>8. CASE AllSeen(p)
  <2> DEFINE next == Go(p, "scanned")
  <2>1. proc' = [proc EXCEPT ![p] = next] /\ file' = file
    BY <1>8 DEF AllSeen
  <2>2. /\ next.pc = "scanned" /\ next.lock = proc[p].lock /\ next.view = proc[p].view
        /\ next.at = proc[p].at /\ next.back = proc[p].back /\ next.saw = proc[p].saw
        /\ next.marked = proc[p].marked
    BY AllFields
  <2> HIDE DEF next
  <2>3. Place(next, file, modified)
    BY <1>3, <2>2 DEF Place, Early
  <2>4. Visible(next, file, page)
    BY <1>3, <1>4, <2>2 DEF Visible, Writes
  <2>5. Run(next, file, page, modified)
    BY <2>2, <2>3, <2>4 DEF Run
  <2> QED BY <1>1, <1>3, <2>1, <2>5, OwnBacked
<1> QED BY <1>6, <1>7, <1>8

-----------------------------------------------------------------------------
(* The export.                                                             *)
LEMMA CategoryBacked ==
  ASSUME StampsFit, LockInv, PagesInv, Backed, NEW p \in Hook,
         GetCategory(p) \/ Chosen(p) \/ CaughtUpCategory(p) \/ CloseAndExit(p)
  PROVE  Backed'
<1>1. /\ page' = page /\ modified' = modified /\ lost' = lost
      /\ proc[p].pc \in {"category", "chosen", "done", "closing"}
  BY DEF GetCategory, Chosen, CaughtUpCategory, CloseAndExit, Outside
<1>2. ~Writes(proc[p]) /\ proc[p].pc # "dying"
  BY <1>1 DEF Writes
<1>3. /\ IsFile(View(p), HEAD) /\ Sound(View(p), page) /\ Place(proc[p], file, modified)
      /\ View(p).after = file.after /\ View(p).noted = file.noted
      /\ proc[p].back \in Nat /\ BackOf(file.after) \in Nat
  BY <1>2, ViewSound
<1>4. proc[p].back <= BackOf(file.after)
  BY <1>3 DEF Place
<1>5. \A pc : /\ DOMAIN Go(p, pc) = Fields /\ Go(p, pc).pc = pc /\ Go(p, pc).lock = proc[p].lock
              /\ Go(p, pc).back = proc[p].back /\ Go(p, pc).saw = proc[p].saw
              /\ Go(p, pc).marked = proc[p].marked
  BY AllFields
<1>6. CASE GetCategory(p)
  <2>1. proc[p].pc = "category" /\ proc[p].lock = "none"
    BY <1>3, <1>6 DEF GetCategory, Place
  <2>2. CASE View(p).category = "absent"
    <3>1. PICK next, d : next = Go(p, "dying") /\ d = [View(p) EXCEPT !.category = "zero"]
      OBVIOUS
    <3>2. Write(p, next, d)
      BY <1>6, <2>2, <3>1 DEF GetCategory
    <3>3. ASSUME NEW r, Alike(r, next), r.marked = next.marked, r.view = d,
                 r.lock = "reserved"
          PROVE  Run(r, file, page, modified)
      BY <1>4, <1>5, <3>1, <3>3 DEF Run, Place, Writes, Early, Alike
    <3> QED BY <1>1, <1>5, <3>1, <3>2, <3>3, WriteBacked
  <2>3. ASSUME NEW pc \in {"chosen", "dying"}, Read(p, Go(p, pc)) PROVE Backed'
    <3>1. PICK next : next = Go(p, pc)
      OBVIOUS
    <3>2. ASSUME NEW r, Alike(r, next), r.marked = next.marked, r.view = View(p),
                 r.lock = IF proc[p].lock = "none" THEN "shared" ELSE proc[p].lock
          PROVE  Run(r, file, page, modified)
      BY <1>3, <1>4, <1>5, <2>1, <3>1, <3>2 DEF Run, Place, Visible, Writes, Early, Alike
    <3> QED BY <1>1, <1>5, <2>3, <3>1, <3>2, ReadBacked
  <2>4. View(p).category # "absent" => \E pc \in {"chosen", "dying"} : Read(p, Go(p, pc))
    BY <1>6 DEF GetCategory
  <2> QED BY <2>2, <2>3, <2>4
<1>7. CASE Chosen(p)
  <2>1. PICK next : next = Go(p, "stories")
    OBVIOUS
  <2>2. Commit(p, next) /\ proc[p].lock = "shared"
    BY <1>3, <1>7, <2>1 DEF Chosen, Place
  <2> QED BY <1>1, <1>2, <1>3, <1>4, <1>5, <2>1, <2>2, PlainCommitBacked
<1>8. CASE CaughtUpCategory(p)
  <2>1. PICK next, d : next = Go(p, "closing") /\ d = View(p)
    OBVIOUS
  <2>2. Write(p, next, d) /\ proc[p].pc = "done"
    BY <1>8, <2>1 DEF CaughtUpCategory
  <2>3. ~proc[p].saw /\ ~proc[p].marked
    BY <1>3, <2>2 DEF Place
  <2>4. ASSUME NEW r, Alike(r, next), r.marked = next.marked, r.view = d,
               r.lock = "reserved"
        PROVE  Run(r, file, page, modified)
    BY <1>3, <1>4, <1>5, <2>1, <2>3, <2>4 DEF Run, Place, Visible, Writes, Early, Alike
  <2> QED BY <1>1, <1>5, <2>1, <2>2, <2>4, WriteBacked
<1>9. CASE CloseAndExit(p)
  <2>1. PICK next : next = Idle
    OBVIOUS
  <2>2. Commit(p, next) /\ proc[p].pc = "closing"
    BY <1>9, <2>1 DEF CloseAndExit
  <2>3. ~proc[p].marked
    BY <1>3, <2>2 DEF Place
  <2>4. /\ DOMAIN next = Fields /\ next.pc = "off" /\ next.back = 0 /\ ~next.saw /\ ~next.marked
    BY <2>1 DEF Idle, Fields
  <2> QED BY <1>1, <1>2, <1>3, <2>2, <2>3, <2>4, PlainCommitBacked
<1> QED BY <1>6, <1>7, <1>8, <1>9

(* A story that is not due has no chapter that is; of one that is, the     *)
(* chapter before the last is marked when their number is news.            *)
LEMMA StoryBacked ==
  ASSUME StampsFit, LockInv, PagesInv, Backed, NEW p \in Hook, ForStory(p)
  PROVE  Backed'
<1> DEFINE d == View(p)
           visited == TheStory \in DueStories(d.stories, proc[p].back)
           count == CountChapters(d.chapters, TheStory)
           marks == count # d.stories[TheStory].chapters /\ count > 1
           m == IF marks THEN Saw(d, count - 1, d.stories[TheStory].updated) ELSE d
           due == DueChapters(m.chapters, TheStory, proc[p].back, count, TRUE)
           changes == marks /\ SawChanges(d.chapters, <<TheStory, count - 1>>,
                                          d.stories[TheStory].updated)
           next == [Go(p, "pages") EXCEPT !.todo = due, !.bound = proc[p].back,
                                          !.restart = @ \/ changes, !.count = count]
<1>1. /\ page' = page /\ modified' = modified /\ lost' = lost /\ proc[p].pc = "stories"
      /\ IF ~visited THEN Read(p, Go(p, "exported"))
         ELSE IF marks THEN Write(p, next, m) ELSE Read(p, next)
  BY DEF ForStory, Outside
<1>2. ~Writes(proc[p]) /\ proc[p].pc # "dying"
  BY <1>1 DEF Writes
<1>3. /\ IsFile(d, HEAD) /\ Sound(d, page) /\ Place(proc[p], file, modified)
      /\ d.after = file.after /\ d.noted = file.noted
      /\ proc[p].back \in Nat /\ BackOf(file.after) \in Nat
  BY <1>2, ViewSound
<1>4. proc[p].back <= BackOf(file.after) /\ proc[p].lock = "none" /\ d = file
  BY <1>1, <1>3 DEF Place, View
<1>5. ASSUME NEW n \in Chapter, Pending(file, page, n)
      PROVE  Has(d, n) /\ Stamp(d, n) \in Int
  BY <1>3, <1>4, <1>5, PendingHas, RowTyped DEF Sound
<1>6. CASE ~visited
  <2>1. PICK s : s = Go(p, "exported")
    OBVIOUS
  <2>2. /\ DOMAIN s = Fields /\ s.pc = "exported" /\ s.lock = proc[p].lock
        /\ s.back = proc[p].back /\ s.saw = proc[p].saw /\ s.marked = proc[p].marked
    BY <2>1, AllFields
  <2>3. ASSUME NEW n \in Chapter, Pending(file, page, n)
        PROVE  Stamp(file, n) <= proc[p].back
    <3>1. /\ TheStory \in DOMAIN d.stories /\ d.stories[TheStory].updated \in Int
          /\ Stamp(d, n) <= d.stories[TheStory].updated
      BY <1>3, <1>5, <2>3, RowTimely
    <3>2. d.stories[TheStory].updated = 0 \/ d.stories[TheStory].updated < proc[p].back
      BY <1>3, <1>6, <3>1 DEF DueStories
    <3> QED BY <1>3, <1>4, <1>5, <2>3, <3>1, <3>2
  <2>4. ASSUME NEW r, Alike(r, s), r.marked = s.marked, r.view = d,
               r.lock = IF proc[p].lock = "none" THEN "shared" ELSE proc[p].lock
        PROVE  Run(r, file, page, modified)
    <3>1. Place(r, file, modified)
      BY <1>4, <2>2, <2>4 DEF Place, Writes, Early, Alike
    <3>2. Visible(r, file, page)
      BY <1>3, <2>2, <2>4 DEF Visible, Writes, Alike
    <3>3. Pass(r, file, page)
      BY <2>2, <2>3, <2>4 DEF Pass, Alike
    <3> QED BY <2>2, <2>4, <3>1, <3>2, <3>3 DEF Run, Alike
  <2>5. Read(p, s)
    BY <1>1, <1>6, <2>1
  <2> QED BY <1>1, <2>2, <2>4, <2>5, ReadBacked
<1>7. CASE visited
  <2>1. /\ TheStory \in DOMAIN d.stories /\ d.stories[TheStory].updated \in Int
        /\ d.stories[TheStory].updated <= d.after /\ SeenCoveredIn(d.stories, d.chapters)
    <3>1. TheStory \in DOMAIN d.stories
      BY <1>7 DEF DueStories
    <3> QED BY <1>3, <3>1 DEF IsFile, Consistent, IsStoryTable, StoryRow, Sound, Timely
  <2>2. count = Count(d) /\ count \in Nat /\ count <= N
    BY CountGrows DEF Count
  <2>3. ASSUME marks
        PROVE  /\ Sound(m, page) /\ m.after = d.after /\ m.noted = d.noted
               /\ DOMAIN d.chapters \subseteq DOMAIN m.chapters
               /\ \A x : Has(d, x) => Has(m, x) /\ Stamp(d, x) <= Stamp(m, x)
               /\ \A x \in Chapter : count <= x => NotSetBack(m, x)
    <3>1. PICK v, n, t : v = d /\ n = count - 1 /\ t = d.stories[TheStory].updated
      OBVIOUS
    <3>2. n \in Chapter /\ t \in Int /\ t <= v.after
      BY <2>1, <2>2, <2>3, <3>1, ChapterNumbers
    <3>3. m = Saw(v, n, t)
      BY <2>3, <3>1
    <3>4. Has(v, n) => Row(v, n).updated <= t
      <4> SUFFICES ASSUME Has(v, n) PROVE Row(v, n).updated <= t
        OBVIOUS
      <4>1. Stamp(v, n) <= t
        BY <1>3, <3>1, RowTimely
      <4>2. Row(v, n).updated <= Stamp(v, n) /\ Row(v, n).updated \in Int /\ Stamp(v, n) \in Int
        BY <1>3, <3>1, RowTyped
      <4> QED BY <3>2, <4>1, <4>2
    <3>5. IsFile(v, HEAD) /\ Sound(v, page) /\ TheStory \in DOMAIN v.stories
          /\ SeenCoveredIn(v.stories, v.chapters)
      BY <1>3, <2>1, <3>1
    <3> HIDE DEF d, count, marks, m
    <3>6. Sound(m, page)
      BY <3>2, <3>3, <3>4, <3>5, SawSound
    <3>7. /\ m.after = v.after /\ m.noted = v.noted
          /\ Has(m, n) /\ \A x : Has(m, x) => Has(v, x) \/ x = n
          /\ \A x : x # n /\ Has(v, x) => Row(m, x) = Row(v, x)
          /\ \A x : Has(v, x) => Has(m, x) /\ Stamp(v, x) <= Stamp(m, x)
          /\ DOMAIN v.chapters \subseteq DOMAIN m.chapters
      BY <3>2, <3>3, <3>5, SawIs
    <3>8. ASSUME NEW x \in Chapter, count <= x, Has(m, x) PROVE Row(m, x).seen <= Row(m, x).updated
      <4>1. x # n
        BY <2>2, <3>1, <3>8
      <4>2. Has(v, x) /\ Row(m, x) = Row(v, x)
        BY <3>7, <3>8, <4>1
      <4>3. NotSetBack(v, x)
        BY <2>2, <3>1, <3>5, <3>8 DEF Sound
      <4> QED BY <4>2, <4>3 DEF NotSetBack
    <3> QED BY <3>1, <3>6, <3>7, <3>8 DEF NotSetBack
  <2>4. /\ Sound(m, page) /\ m.after = d.after /\ m.noted = d.noted
        /\ DOMAIN d.chapters \subseteq DOMAIN m.chapters
        /\ \A x \in Chapter : count <= x => NotSetBack(m, x)
    <3>1. CASE marks
      BY <2>3, <3>1
    <3>2. CASE ~marks
      BY <1>3, <2>2, <3>2 DEF Sound
    <3> QED BY <3>1, <3>2
  <2>5. \A x : Has(d, x) /\ Stamp(d, x) \in Int => Has(m, x) /\ Stamp(d, x) <= Stamp(m, x)
    <3>1. CASE marks
      BY <2>3, <3>1
    <3>2. CASE ~marks
      BY <3>2
    <3> QED BY <3>1, <3>2
  <2>6. PICK s : s = next
    OBVIOUS
  <2>7. /\ DOMAIN s = Fields /\ s.pc = "pages" /\ s.lock = proc[p].lock
        /\ s.back = proc[p].back /\ s.marked = proc[p].marked
        /\ s.count = count /\ s.todo = due /\ s.bound = proc[p].back
    BY <2>6, AllFields DEF Fields, Idle
  <2>8. \A x \in Chapter : Has(m, x) => (x \in due <=> proc[p].back < Stamp(m, x))
    BY DEF DueChapters, ChaptersOf, Has, Stamp, Row
  <2>9. \A x \in due : x \in Chapter /\ Has(m, x)
    BY DEF DueChapters, ChaptersOf, Has
  <2>10. count <= Count(m)
    BY <2>2, <2>4, CountGrows
  <2>11. PICK w : w = m
    OBVIOUS
  <2>12. /\ IF marks THEN Write(p, s, w) ELSE Read(p, s)
         /\ ~marks => w = View(p)
    BY <1>1, <1>7, <2>6, <2>11
  <2>13. ASSUME NEW n \in Chapter, Pending(file, page, n), n \notin due
         PROVE  Stamp(file, n) <= proc[p].back /\ Stamp(w, n) <= proc[p].back
    <3>1. Has(d, n) /\ Stamp(d, n) \in Int /\ Has(m, n) /\ Stamp(d, n) <= Stamp(m, n)
      BY <1>5, <2>5, <2>13
    <3>2. ~(proc[p].back < Stamp(m, n))
      BY <2>8, <2>13, <3>1
    <3>3. Stamp(m, n) \in Int
      <4>1. CASE marks
        <5>1. PICK v, k, t : v = d /\ k = count - 1 /\ t = d.stories[TheStory].updated
          OBVIOUS
        <5>2. k \in Chapter /\ t \in Int
          BY <2>1, <2>2, <4>1, <5>1, ChapterNumbers
        <5>3. m = Saw(v, k, t) /\ IsFile(v, HEAD) /\ TheStory \in DOMAIN v.stories
              /\ SeenCoveredIn(v.stories, v.chapters)
          BY <1>3, <2>1, <4>1, <5>1
        <5> HIDE DEF d, count, marks, m, due, next, changes
        <5>4. IsFile(m, HEAD)
          BY <5>2, <5>3, SawIs
        <5> QED BY <3>1, <5>4, RowTyped
      <4>2. CASE ~marks
        BY <3>1, <4>2
      <4> QED BY <4>1, <4>2
    <3> HIDE DEF m
    <3> QED BY <1>3, <1>4, <2>11, <3>1, <3>2, <3>3
  <2> HIDE DEF due, next, m, marks, count, changes
  <2>14. ASSUME NEW r, Alike(r, s), r.marked = s.marked, r.view = w, r.lock # "none"
         PROVE  Run(r, file, page, modified)
    <3>1. Place(r, file, modified)
      BY <1>4, <2>7, <2>14 DEF Place, Writes, Early, Alike
    <3>2. Visible(r, file, page)
      BY <1>3, <2>4, <2>7, <2>11, <2>14 DEF Visible, Writes, Alike
    <3>3. Chapters(r)
      BY <2>4, <2>7, <2>8, <2>9, <2>10, <2>11, <2>14 DEF Chapters, Alike
    <3>4. Pass(r, file, page)
      BY <2>7, <2>13, <2>14 DEF Pass, Alike
    <3> QED BY <2>7, <2>14, <3>1, <3>2, <3>3, <3>4 DEF Run, Alike
  <2>15. CASE marks
    <3>1. Write(p, s, w)
      BY <2>12, <2>15
    <3>2. ASSUME NEW r, Alike(r, s), r.marked = s.marked, r.view = w, r.lock = "reserved"
          PROVE  Run(r, file, page, modified)
      BY <2>14, <3>2
    <3> QED BY <1>1, <2>7, <3>1, <3>2, WriteBacked
  <2>16. CASE ~marks
    <3>1. Read(p, s) /\ w = View(p)
      BY <2>12, <2>16
    <3>2. ASSUME NEW r, Alike(r, s), r.marked = s.marked, r.view = View(p),
                 r.lock = IF proc[p].lock = "none" THEN "shared" ELSE proc[p].lock
          PROVE  Run(r, file, page, modified)
      BY <1>4, <2>14, <3>1, <3>2
    <3> QED BY <1>1, <2>7, <3>1, <3>2, ReadBacked
  <2> QED BY <2>15, <2>16
<1> QED BY <1>6, <1>7

(* A page is made by the one process that may write: the others see the    *)
(* file, which the new page is no older than.                              *)
LEMMA MadeBacked ==
  ASSUME StampsFit, LockInv, PagesInv, Backed, NEW p \in Hook, NEW r,
         proc' = [proc EXCEPT ![p] = r], file' = file, modified' = modified, lost' = lost,
         NEW n \in Chapter, NEW t \in Int, t <= file.after, NEW pg, page' = pg,
         pg = [page EXCEPT ![n] = [mtime |-> t, head |-> HEAD]],
         \A q \in Others(p) : proc[q].lock \notin Writing,
         Run(r, file, pg, modified), r.marked = proc[p].marked, r.back = proc[p].back
  PROVE  Backed'
<1>1. \A q \in Hook : proc'[q] = IF q = p THEN r ELSE proc[q]
  BY DEF LockInv
<1>2. /\ IsFile(file, HEAD) /\ Sound(file, pg)
      /\ \A x \in Chapter : Pending(file, pg, x) => Pending(file, page, x)
  BY PageSound DEF LockInv, Backed
<1>3. PageTimes(pg)
  <2>1. file.after \in Stored(HEAD) /\ PageTimes(page)
    BY <1>2 DEF IsFile, Backed
  <2> QED BY <2>1, PageTimesMade
<1>4. ASSUME NEW q \in Others(p) PROVE Run(proc[q], file, pg, modified)
  <2>1. Run(proc[q], file, page, modified) /\ Sees(proc[q], file, HEAD) /\ q \in Hook
    BY DEF Others, Backed, LockInv
  <2>2. CASE proc[q].lock = "none" \/ proc[q].pc = "dying"
    BY <2>1, <2>2 DEF Run, Place
  <2>3. CASE proc[q].lock = "shared" /\ proc[q].pc # "dying"
    <3>1. proc[q].view = file
      BY <2>1, <2>3 DEF Sees
    <3>2. Visible(proc[q], file, pg)
      BY <1>2, <2>3, <3>1 DEF Visible, Writes
    <3>3. proc[q].pc \in {"pages", "exported"} => Pass(proc[q], file, pg)
      BY <1>2, <2>1 DEF Run, Pass
    <3> QED BY <2>1, <3>2, <3>3 DEF Run
  <2>4. proc[q].lock \in {"none", "shared"}
    BY <2>1 DEF Sees, Locks, Writing
  <2> QED BY <2>2, <2>3, <2>4
<1>5. \A q \in Hook : Run(proc'[q], file, pg, modified)
  BY <1>1, <1>4 DEF Others
<1>6. PICK procs : procs = proc'
  OBVIOUS
<1>7. \A x, q : q \in Hook /\ Owes(proc[q], file, x) => Owes(procs[q], file, x)
  BY <1>1, <1>6 DEF Owes
<1>8. Weight(proc, file, page, lost)
  BY DEF Backed
<1>9. Weight(procs, file, pg, lost)
  BY <1>2, <1>7, <1>8, StillOwed
<1>10. Weight(proc', file', page', lost')
  BY <1>6, <1>9 DEF Weight, Owed
<1> QED BY <1>2, <1>3, <1>5, <1>10 DEF Backed

(* The last chapter's link moves the row before it to a later time.        *)
LEMMA LinkSound ==
  ASSUME StampsFit, LockInv, PagesInv, Backed, NEW p \in Hook, proc[p].pc = "pages",
         NEW d, d = View(p), NEW n \in proc[p].todo, n > 1, n = proc[p].count,
         \A other \in proc[p].todo : n <= other,
         NEW m, m = Saw(d, n - 1, Row(d, n).updated)
  PROVE  /\ Sound(m, page) /\ m.after = d.after /\ m.noted = d.noted
         /\ IsFile(m, HEAD) /\ DOMAIN d.chapters \subseteq DOMAIN m.chapters
         /\ \A x : Has(d, x) => Has(m, x) /\ Stamp(d, x) <= Stamp(m, x)
         /\ \A x \in Chapter : n <= x => NotSetBack(m, x)
<1>1. /\ IsFile(d, HEAD) /\ Sound(d, page) /\ d.after = file.after /\ d.noted = file.noted
      /\ d = proc[p].view
  <2>1. proc[p].pc # "dying" /\ ~Writes(proc[p])
    BY DEF Writes
  <2>2. proc[p].lock # "none"
    BY DEF Backed, Run, Place
  <2> QED BY <2>1, <2>2, ViewSound DEF View
<1>2. /\ Chapters(proc[p]) /\ Pass(proc[p], file, page)
      /\ Placed(proc[p], d, HEAD)
  BY <1>1 DEF Backed, Run, LockInv, Sees
<1>3. /\ n \in Chapter /\ Has(d, n) /\ TheStory \in DOMAIN d.stories
      /\ SeenCoveredIn(d.stories, d.chapters)
  BY <1>1, <1>2 DEF Placed, ChaptersOf, Has, Sound
<1>4. n - 1 \in Chapter /\ n - 1 \in Int /\ n \in Int
  BY <1>3, ChapterNumbers
<1> DEFINE t == Row(d, n).updated
<1>5. /\ t \in Int /\ t <= d.after /\ Stamp(d, n) = t /\ proc[p].bound < t
  <2>1. NotSetBack(d, n) /\ proc[p].bound < Stamp(d, n)
    BY <1>1, <1>2, <1>3, <1>4 DEF Chapters
  <2>2. t \in Int /\ Stamp(d, n) = t
    BY <1>1, <1>3, <2>1, RowTyped
  <2>3. t <= d.after
    BY <1>1, <1>3, RowTimely
  <2> QED BY <2>1, <2>2, <2>3
<1> HIDE DEF t
<1>6. ~(Count(d) <= n - 1)
  <2>1. n <= Count(d) /\ Count(d) \in Nat
    BY <1>1, <1>2, CountGrows DEF Chapters
  <2> QED BY <1>4, <2>1
<1>7. Has(d, n - 1) /\ Pending(d, page, n - 1) => Row(d, n - 1).updated <= t
  <2> SUFFICES ASSUME Has(d, n - 1), Pending(d, page, n - 1)
               PROVE  Row(d, n - 1).updated <= t
    OBVIOUS
  <2>1. n - 1 \notin proc[p].todo
    BY <1>4
  <2>2. Pending(file, page, n - 1)
    BY <1>1 DEF Pending
  <2>3. Stamp(d, n - 1) <= proc[p].bound /\ proc[p].bound \in Int
    BY <1>1, <1>2, <1>4, <2>1, <2>2 DEF Pass, Placed
  <2>4. /\ Row(d, n - 1).updated <= Stamp(d, n - 1)
        /\ Row(d, n - 1).updated \in Int /\ Stamp(d, n - 1) \in Int
    BY <1>1, RowTyped
  <2> QED BY <1>1, <1>5, <2>3, <2>4
<1>8. PICK k : k = n - 1
  OBVIOUS
<1>9. k \in Chapter /\ m = Saw(d, k, t)
  BY <1>4, <1>8 DEF t
<1>10. Sound(m, page)
  BY <1>1, <1>3, <1>5, <1>6, <1>7, <1>8, <1>9, SawSound
<1>11. /\ IsFile(m, HEAD) /\ m.after = d.after /\ m.noted = d.noted
       /\ \A x : Has(m, x) => Has(d, x) \/ x = k
       /\ \A x : x # k /\ Has(d, x) => Row(m, x) = Row(d, x)
       /\ \A x : Has(d, x) => Has(m, x) /\ Stamp(d, x) <= Stamp(m, x)
       /\ DOMAIN d.chapters \subseteq DOMAIN m.chapters
  BY <1>1, <1>3, <1>5, <1>9, SawIs
<1>12. ASSUME NEW x \in Chapter, n <= x PROVE NotSetBack(m, x)
  <2>1. NotSetBack(d, x) /\ x # k
    BY <1>1, <1>2, <1>4, <1>8, <1>12, ChapterNumbers DEF Chapters
  <2> QED BY <1>11, <2>1 DEF NotSetBack
<1> QED BY <1>10, <1>11, <1>12

LEMMA ChapterBacked ==
  ASSUME StampsFit, LockInv, PagesInv, Backed, NEW p \in Hook, ForChapter(p)
  PROVE  Backed'
<1> DEFINE d == View(p)
           t(n) == d.chapters[<<TheStory, n>>].updated
           links(n) == n > 1 /\ n = proc[p].count
           makes(n) == page[n].mtime < t(n)
           m(n) == IF links(n) THEN Saw(d, n - 1, t(n)) ELSE d
           restarts(n) == \/ proc[p].restart
                          \/ links(n) /\ SawChanges(d.chapters, <<TheStory, n - 1>>, t(n))
           again(n) == DueChapters(m(n).chapters, TheStory, t(n), proc[p].count, TRUE)
           waiting(n) == {other \in proc[p].todo \ {n} : d.noted[other] > page[other].head}
           cuts(n) == proc[p].cut \/ ~(waiting(n) \subseteq again(n))
           next(n) == IF restarts(n)
                      THEN [proc[p] EXCEPT !.todo = again(n), !.bound = t(n), !.restart = FALSE,
                                           !.any = TRUE, !.cut = cuts(n)]
                      ELSE [proc[p] EXCEPT !.todo = @ \ {n}, !.any = TRUE]
           made(n) == [page EXCEPT ![n] = [mtime |-> t(n), head |-> HEAD]]
<1>1. /\ proc[p].pc = "pages" /\ modified' = modified /\ lost' = lost
      /\ \E n \in proc[p].todo :
           /\ \A other \in proc[p].todo : n <= other
           /\ IF links(n) \/ makes(n) THEN Write(p, next(n), m(n)) ELSE Read(p, next(n))
           /\ page' = IF makes(n) /\ proc'[p].pc = "pages" THEN made(n) ELSE page
  BY DEF ForChapter
<1>2. PICK n \in proc[p].todo :
        /\ \A other \in proc[p].todo : n <= other
        /\ IF links(n) \/ makes(n) THEN Write(p, next(n), m(n)) ELSE Read(p, next(n))
        /\ page' = IF makes(n) /\ proc'[p].pc = "pages" THEN made(n) ELSE page
  BY <1>1
<1>3. /\ IsFile(d, HEAD) /\ Sound(d, page) /\ d.after = file.after /\ d.noted = file.noted
      /\ proc[p].back \in Nat /\ d = proc[p].view /\ Place(proc[p], file, modified)
      /\ proc[p].lock # "none"
  <2>1. proc[p].pc # "dying" /\ ~Writes(proc[p])
    BY <1>1 DEF Writes
  <2>2. proc[p].lock # "none"
    BY <1>1 DEF Backed, Run, Place
  <2> QED BY <2>1, <2>2, ViewSound DEF View
<1>4. /\ Chapters(proc[p]) /\ Pass(proc[p], file, page) /\ Placed(proc[p], d, HEAD)
      /\ Sees(proc[p], file, HEAD)
  BY <1>1, <1>3 DEF Backed, Run, LockInv, Sees
<1>5. /\ n \in Chapter /\ Has(d, n) /\ t(n) = Row(d, n).updated
      /\ t(n) \in Int /\ t(n) <= file.after
      /\ \A x \in proc[p].todo : x \in Chapter /\ Has(d, x)
  <2>1. n \in Chapter /\ \A x \in proc[p].todo : x \in Chapter /\ Has(d, x)
    BY <1>1, <1>4 DEF Placed, ChaptersOf, Has
  <2>2. t(n) = Row(d, n).updated
    BY DEF Row
  <2> QED BY <1>3, <2>1, <2>2, RowTyped, RowTimely
<1>6. PICK w : w = m(n)
  OBVIOUS
<1>7. /\ Sound(w, page) /\ w.after = file.after /\ w.noted = file.noted /\ IsFile(w, HEAD)
      /\ DOMAIN d.chapters \subseteq DOMAIN w.chapters
      /\ \A x : Has(d, x) => Has(w, x) /\ Stamp(d, x) <= Stamp(w, x)
      /\ \A x \in Chapter : proc[p].count <= x => NotSetBack(w, x)
      /\ ~links(n) => w = d
  <2>1. CASE links(n)
    <3>1. PICK v : v = d
      OBVIOUS
    <3>2. w = Saw(v, n - 1, Row(v, n).updated)
      BY <1>5, <1>6, <2>1, <3>1
    <3>3. v = View(p) /\ n > 1 /\ n = proc[p].count
      BY <2>1, <3>1
    <3>5. \A other \in proc[p].todo : n <= other
      BY <1>2
    <3> HIDE DEF d, t, links, makes, m, restarts, again, waiting, cuts, next, made
    <3>4. /\ Sound(w, page) /\ w.after = v.after /\ w.noted = v.noted
          /\ IsFile(w, HEAD) /\ DOMAIN v.chapters \subseteq DOMAIN w.chapters
          /\ \A x : Has(v, x) => Has(w, x) /\ Stamp(v, x) <= Stamp(w, x)
          /\ \A x \in Chapter : n <= x => NotSetBack(w, x)
      BY <1>1, <3>2, <3>3, <3>5, LinkSound
    <3>6. links(n) /\ proc[p].count = n
      BY <2>1, <3>3
    <3> QED BY <1>3, <3>1, <3>4, <3>6
  <2>2. CASE ~links(n)
    <3>1. w = d
      BY <1>6, <2>2
    <3>2. \A x : Has(d, x) => Stamp(d, x) <= Stamp(d, x)
      BY <1>3, RowTyped
    <3>3. \A x \in Chapter : proc[p].count <= x => NotSetBack(d, x)
      BY <1>3, <1>4 DEF Chapters
    <3> HIDE DEF d, links
    <3> QED BY <1>3, <3>1, <3>2, <3>3
  <2> QED BY <2>1, <2>2
<1>8. PICK s, pg : s = next(n) /\ pg = made(n)
  OBVIOUS
<1>9. /\ DOMAIN s = Fields /\ s.pc = "pages" /\ s.lock = proc[p].lock
      /\ s.back = proc[p].back /\ s.marked = proc[p].marked /\ s.saw = proc[p].saw
      /\ s.count = proc[p].count
      /\ \/ s.todo = proc[p].todo \ {n} /\ s.bound = proc[p].bound /\ s.cut = proc[p].cut
         \/ /\ s.todo = DueChapters(w.chapters, TheStory, t(n), proc[p].count, TRUE)
            /\ s.bound = t(n) /\ s.cut = cuts(n) /\ s.todo = again(n)
  <2>1. DOMAIN proc[p] = Fields
    BY <1>4 DEF Sees
  <2>2. CASE restarts(n)
    BY <1>1, <1>6, <1>8, <2>1, <2>2 DEF Fields, Idle
  <2>3. CASE ~restarts(n)
    BY <1>1, <1>8, <2>1, <2>3 DEF Fields, Idle
  <2> QED BY <2>2, <2>3
<1>16. ASSUME NEW x \in Chapter, Has(w, x)
       PROVE  /\ Stamp(w, x) \in Int
              /\ x \in DueChapters(w.chapters, TheStory, t(n), proc[p].count, TRUE)
                 <=> t(n) < Stamp(w, x)
  <2>1. Stamp(w, x) \in Int
    BY <1>7, <1>16, RowTyped
  <2> QED BY <1>5, <1>16, <2>1 DEF DueChapters, ChaptersOf, Has, Stamp, Row
<1>17. \A x \in DueChapters(w.chapters, TheStory, t(n), proc[p].count, TRUE) :
          x \in Chapter /\ Has(w, x)
  BY DEF DueChapters, ChaptersOf, Has
<1>18. proc[p].bound \in Int
  BY <1>4 DEF Placed
<1>10. PICK after : after = IF makes(n) THEN pg ELSE page
  OBVIOUS
<1>11. /\ Sound(w, after)
       /\ \A x \in Chapter : Pending(file, after, x) => x # n /\ Pending(file, page, x)
  <2>1. CASE makes(n)
    <3>1. /\ Sound(w, pg)
          /\ \A x \in Chapter : Pending(w, pg, x) => x # n /\ Pending(w, page, x)
      <4>1. PICK time : time = t(n)
        OBVIOUS
      <4>2. pg = [page EXCEPT ![n] = [mtime |-> time, head |-> HEAD]]
        BY <1>8, <4>1
      <4> HIDE DEF d, t, links, makes, m, restarts, again, waiting, cuts, next, made
      <4>3. n \in Chapter /\ IsFile(w, HEAD) /\ Sound(w, page)
        BY <1>5, <1>7
      <4> QED BY <4>2, <4>3, PageSound
    <3> QED BY <1>7, <1>10, <2>1, <3>1 DEF Pending
  <2>2. CASE ~makes(n)
    <3>1. ~Pending(d, page, n)
      <4>1. Older(d, page, n)
        BY <1>3, <1>5 DEF Sound
      <4>2. page[n].mtime \in Int
        BY <1>5 DEF PagesInv
      <4> QED BY <1>5, <2>2, <4>1, <4>2 DEF Older
    <3>2. after = page
      BY <1>10, <2>2
    <3> QED BY <1>3, <1>7, <3>1, <3>2 DEF Pending
  <2> QED BY <2>1, <2>2
<1>12. ASSUME NEW r, Alike(r, s), r.marked = s.marked, r.view = w, r.lock # "none"
       PROVE  Run(r, file, after, modified)
  <2>1. Place(r, file, modified)
    BY <1>3, <1>9, <1>12 DEF Place, Writes, Early, Alike
  <2>2. Visible(r, file, after)
    BY <1>7, <1>9, <1>11, <1>12 DEF Visible, Writes, Alike
  <2>3. Chapters(r)
    <3>1. proc[p].count <= Count(w)
      <4>1. Count(d) \in Nat /\ Count(w) \in Nat /\ Count(d) <= Count(w)
        BY <1>7, CountGrows
      <4> QED BY <1>3, <1>4, <4>1 DEF Chapters, Placed
    <3>2. \A x \in proc[p].todo : proc[p].bound < Stamp(w, x)
      <4> TAKE x \in proc[p].todo
      <4>1. Has(d, x) /\ Has(w, x) /\ Stamp(d, x) <= Stamp(w, x) /\ proc[p].bound < Stamp(d, x)
        BY <1>3, <1>4, <1>5, <1>7 DEF Chapters
      <4>2. Stamp(d, x) \in Int /\ Stamp(w, x) \in Int
        BY <1>3, <1>7, <4>1, RowTyped
      <4> QED BY <1>18, <4>1, <4>2
    <3>3. \A x \in s.todo : s.bound < Stamp(w, x)
      BY <1>9, <1>16, <1>17, <3>2
    <3> QED BY <1>7, <1>9, <1>12, <3>1, <3>3 DEF Chapters, Alike
  <2>4. ASSUME NEW x \in Chapter, Pending(file, after, x), x \notin r.todo \/ r.pc = "exported"
        PROVE  /\ ~r.cut => Stamp(file, x) <= r.back
               /\ r.pc = "pages" /\ r.count \in r.todo => Stamp(r.view, x) <= r.bound
    <3>1. /\ Pending(file, page, x) /\ x # n /\ x \notin s.todo
          /\ r.back = proc[p].back /\ r.count = proc[p].count /\ r.todo = s.todo
          /\ r.bound = s.bound /\ r.cut = s.cut /\ r.view = w
      BY <1>9, <1>11, <1>12, <2>4 DEF Alike
    <3> HIDE DEF next, made, restarts, again, waiting, cuts, m, makes, links, t, d
    <3>2. x \notin proc[p].todo =>
            /\ ~proc[p].cut => Stamp(file, x) <= proc[p].back
            /\ proc[p].count \in proc[p].todo => Stamp(d, x) <= proc[p].bound
      BY <1>1, <1>3, <1>4, <3>1 DEF Pass
    <3>3. Has(w, x) /\ Stamp(w, x) \in Int
      <4>1. Pending(w, page, x)
        BY <1>7, <3>1 DEF Pending
      <4>2. Has(w, x)
        BY <1>7, <4>1, PendingHas DEF Sound
      <4> QED BY <1>16, <4>2
    <3>4. CASE s.todo = proc[p].todo \ {n} /\ s.bound = proc[p].bound /\ s.cut = proc[p].cut
      <4>1. proc[p].count \in s.todo => proc[p].count \in proc[p].todo /\ w = d
        BY <1>7, <3>4 DEF links
      <4> QED BY <3>1, <3>2, <3>4, <4>1
    <3>5. CASE /\ s.todo = DueChapters(w.chapters, TheStory, t(n), proc[p].count, TRUE)
               /\ s.bound = t(n) /\ s.cut = cuts(n) /\ s.todo = again(n)
      <4>1. Stamp(w, x) <= t(n)
        <5>1. ~(t(n) < Stamp(w, x))
          BY <1>16, <3>1, <3>3, <3>5
        <5>2. t(n) \in Int
          BY <1>5
        <5> QED BY <3>3, <5>1, <5>2
      <4>2. ~s.cut => ~proc[p].cut /\ x \notin proc[p].todo
        <5>1. x \in proc[p].todo => x \in waiting(n)
          <6>1. d.noted[x] > page[x].head
            BY <1>3, <3>1 DEF Pending
          <6> QED BY <3>1, <6>1 DEF waiting
        <5> QED BY <3>1, <3>5, <5>1 DEF cuts
      <4> QED BY <3>1, <3>2, <3>5, <4>1, <4>2
    <3> QED BY <1>9, <3>4, <3>5
  <2> QED BY <1>9, <1>12, <2>1, <2>2, <2>3, <2>4 DEF Run, Pass, Alike
<1>13. /\ IF links(n) \/ makes(n) THEN Write(p, s, w) ELSE Read(p, s) /\ w = View(p)
       /\ page' = IF makes(n) /\ proc'[p].pc = "pages" THEN pg ELSE page
       /\ pg = [page EXCEPT ![n] = [mtime |-> t(n), head |-> HEAD]]
  BY <1>2, <1>6, <1>8
<1>14. CASE ~makes(n)
  <2>1. page' = page /\ after = page
    BY <1>10, <1>13, <1>14
  <2> HIDE DEF next, m, made, makes, links, restarts, again, waiting, cuts, t, d
  <2>2. CASE links(n)
    <3>1. Write(p, s, w)
      BY <1>13, <2>2
    <3>2. ASSUME NEW r, Alike(r, s), r.marked = s.marked, r.view = w, r.lock = "reserved"
          PROVE  Run(r, file, page, modified)
      BY <1>12, <2>1, <3>2
    <3> QED BY <1>1, <1>9, <2>1, <3>1, <3>2, WriteBacked
  <2>3. CASE ~links(n)
    <3>1. Read(p, s) /\ w = View(p)
      BY <1>13, <1>14, <2>3
    <3>2. ASSUME NEW r, Alike(r, s), r.marked = s.marked, r.view = View(p),
                 r.lock = IF proc[p].lock = "none" THEN "shared" ELSE proc[p].lock
          PROVE  Run(r, file, page, modified)
      BY <1>3, <1>12, <2>1, <3>1, <3>2
    <3> QED BY <1>1, <1>9, <2>1, <3>1, <3>2, ReadBacked
  <2> QED BY <2>2, <2>3
<1>15. CASE makes(n)
  <2> HIDE DEF next, m, made, links, restarts, again, waiting, cuts, d
  <2>1. Write(p, s, w)
    BY <1>13, <1>15
  <2>2. CASE \E q \in Others(p) : proc[q].lock \in Writing
    <3>1. Dies(p, proc[p].lock)
      BY <2>1, <2>2 DEF Write, Writing
    <3>2. proc'[p].pc = "dying"
      BY <3>1, <1>4 DEF Dies, LockInv, Sees, Fields, Idle
    <3>3. page' = page
      BY <1>13, <3>2
    <3> QED BY <1>1, <3>1, <3>3, DiesBacked
  <2>3. CASE ~ \E q \in Others(p) : proc[q].lock \in Writing
    <3> DEFINE r == [s EXCEPT !.lock = "reserved", !.view = w]
    <3>1. proc' = [proc EXCEPT ![p] = r] /\ file' = file
      BY <2>1, <2>3 DEF Write, Writing
    <3>2. /\ Alike(r, s) /\ r.marked = s.marked /\ r.view = w /\ r.lock = "reserved"
          /\ r.pc = "pages"
      BY <1>9 DEF Fields, Idle, Alike
    <3> HIDE DEF r
    <3>3. proc'[p].pc = "pages"
      BY <3>1, <3>2 DEF LockInv
    <3>4. page' = pg /\ after = pg
      BY <1>10, <1>13, <1>15, <3>3
    <3>5. Run(r, file, pg, modified)
      BY <1>12, <3>2, <3>4
    <3>6. r.marked = proc[p].marked /\ r.back = proc[p].back
      BY <1>9, <3>2 DEF Alike
    <3> HIDE DEF t, makes
    <3> QED BY <1>1, <1>5, <1>13, <2>3, <3>1, <3>4, <3>5, <3>6, MadeBacked
  <2> QED BY <2>2, <2>3
<1> QED BY <1>14, <1>15

LEMMA DoneBacked ==
  ASSUME StampsFit, LockInv, PagesInv, Backed, NEW p \in Hook, StoryDone(p)
  PROVE  Backed'
<1> DEFINE d == View(p)
           m == [d EXCEPT !.stories[TheStory].chapters = proc[p].count]
<1>1. /\ proc[p].pc = "pages" /\ proc[p].todo = {} /\ page' = page /\ modified' = modified
      /\ lost' = lost
      /\ Write(p, Go(p, "exported"), m) \/ Read(p, Go(p, "exported"))
  BY DEF StoryDone, Outside
<1>2. /\ IsFile(d, HEAD) /\ Sound(d, page) /\ d.after = file.after /\ d.noted = file.noted
      /\ proc[p].back \in Nat /\ Place(proc[p], file, modified) /\ proc[p].lock # "none"
      /\ Pass(proc[p], file, page)
  <2>1. proc[p].pc # "dying" /\ ~Writes(proc[p])
    BY <1>1 DEF Writes
  <2>2. proc[p].lock # "none" /\ Pass(proc[p], file, page)
    BY <1>1 DEF Backed, Run, Place
  <2> QED BY <2>1, <2>2, ViewSound
<1>3. /\ Sound(m, page) /\ m.after = d.after /\ m.noted = d.noted
  <2>1. TheStory \in DOMAIN d.stories
    BY <1>1, <1>2 DEF LockInv, Sees, Placed, View
  <2>2. DOMAIN d.stories = {TheStory} /\ d.stories[TheStory] \in StoryRow
    BY <1>2, <2>1, HooksAssumption DEF IsFile, Consistent, IsStoryTable
  <2> DEFINE st == [d.stories EXCEPT ![TheStory].chapters = proc[p].count]
  <2>3. DOMAIN st = DOMAIN d.stories /\ \A s \in DOMAIN d.stories : st[s].updated = d.stories[s].updated
    BY <2>2 DEF StoryRow
  <2> HIDE DEF st
  <2>4. m = [d EXCEPT !.stories = st]
    BY DEF st
  <2>5. /\ m.stories = st /\ m.chapters = d.chapters /\ m.noted = d.noted
        /\ m.after = d.after
    BY <1>2, <2>4 DEF IsFile
  <2> HIDE DEF m, d
  <2>6. d.after \in Nat /\ d.after <= m.after
    BY <1>2, <2>5, StoredNat DEF IsFile
  <2> QED BY <1>2, <2>3, <2>5, <2>6, SameSound
<1>4. PICK s, w : s = Go(p, "exported") /\ w = m
  OBVIOUS
<1>5. /\ DOMAIN s = Fields /\ s.pc = "exported" /\ s.lock = proc[p].lock
      /\ s.back = proc[p].back /\ s.marked = proc[p].marked /\ s.cut = proc[p].cut
  BY <1>4, AllFields
<1> HIDE DEF m
<1>6. ASSUME NEW r, Alike(r, s), r.marked = s.marked, r.view \in {w, d}, r.lock # "none"
      PROVE  Run(r, file, page, modified)
  <2>1. Place(r, file, modified)
    BY <1>2, <1>5, <1>6 DEF Place, Writes, Early, Alike
  <2>2. Visible(r, file, page)
    BY <1>2, <1>3, <1>4, <1>5, <1>6 DEF Visible, Writes, Alike
  <2>3. Pass(r, file, page)
    BY <1>1, <1>2, <1>5, <1>6 DEF Pass, Alike
  <2> QED BY <1>5, <1>6, <2>1, <2>2, <2>3 DEF Run, Alike
<1>7. CASE Write(p, Go(p, "exported"), m)
  <2>1. Write(p, s, w)
    BY <1>4, <1>7
  <2>2. ASSUME NEW r, Alike(r, s), r.marked = s.marked, r.view = w, r.lock = "reserved"
        PROVE  Run(r, file, page, modified)
    BY <1>6, <2>2
  <2> QED BY <1>1, <1>5, <2>1, <2>2, WriteBacked
<1>8. CASE Read(p, Go(p, "exported"))
  <2>1. Read(p, s)
    BY <1>4, <1>8
  <2>2. ASSUME NEW r, Alike(r, s), r.marked = s.marked, r.view = View(p),
               r.lock = IF proc[p].lock = "none" THEN "shared" ELSE proc[p].lock
        PROVE  Run(r, file, page, modified)
    BY <1>2, <1>6, <2>2
  <2> QED BY <1>1, <1>5, <2>1, <2>2, ReadBacked
<1> QED BY <1>1, <1>7, <1>8

-----------------------------------------------------------------------------
LEMMA PushBacked == ASSUME LockInv, Backed, Push PROVE Backed'
<1>1. /\ proc' = proc /\ file' = file /\ page' = page /\ lost' = lost
      /\ \A c \in 1 .. HEAD : modified'[c] = modified[c]
  BY DEF Push, LockInv, HEAD
<1>2. ASSUME NEW p \in Hook PROVE Run(proc[p], file, page, modified')
  <2>1. Run(proc[p], file, page, modified) /\ Placed(proc[p], proc[p].view, HEAD)
    BY DEF Backed, LockInv, Sees
  <2>2. proc[p].pc \in {"files", "chapter"} => modified'[proc[p].at] = modified[proc[p].at]
    BY <1>1, <2>1 DEF Placed
  <2>3. Place(proc[p], file, modified')
    BY <2>1, <2>2 DEF Run, Place
  <2> QED BY <2>1, <2>3 DEF Run
<1> QED BY <1>1, <1>2 DEF Backed

LEMMA NextBacked ==
  ASSUME StampsFit, SmallCommits, LockInv, PagesInv, Backed, [Next]_vars
  PROVE  Backed'
<1>1. CASE Push
  BY <1>1, PushBacked
<1>2. ASSUME NEW p \in Hook, Start(p) PROVE Backed'
  BY <1>2, OpeningBacked
<1>3. ASSUME NEW p \in Hook, Kill(p) \/ Exit(p) PROVE Backed'
  BY <1>3, GoneBacked DEF Kill, Exit
<1>4. ASSUME NEW p \in Hook, Step(p), ~Exit(p) PROVE Backed'
  BY <1>4, OpeningBacked, HeadBacked, FilesBacked, ScannedBacked, CategoryBacked, StoryBacked,
     ChapterBacked, DoneBacked, ExportedBacked DEF Step
<1>5. CASE UNCHANGED vars
  BY <1>5 DEF Backed, vars
<1> QED BY <1>1, <1>2, <1>3, <1>4, <1>5 DEF Next

-----------------------------------------------------------------------------
LEMMA InitSound == ASSUME Init PROVE Sound(file, page) /\ PageTimes(page)
<1>1. LockInv /\ PagesInv /\ IsFile(file, HEAD) /\ HEAD = 1
  BY InitLockInv, InitPages DEF LockInv, Init, HEAD
<1>2. /\ file.noted \in [Chapter -> 0 .. 1] /\ Times[1] \in Int
      /\ N \in Nat /\ Chapter = 1 .. N
  BY <1>1, HooksAssumption, ChapterNumbers DEF IsFile
<1>3. \A n \in Chapter : /\ page[n].head = file.noted[n]
                         /\ page[n].mtime = IF file.noted[n] = 0 THEN 0
                                            ELSE Times[file.noted[n]]
  BY DEF Init
<1>4. \A n \in Chapter : page[n].mtime = TimeOf(file.noted[n]) /\ page[n].head = file.noted[n]
  BY <1>3 DEF TimeOf
<1>5. \A n \in Chapter : file.noted[n] \in {0, 1} /\ TimeOf(file.noted[n]) \in Int
  BY <1>2 DEF TimeOf
<1>6. PageTimes(page) /\ \A n \in Chapter : ~Pending(file, page, n)
  BY <1>4, <1>5 DEF PageTimes, Pending
<1>7. CASE file = NewFile
  <2>1. /\ DOMAIN file.stories = {} /\ DOMAIN file.chapters = {}
        /\ \A n \in Chapter : file.noted[n] = 0
    BY <1>7 DEF NewFile, EmptyTable
  <2>2. Timely(file) /\ SeenCoveredIn(file.stories, file.chapters)
    BY <2>1 DEF Timely, SeenCoveredIn
  <2> QED BY <1>6, <2>1, <2>2 DEF Sound, NotedRow, Older, NotSetBack, Has
<1>8. ASSUME NEW last \in Chapter, file = ServedFile(last) PROVE Sound(file, page)
  <2>1. DOMAIN file.chapters = Story \X (1 .. last)
    BY <1>8, ServedFileIs
  <2>2. /\ file.after = Times[1]
        /\ file.noted = [n \in Chapter |-> IF n <= last THEN 1 ELSE 0]
        /\ file.stories = [s \in Story |-> [NewStory(Times[1]) EXCEPT !.chapters = last]]
        /\ file.chapters = [k \in Story \X (1 .. last) |->
                              [created |-> k[2], updated |-> Times[1], seen |-> Times[1]]]
    BY <1>8 DEF ServedFile
  <2>3. [NewStory(Times[1]) EXCEPT !.chapters = last].updated = Times[1]
    BY DEF NewStory
  <2>4. /\ DOMAIN file.stories = Story
        /\ \A s \in Story : file.stories[s].updated = Times[1]
    BY <2>2, <2>3
  <2>5. \A k \in DOMAIN file.chapters : file.chapters[k].updated = Times[1]
                                        /\ file.chapters[k].seen = Times[1]
    BY <2>1, <2>2
  <2>6. \A k \in DOMAIN file.chapters : k[1] \in Story
    BY <2>1
  <2>7. Timely(file) /\ SeenCoveredIn(file.stories, file.chapters)
    <3>1. file.after = Times[1]
      BY <2>2
    <3> QED BY <1>2, <2>4, <2>5, <2>6, <3>1 DEF Timely, SeenCoveredIn
  <2>8. ASSUME NEW n \in Chapter, Has(file, n)
        PROVE  Row(file, n).updated = Times[1] /\ Row(file, n).seen = Times[1]
    BY <2>5, <2>8 DEF Has, Row
  <2>9. ASSUME NEW n \in Chapter PROVE NotSetBack(file, n)
    BY <1>2, <2>8, <2>9 DEF NotSetBack
  <2>10. ASSUME NEW n \in Chapter PROVE NotedRow(file, n)
    <3> SUFFICES ASSUME file.noted[n] > 0
                 PROVE  /\ Has(file, n) /\ Times[file.noted[n]] <= file.after
                        /\ Times[file.noted[n]] - N < Stamp(file, n)
      BY DEF NotedRow
    <3>1. n <= last /\ file.noted[n] = 1
      BY <2>2
    <3>2. n \in 1 .. last /\ TheStory \in Story
      BY <1>2, <3>1, HooksAssumption
    <3>3. Has(file, n)
      BY <2>1, <3>2 DEF Has
    <3>4. Stamp(file, n) = Times[1]
      BY <1>2, <2>8, <3>3 DEF Stamp, Actual, Larger
    <3>5. 0 < N
      BY <1>2
    <3> QED BY <1>2, <2>2, <3>1, <3>3, <3>4, <3>5
  <2> QED BY <1>6, <2>7, <2>9, <2>10 DEF Sound, Older
<1> QED BY <1>6, <1>7, <1>8 DEF Init

LEMMA InitBacked == ASSUME StampsFit, Init PROVE Backed
<1>1. LockInv /\ PagesInv /\ lost = 0 /\ \A p \in Hook : proc[p] = Idle
  BY InitLockInv, InitPages DEF Init
<1>2. Sound(file, page) /\ PageTimes(page)
  BY InitSound
<1>3. Run(Idle, file, page, modified)
  <2>1. file.after \in Stored(HEAD) /\ file.after <= file.after
    BY <1>1, FileStays DEF LockInv, IsFile
  <2>2. BackOf(file.after) \in Nat
    BY <1>1, <2>1, BackOfStored
  <2> QED BY <2>2 DEF Run, Place, Idle, Writes, Early
<1>4. \A n \in Chapter : ~Pending(file, page, n)
  <2>1. \A n \in Chapter : page[n].head = file.noted[n] /\ file.noted[n] \in Int
    BY <1>1, StoredNat DEF Init, LockInv, IsFile
  <2> QED BY <2>1 DEF Pending
<1> QED BY <1>1, <1>2, <1>3, <1>4 DEF Backed, Weight

LEMMA SmallBefore == ASSUME LockInv, [Next]_vars, SmallCommits' PROVE SmallCommits
<1>1. HEAD \in Nat
  BY StoredNat
<1>2. CASE Push
  <2>1. HEAD' = HEAD + 1 /\ \A c \in 1 .. HEAD : c \in 1 .. HEAD' /\ modified'[c] = modified[c]
    BY <1>1, <1>2 DEF Push, LockInv, HEAD
  <2> QED BY <2>1 DEF SmallCommits
<1>3. CASE modified' = modified
  BY <1>3 DEF SmallCommits, HEAD
<1>4. Push \/ modified' = modified
  BY DEF Next, vars, Start, Kill, Gone, Step, Schema, SchemaDone, CheckCommitting,
         InsertCommitting, Opened, LastSeenCommit, ReadHead, OnCommit, OnChapter,
         SawChapter, AllSeen, Scanned, GetCategory, Chosen, ForStory, ForChapter,
         StoryDone, Exported, CaughtUpCategory, CloseAndExit, Exit, Outside
<1> QED BY <1>2, <1>3, <1>4

(* A step is of one process, and only one ends the pages.                  *)
LEMMA OwnOnly ==
  ASSUME LockInv, NEW p \in Hook, NEW q \in Hook, p # q, Start(q) \/ Kill(q) \/ Step(q)
  PROVE  proc'[p] = proc[p]
<1>1. \A next : proc' = [proc EXCEPT ![q] = next] => proc'[p] = proc[p]
  BY DEF LockInv
<1>2. \A lock : Dies(q, lock) => proc'[p] = proc[p]
  BY <1>1 DEF Dies
<1>3. \A next : Read(q, next) => proc'[p] = proc[p]
  BY <1>1, <1>2 DEF Read
<1>4. \A next, view : Write(q, next, view) => proc'[p] = proc[p]
  BY <1>1, <1>2 DEF Write
<1>5. \A next : Commit(q, next) => proc'[p] = proc[p]
  BY <1>1, <1>2 DEF Commit
<1>6. CASE Start(q) \/ Kill(q) \/ Exit(q)
  BY <1>1, <1>6 DEF Start, Kill, Exit, Gone
<1>7. CASE \/ Schema(q) \/ SchemaDone(q) \/ CheckCommitting(q) \/ InsertCommitting(q)
           \/ Opened(q)
  BY <1>3, <1>4, <1>5, <1>7
     DEF Schema, SchemaDone, CheckCommitting, InsertCommitting, Opened
<1>8. CASE LastSeenCommit(q) \/ ReadHead(q) \/ OnCommit(q) \/ OnChapter(q)
  BY <1>1, <1>3, <1>4, <1>5, <1>8 DEF LastSeenCommit, ReadHead, OnCommit, OnChapter
<1>9. CASE SawChapter(q) \/ AllSeen(q) \/ Scanned(q) \/ GetCategory(q) \/ Chosen(q)
  BY <1>1, <1>3, <1>4, <1>5, <1>9 DEF SawChapter, AllSeen, Scanned, GetCategory, Chosen
<1>10. CASE \/ ForStory(q) \/ ForChapter(q) \/ StoryDone(q) \/ Exported(q)
            \/ CaughtUpCategory(q) \/ CloseAndExit(q)
  BY <1>3, <1>4, <1>5, <1>10
     DEF ForStory, ForChapter, StoryDone, Exported, CaughtUpCategory, CloseAndExit
<1> QED BY <1>6, <1>7, <1>8, <1>9, <1>10 DEF Step

LEMMA ExportedOnly ==
  ASSUME LockInv, [Next]_vars, NEW p \in Hook, proc[p].pc = "exported", proc'[p].pc = "done"
  PROVE  Exported(p)
<1>1. ASSUME NEW q \in Hook, Start(q) \/ Kill(q) \/ Step(q) PROVE q = p
  BY <1>1, OwnOnly
<1>2. ~(Push \/ UNCHANGED vars)
  BY DEF Push, vars
<1>3. Start(p) \/ Kill(p) \/ Step(p)
  BY <1>1, <1>2 DEF Next
<1>4. ~Kill(p) /\ ~Start(p) /\ ~Exit(p)
  BY DEF Kill, Gone, Start, Exit, LockInv, Idle
<1>5. /\ ~Schema(p) /\ ~SchemaDone(p) /\ ~CheckCommitting(p) /\ ~InsertCommitting(p)
      /\ ~Opened(p) /\ ~LastSeenCommit(p) /\ ~ReadHead(p) /\ ~OnCommit(p) /\ ~OnChapter(p)
      /\ ~SawChapter(p) /\ ~AllSeen(p) /\ ~Scanned(p) /\ ~GetCategory(p) /\ ~Chosen(p)
      /\ ~ForStory(p) /\ ~ForChapter(p) /\ ~StoryDone(p) /\ ~CaughtUpCategory(p)
      /\ ~CloseAndExit(p)
  BY DEF Schema, SchemaDone, CheckCommitting, InsertCommitting, Opened, LastSeenCommit,
         ReadHead, OnCommit, OnChapter, SawChapter, AllSeen, Scanned, GetCategory, Chosen,
         ForStory, ForChapter, StoryDone, CaughtUpCategory, CloseAndExit
<1> QED BY <1>3, <1>4, <1>5 DEF Step

(* A run keeps `after' from its start for the export at its end            *)
(* (main.c:558-560, 605-607), and so makes up for one that was killed, or  *)
(* refused a lock, between its scan and its export, or whose export was    *)
(* cut short: when a run ends alone, no restart of its cursor              *)
(* (storydb.c:448-458) passed over a chapter that waits for its page, no   *)
(* more than one run was lost or cut short before it, every commit fits    *)
(* into a batch and the stamps between the commits, then no change that    *)
(* was noted is without a page made from it -- for any number of           *)
(* processes, runs, commits and chapters.                                  *)
THEOREM LostRunMadeUpFor == Spec => BacklogExported
<1> DEFINE Inv == LockInv /\ PagesInv /\ (StampsFit /\ SmallCommits => Backed)
<1>1. Init => Inv
  BY InitLockInv, InitPages, InitBacked
<1>2. Inv /\ [Next]_vars => Inv'
  <2> SUFFICES ASSUME Inv, [Next]_vars PROVE Inv'
    OBVIOUS
  <2>1. LockInv' /\ PagesInv'
    BY NextForward, NextPages DEF Forward
  <2>2. ASSUME StampsFit, SmallCommits' PROVE Backed'
    BY <2>2, SmallBefore, NextBacked
  <2> QED BY <2>1, <2>2
<1>3. Inv /\ [Next]_vars
      => [\A p \in Hook :
            /\ proc[p].pc = "exported" /\ proc'[p].pc = "done" /\ Alone(p)
            /\ ~proc[p].cut /\ lost <= 1 /\ SmallCommits /\ StampsFit
            => \A n \in Chapter : file'.noted[n] <= page[n].head]_vars
  <2> SUFFICES ASSUME Inv, [Next]_vars, NEW p \in Hook,
                      proc[p].pc = "exported", proc'[p].pc = "done", Alone(p), ~proc[p].cut,
                      lost <= 1, SmallCommits, StampsFit
               PROVE  \A n \in Chapter : file'.noted[n] <= page[n].head
    OBVIOUS
  <2>1. Exported(p)
    BY ExportedOnly
  <2> QED BY <2>1, ExportedBacked
<1> QED BY <1>1, <1>2, <1>3, PTL DEF Spec, BacklogExported
================================================================================
