------------------------------ MODULE ScanProofs ------------------------------
(***************************************************************************)
(* For any stories, chapters, history, slack and size of a batch: what the *)
(* scan commits is as Scan says, and the scan implements StoryDb.          *)
(***************************************************************************)
EXTENDS Scan, StoryTablesProofs

Commit == [time : FirstTime .. LastTime, tree : Tree]

(* The commits follow one another in time.                                 *)
HistoryOk(h) ==
  /\ h \in Seq(Commit) /\ Len(h) <= MaxCommits
  /\ \A c, d \in 1 .. Len(h) : c < d => h[c].time < h[d].time

HistoryInv == HistoryOk(history)

LatestOf(h) == IF Len(h) = 0 THEN 0 ELSE h[Len(h)].time
LatestTime == LatestOf(history)

Committing == [after : {0} \cup FirstTime .. LastTime, before : {0}]

RowsUpTo(st, ch, t) ==
  /\ \A k \in DOMAIN ch : Actual(ch[k]) <= t
  /\ \A s \in DOMAIN st : st[s].updated <= t

TablesOk(st, ch, row) ==
  /\ Consistent(st, ch) /\ row \in Committing
  /\ RowsUpTo(st, ch, row.after)

(* Both what generate sees and what is committed is consistent, no row is  *)
(* later than `after', and `after' only grows in a run.                    *)
TablesInv ==
  /\ TablesOk(stories, chapters, committing)
  /\ saved = [stories |-> saved.stories, chapters |-> saved.chapters,
              committing |-> saved.committing]
  /\ TablesOk(saved.stories, saved.chapters, saved.committing)
  /\ saved.committing.after <= committing.after
  /\ committing.after <= LatestTime

InFiles == pc \in {"files", "story", "chapter"}
InFile == pc \in {"story", "chapter"}

(* g.timestamp is 0 until the first commit of the run is noted, and until  *)
(* then nothing is pending; from then on it is `after'.                    *)
RunInv ==
  /\ timestamp \in {0} \cup FirstTime .. LastTime
  /\ timestamp = 0 => saved = Snapshot
  /\ timestamp # 0 => committing.after = timestamp
  /\ locked \in BOOLEAN /\ haveTree \in BOOLEAN /\ since \in Nat
  /\ num \in 0 .. Cardinality(Key)

(* What goes with each place of the program.                               *)
PlaceInv ==
  /\ pc \in {"off", "begun", "walking", "files", "story", "chapter", "scanned"}
  /\ pc \in {"off", "begun"} =>
       /\ timestamp = 0 /\ num = 0 /\ at = 0 /\ ~locked
  /\ pc # "off" => HEAD > 0
  /\ pc \in {"walking", "scanned"} => at \in 1 .. HEAD
  /\ pc = "walking" /\ timestamp = 0 =>
       committing.after <= Time(at) /\ num = 0
  /\ pc = "walking" => (haveTree <=> timestamp = 0)
  /\ ~InFiles => deltas = {}
  /\ InFiles =>
       /\ at \in 2 .. HEAD /\ timestamp = Time(at)
       /\ deltas \subseteq Diff(at, at - 1)
       /\ num + Cardinality(deltas) = Cardinality(Diff(at, at - 1))
  /\ IF InFile THEN delta \in Diff(at, at - 1) ELSE delta = NoDelta
  /\ pc = "chapter" => locked /\ delta.key[1] \in DOMAIN stories

(* A file of the tree that the commit c changed and nobody removed since.  *)
Owed(c, k) == k \in Changed(c) /\ StillThere(k, c)

Recorded(ch, k, t) == k \in DOMAIN ch /\ Actual(ch[k]) + Cardinality(Key) > t

Waiting(k) ==
  \/ \E d \in deltas : d.key = k /\ ~ d.deleted
  \/ InFile /\ delta.key = k /\ ~ delta.deleted

(* What the run owes the commit it has noted is recorded or still to come, *)
(* and a commit smaller than a batch is never committed in part.           *)
RunRecords ==
  \A c \in 2 .. HEAD : timestamp # 0 /\ Time(c) = timestamp =>
    \A k \in Key : Owed(c, k) => Recorded(chapters, k, timestamp) \/ Waiting(k)

SavedRecords ==
  \A c \in 2 .. HEAD :
    saved.committing.after = Time(c) /\ Cardinality(Diff(c, c - 1)) < BatchSize =>
      \A k \in Key : Owed(c, k) => Recorded(saved.chapters, k, Time(c))

IInv ==
  /\ HistoryInv /\ TablesInv /\ RunInv /\ PlaceInv
  /\ RunRecords /\ SavedRecords

-----------------------------------------------------------------------------
(* The history only grows, and what it says of its commits stays.          *)
Grows == HEAD <= HEAD' /\ \A c \in 1 .. HEAD : history'[c] = history[c]

LEMMA CommitFacts ==
  ASSUME NEW h, HistoryOk(h), NEW c \in 1 .. Len(h)
  PROVE  h[c].time \in FirstTime .. LastTime /\ h[c].tree \in Tree
<1>1. h[c] \in Commit
  BY DEF HistoryOk
<1> QED BY <1>1 DEF Commit

LEMMA HistoryFacts ==
  ASSUME NEW h, HistoryOk(h)
  PROVE  /\ Len(h) \in Nat
         /\ \A c \in 1 .. Len(h) : h[c].time \in FirstTime .. LastTime
         /\ \A c \in 1 .. Len(h) : h[c].time <= LatestOf(h)
         /\ \A c, d \in 1 .. Len(h) : h[c].time = h[d].time => c = d
         /\ LatestOf(h) \in Nat
<1>1. Len(h) \in Nat
  BY DEF HistoryOk
<1>2. \A c \in 1 .. Len(h) : h[c].time \in FirstTime .. LastTime
  BY CommitFacts
<1>3. FirstTime \in Nat /\ LastTime \in Nat
  BY ScanAssumption
<1>4. \A c, d \in 1 .. Len(h) : c < d => h[c].time < h[d].time
  BY DEF HistoryOk
<1>5. ASSUME NEW c \in 1 .. Len(h), NEW d \in 1 .. Len(h), h[c].time = h[d].time
      PROVE  c = d
  <2>1. h[c].time \in Int /\ ~ (c < d) /\ ~ (d < c)
    BY <1>2, <1>3, <1>4, <1>5
  <2> QED BY <1>1, <2>1
<1>6. ASSUME NEW c \in 1 .. Len(h) PROVE h[c].time <= LatestOf(h)
  <2>1. Len(h) \in 1 .. Len(h) /\ Len(h) # 0
    BY <1>1
  <2>2. CASE c = Len(h)
    BY <1>2, <1>3, <2>1, <2>2 DEF LatestOf
  <2>3. CASE c < Len(h)
    BY <1>2, <1>3, <1>4, <2>1, <2>3 DEF LatestOf
  <2> QED BY <1>1, <2>2, <2>3
<1>7. LatestOf(h) \in Nat
  BY <1>1, <1>2, <1>3 DEF LatestOf
<1> QED BY <1>1, <1>2, <1>5, <1>6, <1>7

LEMMA GrowsKeeps ==
  ASSUME HEAD \in Nat, HEAD' \in Nat, Grows, NEW c \in 1 .. HEAD
  PROVE  /\ c \in 1 .. HEAD' /\ Time(c)' = Time(c)
         /\ c > 1 => Diff(c, c - 1)' = Diff(c, c - 1)
         /\ \A k : Owed(c, k)' => Owed(c, k)
<1>1. c \in 1 .. HEAD' /\ history'[c] = history[c]
  BY DEF Grows
<1>2. c > 1 => c - 1 \in 1 .. HEAD /\ history'[c - 1] = history[c - 1]
  BY DEF Grows
<1>3. c > 1 => Diff(c, c - 1)' = Diff(c, c - 1)
  BY <1>1, <1>2 DEF Diff
<1>4. Changed(c)' = Changed(c)
  BY <1>1, <1>2 DEF Changed, HasFile
<1>5. ASSUME NEW k, StillThere(k, c)' PROVE StillThere(k, c)
  <2> SUFFICES ASSUME NEW d \in c .. HEAD PROVE HasFile(d, k)
    BY DEF StillThere
  <2>1. d \in 1 .. HEAD /\ d \in c .. HEAD'
    BY DEF Grows
  <2>2. HasFile(d, k)'
    BY <1>5, <2>1 DEF StillThere
  <2> QED BY <2>1, <2>2 DEF HasFile, Grows
<1> QED BY <1>1, <1>3, <1>4, <1>5 DEF Time, Owed

LEMMA KeyFinite == IsFiniteSet(Key) /\ Cardinality(Key) \in Nat
BY TableAssumption, FS_Product, FS_CardinalityType DEF Key

(* The diff of two trees has a delta for each key at most.                 *)
LEMMA DiffFacts ==
  ASSUME HistoryInv, NEW c \in 2 .. HEAD
  PROVE  /\ Diff(c, c - 1) \subseteq Delta
         /\ IsFiniteSet(Diff(c, c - 1))
         /\ Cardinality(Diff(c, c - 1)) \in 0 .. Cardinality(Key)
         /\ \A k \in Changed(c) : \E d \in Diff(c, c - 1) : d.key = k /\ ~ d.deleted
         /\ \A d \in Diff(c, c - 1) : d.key \in Changed(c) => ~ d.deleted
<1> DEFINE old == history[c - 1].tree
           new == history[c].tree
           K == {k \in DOMAIN old \cup DOMAIN new :
                   ~(k \in DOMAIN old /\ k \in DOMAIN new /\ old[k] = new[k])}
           f == [k \in K |-> [key |-> k, deleted |-> k \notin DOMAIN new]]
           D == Diff(c, c - 1)
<1>1. old \in Tree /\ new \in Tree
  <2>1. c \in 1 .. Len(history) /\ c - 1 \in 1 .. Len(history)
    BY HistoryFacts DEF HistoryInv, HEAD
  <2> QED BY <2>1, CommitFacts DEF HistoryInv
<1>2. K \subseteq Key
  BY <1>1 DEF Tree
<1>3. D = {f[k] : k \in K}
  BY DEF Diff
<1>4. IsFiniteSet(K) /\ Cardinality(K) <= Cardinality(Key) /\ Cardinality(K) \in Nat
  BY <1>2, KeyFinite, FS_Subset, FS_CardinalityType
<1>5. f \in Surjection(K, D)
  BY <1>3 DEF Surjection
<1>6. \A k \in K : /\ f[k].key = k
                   /\ f[k].deleted <=> k \notin DOMAIN new
                   /\ f[k] \in [key : K, deleted : BOOLEAN]
  OBVIOUS
<1>7. Changed(c) = {k \in DOMAIN new : k \in DOMAIN old => new[k] # old[k]}
  BY DEF Changed, HasFile
<1>8. Changed(c) \subseteq K /\ \A k \in Changed(c) : k \in DOMAIN new
  BY <1>7
<1> HIDE DEF old, new, K, f, D
<1>9. /\ IsFiniteSet(D) /\ Cardinality(D) \in Nat
      /\ Cardinality(D) <= Cardinality(K)
  BY <1>4, <1>5, FS_Surjection, FS_CardinalityType
<1>10. D \subseteq Delta
  BY <1>2, <1>3, <1>6 DEF Delta
<1>11. \A k \in Changed(c) : \E d \in D : d.key = k /\ ~ d.deleted
  BY <1>3, <1>6, <1>8
<1>12. \A d \in D : d.key \in Changed(c) => ~ d.deleted
  BY <1>3, <1>6, <1>8
<1> QED BY <1>4, <1>9, <1>10, <1>11, <1>12, KeyFinite DEF D

LEMMA InitIInv == Init => IInv
<1> SUFFICES ASSUME Init PROVE IInv
  OBVIOUS
<1>1. HEAD = 0
  BY DEF Init, HEAD
<1>2. HistoryInv
  BY <1>1, ScanAssumption DEF Init, HistoryInv, HistoryOk, HEAD
<1>3. RowsUpTo(EmptyTable, EmptyTable, 0)
  BY DEF RowsUpTo, EmptyTable
<1>4. TablesInv
  BY <1>1, <1>3, EmptyTablesConsistent
     DEF Init, TablesInv, TablesOk, Committing, LatestTime, LatestOf, HEAD, Snapshot
<1>5. RunInv
  <2>1. locked \in BOOLEAN /\ haveTree \in BOOLEAN
    BY DEF Init
  <2>2. saved = Snapshot /\ timestamp = 0 /\ since = 0 /\ num = 0
    BY DEF Init
  <2> QED BY <2>1, <2>2, KeyFinite DEF RunInv
<1>6. PlaceInv
  BY DEF Init, PlaceInv, InFiles, InFile
<1>7. RunRecords /\ SavedRecords
  BY <1>1 DEF RunRecords, SavedRecords
<1> QED BY <1>2, <1>4, <1>5, <1>6, <1>7 DEF IInv

-----------------------------------------------------------------------------
LEMMA LaterCommits ==
  ASSUME HistoryInv, HistoryInv', Grows
  PROVE  /\ LatestTime <= LatestTime'
         /\ \A c \in 1 .. HEAD' : c > HEAD => LatestTime < Time(c)'
<1>1. /\ HEAD \in Nat /\ LatestTime \in Nat
      /\ \A c \in 1 .. HEAD : Time(c) \in FirstTime .. LastTime
  BY HistoryFacts DEF HistoryInv, HEAD, Time, LatestTime
<1>2. /\ HEAD' \in Nat /\ LatestTime' \in Nat
      /\ \A c \in 1 .. HEAD' : Time(c)' \in FirstTime .. LastTime
      /\ \A c \in 1 .. HEAD' : Time(c)' <= LatestTime'
  BY HistoryFacts DEF HistoryInv, HEAD, Time, LatestTime
<1>3. FirstTime \in Nat /\ FirstTime > 0 /\ LastTime \in Nat
  BY ScanAssumption
<1>4. CASE HEAD = 0
  <2>1. LatestTime = 0
    BY <1>4 DEF LatestTime, LatestOf, HEAD
  <2> QED BY <1>2, <1>3, <2>1
<1>5. CASE HEAD # 0
  <2>0. PICK n \in Nat : n = HEAD
    BY <1>1
  <2>1. n \in 1 .. HEAD /\ n \in 1 .. HEAD' /\ history'[n] = history[n]
    BY <1>1, <1>2, <1>5, <2>0 DEF Grows
  <2>2. LatestTime = Time(n)
    BY <1>5, <2>0 DEF LatestTime, LatestOf, HEAD, Time
  <2>3. \A c \in 1 .. HEAD' : c > n => Time(n)' < Time(c)'
    BY <2>1 DEF HistoryInv, HistoryOk, HEAD, Time
  <2>4. Time(n)' = Time(n)
    BY <2>1 DEF Time
  <2> QED BY <1>2, <2>0, <2>1, <2>2, <2>3, <2>4
<1> QED BY <1>4, <1>5

LEMMA SavedRecordsKept ==
  ASSUME HistoryInv, HistoryInv', Grows, TablesInv, SavedRecords, saved' = saved
  PROVE  SavedRecords'
<1>1. HEAD \in Nat /\ HEAD' \in Nat /\ LatestTime \in Nat
  BY HistoryFacts DEF HistoryInv, HEAD, LatestTime
<1> SUFFICES ASSUME NEW c \in 2 .. HEAD',
                    saved.committing.after = Time(c)',
                    Cardinality(Diff(c, c - 1)') < BatchSize,
                    NEW k \in Key, Owed(c, k)'
             PROVE  Recorded(saved.chapters, k, Time(c)')
  BY DEF SavedRecords, Recorded
<1>2. c \in 2 .. HEAD
  <2>1. saved.committing.after <= LatestTime /\ saved.committing.after \in Nat
    BY <1>1, ScanAssumption DEF TablesInv, TablesOk, Committing
  <2>2. c > HEAD => LatestTime < Time(c)'
    BY <1>1, LaterCommits
  <2> QED BY <1>1, <2>1, <2>2
<1>3. Time(c)' = Time(c) /\ Diff(c, c - 1)' = Diff(c, c - 1) /\ Owed(c, k)
  BY <1>1, <1>2, GrowsKeeps
<1> QED BY <1>2, <1>3 DEF SavedRecords

LEMMA RunRecordsKept ==
  ASSUME HistoryInv, HistoryInv', Grows, TablesInv, RunInv, RunRecords,
         UNCHANGED <<chapters, timestamp>>, \A k : Waiting(k) => Waiting(k)'
  PROVE  RunRecords'
<1>1. HEAD \in Nat /\ HEAD' \in Nat /\ LatestTime \in Nat
  BY HistoryFacts DEF HistoryInv, HEAD, LatestTime
<1> SUFFICES ASSUME NEW c \in 2 .. HEAD', timestamp # 0, Time(c)' = timestamp,
                    NEW k \in Key, Owed(c, k)'
             PROVE  Recorded(chapters, k, timestamp) \/ Waiting(k)'
  BY DEF RunRecords, Recorded
<1>2. c \in 2 .. HEAD
  <2>1. committing.after <= LatestTime /\ committing.after = timestamp
        /\ committing.after \in Nat
    BY <1>1, ScanAssumption DEF TablesInv, TablesOk, Committing, RunInv
  <2>2. c > HEAD => LatestTime < Time(c)'
    BY <1>1, LaterCommits
  <2> QED BY <1>1, <2>1, <2>2
<1>3. Time(c)' = Time(c) /\ Owed(c, k)
  BY <1>1, <1>2, GrowsKeeps
<1> QED BY <1>2, <1>3 DEF RunRecords

(* Every step but a push leaves the history alone.                         *)
LEMMA SameHistory ==
  ASSUME HistoryInv, UNCHANGED history
  PROVE  /\ HistoryInv' /\ Grows /\ HEAD \in Nat
         /\ HEAD' = HEAD /\ LatestTime' = LatestTime
         /\ \A c : Time(c)' = Time(c)
         /\ \A c, d : Diff(c, d)' = Diff(c, d)
         /\ \A c, k : Owed(c, k)' = Owed(c, k)
<1>1. HEAD \in Nat
  BY HistoryFacts DEF HistoryInv, HEAD
<1>2. HistoryInv' /\ Grows /\ HEAD' = HEAD /\ LatestTime' = LatestTime
  BY <1>1 DEF HistoryInv, Grows, HEAD, LatestTime
<1>3. /\ \A c : Time(c)' = Time(c)
      /\ \A c, d : Diff(c, d)' = Diff(c, d)
  BY DEF Time, Diff
<1>4. \A c, k : Owed(c, k)' = Owed(c, k)
  BY DEF Owed, Changed, StillThere, HasFile, HEAD
<1> QED BY <1>1, <1>2, <1>3, <1>4

-----------------------------------------------------------------------------
LEMMA Appended ==
  ASSUME NEW h, HistoryOk(h), NEW c \in Commit,
         Len(h) < MaxCommits, Len(h) # 0 => h[Len(h)].time < c.time
  PROVE  /\ HistoryOk(Append(h, c)) /\ Len(Append(h, c)) = Len(h) + 1
         /\ \A i \in 1 .. Len(h) : Append(h, c)[i] = h[i]
         /\ Append(h, c)[Len(h) + 1] = c
<1> DEFINE new == Append(h, c)
<1>1. h \in Seq(Commit) /\ Len(h) \in Nat /\ MaxCommits \in Nat
  BY ScanAssumption DEF HistoryOk
<1>2. /\ new \in Seq(Commit) /\ Len(new) = Len(h) + 1
      /\ \A i \in 1 .. Len(h) : new[i] = h[i]
      /\ new[Len(h) + 1] = c
  BY <1>1
<1> HIDE DEF new
<1>3. \A i \in 1 .. Len(h) : h[i].time <= LatestOf(h)
  BY HistoryFacts
<1>4. \A i \in 1 .. Len(h) : h[i].time \in Int /\ h[i].time < c.time
  <2>1. Len(h) # 0 => LatestOf(h) = h[Len(h)].time
    BY DEF LatestOf
  <2>2. \A i \in 1 .. Len(h) : h[i].time \in Int
    BY HistoryFacts, ScanAssumption
  <2>3. c.time \in Int
    BY ScanAssumption DEF Commit
  <2> QED BY <1>1, <1>3, <2>1, <2>2, <2>3
<1>5. ASSUME NEW i \in 1 .. Len(new), NEW j \in 1 .. Len(new), i < j
      PROVE  new[i].time < new[j].time
  <2>1. i \in 1 .. Len(h)
    BY <1>1, <1>2, <1>5
  <2>2. CASE j \in 1 .. Len(h)
    BY <1>2, <1>5, <2>1, <2>2 DEF HistoryOk
  <2>3. CASE j = Len(h) + 1
    BY <1>2, <1>4, <2>1, <2>3
  <2> QED BY <1>1, <1>2, <2>2, <2>3
<1> QED BY <1>1, <1>2, <1>5 DEF HistoryOk, new

LEMMA NextCommits ==
  ASSUME NEW p \in Commit, NEW c \in Commits(p)
  PROVE  c \in Commit /\ p.time < c.time
<1>1. PICK gap \in Gaps, tree \in Tree :
        c = [time |-> p.time + gap, tree |-> tree] /\ c.time <= LastTime
  BY DEF Commits
<1>2. /\ gap \in Nat \ {0} /\ FirstTime \in Nat /\ LastTime \in Nat
      /\ p.time \in FirstTime .. LastTime
  BY ScanAssumption DEF Commit
<1>3. c.time = p.time + gap /\ c.tree = tree
  BY <1>1
<1>4. c.time \in FirstTime .. LastTime
  BY <1>1, <1>2, <1>3
<1> QED BY <1>1, <1>2, <1>3, <1>4 DEF Commit

LEMMA PushHistory ==
  ASSUME HistoryInv, Push
  PROVE  HistoryInv' /\ Grows /\ HEAD \in Nat /\ HEAD' \in Nat
<1>1. /\ HEAD \in Nat /\ history \in Seq(Commit)
      /\ \A i \in 1 .. HEAD : history[i] \in Commit
  BY DEF HistoryInv, HistoryOk, HEAD
<1> SUFFICES HistoryOk(history') /\ Grows /\ Len(history') \in Nat
  BY <1>1 DEF HistoryInv, HEAD
<1>2. ASSUME NEW tree \in Tree, history = <<>>,
             history' = <<[time |-> FirstTime, tree |-> tree]>>
      PROVE  HistoryOk(history') /\ Grows /\ Len(history') \in Nat
  <2> DEFINE c == [time |-> FirstTime, tree |-> tree]
  <2>1. c \in Commit
    BY ScanAssumption DEF Commit
  <2> HIDE DEF c
  <2>2. history' = <<c>>
    BY <1>2 DEF c
  <2> QED BY <1>2, <2>1, <2>2, ScanAssumption DEF HistoryOk, Grows, HEAD
<1>3. ASSUME history # <<>>, HEAD + 1 <= MaxCommits,
             NEW c \in Commits(history[HEAD]), history' = Append(history, c)
      PROVE  HistoryOk(history') /\ Grows /\ Len(history') \in Nat
  <2>1. HEAD \in 1 .. HEAD
    BY <1>1, <1>3 DEF HEAD
  <2>2. c \in Commit /\ history[HEAD].time < c.time
    BY <1>1, <2>1, NextCommits
  <2> QED BY <1>1, <1>3, <2>2, Appended, ScanAssumption DEF HistoryInv, Grows, HEAD
<1>4. ASSUME history # <<>>, HEAD + 2 <= MaxCommits,
             NEW c \in Commits(history[HEAD]), NEW d \in Commits(c),
             history' = history \o <<c, d>>
      PROVE  HistoryOk(history') /\ Grows /\ Len(history') \in Nat
  <2>1. HEAD \in 1 .. HEAD
    BY <1>1, <1>4 DEF HEAD
  <2>2. c \in Commit /\ history[HEAD].time < c.time
    BY <1>1, <2>1, NextCommits
  <2>3. d \in Commit /\ c.time < d.time
    BY <2>2, NextCommits
  <2> DEFINE one == Append(history, c)
  <2>4. HistoryOk(one) /\ Len(one) = HEAD + 1 /\ one[HEAD + 1] = c
        /\ \A i \in 1 .. HEAD : one[i] = history[i]
    BY <1>1, <1>4, <2>2, Appended, ScanAssumption DEF HistoryInv, HEAD
  <2>5. history' = Append(one, d)
    BY <1>1, <1>4, <2>2, <2>3
  <2> HIDE DEF one
  <2>6. /\ HistoryOk(history') /\ Len(history') = HEAD + 2
        /\ \A i \in 1 .. HEAD + 1 : history'[i] = one[i]
    <3>1. Len(one) < MaxCommits /\ one[Len(one)].time < d.time
      BY <1>1, <1>4, <2>3, <2>4, ScanAssumption
    <3> QED BY <1>1, <2>3, <2>4, <2>5, <3>1, Appended
  <2> QED BY <1>1, <2>4, <2>6 DEF Grows, HEAD
<1> QED BY <1>2, <1>3, <1>4 DEF Push

LEMMA PushIInv == ASSUME IInv, Push PROVE IInv'
<1>1. /\ HistoryInv /\ HistoryInv' /\ Grows /\ HEAD \in Nat /\ HEAD' \in Nat
      /\ LatestTime <= LatestTime'
  BY PushHistory, LaterCommits DEF IInv
<1>2. UNCHANGED <<tables, saved, pc, locked, walk, deltas, delta>>
  BY DEF Push
<1>3. TablesInv'
  <2>1. committing.after <= LatestTime'
    <3>1. LatestTime \in Nat /\ LatestTime' \in Nat
      BY <1>1, HistoryFacts DEF HistoryInv, LatestTime
    <3> QED BY <1>1, <3>1, ScanAssumption DEF IInv, TablesInv, TablesOk, Committing
  <2> QED BY <1>2, <2>1 DEF IInv, TablesInv, tables
<1>4. RunInv'
  BY <1>2 DEF IInv, RunInv, Snapshot, tables, walk
<1>5. PlaceInv'
  <2>1. \A c \in 1 .. HEAD : /\ c \in 1 .. HEAD' /\ Time(c)' = Time(c)
                             /\ c > 1 => Diff(c, c - 1)' = Diff(c, c - 1)
    BY <1>1, GrowsKeeps
  <2>2. HEAD <= HEAD'
    BY <1>1 DEF Grows
  <2> QED BY <1>1, <1>2, <2>1, <2>2 DEF IInv, PlaceInv, InFiles, InFile, tables, walk
<1>6. RunRecords'
  BY <1>1, <1>2, RunRecordsKept DEF IInv, Waiting, InFile, tables, walk
<1>7. SavedRecords'
  BY <1>1, <1>2, SavedRecordsKept DEF IInv
<1> QED BY <1>1, <1>3, <1>4, <1>5, <1>6, <1>7 DEF IInv

LEMMA AbandonIInv == ASSUME IInv, Abandon PROVE IInv'
<1>1. /\ UNCHANGED <<history, saved>>
      /\ stories' = saved.stories /\ chapters' = saved.chapters
      /\ committing' = saved.committing
      /\ pc' = "off" /\ locked' = FALSE /\ since' = 0 /\ at' = 0 /\ haveTree' = FALSE
      /\ timestamp' = 0 /\ num' = 0 /\ deltas' = {} /\ delta' = NoDelta
  BY DEF Abandon, Exit
<1>2. HistoryInv' /\ Grows /\ LatestTime' = LatestTime /\ LatestTime \in Nat
  BY <1>1, SameHistory, HistoryFacts DEF IInv, HistoryInv, LatestTime
<1>3. TablesInv'
  <2>1. saved.committing.after <= LatestTime
    BY <1>2, ScanAssumption DEF IInv, TablesInv, TablesOk, Committing
  <2> QED BY <1>1, <1>2, <2>1 DEF IInv, TablesInv, TablesOk, Committing
<1>4. RunInv'
  <2>1. saved' = Snapshot'
    BY <1>1 DEF Snapshot, IInv, TablesInv
  <2>2. locked' \in BOOLEAN /\ haveTree' \in BOOLEAN
    BY <1>1
  <2> QED BY <1>1, <2>1, <2>2, KeyFinite DEF RunInv
<1>5. PlaceInv'
  BY <1>1 DEF PlaceInv, InFiles, InFile
<1>6. RunRecords'
  BY <1>1 DEF RunRecords
<1>7. SavedRecords'
  BY <1>1, <1>2, SavedRecordsKept DEF IInv
<1> QED BY <1>2, <1>3, <1>4, <1>5, <1>6, <1>7 DEF IInv

(* Steps that touch neither the history nor the tables.                    *)
LEMMA ControlStep ==
  ASSUME IInv, UNCHANGED <<history, tables, saved>>, RunInv', PlaceInv', RunRecords'
  PROVE  IInv'
<1>1. HistoryInv' /\ Grows /\ LatestTime' = LatestTime
  BY SameHistory DEF IInv
<1>2. TablesInv'
  BY <1>1 DEF IInv, TablesInv, tables
<1>3. SavedRecords'
  BY <1>1, SavedRecordsKept DEF IInv
<1> QED BY <1>1, <1>2, <1>3 DEF IInv

LEMMA BeginIInv == ASSUME IInv, Begin PROVE IInv'
<1>1. /\ pc' = "begun" /\ pc = "off" /\ history # <<>>
      /\ UNCHANGED <<history, tables, saved, locked, walk, deltas, delta>>
  BY DEF Begin
<1>2. RunInv'
  BY <1>1 DEF IInv, RunInv, Snapshot, tables, walk
<1>3. PlaceInv'
  <2>1. HEAD > 0 /\ HEAD' = HEAD
    BY <1>1, SameHistory DEF IInv, HistoryInv, HistoryOk, HEAD
  <2> QED BY <1>1, <2>1 DEF IInv, PlaceInv, InFiles, InFile, walk
<1>4. RunRecords'
  BY <1>1 DEF IInv, PlaceInv, RunRecords, walk
<1> QED BY <1>1, <1>2, <1>3, <1>4, ControlStep

LEMMA StartWalkIInv == ASSUME IInv, StartWalk PROVE IInv'
<1> DEFINE back == IF committing.after # 0 THEN committing.after - Slack ELSE 0
<1>1. /\ pc = "begun" /\ since' = back /\ at' = WalkStart /\ haveTree' = TRUE
      /\ pc' \in {"scanned", "walking"} /\ locked' = TRUE
      /\ UNCHANGED <<history, tables, saved, timestamp, num, deltas, delta>>
  BY DEF StartWalk
<1>2. /\ WalkStart = HEAD /\ HEAD \in 1 .. HEAD /\ HEAD' = HEAD
      /\ \A c : Time(c)' = Time(c)
  BY <1>1, SameHistory DEF IInv, WalkStart, TablesInv, TablesOk, Committing, PlaceInv
<1>3. LatestTime = Time(HEAD) /\ committing.after <= Time(HEAD)
  BY <1>2 DEF LatestTime, LatestOf, HEAD, Time, IInv, TablesInv
<1>4. back \in Nat
  <2>1. committing.after \in {0} \cup FirstTime .. LastTime
    BY DEF IInv, TablesInv, TablesOk, Committing
  <2> QED BY <2>1, ScanAssumption
<1>5. RunInv'
  BY <1>1, <1>4 DEF IInv, RunInv, PlaceInv, Snapshot, tables, walk
<1>6. PlaceInv'
  <2>1. timestamp = 0 /\ num = 0
    BY <1>1 DEF IInv, PlaceInv
  <2> QED BY <1>1, <1>2, <1>3, <2>1 DEF IInv, PlaceInv, InFiles, InFile, tables
<1>7. RunRecords'
  BY <1>1 DEF IInv, PlaceInv, RunRecords
<1> QED BY <1>1, <1>5, <1>6, <1>7, ControlStep

-----------------------------------------------------------------------------
(* From the first commit on the time of the run is a real one.             *)
LEMMA InRun ==
  ASSUME IInv, InFiles
  PROVE  /\ at \in 1 .. HEAD /\ at \in 2 .. HEAD /\ at - 1 \in 1 .. HEAD
         /\ timestamp = Time(at) /\ timestamp \in Nat \ {0}
         /\ timestamp = committing.after
         /\ \A c \in 2 .. HEAD : Time(c) = timestamp => c = at
<1>1. HEAD \in Nat
  BY HistoryFacts DEF IInv, HistoryInv, HEAD
<1>2. at \in 2 .. HEAD /\ at \in 1 .. HEAD /\ at - 1 \in 1 .. HEAD /\ timestamp = Time(at)
  BY <1>1 DEF IInv, PlaceInv
<1>3. timestamp \in FirstTime .. LastTime
  BY <1>2, HistoryFacts DEF IInv, HistoryInv, HEAD, Time
<1>4. timestamp \in Nat \ {0}
  BY <1>3, ScanAssumption
<1>5. timestamp = committing.after
  BY <1>4 DEF IInv, RunInv
<1>6. \A c, d \in 1 .. HEAD : Time(c) = Time(d) => c = d
  BY HistoryFacts DEF IInv, HistoryInv, HEAD, Time
<1>7. \A c \in 2 .. HEAD : Time(c) = timestamp => c = at
  BY <1>1, <1>2, <1>6
<1> QED BY <1>2, <1>4, <1>5, <1>7

LEMMA LaterRows ==
  ASSUME NEW st, NEW ch, Consistent(st, ch), NEW t \in Int, NEW u \in Int, t <= u,
         RowsUpTo(st, ch, t)
  PROVE  RowsUpTo(st, ch, u)
<1>1. \A k \in DOMAIN ch : Actual(ch[k]) \in Int
  BY DEF Consistent, IsChapterTable, ChapterRow, Actual, Larger
<1>2. \A s \in DOMAIN st : st[s].updated \in Int
  BY DEF Consistent, IsStoryTable, StoryRow
<1> QED BY <1>1, <1>2 DEF RowsUpTo

LEMMA FirstCommitIInv == ASSUME IInv, OnCommit, timestamp = 0 PROVE IInv'
<1>1. /\ pc = "walking" /\ haveTree /\ at > 1 /\ at \in 1 .. HEAD /\ num = 0
      /\ committing.after <= Time(at) /\ committing.before = 0
      /\ deltas = {} /\ delta = NoDelta
  BY DEF OnCommit, IInv, PlaceInv, TablesInv, TablesOk, Committing, InFiles, InFile
<1>2. /\ UNCHANGED <<history, stories, chapters, saved, since, at, haveTree, num, delta>>
      /\ committing' = [after |-> Time(at), before |-> 0]
      /\ timestamp' = Time(at) /\ pc' = "files" /\ deltas' = Diff(at, at - 1)
      /\ locked' = TRUE
  BY <1>1 DEF OnCommit, SawCommit
<1>3. /\ HistoryInv' /\ Grows /\ HEAD \in Nat
      /\ HEAD' = HEAD /\ LatestTime' = LatestTime
      /\ \A c : Time(c)' = Time(c)
      /\ \A c, d : Diff(c, d)' = Diff(c, d)
      /\ \A c, k : Owed(c, k)' = Owed(c, k)
  BY <1>2, SameHistory DEF IInv
<1>4. /\ at \in 2 .. HEAD /\ Time(at) \in FirstTime .. LastTime
      /\ Time(at) \in Nat \ {0} /\ Time(at) <= LatestTime
      /\ \A c \in 2 .. HEAD : Time(c) = Time(at) => c = at
  <2>1. /\ Time(at) \in FirstTime .. LastTime /\ Time(at) <= LatestTime
        /\ \A c, d \in 1 .. HEAD : Time(c) = Time(d) => c = d
    BY <1>1, HistoryFacts DEF IInv, HistoryInv, HEAD, Time, LatestTime
  <2> QED BY <1>1, <1>3, <2>1, ScanAssumption
<1>5. committing.after \in Nat /\ saved.committing.after \in Nat
  BY ScanAssumption DEF IInv, TablesInv, TablesOk, Committing
<1>6. TablesInv'
  <2>1. RowsUpTo(stories, chapters, Time(at))
    BY <1>1, <1>4, <1>5, LaterRows DEF IInv, TablesInv, TablesOk
  <2>2. committing' \in Committing /\ committing'.after = Time(at)
    BY <1>2, <1>4 DEF Committing
  <2>3. saved.committing.after <= Time(at)
    BY <1>1, <1>4, <1>5 DEF IInv, TablesInv
  <2> QED BY <1>2, <1>3, <1>4, <2>1, <2>2, <2>3 DEF IInv, TablesInv, TablesOk
<1>7. RunInv'
  <2>1. committing'.after = timestamp' /\ timestamp' # 0
    BY <1>2, <1>4
  <2>2. locked' \in BOOLEAN
    BY <1>2
  <2> QED BY <1>2, <1>4, <2>1, <2>2 DEF IInv, RunInv
<1>8. PlaceInv'
  <2>1. Cardinality(Diff(at, at - 1)) \in Nat
    BY <1>4, DiffFacts, KeyFinite DEF IInv
  <2>2. HEAD > 0
    BY <1>1 DEF IInv, PlaceInv
  <2> QED BY <1>1, <1>2, <1>3, <1>4, <2>1, <2>2 DEF PlaceInv, InFiles, InFile
<1>9. RunRecords'
  <2> SUFFICES ASSUME NEW k \in Key, Owed(at, k) PROVE Waiting(k)'
    BY <1>2, <1>3, <1>4 DEF RunRecords
  <2>1. \E d \in Diff(at, at - 1) : d.key = k /\ ~ d.deleted
    BY <1>4, DiffFacts DEF IInv, Owed
  <2> QED BY <1>2, <2>1 DEF Waiting
<1>10. SavedRecords'
  BY <1>2, <1>3, SavedRecordsKept DEF IInv
<1> QED BY <1>3, <1>6, <1>7, <1>8, <1>9, <1>10 DEF IInv

LEMMA SecondCommitIInv == ASSUME IInv, OnCommit, timestamp # 0 PROVE IInv'
<1>1. /\ pc = "walking" /\ ~ haveTree /\ at \in 1 .. HEAD /\ deltas = {}
      /\ delta = NoDelta /\ committing \in Committing
  BY DEF OnCommit, IInv, PlaceInv, InFiles, InFile, TablesInv, TablesOk
<1>2. committing' = committing
  BY <1>1 DEF OnCommit, SawCommit, Committing
<1>3. /\ pc' = "scanned" /\ timestamp' = timestamp /\ locked' = TRUE
      /\ UNCHANGED <<history, tables, saved, walk, deltas, delta>>
  BY <1>1, <1>2 DEF OnCommit, tables, walk
<1>4. RunInv'
  <2>1. locked' \in BOOLEAN
    BY <1>3
  <2> QED BY <1>3, <2>1 DEF IInv, RunInv, Snapshot, tables, walk
<1>5. PlaceInv'
  <2>1. HEAD' = HEAD /\ HEAD > 0
    BY <1>1, <1>3, SameHistory DEF IInv, PlaceInv
  <2> QED BY <1>1, <1>3, <2>1 DEF PlaceInv, InFiles, InFile, walk
<1>6. RunRecords'
  <2>1. \A k : Waiting(k) => Waiting(k)'
    BY <1>1, <1>3 DEF Waiting, InFile
  <2>2. HistoryInv' /\ Grows
    BY <1>3, SameHistory DEF IInv
  <2> QED BY <1>3, <2>1, <2>2, RunRecordsKept DEF IInv, tables
<1> QED BY <1>3, <1>4, <1>5, <1>6, ControlStep

LEMMA WalkEndsIInv == ASSUME IInv, WalkEnds PROVE IInv'
<1>1. /\ pc = "walking" /\ pc' = "scanned" /\ at \in 1 .. HEAD
      /\ UNCHANGED <<history, tables, saved, locked, walk, deltas, delta>>
  BY DEF WalkEnds, IInv, PlaceInv
<1>2. RunInv'
  BY <1>1 DEF IInv, RunInv, Snapshot, tables, walk
<1>3. PlaceInv'
  <2>1. HEAD' = HEAD
    BY <1>1, SameHistory DEF IInv
  <2> QED BY <1>1, <2>1 DEF IInv, PlaceInv, InFiles, InFile, walk
<1>4. RunRecords'
  <2>1. \A k : Waiting(k) => Waiting(k)'
    BY <1>1 DEF Waiting, InFile
  <2>2. HistoryInv' /\ Grows
    BY <1>1, SameHistory DEF IInv
  <2> QED BY <1>1, <2>1, <2>2, RunRecordsKept DEF IInv, tables, walk
<1> QED BY <1>1, <1>2, <1>3, <1>4, ControlStep

LEMMA NextCommitIInv == ASSUME IInv, NextCommit PROVE IInv'
<1>1. /\ pc = "files" /\ deltas = {} /\ pc' = "walking" /\ at' = at - 1
      /\ haveTree' = FALSE /\ delta = NoDelta
      /\ UNCHANGED <<history, tables, saved, locked, since, timestamp, num, deltas, delta>>
  BY DEF NextCommit, IInv, PlaceInv, InFile
<1>2. at - 1 \in 1 .. HEAD /\ timestamp # 0 /\ HEAD > 0
  BY <1>1, InRun DEF InFiles, IInv, PlaceInv
<1>3. RunInv'
  <2>1. haveTree' \in BOOLEAN
    BY <1>1
  <2> QED BY <1>1, <2>1 DEF IInv, RunInv, Snapshot, tables
<1>4. PlaceInv'
  <2>1. HEAD' = HEAD
    BY <1>1, SameHistory DEF IInv
  <2> QED BY <1>1, <1>2, <2>1 DEF PlaceInv, InFiles, InFile
<1>5. RunRecords'
  <2>1. \A k : Waiting(k) => Waiting(k)'
    BY <1>1 DEF Waiting, InFile
  <2>2. HistoryInv' /\ Grows
    BY <1>1, SameHistory DEF IInv
  <2> QED BY <1>1, <2>1, <2>2, RunRecordsKept DEF IInv, tables
<1> QED BY <1>1, <1>3, <1>4, <1>5, ControlStep

-----------------------------------------------------------------------------
LEMMA DeltasLeft ==
  ASSUME IInv, pc = "files", NEW d \in deltas
  PROVE  /\ d \in Diff(at, at - 1) /\ d.key \in Key
         /\ num + 1 \in 1 .. Cardinality(Key)
         /\ num + 1 + Cardinality(deltas \ {d}) = Cardinality(Diff(at, at - 1))
         /\ num + 1 <= Cardinality(Diff(at, at - 1))
<1>1. at \in 2 .. HEAD
  BY InRun DEF InFiles
<1>2. /\ IsFiniteSet(Diff(at, at - 1)) /\ Diff(at, at - 1) \subseteq Delta
      /\ Cardinality(Diff(at, at - 1)) \in 0 .. Cardinality(Key)
  BY <1>1, DiffFacts DEF IInv
<1>3. /\ deltas \subseteq Diff(at, at - 1)
      /\ num + Cardinality(deltas) = Cardinality(Diff(at, at - 1))
      /\ num \in Nat
  BY KeyFinite DEF IInv, PlaceInv, InFiles, RunInv
<1>4. IsFiniteSet(deltas) /\ Cardinality(deltas) \in Nat
  BY <1>2, <1>3, FS_Subset, FS_CardinalityType
<1>5. /\ IsFiniteSet(deltas \ {d}) /\ Cardinality(deltas \ {d}) = Cardinality(deltas) - 1
      /\ Cardinality(deltas \ {d}) \in Nat
  BY <1>4, FS_RemoveElement, FS_CardinalityType
<1>6. d.key \in Key
  BY <1>2, <1>3 DEF Delta
<1> QED BY <1>2, <1>3, <1>4, <1>5, <1>6, KeyFinite

(* A commit of fewer files than a batch is not committed before its end.   *)
LEMMA NoSmallBatch ==
  ASSUME NEW n \in Nat \ {0}, n % BatchSize = 0
  PROVE  BatchSize <= n
<1>1. BatchSize \in Nat \ {0}
  BY ScanAssumption
<1>2. n < BatchSize => n % BatchSize = n
  BY <1>1
<1> QED BY <1>1, <1>2

LEMMA OnChapterIInv == ASSUME IInv, OnChapter PROVE IInv'
<1>1. PICK d \in deltas :
        /\ deltas' = deltas \ {d}
        /\ IF HasFile(HEAD, d.key)
           THEN pc' = "story" /\ delta' = d
           ELSE UNCHANGED <<pc, delta>>
  BY DEF OnChapter
<1>2. /\ pc = "files" /\ num' = num + 1 /\ delta = NoDelta
      /\ UNCHANGED <<history, tables, since, at, haveTree, timestamp>>
      /\ \/ num' % BatchSize = 0 /\ saved' = Snapshot /\ locked' = FALSE
         \/ UNCHANGED <<saved, locked>>
  BY DEF OnChapter, IInv, PlaceInv, InFile
<1>3. /\ at \in 2 .. HEAD /\ timestamp = Time(at) /\ timestamp \in Nat \ {0}
      /\ timestamp = committing.after
      /\ \A c \in 2 .. HEAD : Time(c) = timestamp => c = at
  BY <1>2, InRun DEF InFiles
<1>4. /\ d \in Diff(at, at - 1) /\ d.key \in Key
      /\ num + 1 \in 1 .. Cardinality(Key)
      /\ num + 1 + Cardinality(deltas \ {d}) = Cardinality(Diff(at, at - 1))
      /\ num + 1 <= Cardinality(Diff(at, at - 1))
  BY <1>2, DeltasLeft
<1>5. /\ HistoryInv' /\ Grows /\ HEAD \in Nat
      /\ HEAD' = HEAD /\ LatestTime' = LatestTime
      /\ \A c : Time(c)' = Time(c)
      /\ \A c, e : Diff(c, e)' = Diff(c, e)
      /\ \A c, k : Owed(c, k)' = Owed(c, k)
  BY <1>2, SameHistory DEF IInv
<1>6. TablesInv'
  <2>1. CASE saved' = saved
    BY <1>2, <1>5, <2>1 DEF IInv, TablesInv, tables
  <2>2. CASE saved' = Snapshot
    <3>1. committing.after <= committing.after
      BY <1>3
    <3> QED BY <1>2, <1>5, <2>2, <3>1 DEF IInv, TablesInv, Snapshot, tables
  <2> QED BY <1>2, <2>1, <2>2
<1>7. RunInv'
  <2>1. locked' \in BOOLEAN
    BY <1>2 DEF IInv, RunInv
  <2> QED BY <1>2, <1>3, <1>4, <2>1, KeyFinite DEF IInv, RunInv, tables
<1>8. PlaceInv'
  <2>1. deltas' \subseteq Diff(at, at - 1)
    BY <1>1, <1>2 DEF IInv, PlaceInv, InFiles
  <2>2. /\ pc' \in {"files", "story"}
        /\ IF pc' = "story" THEN delta' = d ELSE delta' = NoDelta
    BY <1>1, <1>2
  <2>3. HEAD > 0
    BY <1>3, <1>5
  <2> QED BY <1>1, <1>2, <1>3, <1>4, <1>5, <2>1, <2>2, <2>3 DEF PlaceInv, InFiles, InFile
<1>9. RunRecords'
  <2> SUFFICES ASSUME NEW k \in Key, Owed(at, k)
               PROVE  Recorded(chapters, k, timestamp) \/ Waiting(k)'
    BY <1>2, <1>3, <1>5 DEF RunRecords, Recorded, tables
  <2>1. Recorded(chapters, k, timestamp) \/ Waiting(k)
    BY <1>3 DEF IInv, RunRecords
  <2>2. ~ InFile
    BY <1>2 DEF InFile
  <2>3. ASSUME NEW e \in deltas, e.key = k, ~ e.deleted, e # d PROVE Waiting(k)'
    BY <1>1, <2>3 DEF Waiting
  <2>4. ASSUME d.key = k, ~ d.deleted PROVE Waiting(k)'
    <3>1. HasFile(HEAD, k)
      BY <1>3, <1>5 DEF Owed, StillThere
    <3> QED BY <1>1, <2>4, <3>1 DEF Waiting, InFile
  <2> QED BY <2>1, <2>2, <2>3, <2>4 DEF Waiting
<1>10. SavedRecords'
  <2>1. CASE saved' = saved
    BY <1>5, <2>1, SavedRecordsKept DEF IInv
  <2>2. CASE num' % BatchSize = 0 /\ saved' = Snapshot
    <3>1. saved'.committing.after = timestamp
      BY <1>3, <2>2 DEF Snapshot
    <3>2. BatchSize <= num + 1
      BY <1>2, <1>4, <2>2, NoSmallBatch, KeyFinite
    <3>3. ~ (Cardinality(Diff(at, at - 1)) < BatchSize)
      <4>1. Cardinality(Diff(at, at - 1)) \in Nat
        BY <1>3, DiffFacts, KeyFinite DEF IInv
      <4> QED BY <1>4, <3>2, <4>1, KeyFinite, ScanAssumption
    <3> QED BY <1>3, <1>5, <3>1, <3>3 DEF SavedRecords
  <2> QED BY <1>2, <2>1, <2>2
<1> QED BY <1>5, <1>6, <1>7, <1>8, <1>9, <1>10 DEF IInv

LEMMA GetStoryIInv == ASSUME IInv, GetStory PROVE IInv'
<1> DEFINE s == delta.key[1]
<1>1. CASE Abandon
  BY <1>1, AbandonIInv
<1>2. CASE ~ Abandon
  <2>1. /\ pc = "story" /\ pc' = "chapter" /\ locked' = TRUE
        /\ stories' = IF s \in DOMAIN stories THEN stories
                      ELSE Put(stories, s, NewStory(timestamp))
        /\ s \in DOMAIN stories \/ StampFree(stories, timestamp)
        /\ UNCHANGED <<history, chapters, committing, saved, walk, deltas, delta>>
    BY <1>2 DEF GetStory
  <2>2. /\ at \in 2 .. HEAD /\ timestamp \in Nat \ {0} /\ timestamp = committing.after
    BY <2>1, InRun DEF InFiles
  <2>3. delta \in Diff(at, at - 1) /\ s \in Story
    <3>1. delta \in Diff(at, at - 1)
      BY <2>1 DEF IInv, PlaceInv, InFile
    <3>2. delta \in Delta
      BY <2>2, <3>1, DiffFacts DEF IInv
    <3> QED BY <3>1, <3>2 DEF Delta, Key
  <2>4. /\ HistoryInv' /\ Grows
        /\ HEAD' = HEAD /\ LatestTime' = LatestTime
        /\ \A c : Time(c)' = Time(c)
        /\ \A c, e : Diff(c, e)' = Diff(c, e)
    BY <2>1, SameHistory DEF IInv
  <2> HIDE DEF s
  <2>5. Consistent(stories', chapters) /\ RowsUpTo(stories', chapters, timestamp)
        /\ s \in DOMAIN stories'
    <3>1. Consistent(stories, chapters) /\ RowsUpTo(stories, chapters, timestamp)
      BY <2>2 DEF IInv, TablesInv, TablesOk
    <3>2. CASE s \in DOMAIN stories
      BY <2>1, <3>1, <3>2
    <3>3. CASE s \notin DOMAIN stories
      <4>1. Consistent(stories', chapters)
        BY <2>1, <2>2, <2>3, <3>1, <3>3, NewStoryConsistent
      <4>2. /\ DOMAIN stories' = DOMAIN stories \cup {s}
            /\ \A x \in DOMAIN stories' :
                 stories'[x] = IF x = s THEN NewStory(timestamp) ELSE stories[x]
        BY <2>1, <3>3 DEF Put
      <4>3. NewStory(timestamp).updated <= timestamp
        BY <2>2 DEF NewStory
      <4> QED BY <3>1, <4>1, <4>2, <4>3 DEF RowsUpTo
    <3> QED BY <3>2, <3>3
  <2>6. TablesInv'
    BY <2>1, <2>2, <2>4, <2>5 DEF IInv, TablesInv, TablesOk
  <2>7. RunInv'
    <3>1. locked' \in BOOLEAN
      BY <2>1
    <3> QED BY <2>1, <2>2, <3>1 DEF IInv, RunInv, walk
  <2>8. PlaceInv'
    BY <2>1, <2>4, <2>5 DEF IInv, PlaceInv, InFiles, InFile, walk, s
  <2>9. RunRecords'
    <3>1. \A k : Waiting(k) => Waiting(k)'
      BY <2>1 DEF Waiting, InFile
    <3> QED BY <2>1, <2>4, <3>1, RunRecordsKept DEF IInv, walk
  <2>10. SavedRecords'
    BY <2>1, <2>4, SavedRecordsKept DEF IInv
  <2> QED BY <2>4, <2>6, <2>7, <2>8, <2>9, <2>10 DEF IInv
<1> QED BY <1>1, <1>2

-----------------------------------------------------------------------------
(* storydb_saw_chapter records the chapter, takes no record away, and      *)
(* makes no row later than its stamp.                                      *)
LEMMA SawRecords ==
  ASSUME NEW ch, IsChapterTable(ch), StampsDistinctIn(ch), NEW k \in Key, NEW t \in Int
  PROVE  LET new == ChaptersAfterSaw(ch, k, t)
         IN  /\ Recorded(new, k, t)
             /\ \A j \in Key, u \in Int : Recorded(ch, j, u) => Recorded(new, j, u)
             /\ (\A x \in DOMAIN ch : Actual(ch[x]) <= t) =>
                  \A x \in DOMAIN new : Actual(new[x]) <= t
<1> DEFINE new == ChaptersAfterSaw(ch, k, t)
           size == Cardinality(Key)
           rows == Cardinality(DOMAIN ch)
<1>1. /\ IsChapterTable(new) /\ DOMAIN new = DOMAIN ch \cup {k}
      /\ new[k].updated <= t
      /\ \A x \in DOMAIN ch : x # k => new[x] = ch[x]
      /\ k \in DOMAIN ch => new[k] = SeenAgain(ch[k], t)
      /\ k \notin DOMAIN ch => new[k].seen <= t /\ t - rows <= new[k].seen
  BY ChaptersAfterSawTable
<1>2. size \in Nat /\ rows \in Nat /\ size > 0 /\ (k \notin DOMAIN ch => rows < size)
  <2>1. size \in Nat /\ rows \in Nat /\ rows <= size
    BY KeyFinite, FS_Subset, ChapterTableFinite DEF IsChapterTable
  <2>2. size > 0
    BY KeyFinite, FS_EmptySet, <2>1
  <2>3. ASSUME k \notin DOMAIN ch PROVE rows < size
    <3>1. DOMAIN ch \subseteq Key \ {k} /\ IsFiniteSet(Key \ {k})
          /\ Cardinality(Key \ {k}) = size - 1
      BY <2>3, KeyFinite, FS_RemoveElement DEF IsChapterTable
    <3>2. rows <= size - 1
      BY <3>1, FS_Subset
    <3> QED BY <2>1, <3>2
  <2> QED BY <2>1, <2>2, <2>3
<1>3. /\ \A x \in DOMAIN new : new[x] \in ChapterRow
      /\ \A x \in DOMAIN ch : ch[x] \in ChapterRow
  BY <1>1 DEF IsChapterTable
<1>4. ASSUME k \in DOMAIN ch
      PROVE  new[k].updated = t /\ Actual(ch[k]) <= Actual(new[k])
             /\ new[k].seen <= Larger(ch[k].seen, ch[k].updated)
  BY <1>1, <1>3, <1>4, SeenAgainRow
<1> HIDE DEF new, size, rows
<1>5. /\ \A x \in DOMAIN new : new[x].updated \in Int /\ new[x].seen \in Int
                               /\ Actual(new[x]) \in Int
      /\ \A x \in DOMAIN ch : ch[x].updated \in Int /\ ch[x].seen \in Int
                              /\ Actual(ch[x]) \in Int
  BY <1>3 DEF ChapterRow, Actual, Larger
<1>6. Actual(new[k]) + size > t
  <2>1. k \in DOMAIN new
    BY <1>1
  <2>2. CASE k \in DOMAIN ch
    BY <1>2, <1>4, <1>5, <2>1, <2>2 DEF Actual, Larger
  <2>3. CASE k \notin DOMAIN ch
    <3>1. t - rows <= new[k].seen /\ rows < size
      BY <1>1, <1>2, <2>3
    <3>2. new[k].seen <= Actual(new[k])
      BY <1>5, <2>1 DEF Actual, Larger
    <3> QED BY <1>2, <1>5, <2>1, <3>1, <3>2
  <2> QED BY <2>2, <2>3
<1>7. Recorded(new, k, t)
  BY <1>1, <1>6 DEF Recorded, size
<1>8. ASSUME NEW j \in Key, NEW u \in Int, Recorded(ch, j, u)
      PROVE  Recorded(new, j, u)
  <2>1. j \in DOMAIN ch /\ j \in DOMAIN new /\ Actual(ch[j]) + size > u
    BY <1>1, <1>8 DEF Recorded, size
  <2>2. Actual(ch[j]) <= Actual(new[j])
    BY <1>1, <1>4, <1>5, <2>1
  <2>3. Actual(new[j]) + size > u
    BY <1>2, <1>5, <2>1, <2>2
  <2> QED BY <2>1, <2>3 DEF Recorded, size
<1>9. ASSUME \A x \in DOMAIN ch : Actual(ch[x]) <= t, NEW x \in DOMAIN new
      PROVE  Actual(new[x]) <= t
  <2>1. CASE x # k
    BY <1>1, <1>9, <2>1
  <2>2. CASE x = k /\ k \in DOMAIN ch
    <3>1. ch[k].updated <= t /\ ch[k].seen <= t
      BY <1>5, <1>9, <2>2 DEF Actual, Larger
    <3>2. Larger(ch[k].seen, ch[k].updated) <= t /\ Larger(ch[k].seen, ch[k].updated) \in Int
      BY <1>5, <2>2, <3>1 DEF Larger
    <3>3. new[k].seen <= t
      BY <1>4, <1>5, <2>2, <3>2
    <3> QED BY <1>1, <1>5, <2>2, <3>3 DEF Actual, Larger
  <2>3. CASE x = k /\ k \notin DOMAIN ch
    BY <1>1, <1>5, <2>3 DEF Actual, Larger
  <2> QED BY <2>1, <2>2, <2>3
<1> QED BY <1>7, <1>8, <1>9 DEF new

LEMMA SawStoryUpTo ==
  ASSUME NEW st, IsStoryTable(st), NEW s, NEW t \in Int,
         \A x \in DOMAIN st : st[x].updated <= t
  PROVE  LET new == StoriesAfterSaw(st, s, t)
         IN  DOMAIN new = DOMAIN st /\ \A x \in DOMAIN new : new[x].updated <= t
<1>1. \A x \in DOMAIN st : st[x] \in StoryRow /\ st[x].updated \in Int
  BY DEF IsStoryTable, StoryRow
<1>2. CASE s \notin DOMAIN st
  BY <1>2 DEF StoriesAfterSaw
<1>3. CASE s \in DOMAIN st
  <2> DEFINE new == [st EXCEPT ![s].updated = Larger(@, t)]
  <2>1. StoriesAfterSaw(st, s, t) = new
    BY <1>3 DEF StoriesAfterSaw
  <2>2. /\ DOMAIN new = DOMAIN st
        /\ \A x \in DOMAIN st :
             new[x].updated = IF x = s THEN Larger(st[x].updated, t) ELSE st[x].updated
    BY <1>1, <1>3 DEF StoryRow
  <2> HIDE DEF new
  <2>3. \A x \in DOMAIN st : Larger(st[x].updated, t) <= t
    BY <1>1 DEF Larger
  <2> QED BY <2>1, <2>2, <2>3
<1> QED BY <1>2, <1>3

LEMMA SawChapterIInv == ASSUME IInv, SawChapter PROVE IInv'
<1> DEFINE k == delta.key
<1>1. /\ pc = "chapter" /\ pc' = "files" /\ delta' = NoDelta
      /\ UNCHANGED <<history, committing, saved, locked, walk, deltas>>
      /\ IF delta.deleted
         THEN chapters' = Drop(chapters, k) /\ UNCHANGED stories
         ELSE /\ chapters' = ChaptersAfterSaw(chapters, k, timestamp)
              /\ stories' = StoriesAfterSaw(stories, k[1], timestamp)
  BY DEF SawChapter
<1>2. /\ at \in 2 .. HEAD /\ timestamp \in Nat \ {0} /\ timestamp = committing.after
      /\ timestamp = Time(at)
      /\ \A c \in 2 .. HEAD : Time(c) = timestamp => c = at
  BY <1>1, InRun DEF InFiles
<1>3. /\ delta \in Diff(at, at - 1) /\ k \in Key /\ k[1] \in DOMAIN stories
      /\ k \in Changed(at) => ~ delta.deleted
  <2>1. delta \in Diff(at, at - 1) /\ k[1] \in DOMAIN stories
    BY <1>1 DEF IInv, PlaceInv, InFile
  <2>2. delta \in Delta
    BY <1>2, <2>1, DiffFacts DEF IInv
  <2>3. k \in Changed(at) => ~ delta.deleted
    BY <1>2, <2>1, DiffFacts DEF IInv
  <2> QED BY <2>1, <2>2, <2>3 DEF Delta
<1>4. PICK n \in Chapter : k = <<k[1], n>>
  BY <1>3 DEF Key
<1>5. /\ HistoryInv' /\ Grows /\ HEAD \in Nat
      /\ HEAD' = HEAD /\ LatestTime' = LatestTime
      /\ \A c : Time(c)' = Time(c)
      /\ \A c, e : Diff(c, e)' = Diff(c, e)
      /\ \A c, j : Owed(c, j)' = Owed(c, j)
  BY <1>1, SameHistory DEF IInv
<1>6. /\ Consistent(stories, chapters) /\ RowsUpTo(stories, chapters, timestamp)
      /\ IsChapterTable(chapters) /\ StampsDistinctIn(chapters) /\ IsStoryTable(stories)
  BY <1>2 DEF IInv, TablesInv, TablesOk, Consistent
<1> HIDE DEF k
<1>7. /\ Consistent(stories', chapters') /\ RowsUpTo(stories', chapters', timestamp)
      /\ \A j \in Key : Recorded(chapters, j, timestamp) /\ (j # k \/ ~ delta.deleted) =>
           Recorded(chapters', j, timestamp)
      /\ ~ delta.deleted => Recorded(chapters', k, timestamp)
  <2>1. CASE delta.deleted
    <3>1. chapters' = Drop(chapters, k) /\ stories' = stories
      BY <1>1, <2>1
    <3>2. DOMAIN chapters' = DOMAIN chapters \ {k}
          /\ \A x \in DOMAIN chapters' : chapters'[x] = chapters[x]
      BY <3>1 DEF Drop, Restrict
    <3>3. Consistent(stories', chapters')
      BY <1>6, <3>1, DropConsistent
    <3> QED BY <1>6, <2>1, <3>1, <3>2, <3>3 DEF RowsUpTo, Recorded
  <2>2. CASE ~ delta.deleted
    <3>1. chapters' = ChaptersAfterSaw(chapters, k, timestamp)
          /\ stories' = StoriesAfterSaw(stories, k[1], timestamp)
      BY <1>1, <2>2
    <3>2. Consistent(stories', chapters')
      BY <1>2, <1>3, <1>4, <1>6, <3>1, SawChapterConsistent
    <3>3. /\ Recorded(chapters', k, timestamp)
          /\ \A j \in Key : Recorded(chapters, j, timestamp) => Recorded(chapters', j, timestamp)
          /\ \A x \in DOMAIN chapters' : Actual(chapters'[x]) <= timestamp
      BY <1>2, <1>3, <1>6, <3>1, SawRecords DEF RowsUpTo
    <3>4. \A x \in DOMAIN stories' : stories'[x].updated <= timestamp
      BY <1>2, <1>6, <3>1, SawStoryUpTo DEF RowsUpTo
    <3> QED BY <3>2, <3>3, <3>4 DEF RowsUpTo
  <2> QED BY <2>1, <2>2
<1>8. TablesInv'
  BY <1>1, <1>2, <1>5, <1>7 DEF IInv, TablesInv, TablesOk
<1>9. RunInv'
  BY <1>1, <1>2 DEF IInv, RunInv, walk
<1>10. PlaceInv'
  BY <1>1, <1>5 DEF IInv, PlaceInv, InFiles, InFile, walk
<1>11. RunRecords'
  <2> SUFFICES ASSUME NEW j \in Key, Owed(at, j)
               PROVE  Recorded(chapters', j, timestamp) \/ Waiting(j)'
    BY <1>1, <1>2, <1>5 DEF RunRecords, walk
  <2>1. Recorded(chapters, j, timestamp) \/ Waiting(j)
    BY <1>2 DEF IInv, RunRecords
  <2>2. j = k => ~ delta.deleted
    BY <1>3 DEF Owed
  <2>3. Recorded(chapters, j, timestamp) => Recorded(chapters', j, timestamp)
    BY <1>7, <2>2
  <2>4. CASE Waiting(j)
    BY <1>1, <1>7, <2>2, <2>4 DEF Waiting, k
  <2> QED BY <2>1, <2>3, <2>4
<1>12. SavedRecords'
  BY <1>1, <1>5, SavedRecordsKept DEF IInv
<1> QED BY <1>5, <1>8, <1>9, <1>10, <1>11, <1>12 DEF IInv

LEMMA FinishIInv == ASSUME IInv, Finish PROVE IInv'
<1>1. /\ pc = "scanned" /\ saved' = Snapshot
      /\ UNCHANGED <<history, tables>>
      /\ pc' = "off" /\ locked' = FALSE /\ since' = 0 /\ at' = 0 /\ haveTree' = FALSE
      /\ timestamp' = 0 /\ num' = 0 /\ deltas' = {} /\ delta' = NoDelta
  BY DEF Finish, Exit
<1>2. /\ HistoryInv' /\ Grows
      /\ HEAD' = HEAD /\ LatestTime' = LatestTime
      /\ \A c : Time(c)' = Time(c)
      /\ \A c, e : Diff(c, e)' = Diff(c, e)
      /\ \A c, k : Owed(c, k)' = Owed(c, k)
  BY <1>1, SameHistory DEF IInv
<1>3. TablesInv'
  <2>1. committing.after <= committing.after
    BY ScanAssumption DEF IInv, TablesInv, TablesOk, Committing
  <2> QED BY <1>1, <1>2, <2>1 DEF IInv, TablesInv, Snapshot, tables
<1>4. RunInv'
  <2>1. locked' \in BOOLEAN /\ haveTree' \in BOOLEAN
    BY <1>1
  <2>2. saved' = Snapshot'
    BY <1>1 DEF Snapshot, tables
  <2> QED BY <1>1, <2>1, <2>2, KeyFinite DEF RunInv
<1>5. PlaceInv'
  BY <1>1 DEF PlaceInv, InFiles, InFile
<1>6. RunRecords'
  BY <1>1 DEF RunRecords
<1>7. SavedRecords'
  <2>1. CASE timestamp = 0
    <3>1. saved' = saved
      BY <1>1, <2>1 DEF IInv, RunInv
    <3> QED BY <1>2, <3>1, SavedRecordsKept DEF IInv
  <2>2. CASE timestamp # 0
    <3>1. saved'.committing.after = timestamp /\ saved'.chapters = chapters
      BY <1>1, <2>2 DEF IInv, RunInv, Snapshot
    <3>2. \A k : ~ Waiting(k)
      BY <1>1 DEF IInv, PlaceInv, InFiles, InFile, Waiting
    <3> QED BY <1>2, <2>2, <3>1, <3>2 DEF IInv, RunRecords, SavedRecords
  <2> QED BY <2>1, <2>2
<1> QED BY <1>2, <1>3, <1>4, <1>5, <1>6, <1>7 DEF IInv

LEMMA StutterIInv == ASSUME IInv, UNCHANGED vars PROVE IInv'
<1>1. UNCHANGED <<history, tables, saved, pc, locked, walk, deltas, delta>>
  BY DEF vars
<1>2. RunInv'
  BY <1>1 DEF IInv, RunInv, Snapshot, tables, walk
<1>3. /\ HEAD' = HEAD /\ \A c : Time(c)' = Time(c)
      /\ \A c, e : Diff(c, e)' = Diff(c, e)
      /\ HistoryInv' /\ Grows
  BY <1>1, SameHistory DEF IInv
<1>4. PlaceInv'
  BY <1>1, <1>3 DEF IInv, PlaceInv, InFiles, InFile, tables, walk
<1>5. RunRecords'
  <2>1. \A k : Waiting(k) => Waiting(k)'
    BY <1>1 DEF Waiting, InFile
  <2> QED BY <1>1, <1>3, <2>1, RunRecordsKept DEF IInv, tables, walk
<1> QED BY <1>1, <1>2, <1>4, <1>5, ControlStep

LEMMA NextIInv == IInv /\ [Next]_vars => IInv'
<1> SUFFICES ASSUME IInv, [Next]_vars PROVE IInv'
  OBVIOUS
<1>1. CASE OnCommit
  BY <1>1, FirstCommitIInv, SecondCommitIInv
<1>2. CASE Push
  BY <1>2, PushIInv
<1>3. CASE Abandon
  BY <1>3, AbandonIInv
<1>4. CASE Begin
  BY <1>4, BeginIInv
<1>5. CASE StartWalk
  BY <1>5, StartWalkIInv
<1>6. CASE WalkEnds
  BY <1>6, WalkEndsIInv
<1>7. CASE NextCommit
  BY <1>7, NextCommitIInv
<1>8. CASE OnChapter
  BY <1>8, OnChapterIInv
<1>9. CASE GetStory
  BY <1>9, GetStoryIInv
<1>10. CASE SawChapter
  BY <1>10, SawChapterIInv
<1>11. CASE Finish
  BY <1>11, FinishIInv
<1>12. CASE UNCHANGED vars
  BY <1>12, StutterIInv
<1> QED
  BY <1>1, <1>2, <1>3, <1>4, <1>5, <1>6, <1>7, <1>8, <1>9, <1>10, <1>11, <1>12 DEF Next

THEOREM Invariance == Spec => []IInv
BY InitIInv, NextIInv, PTL DEF Spec

-----------------------------------------------------------------------------
(* The variables of the scan keep their types: no run sees more changed    *)
(* files than there are, or leaves the history.                            *)
THEOREM Typing == Spec => []TypeOK
<1>1. IInv => TypeOK
  <2> SUFFICES ASSUME IInv PROVE TypeOK
    OBVIOUS
  <2>1. HEAD \in Nat /\ HEAD <= MaxCommits
    BY HistoryFacts DEF IInv, HistoryInv, HistoryOk, HEAD
  <2>2. history \in Seq([time : Nat, tree : Tree])
    <3>1. Commit \subseteq [time : Nat, tree : Tree]
      BY ScanAssumption DEF Commit
    <3>2. history \in Seq(Commit)
      BY DEF IInv, HistoryInv, HistoryOk
    <3> DEFINE Wider == [time : Nat, tree : Tree]
    <3>3. \A i \in 1 .. Len(history) : history[i] \in Wider
      BY <3>1, <3>2
    <3> HIDE DEF Wider
    <3>4. history \in Seq(Wider)
      BY <3>2, <3>3
    <3> QED BY <3>4 DEF Wider
  <2>3. /\ IsStoryTable(stories) /\ IsChapterTable(chapters)
        /\ IsStoryTable(saved.stories) /\ IsChapterTable(saved.chapters)
    BY DEF IInv, TablesInv, TablesOk, Consistent
  <2>4. /\ committing \in [after : Nat, before : 0 .. HEAD]
        /\ saved.committing \in [after : Nat, before : 0 .. HEAD]
    BY <2>1, ScanAssumption DEF IInv, TablesInv, TablesOk, Committing
  <2>5. at \in 0 .. HEAD /\ deltas \subseteq Delta /\ delta \in Delta \cup {NoDelta}
    <3>1. CASE InFiles
      <4>1. at \in 2 .. HEAD /\ Diff(at, at - 1) \subseteq Delta
        BY <3>1, InRun, DiffFacts DEF IInv
      <4> QED BY <2>1, <3>1, <4>1 DEF IInv, PlaceInv
    <3>2. CASE ~ InFiles
      BY <2>1, <3>2 DEF IInv, PlaceInv, InFiles, InFile
    <3> QED BY <3>1, <3>2
  <2>6. timestamp \in Nat
    BY ScanAssumption DEF IInv, RunInv
  <2>7. pc \in {"off", "begun", "walking", "files", "story", "chapter", "scanned"}
    BY DEF IInv, PlaceInv
  <2> QED BY <2>1, <2>2, <2>3, <2>4, <2>5, <2>6, <2>7 DEF IInv, RunInv, TypeOK
<1> QED BY <1>1, Invariance, PTL

(* What is committed never runs ahead of `after': a run that looks back to *)
(* it takes no row of the runs before it for a later one.                  *)
THEOREM NotAhead == Spec => []RowsNotAhead
<1>1. IInv => RowsNotAhead
  BY DEF IInv, TablesInv, TablesOk, RowsUpTo, RowsNotAhead
<1> QED BY <1>1, Invariance, PTL

(* A commit of fewer files than on_chapter commits at a time is recorded   *)
(* as a whole as soon as committing.after names it, wherever generate dies.*)
THEOREM SmallCommits == Spec => []SmallCommitRecorded
<1>1. IInv => SmallCommitRecorded
  <2> SUFFICES ASSUME IInv PROVE SmallCommitRecorded
    OBVIOUS
  <2> SUFFICES ASSUME NEW c \in 1 .. HEAD, LastSeen(c), c > 1,
                      Cardinality(Diff(c, c - 1)) < BatchSize,
                      NEW k \in Changed(c), StillThere(k, c)
               PROVE  RecordedSince(k, Time(c))
    BY DEF SmallCommitRecorded
  <2>1. c \in 2 .. HEAD
    BY HistoryFacts DEF IInv, HistoryInv, HEAD
  <2>2. k \in Key
    <3>1. \E d \in Diff(c, c - 1) : d.key = k
      BY <2>1, DiffFacts DEF IInv
    <3>2. Diff(c, c - 1) \subseteq Delta
      BY <2>1, DiffFacts DEF IInv
    <3> QED BY <3>1, <3>2 DEF Delta
  <2> QED BY <2>1, <2>2 DEF IInv, SavedRecords, Owed, LastSeen, Recorded, RecordedSince
<1> QED BY <1>1, Invariance, PTL

(* What a run commits of `after' is never earlier than what was there.     *)
THEOREM AfterNeverBack == Spec => AfterMonotone
<1> DEFINE Keeps == saved.committing.after <= saved'.committing.after
<1>1. IInv /\ [Next]_vars => [Keeps]_vars
  <2> SUFFICES ASSUME IInv, [Next]_vars PROVE Keeps
    OBVIOUS
  <2>1. saved' = saved \/ saved' = Snapshot
    BY DEF Next, Push, Abandon, Begin, StartWalk, OnCommit, WalkEnds, NextCommit,
           OnChapter, GetStory, SawChapter, Finish, vars
  <2>2. saved.committing.after <= saved.committing.after
        /\ saved.committing.after <= committing.after
    BY ScanAssumption DEF IInv, TablesInv, TablesOk, Committing
  <2> QED BY <2>1, <2>2 DEF Snapshot
<1> QED BY <1>1, Invariance, PTL DEF Spec, AfterMonotone

-----------------------------------------------------------------------------
(* The operators of StoryTables are the same in StoryDb.                   *)
LEMMA SameFreshCreated == \A ch, t : Db!FreshCreated(ch, t) = FreshCreated(ch, t)
<1>1. \A S : Db!Cardinality(S) = Cardinality(S)
  BY Zenon DEF Db!Cardinality, Cardinality
<1>2. \A ch : Db!UsedStamps(ch) = UsedStamps(ch)
  BY Zenon DEF Db!UsedStamps, UsedStamps
<1>3. \A ch, t : Db!FreeStamps(ch, t) = FreeStamps(ch, t)
  BY <1>1, <1>2, Zenon DEF Db!FreeStamps, FreeStamps
<1> QED BY <1>3, Zenon DEF Db!FreshCreated, FreshCreated

LEMMA SameOperators ==
  /\ \A ch, k, t : Db!ChaptersAfterSaw(ch, k, t) = ChaptersAfterSaw(ch, k, t)
  /\ \A st, s, t : Db!StoriesAfterSaw(st, s, t) = StoriesAfterSaw(st, s, t)
  /\ \A table, k : Db!Drop(table, k) = Drop(table, k)
  /\ \A st, t : Db!StampFree(st, t) <=> StampFree(st, t)
  /\ \A st, s, t : Db!Put(st, s, Db!NewStory(t)) = Put(st, s, NewStory(t))
<1>1. /\ \A a, b : Db!Larger(a, b) = Larger(a, b)
      /\ \A st, k, row : Db!Put(st, k, row) = Put(st, k, row)
      /\ \A st, t : Db!StampFree(st, t) <=> StampFree(st, t)
      /\ \A t : Db!NewStory(t) = NewStory(t)
  BY Zenon DEF Db!Larger, Larger, Db!Put, Put, Db!StampFree, StampFree, Db!UsedStamps,
               UsedStamps, Db!NewStory, NewStory
<1>2. \A row, t : Db!SeenAgain(row, t) = SeenAgain(row, t)
  BY <1>1, Zenon DEF Db!SeenAgain, SeenAgain
<1>3. \A ch, k, t : Db!ChaptersAfterSaw(ch, k, t) = ChaptersAfterSaw(ch, k, t)
  BY <1>1, <1>2, SameFreshCreated, Zenon DEF Db!ChaptersAfterSaw, ChaptersAfterSaw
<1>4. \A st, s, t : Db!StoriesAfterSaw(st, s, t) = StoriesAfterSaw(st, s, t)
  BY <1>1, Zenon DEF Db!StoriesAfterSaw, StoriesAfterSaw
<1>5. \A table, k : Db!Drop(table, k) = Drop(table, k)
  BY Zenon DEF Db!Drop, Drop, Db!Restrict, Restrict
<1> QED BY <1>1, <1>3, <1>4, <1>5, Zenon

LEMMA InitMaps == Init => Db!Init
BY DEF Init, Db!Init, Db!tables, Snapshot, Db!EmptyTable, EmptyTable

(* A step of the scan is the step of StoryDb of the same name, a look at   *)
(* the tables, or nothing.                                                 *)
LEMMA NextMaps == ASSUME IInv, [Next]_vars PROVE [Db!Next]_Db!vars
<1> DEFINE ph == IF pc = "off" THEN "off" ELSE IF locked THEN "busy" ELSE "idle"
           old == [stories |-> saved.stories, chapters |-> saved.chapters]
           now == [stories |-> stories, chapters |-> chapters]
           Stamps == FirstTime .. LastTime
<1>1. ASSUME ph' = ph, UNCHANGED <<stories, chapters, saved>> PROVE [Db!Next]_Db!vars
  BY <1>1 DEF Db!vars
<1>2. ASSUME UNCHANGED <<stories, chapters, saved>>, pc # "off", pc' # "off", locked'
      PROVE  [Db!Next]_Db!vars
  BY <1>2 DEF Db!vars, Db!Next, Db!Generate, Db!Look, Db!Statement
<1>3. ASSUME Abandon PROVE Db!Abandon
  BY <1>3 DEF Abandon, Exit, Db!Abandon
<1>4. CASE Push \/ WalkEnds \/ NextCommit \/ UNCHANGED vars
  BY <1>1, <1>4 DEF Push, WalkEnds, NextCommit, tables, vars
<1>5. CASE Begin
  <2>1. ~ locked /\ ~ locked'
    BY <1>5 DEF Begin, IInv, PlaceInv
  <2> QED BY <1>5, <2>1 DEF Begin, tables, Db!Next, Db!Generate, Db!OpenDb
<1>6. CASE StartWalk \/ OnCommit
  BY <1>2, <1>6 DEF StartWalk, OnCommit, tables
<1>7. CASE OnChapter
  <2>1. CASE UNCHANGED <<saved, locked>>
    <3>1. pc # "off" /\ pc' # "off"
      BY <1>7 DEF OnChapter
    <3> QED BY <1>1, <1>7, <2>1, <3>1 DEF OnChapter, tables
  <2>2. CASE saved' = Snapshot /\ locked' = FALSE
    <3>1. pc # "off" /\ pc' # "off" /\ UNCHANGED <<stories, chapters>>
      BY <1>7 DEF OnChapter, tables
    <3>2. Db!Retransaction
      BY <2>2, <3>1 DEF Db!Retransaction, Db!Commit, Db!tables, Snapshot
    <3> QED BY <3>2 DEF Db!Next, Db!Generate
  <2> QED BY <1>7, <2>1, <2>2 DEF OnChapter
<1>8. CASE Abandon
  BY <1>3, <1>8 DEF Db!Next, Db!Generate
<1>9. CASE GetStory /\ ~ Abandon
  <2> DEFINE s == delta.key[1]
  <2>1. /\ pc = "story" /\ pc' = "chapter" /\ locked' = TRUE
        /\ stories' = IF s \in DOMAIN stories THEN stories
                      ELSE Put(stories, s, NewStory(timestamp))
        /\ s \in DOMAIN stories \/ StampFree(stories, timestamp)
        /\ UNCHANGED <<chapters, saved>>
    BY <1>9 DEF GetStory
  <2>2. s \in Story /\ timestamp \in Stamps
    <3>1. at \in 2 .. HEAD /\ timestamp \in Nat \ {0}
      BY <2>1, InRun DEF InFiles
    <3>2. delta \in Diff(at, at - 1)
      BY <2>1 DEF IInv, PlaceInv, InFile
    <3>3. delta \in Delta
      BY <3>1, <3>2, DiffFacts DEF IInv
    <3>4. timestamp \in {0} \cup Stamps
      BY DEF IInv, RunInv
    <3> QED BY <3>1, <3>3, <3>4 DEF Delta, Key
  <2> HIDE DEF s
  <2>3. CASE s \in DOMAIN stories
    BY <1>2, <2>1, <2>3
  <2>4. CASE s \notin DOMAIN stories
    <3>1. Db!GetStory(s, timestamp)
      BY <2>1, <2>4, SameOperators DEF Db!GetStory, Db!Statement
    <3> QED BY <2>2, <3>1 DEF Db!Next, Db!Generate
  <2> QED BY <2>3, <2>4
<1>10. CASE SawChapter
  <2> DEFINE k == delta.key
  <2>1. /\ pc = "chapter" /\ pc' = "files" /\ locked' = locked /\ saved' = saved
        /\ IF delta.deleted
           THEN chapters' = Drop(chapters, k) /\ UNCHANGED stories
           ELSE /\ chapters' = ChaptersAfterSaw(chapters, k, timestamp)
                /\ stories' = StoriesAfterSaw(stories, k[1], timestamp)
    BY <1>10 DEF SawChapter
  <2>2. k \in Key /\ timestamp \in Stamps /\ k[1] \in DOMAIN stories
    <3>1. at \in 2 .. HEAD /\ timestamp \in Nat \ {0}
      BY <2>1, InRun DEF InFiles
    <3>2. delta \in Diff(at, at - 1) /\ k[1] \in DOMAIN stories
      BY <2>1 DEF IInv, PlaceInv, InFile
    <3>3. delta \in Delta
      BY <3>1, <3>2, DiffFacts DEF IInv
    <3>4. timestamp \in {0} \cup Stamps
      BY DEF IInv, RunInv
    <3> QED BY <3>1, <3>2, <3>3, <3>4 DEF Delta
  <2>3. PICK s \in Story, n \in Chapter : k = <<s, n>>
    BY <2>2 DEF Key
  <2>4. s = k[1]
    BY <2>3
  <2>5. locked
    BY <2>1 DEF IInv, PlaceInv
  <2> HIDE DEF k
  <2>6. CASE delta.deleted
    <3>1. Db!SawDeleted(s, n)
      BY <2>1, <2>2, <2>3, <2>4, <2>5, <2>6, SameOperators DEF Db!SawDeleted, Db!Statement
    <3> QED BY <3>1 DEF Db!Next, Db!Generate
  <2>7. CASE ~ delta.deleted
    <3>1. Db!SawChapter(s, n, timestamp)
      BY <2>1, <2>2, <2>3, <2>4, <2>5, <2>7, SameOperators DEF Db!SawChapter, Db!Statement
    <3> QED BY <2>2, <3>1 DEF Db!Next, Db!Generate
  <2> QED BY <2>6, <2>7
<1>11. CASE Finish
  <2>1. Db!CloseAndExit
    BY <1>11 DEF Finish, Exit, tables, Db!CloseAndExit, Db!Commit, Db!tables, Snapshot
  <2> QED BY <2>1 DEF Db!Next, Db!Generate
<1> QED
  BY <1>4, <1>5, <1>6, <1>7, <1>8, <1>9, <1>10, <1>11 DEF Next

(* Seen from the tables, the scan is a run of StoryDb in which only        *)
(* generate takes steps.                                                   *)
THEOREM Implements == Spec => ImplementsStoryDb
BY InitMaps, NextMaps, Invariance, PTL DEF Spec, ImplementsStoryDb, Db!Spec
===============================================================================
