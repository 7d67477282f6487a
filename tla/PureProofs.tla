------------------------------- MODULE PureProofs -------------------------------
(***************************************************************************)
(* What the functions and loops of Pure answer, for any lists of times,    *)
(* any pair of trees, stories of any length, any texts and any number of   *)
(* descriptors.                                                            *)
(***************************************************************************)
EXTENDS Pure, StoryTablesProofs

-----------------------------------------------------------------------------
(* Comparison of author times.                                             *)
LEMMA SmallModulo ==
  ASSUME NEW m \in Nat \ {0}, NEW x \in 0 .. m - 1
  PROVE  x % m = x
<1> DEFINE q == x \div m
           r == x % m
<1>1. q \in Int /\ r \in 0 .. m - 1 /\ x = m * q + r
  OBVIOUS
<1> HIDE DEF q, r
<1>2. CASE q >= 1
  <2>1. m * q >= m
    BY <1>1, <1>2
  <2> QED BY <1>1, <2>1
<1>3. CASE q <= -1
  <2>1. m * q <= -m
    BY <1>1, <1>3
  <2> QED BY <1>1, <2>1
<1>4. CASE q = 0
  BY <1>1, <1>4 DEF r
<1> QED BY <1>1, <1>2, <1>3, <1>4

(* Within half the range the difference is not cut.                         *)
LEMMA ComparisonSound ==
  ASSUME NEW half \in Nat \ {0}, NEW times \in Seq(Int),
         \A j, k \in DOMAIN times : times[j] - times[k] < half
  PROVE  QSorted(times, half) <=> LatestLast(times)
<1>1. ASSUME NEW j \in DOMAIN times, NEW k \in DOMAIN times
      PROVE  LaterCommitsLast(times[j], times[k], half) = times[j] - times[k]
  <2> DEFINE d == times[j] - times[k]
  <2>1. d \in Int /\ d < half /\ -half < d
    <3>1. times[j] \in Int /\ times[k] \in Int /\ times[k] - times[j] < half
      OBVIOUS
    <3> QED BY <3>1
  <2> HIDE DEF d
  <2>2. 2 * half \in Nat \ {0} /\ d + half \in 0 .. 2 * half - 1
    BY <2>1
  <2>3. (d + half) % (2 * half) = d + half
    BY <2>2, SmallModulo
  <2>4. LaterCommitsLast(times[j], times[k], half) = ((d + half) % (2 * half)) - half
    BY DEF LaterCommitsLast, AsInt, d
  <2> QED BY <2>1, <2>3, <2>4 DEF d
<1>2. \A j, k \in DOMAIN times :
        LaterCommitsLast(times[j], times[k], half) <= 0 <=> times[j] <= times[k]
  BY <1>1
<1> QED BY <1>2 DEF QSorted, LatestLast

-----------------------------------------------------------------------------
(* The links of Listing, for any number of chapters.                       *)
LEMMA ShownChapters ==
  ASSUME NEW count \in Nat \ {0}, NEW mark \in 0 .. count, NEW all \in BOOLEAN
  PROVE  LET ready == ReadyOf(Row(mark, count), all)
         IN  /\ ready \in 1 .. count
             /\ all => ready = count
             /\ mark > 0 /\ ~all => ready = mark
             /\ Numchaps(mark, count, all) = ready
             /\ Exported(mark, count, all) = 1 .. ready
<1> DEFINE ready == ReadyOf(Row(mark, count), all)
<1>1. ready = IF all THEN count ELSE IF mark # 0 THEN mark
              ELSE IF count = 1 THEN 1 ELSE count - 1
  BY DEF ReadyOf, Row
<1>2. /\ ready \in 1 .. count /\ (all => ready = count)
      /\ (mark > 0 /\ ~all => ready = mark)
  BY <1>1
<1>3. Numchaps(mark, count, all) = ready
  <2>1. Numchaps(mark, count, all) = IF ~all /\ ready # 0 THEN ready ELSE count
    BY DEF Numchaps, ReadyOf, ReadyOf
  <2> QED BY <1>2, <2>1
<1>4. Exported(mark, count, all) = 1 .. ready
  <2>1. Exported(mark, count, all) =
          {n \in 1 .. count : all \/ n <= Numchaps(mark, count, all)}
    BY DEF Exported
  <2> HIDE DEF ready
  <2> QED BY <1>2, <1>3, <2>1
<1> QED BY <1>2, <1>3, <1>4

(* What LinksResolve asks of Listing, for one story.                        *)
LEMMA NoDeadLinks ==
  ASSUME NEW count \in Nat \ {0}, NEW mark \in 0 .. count, NEW all \in BOOLEAN
  PROVE  LET pages == Pages(mark, count, all)
         IN  /\ \A n \in Exported(mark, count, all) :
                  PageLinks(mark, count, all, n) \subseteq pages
             /\ ContentsLinks(mark, count, all) = pages
             /\ LogLinks(mark, count, all) \subseteq pages
             /\ SiteLinks(mark, count) \subseteq Pages(mark, count, FALSE)
             /\ SneakPeekLinks(mark, count) \subseteq Pages(mark, count, TRUE)
             /\ Unpublished(mark, count) \cap Exported(mark, count, FALSE) = {}
<1> DEFINE Ready(a) == ReadyOf(Row(mark, count), a)
           Name(n) == ChapterName(n)
<1>1. \A a \in BOOLEAN : /\ Ready(a) \in 1 .. count
                         /\ a => Ready(a) = count
                         /\ mark > 0 /\ ~a => Ready(a) = mark
                         /\ Numchaps(mark, count, a) = Ready(a)
                         /\ Exported(mark, count, a) = 1 .. Ready(a)
  BY ShownChapters
<1>2. \A a : ReadyOf(Row(mark, count), a) = Ready(a)
  BY DEF ReadyOf
<1>3. \A n : Name(n) = IF n > 1 THEN PageOf(n) ELSE Index
  BY DEF ChapterName
<1> HIDE DEF Ready, Name
<1>4. \A a \in BOOLEAN : Pages(mark, count, a) = {Name(n) : n \in 1 .. Ready(a)}
  BY <1>1 DEF Pages, Name
<1>5. \A a \in BOOLEAN : \A n \in 1 .. Ready(a) : Name(n) \in Pages(mark, count, a)
  BY <1>4
<1>6. PICK no \in BOOLEAN : no = FALSE
  OBVIOUS
<1>7. PICK yes \in BOOLEAN : yes = TRUE
  OBVIOUS
<1>8. /\ Ready(yes) = count /\ Ready(yes) \in 1 .. count
       /\ Ready(no) \in 1 .. count /\ (mark > 0 => Ready(no) = mark)
       /\ Exported(mark, count, no) = 1 .. Ready(no)
  <2>1. yes /\ ~no
    BY <1>6, <1>7, Zenon
  <2> QED BY <1>1, <2>1
<1> DEFINE reader == ReadyOf(Row(mark, count), FALSE)
<1>9. reader = Ready(no)
  BY <1>2, <1>6, Zenon
<1>10. ASSUME NEW n \in Exported(mark, count, all)
      PROVE  PageLinks(mark, count, all, n) \subseteq Pages(mark, count, all)
  <2>1. n \in 1 .. Ready(all) /\ Ready(all) \in 1 .. count
    BY <1>1
  <2>2. NextLink(n, Ready(all)) = {} \/ (n < Ready(all) /\ NextLink(n, Ready(all)) = {Name(n + 1)})
    BY <1>3, <2>1 DEF NextLink
  <2>3. PrevLink(n) = {} \/ (n > 1 /\ PrevLink(n) = {Name(n - 1)})
    BY <1>3, <2>1 DEF PrevLink
  <2>4. n < Ready(all) => Name(n + 1) \in Pages(mark, count, all)
    BY <1>5, <2>1
  <2>5. n > 1 => Name(n - 1) \in Pages(mark, count, all)
    BY <1>5, <2>1
  <2>6. PageLinks(mark, count, all, n) = PrevLink(n) \cup NextLink(n, Ready(all))
    BY <1>2 DEF PageLinks
  <2> QED BY <2>2, <2>3, <2>4, <2>5, <2>6
<1>11. ContentsLinks(mark, count, all) = Pages(mark, count, all)
  BY <1>1, <1>4 DEF ContentsLinks, Name
<1>12. LogLinks(mark, count, all) \subseteq Pages(mark, count, all)
  <2> SUFFICES ASSUME NEW n \in Recent(mark, count), all \/ n # count
               PROVE  (IF n # 1 THEN PageOf(n) ELSE Index) \in Pages(mark, count, all)
    BY DEF LogLinks
  <2>1. n \in 1 .. count /\ (n <= Ready(no) \/ count = 1)
    BY <1>9 DEF Recent
  <2>2. n \in 1 .. Ready(all)
    <3>1. CASE all
      BY <1>1, <2>1, <3>1
    <3>2. CASE ~all
      <4>1. all = no /\ n # count
        BY <1>6, <3>2
      <4> QED BY <1>1, <2>1, <4>1
    <3> QED BY <3>1, <3>2
  <2>3. Name(n) = IF n # 1 THEN PageOf(n) ELSE Index
    BY <1>3, <2>1
  <2> QED BY <1>5, <2>2, <2>3
<1>13. SiteLinks(mark, count) \subseteq Pages(mark, count, no)
  <2>1. Ready(no) \in 1 .. count
    BY <1>8
  <2>2. Name(Ready(no)) \in Pages(mark, count, no)
        /\ Name(1) \in Pages(mark, count, no)
    BY <1>5, <2>1
  <2>3. SiteLinks(mark, count) = {Name(1), Name(Ready(no))}
    <3>1. Name(1) = Index
      BY <1>3
    <3>2. SiteLinks(mark, count) = {Index, Name(reader)}
      BY DEF SiteLinks, Name
    <3> QED BY <1>9, <3>1, <3>2, Zenon
  <2> QED BY <2>2, <2>3
<1>14. SneakPeekLinks(mark, count) \subseteq Pages(mark, count, yes)
  <2>1. Ready(no) \in 1 .. count /\ Ready(yes) = count
    BY <1>8
  <2>2. Ready(no) < count => Name(Ready(no) + 1) \in Pages(mark, count, yes)
    BY <1>5, <2>1
  <2>3. SneakPeekLinks(mark, count)
          = IF Ready(no) < count THEN {Name(Ready(no) + 1)} ELSE {}
    BY <1>9 DEF SneakPeekLinks, Name
  <2> QED BY <2>2, <2>3
<1>15. Unpublished(mark, count) \cap Exported(mark, count, no) = {}
  BY <1>8 DEF Unpublished
<1>16. no = FALSE /\ yes = TRUE
  BY <1>6, <1>7
<1> QED BY <1>10, <1>11, <1>12, <1>13, <1>14, <1>15, <1>16, Zenon

-----------------------------------------------------------------------------
(* Which action gives which answer.                                        *)
TaskTyped ==
  \/ task \in OrderTasks \/ task \in SearchTasks \/ task \in DiffTasks
  \/ task \in PrintTasks \/ task \in CacheTasks \/ task \in SqlTasks
  \/ task \in LinkTasks \/ task \in ContentsTasks \/ task \in DescribeTasks
  \/ task \in FileTasks

LEMMA TaskOfKind ==
  ASSUME TaskTyped
  PROVE  /\ task.kind = "order" => task \in OrderTasks
         /\ task.kind = "search" => task \in SearchTasks
         /\ task.kind = "diff" => task \in DiffTasks
         /\ task.kind = "links" => task \in LinkTasks
         /\ task.kind = "contents" => task \in ContentsTasks
         /\ task.kind = "describe" => task \in DescribeTasks
         /\ task.kind = "files" => task \in FileTasks
BY DEF TaskTyped, OrderTasks, SearchTasks, DiffTasks, PrintTasks, CacheTasks, SqlTasks,
       LinkTasks, ContentsTasks, DescribeTasks, FileTasks

LEMMA InitTyped == Init => TaskTyped /\ answer.kind = "none"
BY DEF Init, TaskTyped, None

LEMMA NextTyped ==
  ASSUME TaskTyped, [Next]_vars
  PROVE  TaskTyped' /\ task' = task
<1>1. task' = task
  BY DEF Next, vars
<1> QED BY <1>1 DEF TaskTyped, OrderTasks, SearchTasks, DiffTasks, PrintTasks, CacheTasks,
           SqlTasks, LinkTasks, ContentsTasks, DescribeTasks, FileTasks, InfoRow

LEMMA AnsweredBy ==
  ASSUME [Next]_vars
  PROVE  /\ answer'.kind = "order" => answer' = answer \/ Order
         /\ answer'.kind = "search" => answer' = answer \/ Search
         /\ answer'.kind = "diff" => answer' = answer \/ CompareTrees \/ TellPath
         /\ answer'.kind = "links" => answer' = answer \/ Link
         /\ answer'.kind = "contents" => answer' = answer \/ FillContents
         /\ answer'.kind = "describe" => answer' = answer \/ Describe \/ DescribeNext
         /\ answer'.kind = "files" => answer' = answer \/ OpenStories \/ OpenNext
<1>1. answer' = answer \/ Compute
  BY DEF Next, vars
<1>2. Order => answer'.kind = "order"
  BY DEF Order
<1>3. Search => answer'.kind = "search"
  BY DEF Search
<1>4. CompareTrees => answer'.kind = "diff"
  BY DEF CompareTrees
<1>5. TellPath => answer'.kind = "diff"
  BY DEF TellPath
<1>6. PrintNumber => answer'.kind = "print"
  BY DEF PrintNumber
<1>7. StartCaches => answer'.kind = "caches"
  BY DEF StartCaches
<1>8. ConvertSql => answer'.kind = "sql"
  BY DEF ConvertSql
<1>9. Link => answer'.kind = "links"
  BY DEF Link
<1>10. FillContents => answer'.kind = "contents"
  BY DEF FillContents
<1>11. Describe => answer'.kind = "describe"
  BY DEF Describe
<1>12. DescribeNext => answer'.kind = "describe"
  BY DEF DescribeNext
<1>13. OpenStories => answer'.kind = "files"
  BY DEF OpenStories
<1>14. OpenNext => answer'.kind = "files"
  BY DEF OpenNext
<1> QED BY <1>1, <1>2, <1>3, <1>4, <1>5, <1>6, <1>7, <1>8, <1>9, <1>10, <1>11, <1>12,
           <1>13, <1>14 DEF Compute

-----------------------------------------------------------------------------
(* later_commits_last (storygit.c:24-29), for an int of any width and any  *)
(* list of times that lie less than half its range apart.                  *)
THEOREM ComparisonSoundFor == Spec => []OrderSound
<1>1. Init => TaskTyped /\ OrderSound
  BY InitTyped DEF OrderSound, Answered
<1>2. TaskTyped /\ OrderSound /\ [Next]_vars => TaskTyped' /\ OrderSound'
  <2> SUFFICES ASSUME TaskTyped, OrderSound, [Next]_vars PROVE OrderSound'
    BY NextTyped
  <2>1. task' = task
    BY NextTyped
  <2>2. CASE answer' = answer
    BY <2>1, <2>2 DEF OrderSound, Answered
  <2>3. CASE Order
    <3>1. task.times \in Seq(Int) /\ answer'.accepted = QSorted(task.times, Half)
      BY <2>3, TaskOfKind, PureAssumption DEF Order, Given, OrderTasks
    <3> QED BY <2>1, <3>1, ComparisonSound, PureAssumption DEF OrderSound
  <2> QED BY <2>2, <2>3, AnsweredBy DEF OrderSound, Answered
<1> QED BY <1>1, <1>2, PTL DEF Spec

-----------------------------------------------------------------------------
(* Among places there is a first one.                                      *)
LEMMA LeastPlace ==
  ASSUME NEW n \in Nat, NEW P \in SUBSET (1 .. n), P # {}
  PROVE  \E j \in P : \A k \in P : j <= k
<1> DEFINE S == {n - j : j \in P}
<1>1. \A j \in P : j \in Int
  OBVIOUS
<1>2. S \in SUBSET (0 .. n) /\ S # {}
  <2>1. ASSUME NEW j \in P PROVE n - j \in 0 .. n
    <3>1. j \in 1 .. n
      OBVIOUS
    <3> QED BY <3>1
  <2> QED BY <2>1
<1>3. S \in SUBSET Int /\ IsFiniteSet(S)
  <2> HIDE DEF S
  <2>1. IsFiniteSet(0 .. n)
    BY FS_Interval
  <2>2. IsFiniteSet(S)
    BY <1>2, <2>1, FS_Subset
  <2> QED BY <1>2, <2>2
<1>4. PICK x \in S : \A y \in S : y <= x
  <2> HIDE DEF S
  <2> QED BY <1>2, <1>3, GreatestExists
<1>5. PICK j \in P : x = n - j
  BY <1>4
<1>6. ASSUME NEW k \in P PROVE j <= k
  <2>1. n - k \in S
    OBVIOUS
  <2>2. n - k <= n - j
    BY <1>4, <1>5, <2>1
  <2> QED BY <1>1, <1>5, <2>2
<1> QED BY <1>6

(* In a sorted list below ten entries the search comes to rest on the      *)
(* first commit of the time, and goes on over all of them.                 *)
LEMMA LinearSearchFinds ==
  ASSUME NEW times \in Seq(Int), LatestLast(times), NEW t,
         NEW l \in DOMAIN times, times[l] = t
  PROVE  \E j \in LinearStarts(times, t) : l \in SameTimeRun(times, j, t)
<1> DEFINE n == Len(times)
           P == {k \in 1 .. n : times[k] = t}
<1>1. n \in Nat /\ DOMAIN times = 1 .. n /\ \A k \in 1 .. n : times[k] \in Int
  OBVIOUS
<1> HIDE DEF n
<1>2. PICK j \in P : \A k \in P : j <= k
  <2>1. l \in P
    BY <1>1
  <2> QED BY <1>1, <2>1, LeastPlace
<1>3. j \in 1 .. n /\ times[j] = t /\ l \in 1 .. n /\ j <= l
  BY <1>1, <1>2
<1>4. \A k \in 1 .. j - 1 : times[k] # t
  BY <1>1, <1>2, <1>3
<1>5. j \in LinearStarts(times, t)
  BY <1>1, <1>3, <1>4 DEF LinearStarts
<1>6. ASSUME NEW k \in j .. l - 1 PROVE times[k] = t
  <2>1. k \in 1 .. n /\ j <= k /\ k < l
    <3>1. j \in Int /\ l \in Int /\ 1 <= j /\ l <= n
      BY <1>1, <1>3
    <3>2. k \in Int /\ j <= k /\ k <= l - 1
      BY <3>1
    <3> QED BY <1>1, <3>1, <3>2
  <2>2. times[j] <= times[k] /\ times[k] <= times[l]
    BY <1>1, <1>3, <2>1 DEF LatestLast
  <2> QED BY <1>1, <1>3, <2>1, <2>2
<1> QED BY <1>1, <1>3, <1>5, <1>6 DEF SameTimeRun

(* The search of the todo list (storygit.c:190-236), for any sorted list:  *)
(* below ten entries it finds every commit of the time it looks for, and   *)
(* it never compares another one.                                          *)
THEOREM ShortSearchComplete == Spec => []SearchComplete
<1>1. Init => TaskTyped /\ SearchComplete
  BY InitTyped DEF SearchComplete, Answered
<1>2. TaskTyped /\ SearchComplete /\ [Next]_vars => TaskTyped' /\ SearchComplete'
  <2> SUFFICES ASSUME TaskTyped, SearchComplete, [Next]_vars PROVE SearchComplete'
    BY NextTyped
  <2>1. task' = task
    BY NextTyped
  <2>2. CASE answer' = answer
    BY <2>1, <2>2 DEF SearchComplete, Answered
  <2>3. CASE Search
    <3> DEFINE ts == task.times
               same == {k \in DOMAIN ts : ts[k] = task.t}
    <3>1. /\ ts \in Seq(Int) /\ LatestLast(ts)
          /\ answer'.places = LookedAt(ts, task.t, LinearBelow)
      BY <2>3, TaskOfKind, PureAssumption DEF Search, Given, SearchTasks
    <3> HIDE DEF ts
    <3>2. answer'.places \subseteq same
      BY <3>1 DEF LookedAt, SameTimeRun
    <3>3. ASSUME Len(ts) < LinearBelow, NEW l \in same PROVE l \in answer'.places
      <4>1. Starts(ts, task.t, LinearBelow) = LinearStarts(ts, task.t)
        BY <3>3 DEF Starts
      <4>2. \E j \in LinearStarts(ts, task.t) : l \in SameTimeRun(ts, j, task.t)
        BY <3>1, LinearSearchFinds
      <4> QED BY <3>1, <4>1, <4>2 DEF LookedAt
    <3>4. same = {k \in DOMAIN task.times : task.times[k] = task.t} /\ ts = task.times
      BY DEF ts
    <3> HIDE DEF same
    <3>5. Len(ts) < LinearBelow => answer'.places = same
      BY <3>2, <3>3
    <3> QED BY <2>1, <3>2, <3>4, <3>5 DEF SearchComplete
  <2> QED BY <2>2, <2>3, AnsweredBy DEF SearchComplete, Answered
<1> QED BY <1>1, <1>2, PTL DEF Spec

-----------------------------------------------------------------------------
(* Each program has its own idea of what may be shown, and of what its     *)
(* page is called: for_chapter (main.c:183-203), create_chapter and        *)
(* create_contents (create.c), make-log, make-contents,                    *)
(* find-chapters-to-publish.  For stories of any length they agree.        *)
THEOREM NoDeadLinksFor == Spec => []LinksResolve
<1>1. Init => TaskTyped /\ LinksResolve
  BY InitTyped DEF LinksResolve, Answered
<1>2. TaskTyped /\ LinksResolve /\ [Next]_vars => TaskTyped' /\ LinksResolve'
  <2> SUFFICES ASSUME TaskTyped, LinksResolve, [Next]_vars PROVE LinksResolve'
    BY NextTyped
  <2>1. task' = task
    BY NextTyped
  <2>2. CASE answer' = answer
    BY <2>1, <2>2 DEF LinksResolve, Answered
  <2>3. ASSUME Link, task.mark <= task.count PROVE LinksResolve'
    <3> DEFINE m == task.mark
               n == task.count
               all == task.allReady
    <3>1. n \in Nat \ {0} /\ m \in 0 .. n /\ all \in BOOLEAN
      BY <2>3, TaskOfKind, PureAssumption DEF Link, Given, LinkTasks
    <3>2. /\ answer'.pages = Pages(m, n, all)
          /\ answer'.contents = ContentsLinks(m, n, all)
          /\ answer'.log = LogLinks(m, n, all)
          /\ answer'.between = UNION {PageLinks(m, n, all, c) : c \in Exported(m, n, all)}
          /\ answer'.site = SiteLinks(m, n) /\ answer'.peek = SneakPeekLinks(m, n)
          /\ answer'.hidden = Unpublished(m, n)
      BY <2>3 DEF Link
    <3>3. /\ \A c \in Exported(m, n, all) : PageLinks(m, n, all, c) \subseteq Pages(m, n, all)
          /\ ContentsLinks(m, n, all) = Pages(m, n, all)
          /\ LogLinks(m, n, all) \subseteq Pages(m, n, all)
          /\ SiteLinks(m, n) \subseteq Pages(m, n, FALSE)
          /\ SneakPeekLinks(m, n) \subseteq Pages(m, n, TRUE)
          /\ Unpublished(m, n) \cap Exported(m, n, FALSE) = {}
      <4> HIDE DEF m, n, all
      <4> QED BY <3>1, NoDeadLinks
    <3>4. answer'.between \subseteq Pages(m, n, all)
      BY <3>2, <3>3
    <3> QED BY <2>1, <3>2, <3>3, <3>4 DEF LinksResolve
  <2>4. ASSUME Link, ~(task.mark <= task.count) PROVE LinksResolve'
    BY <2>1, <2>4 DEF LinksResolve
  <2> QED BY <2>2, <2>3, <2>4, AnsweredBy DEF LinksResolve, Answered
<1> QED BY <1>1, <1>2, PTL DEF Spec

-----------------------------------------------------------------------------
(* The two trees of a diff.                                                *)
Named(p) == [story |-> p.story, chapter |-> p.number]
IsChapter(p) == p.where = "markup/chapter" /\ p.number > 0 /\ p.tail = ".hish"
IsTree(tree) == \A p \in DOMAIN tree : p \in Path(Story, Nat) /\ Plain(p)

(* While paths are left to be told: the parent's tree there, the commit's  *)
(* elsewhere.                                                              *)
Mixed(base, parent, left) ==
  {Named(p) : p \in {x \in (DOMAIN parent \cap left) \cup (DOMAIN base \ left) : IsChapter(x)}}

LEMMA PlainPath ==
  ASSUME NEW p \in Path(Story, Nat), Plain(p)
  PROVE  /\ ~Dies(p)
         /\ \A deleted : OneFile(p, deleted) =
              IF IsChapter(p)
              THEN {[story |-> p.story, chapter |-> p.number, deleted |-> deleted]} ELSE {}
<1>1. p.number \in Int /\ (p.where = "markup/chapter" => p.number > 0)
  BY DEF Path, Plain, NoNumber
<1>2. p.where = "markup/chapter" => p.tail = ".hish" \/ p.tail = "other"
  BY DEF Path, Plain
<1>3. IsMarkup(p) <=> p.where = "markup/chapter"
  BY <1>1 DEF IsMarkup, NoNumber
<1>4. IsMarkup(p) => Strtol(p) = p.number /\ p.number > 0
  BY <1>1, <1>3 DEF Strtol, NoNumber
<1>5. IsMarkup(p) /\ p.tail # "other" <=> IsChapter(p)
  BY <1>1, <1>2, <1>3 DEF IsChapter
<1>6. ~Dies(p)
  BY <1>1, <1>4 DEF Dies
<1> QED BY <1>4, <1>5, <1>6 DEF OneFile

(* A chapter of a story has one file.                                      *)
LEMMA OneFileEach ==
  ASSUME NEW p \in Path(Story, Nat), NEW q \in Path(Story, Nat),
         IsChapter(p), IsChapter(q), Named(p) = Named(q)
  PROVE  p = q
<1>1. p.story = q.story /\ p.number = q.number
  BY DEF Named
<1> QED BY <1>1 DEF Path, IsChapter

(* One more path told.                                                     *)
LEMMA ToldMixed ==
  ASSUME NEW base, NEW parent, IsTree(base), IsTree(parent),
         NEW left \in SUBSET Changed(base, parent), NEW p \in left
  PROVE  LET status == Status(base, parent, p)
         IN  RowsAfter(Mixed(base, parent, left), OneFile(p, status = "deleted"))
               = Mixed(base, parent, left \ {p})
<1> DEFINE B == DOMAIN base
           P == DOMAIN parent
           deleted == Status(base, parent, p) = "deleted"
           old == {x \in (P \cap left) \cup (B \ left) : IsChapter(x)}
           new == {x \in (P \cap (left \ {p})) \cup (B \ (left \ {p})) : IsChapter(x)}
           calls == OneFile(p, deleted)
<1>1. p \in B \cup P /\ p \in Path(Story, Nat) /\ Plain(p)
      /\ \A x \in B \cup P : x \in Path(Story, Nat)
  BY DEF Changed, IsTree
<1>2. deleted <=> p \notin B
  BY DEF Status
<1>3. calls = IF IsChapter(p)
              THEN {[story |-> p.story, chapter |-> p.number, deleted |-> deleted]} ELSE {}
  BY <1>1, PlainPath
<1> DEFINE named(cs) == {[story |-> c.story, chapter |-> c.chapter] : c \in cs}
<1>4. RowsAfter(Mixed(base, parent, left), calls)
        = ({Named(x) : x \in old} \ named(calls)) \cup named({c \in calls : ~c.deleted})
  BY DEF RowsAfter, Mixed
<1>5. CASE ~IsChapter(p)
  <2>1. calls = {} /\ old = new
    BY <1>3, <1>5
  <2> QED BY <1>4, <2>1 DEF Mixed
<1>6. CASE IsChapter(p)
  <2> DEFINE call == [story |-> p.story, chapter |-> p.number, deleted |-> deleted]
  <2>0. /\ calls = {call} /\ (call.deleted <=> deleted)
        /\ [story |-> call.story, chapter |-> call.chapter] = Named(p)
    BY <1>3, <1>6 DEF Named
  <2>1. named(calls) = {Named(p)}
    <3> HIDE DEF call, calls
    <3> QED BY <2>0
  <2>2. named({c \in calls : ~c.deleted}) = IF p \in B THEN {Named(p)} ELSE {}
    <3>1. {c \in calls : ~c.deleted} = IF p \in B THEN {call} ELSE {}
      <4> HIDE DEF call, calls, deleted
      <4> QED BY <2>0, <1>2
    <3>2. named({call}) = {Named(p)} /\ named({}) = {}
      <4> HIDE DEF call
      <4> QED BY <2>0
    <3> HIDE DEF call, calls, deleted, named
    <3> QED BY <3>1, <3>2
  <2>3. new = IF p \in B THEN (old \ {p}) \cup {p} ELSE old \ {p}
    BY <1>6
  <2>4. {Named(x) : x \in old} \ {Named(p)} = {Named(x) : x \in old \ {p}}
    <3>1. \A x \in old : Named(x) = Named(p) => x = p
      <4> TAKE x \in old
      <4>1. x \in Path(Story, Nat) /\ IsChapter(x)
        BY <1>1
      <4> QED BY <1>1, <1>6, <4>1, OneFileEach
    <3> HIDE DEF old
    <3> QED BY <3>1
  <2> HIDE DEF old, new, calls, deleted, named
  <2>5. {Named(x) : x \in new}
          = {Named(x) : x \in old \ {p}} \cup (IF p \in B THEN {Named(p)} ELSE {})
    BY <2>3
  <2>6. Mixed(base, parent, left \ {p}) = {Named(x) : x \in new}
    BY DEF Mixed, new
  <2> QED BY <1>4, <2>1, <2>2, <2>4, <2>5, <2>6 DEF calls, deleted
<1> QED BY <1>5, <1>6

LEMMA MixedEnds ==
  ASSUME NEW base, NEW parent
  PROVE  /\ Mixed(base, parent, Changed(base, parent)) = ChaptersIn(parent)
         /\ Mixed(base, parent, {}) = ChaptersIn(base)
<1> DEFINE C == Changed(base, parent)
<1>1. (DOMAIN parent \cap C) \cup (DOMAIN base \ C) = DOMAIN parent
  BY DEF Changed
<1>2. (DOMAIN parent \cap {}) \cup (DOMAIN base \ {}) = DOMAIN base
  OBVIOUS
<1> QED BY <1>1, <1>2 DEF Mixed, ChaptersIn, Named, IsChapter

(* What holds between two paths: the process is alive, and the rows are    *)
(* those of the tree as far as it was told.                                *)
DiffInv ==
  Answered("diff") =>
    LET told == answer.told
    IN  /\ task \in DiffTasks
        /\ told.left \subseteq Changed(task.base, task.parent)
        /\ told = [left |-> told.left, dead |-> FALSE,
                   rows |-> Mixed(task.base, task.parent, told.left)]

(* storygit.c:315-323 and 384-405, for any two trees whose chapter files   *)
(* are named as the comment says, and whatever order git has for them.     *)
THEOREM DiffReplaysFor == Spec => []DiffReplays
<1>1. Init => TaskTyped /\ DiffInv
  BY InitTyped DEF DiffInv, Answered
<1>2. TaskTyped /\ DiffInv /\ [Next]_vars => TaskTyped' /\ DiffInv'
  <2> SUFFICES ASSUME TaskTyped, DiffInv, [Next]_vars PROVE DiffInv'
    BY NextTyped
  <2>1. task' = task
    BY NextTyped
  <2> DEFINE base == task.base
             parent == task.parent
             told == answer.told
  <2>2. CASE answer' = answer
    BY <2>1, <2>2 DEF DiffInv, Answered, DiffTasks
  <2>3. CASE CompareTrees
    <3>1. task \in DiffTasks
      BY <2>3, TaskOfKind DEF CompareTrees, Given
    <3>2. answer'.told = [left |-> Changed(base, parent), dead |-> FALSE, rows |-> ChaptersIn(parent)]
      BY <2>3 DEF CompareTrees, Untold
    <3>3. ChaptersIn(parent) = Mixed(base, parent, Changed(base, parent))
      BY MixedEnds
    <3> QED BY <2>1, <3>1, <3>2, <3>3 DEF DiffInv, DiffTasks
  <2>4. CASE TellPath
    <3>1. /\ task \in DiffTasks /\ told.left \subseteq Changed(base, parent)
          /\ told = [left |-> told.left, dead |-> FALSE, rows |-> Mixed(base, parent, told.left)]
      BY <2>4 DEF TellPath, DiffInv
    <3>2. PICK p \in told.left : answer'.told = FileChanged(told, base, parent, p)
      BY <2>4 DEF TellPath
    <3>3. IsTree(base) /\ IsTree(parent)
      BY <3>1, PureAssumption DEF DiffTasks, IsTree
    <3>4. ~Dies(p)
      <4>1. p \in DOMAIN base \cup DOMAIN parent
        BY <3>1, <3>2 DEF Changed
      <4> QED BY <3>3, <4>1, PlainPath DEF IsTree
    <3>5. answer'.told = [left |-> told.left \ {p}, dead |-> FALSE,
                          rows |-> Mixed(base, parent, told.left \ {p})]
      <4>1. RowsAfter(Mixed(base, parent, told.left),
                      OneFile(p, Status(base, parent, p) = "deleted"))
              = Mixed(base, parent, told.left \ {p})
        <5> HIDE DEF base, parent, told
        <5> QED BY <3>1, <3>2, <3>3, ToldMixed
      <4>2. told.rows = Mixed(base, parent, told.left) /\ told.dead = FALSE
        BY <3>1
      <4> HIDE DEF base, parent, told
      <4> QED BY <3>1, <3>2, <3>4, <4>1, <4>2 DEF FileChanged
    <3>6. answer'.told.left \subseteq Changed(base, parent)
      BY <3>1, <3>5
    <3> QED BY <2>1, <3>1, <3>5, <3>6 DEF DiffInv, DiffTasks
  <2> QED BY <2>2, <2>3, <2>4, AnsweredBy DEF DiffInv, Answered
<1>3. DiffInv => DiffReplays
  <2> SUFFICES ASSUME DiffInv, Answered("diff")
               PROVE  /\ ~answer.told.dead
                      /\ answer.told.left = {} => answer.told.rows = ChaptersIn(task.base)
    BY DEF DiffReplays
  <2>1. /\ ~answer.told.dead
        /\ answer.told.rows = Mixed(task.base, task.parent, answer.told.left)
    BY DEF DiffInv
  <2> QED BY <2>1, MixedEnds
<1> QED BY <1>1, <1>2, <1>3, PTL DEF Spec

-----------------------------------------------------------------------------
(* Titles, descriptions, sources.                                          *)
LEMMA SetInfoKeeps ==
  ASSUME NEW row \in InfoRow, NEW new, \A f \in Field : new[f] \in Text \cup {Null, Empty}
  PROVE  /\ SetInfo(row, new) \in InfoRow
         /\ \A f \in Field : /\ row[f] # Null => SetInfo(row, new)[f] # Null
                             /\ new[f] \in Text => SetInfo(row, new)[f] = new[f]
BY PureAssumption DEF SetInfo, InfoRow

LEMMA ContentsKeep ==
  ASSUME NEW row \in InfoRow, NEW given \in InfoRow
  PROVE  \A f \in Field :
           /\ AfterContents(row, given)[f] # Null
                => Shown(row, given, "location")[f] = AfterContents(row, given)[f]
           /\ row[f] # Null => AfterContents(row, given)[f] # Null
<1> DEFINE found == Found(row, given)
           after == AfterContents(row, given)
<1>1. \A f \in Field : /\ row[f] \in Text \cup {Null} /\ given[f] \in Text \cup {Null}
                       /\ found[f] = (IF given[f] # Null THEN given[f] ELSE row[f])
                       /\ found[f] \in Text \cup {Null}
  BY DEF InfoRow, Found
<1>2. \A f \in Field : after[f] = found[f]
  <2>1. CASE IsNew(row, given)
    <3>1. after = SetInfo(row, found)
      BY <2>1 DEF AfterContents
    <3>2. \A f \in Field : after[f] = IF found[f] \in {Null, Empty} THEN row[f] ELSE found[f]
      <4> HIDE DEF after, found
      <4> QED BY <3>1 DEF SetInfo
    <3> QED BY <1>1, <3>2, PureAssumption
  <2>2. CASE ~IsNew(row, given)
    <3>1. after = row
      BY <2>2 DEF AfterContents
    <3>2. \A f \in Field : given[f] # Null => given[f] = row[f]
      BY <2>2 DEF IsNew, Field
    <3> QED BY <1>1, <3>1, <3>2
  <2> QED BY <2>1, <2>2
<1>3. \A f \in Field : found[f] # Null => Shown(row, given, "location")[f] = found[f]
  <2>1. DOMAIN found = Field
    BY DEF Found
  <2>2. Shown(row, given, "location")
          = IF found["title"] = Null THEN [found EXCEPT !["title"] = "location"] ELSE found
    BY DEF Shown
  <2> HIDE DEF found
  <2> QED BY <2>1, <2>2
<1>4. \A f \in Field : row[f] # Null => found[f] # Null
  BY <1>1
<1> HIDE DEF found, after
<1> QED BY <1>2, <1>3, <1>4 DEF after

(* A turn of describe: the first story that is not described is asked for, *)
(* and is described after an answer in full.                               *)
LEMMA TurnAsks ==
  ASSUME NEW n \in Nat, NEW rows \in [1 .. n -> InfoRow],
         \E k \in 1 .. n : Undescribed(rows[k]),
         NEW text \in [Field -> Text \cup {Empty}]
  PROVE  LET k == FirstUndescribed(rows)
             new == Turn(rows, text)
         IN  /\ k \in 1 .. n /\ Undescribed(rows[k]) /\ new \in [1 .. n -> InfoRow]
             /\ \A j \in 1 .. n : j # k => new[j] = rows[j]
             /\ \A f \in Field : rows[k][f] # Null => new[k][f] # Null
             /\ (\A f \in Field : text[f] # Empty) => ~Undescribed(new[k])
<1> DEFINE k == FirstUndescribed(rows)
           P == {j \in 1 .. n : Undescribed(rows[j])}
           given == IF rows[k]["source"] \in {Null, Empty} THEN text
                    ELSE [text EXCEPT !["source"] = Null]
<1>1. DOMAIN rows = 1 .. n
  OBVIOUS
<1>2. k \in 1 .. n /\ Undescribed(rows[k])
  <2>1. PICK j \in P : \A i \in P : j <= i
    BY LeastPlace
  <2>2. ASSUME NEW i \in DOMAIN rows, i < j PROVE ~Undescribed(rows[i])
    <3>1. i \in Int /\ j \in Int /\ i \in 1 .. n
      BY <1>1
    <3> QED BY <2>1, <2>2, <3>1
  <2>3. \E c \in DOMAIN rows : /\ Undescribed(rows[c])
                               /\ \A i \in DOMAIN rows : i < c => ~Undescribed(rows[i])
    BY <1>1, <2>1, <2>2
  <2>4. k \in DOMAIN rows /\ Undescribed(rows[k])
    BY <2>3 DEF FirstUndescribed
  <2> QED BY <1>1, <2>4
<1>3. Turn(rows, text) = [rows EXCEPT ![k] = SetInfo(rows[k], given)]
  <2>1. ~ \A j \in DOMAIN rows : ~Undescribed(rows[j])
    BY <1>1
  <2> QED BY <2>1 DEF Turn, AfterDescribe
<1> HIDE DEF k
<1>4. rows[k] \in InfoRow
  BY <1>2
<1>5. \A f \in Field : /\ given[f] \in Text \cup {Null, Empty}
                       /\ f # "source" => given[f] = text[f]
  BY DEF Field
<1> HIDE DEF given
<1> DEFINE row == SetInfo(rows[k], given)
<1>6. /\ row \in InfoRow
      /\ \A f \in Field : /\ rows[k][f] # Null => row[f] # Null
                          /\ given[f] \in Text => row[f] = given[f]
  BY <1>4, <1>5, SetInfoKeeps
<1>13. Turn(rows, text) = [rows EXCEPT ![k] = row]
  BY <1>3
<1> HIDE DEF row
<1>7. ASSUME \A f \in Field : text[f] # Empty PROVE ~Undescribed(row)
  <2> SUFFICES ASSUME NEW f \in {"title", "description"} PROVE row[f] \notin {Null, Empty}
    BY DEF Undescribed
  <2>1. f \in Field /\ f # "source"
    BY DEF Field
  <2>2. text[f] \in Text /\ given[f] = text[f]
    BY <1>5, <1>7, <2>1
  <2>3. row[f] = given[f]
    BY <1>6, <2>1, <2>2
  <2> QED BY <2>2, <2>3, PureAssumption
<1>8. Turn(rows, text)[k] = row
  BY <1>1, <1>2, <1>13
<1>9. \A j \in 1 .. n : j # k => Turn(rows, text)[j] = rows[j]
  BY <1>1, <1>13
<1>10. Turn(rows, text) \in [1 .. n -> InfoRow]
  BY <1>1, <1>2, <1>6, <1>13
<1>11. \A f \in Field : rows[k][f] # Null => Turn(rows, text)[k][f] # Null
  BY <1>6, <1>8
<1>12. (\A f \in Field : text[f] # Empty) => ~Undescribed(Turn(rows, text)[k])
  BY <1>7, <1>8
<1> QED BY <1>2, <1>9, <1>10, <1>11, <1>12 DEF k

(* Between two turns of describe.                                          *)
DescribeInv ==
  Answered("describe") =>
    \E n \in Nat :
      /\ task.rows \in [1 .. n -> InfoRow] /\ answer.rows \in [1 .. n -> InfoRow]
      /\ \A k \in 1 .. n, f \in Field : task.rows[k][f] # Null => answer.rows[k][f] # Null
      /\ answer.asked \subseteq 1 .. n /\ \A k \in answer.asked : ~Undescribed(answer.rows[k])

ContentsInv ==
  Answered("contents") =>
    \A f \in Field : /\ answer.row[f] # Null => answer.shown[f] = answer.row[f]
                     /\ task.row[f] # Null => answer.row[f] # Null

(* What got_info has found is both stored and shown (create.c:139-212),    *)
(* nothing that was there is lost (storydb.c:562-582), and describe, which *)
(* asks its query again after each answer (storydb.c:394-422), does not    *)
(* ask for a story that was described: for any texts and any number of     *)
(* stories.                                                                *)
THEOREM InfoKeptFor == Spec => []InfoKept
<1> DEFINE Inv == TaskTyped /\ DescribeInv /\ ContentsInv
<1>1. Init => Inv
  BY InitTyped DEF DescribeInv, ContentsInv, Answered
<1>2. Inv /\ [Next]_vars => Inv'
  <2> SUFFICES ASSUME Inv, [Next]_vars PROVE DescribeInv' /\ ContentsInv'
    BY NextTyped
  <2>1. task' = task
    BY NextTyped
  <2>2. CASE answer' = answer
    BY <2>1, <2>2 DEF DescribeInv, ContentsInv, Answered, InfoRow
  <2>3. CASE FillContents
    <3>1. /\ task.row \in InfoRow /\ task.given \in InfoRow
          /\ answer'.row = AfterContents(task.row, task.given)
          /\ answer'.shown = Shown(task.row, task.given, "location")
          /\ answer'.kind = "contents"
      BY <2>3, TaskOfKind DEF FillContents, Given, ContentsTasks
    <3>2. \A f \in Field : /\ answer'.row[f] # Null => answer'.shown[f] = answer'.row[f]
                           /\ task.row[f] # Null => answer'.row[f] # Null
      BY <3>1, ContentsKeep
    <3> QED BY <2>1, <3>1, <3>2 DEF DescribeInv, ContentsInv, Answered
  <2>4. CASE Describe
    <3>1. /\ task \in DescribeTasks /\ answer'.rows = task.rows /\ answer'.asked = {}
          /\ answer'.kind = "describe"
      BY <2>4, TaskOfKind DEF Describe, Given
    <3>2. PICK n \in 0 .. MaxDescribed : task.rows \in [1 .. n -> InfoRow]
      BY <3>1 DEF DescribeTasks
    <3>3. n \in Nat
      BY PureAssumption
    <3> QED BY <2>1, <3>1, <3>2, <3>3 DEF DescribeInv, ContentsInv, Answered, InfoRow
  <2>5. CASE DescribeNext
    <3>1. PICK n \in Nat :
            /\ task.rows \in [1 .. n -> InfoRow] /\ answer.rows \in [1 .. n -> InfoRow]
            /\ \A k \in 1 .. n, f \in Field : task.rows[k][f] # Null => answer.rows[k][f] # Null
            /\ answer.asked \subseteq 1 .. n
            /\ \A k \in answer.asked : ~Undescribed(answer.rows[k])
      BY <2>5 DEF DescribeNext, DescribeInv
    <3>2. PICK text \in [Field -> Text \cup {Empty}] :
            answer' = [kind |-> "describe", rows |-> Turn(answer.rows, text),
                       asked |-> answer.asked \cup {k \in DOMAIN answer.rows :
                                                      /\ k = FirstUndescribed(answer.rows)
                                                      /\ \A f \in Field : text[f] # Empty}]
      BY <2>5 DEF DescribeNext
    <3> DEFINE k == FirstUndescribed(answer.rows)
               new == Turn(answer.rows, text)
    <3>3. /\ k \in 1 .. n /\ Undescribed(answer.rows[k]) /\ new \in [1 .. n -> InfoRow]
          /\ \A j \in 1 .. n : j # k => new[j] = answer.rows[j]
          /\ \A f \in Field : answer.rows[k][f] # Null => new[k][f] # Null
          /\ (\A f \in Field : text[f] # Empty) => ~Undescribed(new[k])
      <4>1. \E j \in 1 .. n : Undescribed(answer.rows[j])
        BY <2>5, <3>1 DEF DescribeNext
      <4> QED BY <3>1, <4>1, TurnAsks
    <3>4. /\ answer'.kind = "describe" /\ answer'.rows = new
          /\ \A j \in answer'.asked :
               j \in answer.asked \/ (j = k /\ \A f \in Field : text[f] # Empty)
      BY <3>2
    <3> HIDE DEF k, new
    <3>5. \A j \in 1 .. n, f \in Field : task.rows[j][f] # Null => new[j][f] # Null
      <4> SUFFICES ASSUME NEW j \in 1 .. n, NEW f \in Field, task.rows[j][f] # Null
                   PROVE  new[j][f] # Null
        OBVIOUS
      <4>1. answer.rows[j][f] # Null
        BY <3>1
      <4> QED BY <3>3, <4>1
    <3>6. \A j \in answer'.asked : j \in 1 .. n /\ ~Undescribed(new[j])
      <4> SUFFICES ASSUME NEW j \in answer'.asked PROVE j \in 1 .. n /\ ~Undescribed(new[j])
        OBVIOUS
      <4>1. CASE j = k
        <5>1. CASE \A f \in Field : text[f] # Empty
          BY <3>3, <4>1, <5>1
        <5>2. CASE ~ \A f \in Field : text[f] # Empty
          BY <3>1, <3>3, <3>4, <4>1, <5>2
        <5> QED BY <5>1, <5>2
      <4>2. CASE j # k
        BY <3>1, <3>3, <3>4, <4>2
      <4> QED BY <4>1, <4>2
    <3>7. DescribeInv'
      <4>1. answer'.asked \subseteq 1 .. n
        BY <3>6
      <4> QED BY <2>1, <3>1, <3>3, <3>4, <3>5, <3>6, <4>1 DEF DescribeInv, InfoRow
    <3> QED BY <3>4, <3>7 DEF ContentsInv, Answered
  <2>6. CASE answer'.kind # "contents" /\ answer'.kind # "describe"
    BY <2>6 DEF DescribeInv, ContentsInv, Answered
  <2> QED BY <2>2, <2>3, <2>4, <2>5, <2>6, AnsweredBy
<1>3. Inv => InfoKept
  <2> SUFFICES ASSUME DescribeInv, ContentsInv PROVE InfoKept
    OBVIOUS
  <2>1. ASSUME Answered("describe")
        PROVE  /\ \A k \in DOMAIN task.rows, f \in Field :
                    task.rows[k][f] # Null => answer.rows[k][f] # Null
               /\ \A k \in answer.asked : ~Undescribed(answer.rows[k])
    BY <2>1 DEF DescribeInv
  <2> QED BY <2>1 DEF InfoKept, ContentsInv
<1> QED BY <1>1, <1>2, <1>3, PTL DEF Spec

-----------------------------------------------------------------------------

(* The descriptors of a run.                                               *)
Ended == {"absent", "exported", "blank", "dead"}
Alive(ends) == Len(ends) = 0 \/ ends[Len(ends)] # "dead"

(* As long as the process lives, the three that a due story needs besides  *)
(* the one it leaves open are free; after a page made from nothing, no     *)
(* more than these are.                                                    *)
FilesInv ==
  Answered("files") =>
    LET ends == answer.ends  room == task.most - answer.used
    IN  /\ task \in FileTasks /\ ends \in Seq(Ended) /\ answer.used \in Nat
        /\ Alive(ends) => room >= 3
        /\ \A k \in 1 .. Len(ends) :
             /\ ends[k] = "absent" <=> task.stories[k] = "gone"
             /\ ends[k] = "blank" =>
                  /\ Alive(ends) => room = 3
                  /\ \A j \in k + 1 .. Len(ends) : ends[j] \in {"absent", "dead"}

LEMMA StoryOpened ==
  ASSUME NEW kind \in {"gone", "done", "due"}, NEW most \in Nat, NEW used \in Nat,
         most - used >= 3, NEW s \in ForStory(kind, used, most)
  PROVE  /\ s.end \in Ended /\ s.used \in Nat
         /\ s.end # "dead" => most - s.used >= 3
         /\ s.end = "absent" <=> kind = "gone"
         /\ s.end = "blank" => most - s.used = 3
         /\ most - used = 3 => s.end = "dead" \/ (s.end = "absent" /\ s.used = used)
<1>1. ~(used + 1 > most) /\ ~(used + 2 > most) /\ kind # "bare"
  OBVIOUS
<1>2. CASE kind = "gone"
  <2>1. s.end = "absent" /\ s.used = used
    BY <1>2 DEF ForStory
  <2> QED BY <1>2, <2>1 DEF Ended
<1>3. CASE kind # "gone" /\ used + 4 > most
  <2>1. s.end = "dead" /\ s.used = used + 1
    BY <1>1, <1>3 DEF ForStory, Destination
  <2> QED BY <1>3, <2>1 DEF Ended
<1>4. CASE kind # "gone" /\ ~(used + 4 > most)
  <2>1. s.used = used + 1 /\ s.end \in MakesPages(used, most) \cup {"exported"}
    BY <1>1, <1>4 DEF ForStory, Destination
  <2>2. s.end \in {"exported", "dead", "blank"} /\ (s.end = "blank" => used + 5 > most)
    BY <2>1 DEF MakesPages
  <2> QED BY <1>4, <2>1, <2>2 DEF Ended
<1> QED BY <1>2, <1>3, <1>4

LEMMA NextOpened ==
  ASSUME FilesInv, OpenNext, task' = task
  PROVE  FilesInv'
<1> DEFINE ends == answer.ends
           used == answer.used
           most == task.most
           n == Len(ends)
<1>1. /\ task \in FileTasks /\ ends \in Seq(Ended) /\ used \in Nat
      /\ Alive(ends) => most - used >= 3
      /\ \A k \in 1 .. n :
           /\ ends[k] = "absent" <=> task.stories[k] = "gone"
           /\ ends[k] = "blank" =>
                /\ Alive(ends) => most - used = 3
                /\ \A j \in k + 1 .. n : ends[j] \in {"absent", "dead"}
  BY DEF OpenNext, FilesInv
<1>2. n < Len(task.stories) /\ Alive(ends) /\ n \in Nat
  BY <1>1 DEF OpenNext, Alive
<1>3. PICK s \in ForStory(task.stories[n + 1], used, most) :
        answer' = [kind |-> "files", ends |-> Append(ends, s.end), used |-> s.used]
  BY DEF OpenNext
<1>4. most \in Nat /\ task.stories[n + 1] \in {"gone", "done", "due"}
  <2>1. PICK m \in 0 .. MaxStories : task.stories \in [1 .. m -> {"gone", "done", "due"}]
    BY <1>1 DEF FileTasks
  <2>2. m \in Nat /\ task.most \in Limits
    BY <1>1, PureAssumption DEF FileTasks
  <2>3. Len(task.stories) = m
    BY <2>1, <2>2
  <2>4. n + 1 \in 1 .. m
    BY <1>2, <2>2, <2>3
  <2> QED BY <2>1, <2>2, <2>4, PureAssumption
<1>5. most - used >= 3
  BY <1>1, <1>2
<1> DEFINE new == Append(ends, s.end)
           story == task.stories[n + 1]
<1>6. story \in {"gone", "done", "due"} /\ s \in ForStory(story, used, most)
  BY <1>3, <1>4
<1> HIDE DEF ends, used, most, n, story
<1>7. most \in Nat /\ used \in Nat
  BY <1>1, <1>4
<1>8. /\ s.end \in Ended /\ s.used \in Nat
      /\ s.end # "dead" => most - s.used >= 3
      /\ s.end = "absent" <=> story = "gone"
      /\ s.end = "blank" => most - s.used = 3
      /\ most - used = 3 => s.end = "dead" \/ (s.end = "absent" /\ s.used = used)
  BY <1>5, <1>6, <1>7, StoryOpened
<1>9. /\ new \in Seq(Ended) /\ Len(new) = n + 1 /\ new[n + 1] = s.end
      /\ \A k \in 1 .. n : new[k] = ends[k]
  BY <1>1, <1>8 DEF n
<1> HIDE DEF new
<1>10. Alive(new) <=> s.end # "dead"
  BY <1>2, <1>9 DEF Alive
<1>11. Alive(new) => most - s.used >= 3
  BY <1>8, <1>10
<1>12. ASSUME NEW k \in 1 .. n + 1
      PROVE  /\ new[k] = "absent" <=> task.stories[k] = "gone"
             /\ new[k] = "blank" =>
                  /\ Alive(new) => most - s.used = 3
                  /\ \A j \in k + 1 .. n + 1 : new[j] \in {"absent", "dead"}
  <2>1. CASE k = n + 1
    BY <1>2, <1>8, <1>9, <1>10, <2>1 DEF story
  <2>2. CASE k \in 1 .. n
    <3>1. new[k] = ends[k]
      BY <1>9, <2>2
    <3>2. ASSUME ends[k] = "blank"
          PROVE  /\ Alive(new) => most - s.used = 3
                 /\ \A j \in k + 1 .. n + 1 : new[j] \in {"absent", "dead"}
      <4>1. most - used = 3 /\ \A j \in k + 1 .. n : ends[j] \in {"absent", "dead"}
        BY <1>1, <1>2, <2>2, <3>2
      <4>2. s.end = "dead" \/ (s.end = "absent" /\ s.used = used)
        BY <1>8, <4>1
      <4>3. \A j \in k + 1 .. n + 1 : j = n + 1 \/ (j \in k + 1 .. n /\ j \in 1 .. n)
        BY <1>2, <2>2
      <4>4. \A j \in k + 1 .. n + 1 : new[j] \in {"absent", "dead"}
        BY <1>9, <4>1, <4>2, <4>3
      <4> QED BY <1>10, <4>1, <4>2, <4>4
    <3> QED BY <1>1, <2>2, <3>1, <3>2
  <2> QED BY <1>2, <2>1, <2>2
<1>13. answer'.ends = new /\ answer'.used = s.used /\ most = task.most
  BY <1>3 DEF new, most
<1> QED BY <1>1, <1>8, <1>9, <1>11, <1>12, <1>13 DEF FilesInv, FileTasks

(* main.c:262-303, storydb.c:325-392: for any number of stories that have  *)
(* their markup, and any limit that lets one story be opened, a run that   *)
(* is out of descriptors dies before it takes one of them for missing.     *)
THEOREM DiesOfDescriptors == Spec => []OutOfDescriptors
<1>1. Init => TaskTyped /\ FilesInv
  BY InitTyped DEF FilesInv, Answered
<1>2. TaskTyped /\ FilesInv /\ [Next]_vars => TaskTyped' /\ FilesInv'
  <2> SUFFICES ASSUME TaskTyped, FilesInv, [Next]_vars PROVE FilesInv'
    BY NextTyped
  <2>1. task' = task
    BY NextTyped
  <2>2. CASE answer' = answer
    BY <2>1, <2>2 DEF FilesInv, Answered, FileTasks
  <2>3. CASE OpenStories
    <3>1. task \in FileTasks /\ answer'.ends = <<>> /\ answer'.used = 0
      BY <2>3, TaskOfKind DEF OpenStories, Given
    <3>2. task.most \in Limits
      BY <3>1 DEF FileTasks
    <3>3. task.most \in Nat /\ task.most \notin 0 .. 2
      BY <3>2, PureAssumption
    <3>4. task.most \in Nat /\ task.most - 0 >= 3
      BY <3>3
    <3> QED BY <2>1, <3>1, <3>4 DEF FilesInv, FileTasks
  <2>4. CASE OpenNext
    BY <2>1, <2>4, NextOpened
  <2> QED BY <2>2, <2>3, <2>4, AnsweredBy DEF FilesInv, Answered
<1>3. FilesInv => OutOfDescriptors
  <2> SUFFICES ASSUME FilesInv, Answered("files"), NEW k \in DOMAIN answer.ends
               PROVE  /\ answer.ends[k] = "absent" <=> task.stories[k] = "gone"
                      /\ answer.ends[k] # "skipped"
                      /\ answer.ends[k] = "blank" =>
                           \A j \in k + 1 .. Len(answer.ends) : answer.ends[j] \in {"absent", "dead"}
    BY DEF OutOfDescriptors
  <2>1. answer.ends \in Seq(Ended) /\ k \in 1 .. Len(answer.ends)
    BY DEF FilesInv
  <2>2. answer.ends[k] \in Ended
    BY <2>1
  <2> QED BY <2>1, <2>2 DEF FilesInv, Ended
<1> QED BY <1>1, <1>2, <1>3, PTL DEF Spec
================================================================================
