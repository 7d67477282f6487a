--------------------------------- MODULE Pure ---------------------------------
(***************************************************************************)
(* The functions and loops of the repository that keep no state between    *)
(* two calls, each on any of the inputs it is given: Init picks a function *)
(* and its input.  A function answers in one step; of the loops over       *)
(* changed files, stories to be described and stories to be exported, each *)
(* round is a step.                                                        *)
(***************************************************************************)
EXTENDS Listing, TodoList, Diff, Itoa, SqlText, Info, OpenFiles

CONSTANTS
  Half,           \* an int has 2 * Half values
  LinearBelow,    \* list length from which the search of todo is binary (10)
  TimeLists, TodoLists, Wanted,   \* lists of author times, times looked for
  BaseTrees, ParentTrees,         \* two trees of a repository
  MaxNumber,      \* numbers printed
  SqlTexts,       \* texts of SQL, as tokens
  MaxChapters,    \* chapters of a story
  Text,           \* titles, descriptions, sources
  MaxDescribed,   \* stories describe finds
  MaxStories,     \* stories of one export, and
  Limits          \* the descriptors it may have open

(* Chapter files are named as storygit.c:315 says.  With fewer than three  *)
(* descriptors not even the directories of one story could be opened.      *)
ASSUME PureAssumption ==
  /\ Half \in Nat \ {0} /\ LinearBelow \in Nat
  /\ TimeLists \subseteq Seq(Int) /\ TodoLists \subseteq Seq(Int)
  /\ \A list \in TodoLists : LatestLast(list)
  /\ \A tree \in BaseTrees \cup ParentTrees :
       \A p \in DOMAIN tree : p \in Path(Story, Nat) /\ Plain(p)
  /\ MaxChapters \in Nat /\ MaxDescribed \in Nat /\ MaxStories \in Nat
  /\ Null \notin Text /\ Empty \notin Text
  /\ Limits \subseteq Nat \ 0 .. 2

VARIABLES task, answer
vars == <<task, answer>>

None == [kind |-> "none"]
Given(kind) == answer = None /\ task.kind = kind
Answered(kind) == answer.kind = kind

-----------------------------------------------------------------------------
(* Author times, compared in an int; and the search of the todo list.      *)
OrderTasks == [kind : {"order"}, times : TimeLists]
Order == Given("order") /\ answer' = [kind |-> "order", accepted |-> QSorted(task.times, Half)]

SearchTasks == [kind : {"search"}, t : Wanted, times : TodoLists]
Search ==
  /\ Given("search")
  /\ answer' = [kind |-> "search", places |-> LookedAt(task.times, task.t, LinearBelow)]

(* git_diff_foreach: any of the paths that are left comes next.            *)
DiffTasks == [kind : {"diff"}, base : BaseTrees, parent : ParentTrees]
CompareTrees ==
  /\ Given("diff")
  /\ answer' = [kind |-> "diff", told |-> Untold(task.base, task.parent)]
TellPath ==
  /\ Answered("diff") /\ ~answer.told.dead
  /\ \E p \in answer.told.left :
       answer' = [kind |-> "diff", told |-> FileChanged(answer.told, task.base, task.parent, p)]

PrintTasks == [kind : {"print"}, n : 0 .. MaxNumber, space : 1 .. 3]
PrintNumber == Given("print") /\ answer' = [kind |-> "print", digits |-> Digits(task.n, task.space)]

CacheTasks == [kind : {"caches"}, n : 1 .. 12]
StartCaches == Given("caches") /\ answer' = [kind |-> "caches", names |-> CachesStarted(task.n)]

SqlTasks == [kind : {"sql"}, sql : SqlTexts]
Quoted(text) == <<"quote">> \o text \o <<"quote">>
ConvertSql ==
  /\ Given("sql")
  /\ answer' = [kind |-> "sql",
                made |-> Compiled(MakeSql(task.sql)),
                printed |-> Compiled(Quoted(OutputSql(task.sql, FALSE))),
                defined |-> Compiled(LogicalLine(Define(task.sql)))]

LinkTasks ==
  [kind : {"links"}, count : 1 .. MaxChapters, mark : 0 .. MaxChapters, allReady : BOOLEAN]
Link ==
  LET m == task.mark  n == task.count  all == task.allReady
  IN  /\ Given("links")
      /\ answer' = [kind |-> "links", pages |-> Pages(m, n, all),
                    contents |-> ContentsLinks(m, n, all),
                    log |-> LogLinks(m, n, all),
                    between |-> UNION {PageLinks(m, n, all, c) : c \in Exported(m, n, all)},
                    site |-> SiteLinks(m, n), peek |-> SneakPeekLinks(m, n),
                    hidden |-> Unpublished(m, n)]

InfoRow == [Field -> Text \cup {Null}]
ContentsTasks == [kind : {"contents"}, row : InfoRow, given : InfoRow]
FillContents ==
  /\ Given("contents")
  /\ answer' = [kind |-> "contents", row |-> AfterContents(task.row, task.given),
                shown |-> Shown(task.row, task.given, "location")]

(* storydb_for_undescribed: a turn for the first story there is.  `asked'  *)
(* is history: the stories for which describe was answered in full.        *)
DescribeTasks ==
  [kind : {"describe"}, rows : UNION {[1 .. n -> InfoRow] : n \in 0 .. MaxDescribed}]
Describe ==
  /\ Given("describe")
  /\ answer' = [kind |-> "describe", rows |-> task.rows, asked |-> {}]
DescribeNext ==
  /\ Answered("describe") /\ \E k \in DOMAIN answer.rows : Undescribed(answer.rows[k])
  /\ \E text \in [Field -> Text \cup {Empty}] :
       answer' = [kind |-> "describe", rows |-> Turn(answer.rows, text),
                  asked |-> answer.asked \cup {k \in DOMAIN answer.rows :
                                                 /\ k = FirstUndescribed(answer.rows)
                                                 /\ \A f \in Field : text[f] # Empty}]

(* for_stories: how each story ended, until the process dies.              *)
FileTasks ==
  [kind : {"files"}, most : Limits,
   stories : UNION {[1 .. n -> {"gone", "done", "due"}] : n \in 0 .. MaxStories}]
OpenStories ==
  /\ Given("files")
  /\ answer' = [kind |-> "files", ends |-> <<>>, used |-> 0]
OpenNext ==
  LET k == Len(answer.ends)
  IN  /\ Answered("files") /\ k < Len(task.stories)
      /\ k > 0 => answer.ends[k] # "dead"
      /\ \E s \in ForStory(task.stories[k + 1], answer.used, task.most) :
           answer' = [kind |-> "files", ends |-> Append(answer.ends, s.end), used |-> s.used]

-----------------------------------------------------------------------------
Init ==
  /\ answer = None
  /\ \/ task \in OrderTasks \/ task \in SearchTasks \/ task \in DiffTasks
     \/ task \in PrintTasks \/ task \in CacheTasks \/ task \in SqlTasks
     \/ task \in LinkTasks \/ task \in ContentsTasks \/ task \in DescribeTasks
     \/ task \in FileTasks

Compute ==
  \/ Order \/ Search \/ CompareTrees \/ TellPath \/ PrintNumber \/ StartCaches
  \/ ConvertSql \/ Link \/ FillContents \/ Describe \/ DescribeNext
  \/ OpenStories \/ OpenNext

Next == Compute /\ UNCHANGED task

Spec == Init /\ [][Next]_vars

-----------------------------------------------------------------------------
(* later_commits_last (storygit.c:24-29) cuts a difference of 64-bit times *)
(* down to an int.  As long as the times of a todo list lie less than half *)
(* the range of an int apart, what qsort may leave is the list with the    *)
(* latest commit last, and only that.                                      *)
OrderSound ==
  Answered("order") =>
    LET ts == task.times
    IN  (\A j, k \in DOMAIN ts : ts[j] - ts[k] < Half) => (answer.accepted <=> LatestLast(ts))

(* The search of the todo list (storygit.c:190-236) compares the commits   *)
(* of no other time, and below ten entries all commits of the right one.   *)
(* From ten on it may compare none of them.                                *)
SearchComplete ==
  Answered("search") =>
    LET same == {k \in DOMAIN task.times : task.times[k] = task.t}
    IN  /\ answer.places \subseteq same
        /\ Len(task.times) < LinearBelow => answer.places = same

(* storygit.c:315-323: told of every changed path, in any order, the story *)
(* database has a row for exactly the chapters of the commit's tree, if it *)
(* had them for the parent's, whatever other files come and go beside them.*)
(* Only for files named as the comment says: chapter1.hish~ counts as      *)
(* chapter 1, and the process dies of markup/chapters.txt.                 *)
DiffReplays ==
  Answered("diff") =>
    ~answer.told.dead /\ (answer.told.left = {} => answer.told.rows = ChaptersIn(task.base))

(* A number is printed as itself, or as its last digits when there is no   *)
(* room for more; and the caches of one process have tables of their own,  *)
(* down to the ninth: the tenth is never started.                          *)
NumbersPrinted ==
  /\ Answered("print") => ValueOf(answer.digits) = task.n % 10^task.space
  /\ Answered("caches") =>
       /\ DOMAIN answer.names = 1 .. task.n \cap 1 .. 9
       /\ \A j, k \in DOMAIN answer.names : answer.names[j] = answer.names[k] => j = k

(* The C strings the build makes of SQL files compile and hold the SQL:    *)
(* all of it but the space after newlines (make-sql.c) or the semicolon at *)
(* the end (statements2source.c), also as the one line of a #define.  SQL  *)
(* with a backslash is not converted right and is left out.                *)
SqlSurvives ==
  Answered("sql") =>
    /\ answer.made.ok /\ answer.made.value = WithoutIndent(task.sql)
    /\ \A c \in {answer.printed, answer.defined} :
         c.ok /\ ~c.inside /\ c.value = WithoutSemicolon(task.sql)

(* The pages of a story and the lists of the whole site agree on what is   *)
(* shown and on its name: no link leads to a page that is not there, the   *)
(* contents list every page, and a chapter find-chapters-to-publish calls  *)
(* unpublished is on no page for readers.  As long as `ready' was not told *)
(* of a chapter the story does not have yet, which it does not check.      *)
LinksResolve ==
  Answered("links") /\ task.mark <= task.count =>
    /\ answer.between \cup answer.log \subseteq answer.pages
    /\ answer.contents = answer.pages
    /\ answer.site \subseteq Pages(task.mark, task.count, FALSE)
    /\ answer.peek \subseteq Pages(task.mark, task.count, TRUE)
    /\ answer.hidden \cap Exported(task.mark, task.count, FALSE) = {}

(* The contents show what is in the database afterwards, so that the next  *)
(* export and make-contents show it too; neither they nor describe lose a  *)
(* text that was there; and who answers describe in full is not asked for  *)
(* the same story twice.                                                   *)
InfoKept ==
  /\ Answered("contents") =>
       \A f \in Field : /\ answer.row[f] # Null => answer.shown[f] = answer.row[f]
                        /\ task.row[f] # Null => answer.row[f] # Null
  /\ Answered("describe") =>
       /\ \A k \in DOMAIN task.rows, f \in Field :
            task.rows[k][f] # Null => answer.rows[k][f] # Null
       /\ \A k \in answer.asked : ~Undescribed(answer.rows[k])

(* main.c:291-299 takes a directory that cannot be opened for one that is  *)
(* gone.  Running out of descriptors is still never mistaken for that when *)
(* every story has its markup: the run dies first and is rolled back, and  *)
(* at most the story before may have been given an empty page.             *)
OutOfDescriptors ==
  Answered("files") =>
    \A k \in DOMAIN answer.ends :
      /\ answer.ends[k] = "absent" <=> task.stories[k] = "gone"
      /\ answer.ends[k] # "skipped"
      /\ answer.ends[k] = "blank" =>
           \A j \in k + 1 .. Len(answer.ends) : answer.ends[j] \in {"absent", "dead"}
===============================================================================
