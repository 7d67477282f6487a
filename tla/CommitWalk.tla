------------------------------ MODULE CommitWalk ------------------------------
(***************************************************************************)
(* git_for_commits (storygit.c): the walk over the commit graph from one   *)
(* commit back to `after', which hands every (commit, parent) pair to a    *)
(* handler.  `todo' is kept sorted by author time, latest last, and is the *)
(* only memory of what was met: a commit counts as visited when it was     *)
(* popped.  The graph itself is libgit2's, one value of Repos.             *)
(***************************************************************************)
EXTENDS TodoList, FiniteSets, SequencesExt

CONSTANTS
  Commit,
  Repos,        \* the graphs: [parents : [Commit -> Seq(Commit)],
                \*              time : [Commit -> author time], head : Commit]
  Afters,       \* the `after' arguments; 0 stands for do_after = false
  LinearBelow,  \* todo lists shorter than this are searched from the start (10)
  Results       \* what the handler may answer

ASSUME WalkAssumption ==
  /\ IsFiniteSet(Commit)
  /\ Repos \subseteq [parents : [Commit -> Seq(Commit)],
                      time : [Commit -> Nat \ {0}], head : Commit]
  /\ Afters \subseteq Nat /\ LinearBelow \in Nat
  /\ Results \subseteq {"GFC_CONTINUE", "GFC_STOP", "GFC_SKIP"}

VARIABLES
  repo, after,
  me, meTree,   \* the commit being visited, and whether its tree is loaded
  i,            \* which parent of it comes next, from 1
  todo,
  calls,        \* history: the handler's calls, [base, parent, which, tree,
                \*          result] and `waiting', the length of todo when
                \*          the parent was looked for
  state         \* "walking", "done" or "stopped"

vars == <<repo, after, me, meTree, i, todo, calls, state>>

Time(c) == repo.time[c]
Parents(c) == repo.parents[c]

Sorted(s) == \A j, k \in DOMAIN s : j < k => Time(s[j]) <= Time(s[k])

TypeOK ==
  /\ repo \in Repos /\ after \in Afters
  /\ me \in Commit /\ meTree \in BOOLEAN
  /\ i \in 1 .. Len(Parents(me)) + 1
  /\ todo \in Seq(Commit) /\ Sorted(todo)
  /\ calls \in Seq([base : Commit, parent : Commit, which : Nat, tree : BOOLEAN,
                    result : Results, waiting : Nat])
  /\ state \in {"walking", "done", "stopped"}

Init ==
  /\ repo \in Repos /\ after \in Afters
  /\ me = repo.head /\ meTree = TRUE
  /\ i = 1 /\ todo = <<>> /\ calls = <<>>
  /\ state = IF Time(me) <= after THEN "done" ELSE "walking"

-----------------------------------------------------------------------------
(* Is the commit p in todo?  The search goes by p's time: TodoList.        *)
TodoTimes == [k \in DOMAIN todo |-> Time(todo[k])]

(* Mutant of Places: todo is not searched. *)
NoPlaces(p) == {}

(* The places where p was found; the last one is `here'.                   *)
Places(p) ==
  {k \in LookedAt(TodoTimes, Time(p), LinearBelow) : todo[k] = p}

(* Mutant of Pushed: no qsort. *)
Appended(p) == IF Places(p) # {} THEN {todo} ELSE {Append(todo, p)}

(* realloc and qsort.  qsort need not be stable: any place among commits   *)
(* of the same time is possible.                                           *)
Pushed(p) ==
  IF Places(p) # {}
  THEN {todo}
  ELSE {s \in {InsertAt(todo, k, p) : k \in 1 .. Len(todo) + 1} : Sorted(s)}

(* GFC_SKIP moves the entries after `here' down by one and leaves ntodo    *)
(* as it was; when p was not there before, it has been pushed by now.  The *)
(* code has released the commit too: libgit2's cache still holds it.       *)
AfterSkip(s, p) ==
  IF Places(p) = {}
  THEN s
  ELSE LET here == Max(Places(p))
       IN  [k \in DOMAIN s |-> s[IF here <= k /\ k < Len(s) THEN k + 1 ELSE k]]

-----------------------------------------------------------------------------
NextParent == Parents(me)[i]

(* Mutant of TooOld: a parent exactly as old as `after' is too old as well. *)
TooOldOrEqual ==
  /\ state = "walking" /\ i <= Len(Parents(me))
  /\ Time(NextParent) <= after
  /\ i' = i + 1
  /\ UNCHANGED <<repo, after, me, meTree, todo, calls, state>>

(* A parent older than `after' is neither handed over nor followed.        *)
TooOld ==
  /\ state = "walking" /\ i <= Len(Parents(me))
  /\ Time(NextParent) < after
  /\ i' = i + 1
  /\ UNCHANGED <<repo, after, me, meTree, todo, calls, state>>

Visit(result) ==
  /\ state = "walking" /\ i <= Len(Parents(me))
  /\ Time(NextParent) >= after
  /\ calls' = Append(calls, [base |-> me, parent |-> NextParent, which |-> i,
                             tree |-> meTree, result |-> result,
                             waiting |-> Len(todo)])
  /\ \E s \in Pushed(NextParent) :
       todo' = IF result = "GFC_SKIP" THEN AfterSkip(s, NextParent) ELSE s
  /\ i' = i + 1
  /\ state' = IF result = "GFC_STOP" THEN "stopped" ELSE state
  /\ UNCHANGED <<repo, after, me, meTree>>

(* Mutant of Pop: the earliest is next. *)
PopEarliest ==
  /\ state = "walking" /\ i > Len(Parents(me)) /\ todo # <<>>
  /\ me' = Head(todo) /\ todo' = Tail(todo)
  /\ meTree' = FALSE /\ i' = 1
  /\ UNCHANGED <<repo, after, calls, state>>

(* Mutant of Pop: a list of one entry is not made shorter. *)
PopButLast ==
  /\ state = "walking" /\ i > Len(Parents(me)) /\ todo # <<>>
  /\ me' = Last(todo) /\ todo' = IF Len(todo) > 1 THEN Front(todo) ELSE todo
  /\ meTree' = FALSE /\ i' = 1
  /\ UNCHANGED <<repo, after, calls, state>>

(* The latest commit of todo is next.  Its tree was never loaded: only the *)
(* local `parent' had one, after it was copied into todo.                  *)
Pop ==
  /\ state = "walking" /\ i > Len(Parents(me)) /\ todo # <<>>
  /\ me' = Last(todo) /\ todo' = Front(todo)
  /\ meTree' = FALSE /\ i' = 1
  /\ UNCHANGED <<repo, after, calls, state>>

Finish ==
  /\ state = "walking" /\ i > Len(Parents(me)) /\ todo = <<>>
  /\ state' = "done"
  /\ UNCHANGED <<repo, after, me, meTree, i, todo, calls>>

Next == TooOld \/ Pop \/ Finish \/ \E result \in Results : Visit(result)

Spec == Init /\ [][Next]_vars /\ WF_vars(Next)

-----------------------------------------------------------------------------
(* The graph the walk should cover. *)

RecentParents(c) == {p \in ToSet(Parents(c)) : Time(p) >= after}

FromHere(S) == \A c \in S : RecentParents(c) \subseteq S

Reachable ==
  {c \in Commit : \A S \in SUBSET Commit : repo.head \in S /\ FromHere(S) => c \in S}

RecentEdges(c) == {c} \X {k \in DOMAIN Parents(c) : Time(Parents(c)[k]) >= after}

Edges == UNION {RecentEdges(c) : c \in Reachable}

NoneSkipped == \A k \in DOMAIN calls : calls[k].result # "GFC_SKIP"

NeverHalved == \A k \in DOMAIN calls : calls[k].waiting < LinearBelow

Calls == {<<calls[k].base, calls[k].which>> : k \in DOMAIN calls}

(* storygit.c:108 "the nodes will all be visited exactly once": no commit  *)
(* is handed over twice with the same parent, unless a handler said skip,  *)
(* or todo once had so many entries that it was searched by halves, which  *)
(* may miss a commit that is there (SearchComplete).                       *)
VisitedOnce ==
  NoneSkipped /\ NeverHalved => \A j, k \in DOMAIN calls :
    calls[j].base = calls[k].base /\ calls[j].which = calls[k].which => j = k

(* storygit.c:120 "we always visit the node with the latest timestamp":    *)
(* commits are handed over from the latest to the earliest, across all     *)
(* branches.  db_saw_commit relies on it: the first call names the latest. *)
LatestFirst ==
  \A j, k \in DOMAIN calls : j < k => Time(calls[j].base) >= Time(calls[k].base)

(* A walk no handler cut short has handed over every parent edge of every commit *)
(* reachable from the start through commits not older than `after', and    *)
(* nothing else.                                                           *)
AllVisited ==
  state = "done" /\ Time(repo.head) > after /\ NoneSkipped => Calls = Edges

(* The walk ends, stopped or not: a commit goes back into todo only while  *)
(* younger ones are left.                                                  *)
Terminates == <>(state # "walking")
=============================================================================
