-------------------------------- MODULE MCPure --------------------------------
(* Small inputs for the functions of Pure. *)
EXTENDS Pure

MCTimeLists == UNION {[1 .. n -> 0 .. 12] : n \in 0 .. 3}

(* Around the ten entries from which the search is binary.                 *)
Ascending(n, top) == {s \in [1 .. n -> 1 .. top] : LatestLast(s)}
MCTodoLists ==
  UNION {Ascending(n, 3) : n \in 1 .. 7} \cup UNION {Ascending(n, 2) : n \in 8 .. 12}

(* A story's directory, with notes among the chapters.                     *)
Paths == {p \in Path(Story, Chapter) :
            Plain(p) /\ (p.where = "elsewhere" => p.number = 1 /\ p.tail = ".hish")}
Trees(blobs, most) ==
  UNION {[S -> blobs] : S \in {T \in SUBSET Paths : Cardinality(T) <= most}}
MCBaseTrees == Trees({"old", "new"}, 2)
MCParentTrees == Trees({"old"}, 3)

MCSqlTexts ==
  UNION {[1 .. n -> {"x", "nl", "space", "cr", "quote", ";"}] : n \in 0 .. 5}
===============================================================================
