--------------------------------- MODULE Diff ---------------------------------
(***************************************************************************)
(* The chapters that differ between two trees, as file_changed tells them  *)
(* to its handler (git_for_chapters_changed, storygit.c:303-405), and what *)
(* the rows of the story database are after storydb_saw_chapter was told   *)
(* all of them.  Here are the paths and the two trees, `base' of a commit  *)
(* and `parent' of the one before; Scan takes the files by number, has one *)
(* commit after another, and on_chapter, which passes over the files that  *)
(* are not in the working tree.                                            *)
(*                                                                         *)
(* A path is what one_file tells apart: [story, where, number, tail].      *)
(* `where' is "markup/chapter" when that follows the first slash, `number' *)
(* the digits after it, NoNumber when there are none, and `tail' is what   *)
(* follows them: ".hish", something that only begins so ("longer"), or     *)
(* anything else ("other").  A tree is a function from paths to blobs.     *)
(***************************************************************************)
EXTENDS Integers

NoNumber == -1

Path(Story, Number) ==
  [story : Story, where : {"markup/chapter", "elsewhere"},
   number : Number \cup {NoNumber}, tail : {".hish", "longer", "other"}]

Strtol(p) == IF p.number = NoNumber THEN 0 ELSE p.number

(* The two length tests leave out markup/chapter.hish, without a number:   *)
(* any other path with the prefix and without a number is long enough here.*)
IsMarkup(p) ==
  p.where = "markup/chapter" /\ ~(p.number = NoNumber /\ p.tail = ".hish")

(* assert(chapnum != 0) *)
Dies(p) == IsMarkup(p) /\ Strtol(p) = 0

(* The call of the handler, if there is one.                               *)
OneFile(p, deleted) ==
  IF IsMarkup(p) /\ p.tail # "other"
  THEN {[story |-> p.story, chapter |-> Strtol(p), deleted |-> deleted]}
  ELSE {}

(* Mutant of Status: the flags are joined by |, as they are meant. *)
StatusAsPassed(base, parent, p) ==
  IF p \notin DOMAIN parent THEN "deleted"
  ELSE IF p \notin DOMAIN base THEN "added" ELSE "modified"

(* git_diff_tree_to_tree(base, parent) has base for the old side, but the  *)
(* flags joined by || are 1, which is GIT_DIFF_REVERSE.  No file is renamed *)
(* or copied without GIT_DIFF_FIND_RENAMES.                                *)
Status(base, parent, p) ==
  IF p \notin DOMAIN base THEN "deleted"
  ELSE IF p \notin DOMAIN parent THEN "added" ELSE "modified"

Changed(base, parent) ==
  {p \in DOMAIN base \cup DOMAIN parent :
     p \in DOMAIN base \cap DOMAIN parent => base[p] # parent[p]}

(* location/markup/chapterN.hish, the form storygit.c:315 means.           *)
Plain(p) == p.where = "markup/chapter" => p.number > 0 /\ p.tail # "longer"

ChaptersIn(tree) ==
  {[story |-> p.story, chapter |-> p.number] :
     p \in {x \in DOMAIN tree : x.where = "markup/chapter" /\ x.number > 0 /\ x.tail = ".hish"}}

(* The rows that are there, as [story, chapter], after storydb_saw_chapter.*)
RowsAfter(rows, calls) ==
  LET named(cs) == {[story |-> c.story, chapter |-> c.chapter] : c \in cs}
  IN  (rows \ named(calls)) \cup named({c \in calls : ~c.deleted})

(* git_diff_foreach calls file_changed for one changed path after another, *)
(* in git's order, which nothing here depends on.  on_chapter never        *)
(* answers anything but GFC_CONTINUE.                                      *)
Untold(base, parent) ==
  [left |-> Changed(base, parent), dead |-> FALSE, rows |-> ChaptersIn(parent)]

FileChanged(told, base, parent, p) ==
  IF Dies(p) THEN [told EXCEPT !.dead = TRUE]
  ELSE [told EXCEPT !.left = @ \ {p},
          !.rows = RowsAfter(@, OneFile(p, Status(base, parent, p) = "deleted"))]
===============================================================================
