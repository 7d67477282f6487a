------------------------------- MODULE OpenFiles -------------------------------
(***************************************************************************)
(* The descriptors of for_stories and for_story (main.c:274-399): `descend'*)
(* opens the markup directory below the story's without closing that one,  *)
(* which stays open for the rest of the run.  The process may have `most'  *)
(* open; the ones it has from the start, the database's among them, are    *)
(* not counted.  A due story is "gone" (no directory), "bare" (one without *)
(* markup), "done" (no page to be made) or "due".                          *)
(***************************************************************************)
EXTENDS Integers

(* Mutant of Destination: a directory that cannot be opened is left out. *)
DestinationLeft(used, most) == IF used + 4 > most THEN "skipped" ELSE "open"

(* The directories of the category and in it of the story.  ensure_eq dies *)
(* of any errno but ENOENT.                                                *)
Destination(used, most) == IF used + 4 > most THEN "dead" ELSE "open"

(* .tempchap is opened, then the source: without it create_chapter gets -1 *)
(* and htmlish, an external library, gives up or makes a page of nothing.  *)
MakesPages(used, most) ==
  IF used + 5 > most THEN {"dead", "blank"} ELSE {"exported"}

(* What can become of one story, and what it has left open.  The order of  *)
(* the opens: the story, its markup, the category, the story in it, which  *)
(* closes the category.                                                    *)
ForStory(kind, used, most) ==
  IF kind = "gone" THEN {[end |-> "absent", used |-> used]}
  ELSE IF used + 1 > most THEN {[end |-> "skipped", used |-> used]}
  ELSE IF kind = "bare" THEN {[end |-> "absent", used |-> used + 1]}
  ELSE IF used + 2 > most THEN {[end |-> "skipped", used |-> used + 1]}
  ELSE IF Destination(used, most) # "open"
  THEN {[end |-> Destination(used, most), used |-> used + 1]}
  ELSE {[end |-> e, used |-> used + 1] :
          e \in IF kind = "due" THEN MakesPages(used, most) ELSE {"exported"}}
===============================================================================
