-------------------------------- MODULE Listing --------------------------------
(***************************************************************************)
(* Who links to which page: for_chapter names the pages (main.c:183-203),  *)
(* create_chapter and create_contents link between them (create.c), and    *)
(* make-log and make-contents list them for the whole site.  Each has its  *)
(* own idea of which chapters may be shown and of what their pages are     *)
(* called.  One story; `mark' is its stories.ready, `count' the number of  *)
(* its chapters, which the last export has stored in stories.chapters.     *)
(***************************************************************************)
EXTENDS StoryTables

Index == <<"index.html">>
PageOf(n) == <<"chapter", n>>

(* CHAPTER_NAME, CHAPTER_NAME_STRING and for_chapter's destname.           *)
ChapterName(n) == IF n > 1 THEN PageOf(n) ELSE Index

Row(mark, count) == [created |-> 1, updated |-> 1, chapters |-> count, ready |-> mark]

(* What for_story hands to create_contents and to storydb_for_chapters.    *)
Numchaps(mark, count, allReady) ==
  LET ready == ReadyOf(Row(mark, count), allReady)
  IN  IF ~allReady /\ ready # 0 THEN ready ELSE count

Exported(mark, count, allReady) ==
  {n \in 1 .. count : allReady \/ n <= Numchaps(mark, count, allReady)}

Pages(mark, count, allReady) == {ChapterName(n) : n \in Exported(mark, count, allReady)}

-----------------------------------------------------------------------------
(* Mutant of NextLink: the last page that is ready links on as well. *)
NextOfReady(n, ready) == IF n <= ready THEN {PageOf(n + 1)} ELSE {}

(* create_chapter *)
NextLink(n, ready) == IF n < ready THEN {PageOf(n + 1)} ELSE {}

PrevLink(n) == IF n <= 1 THEN {} ELSE IF n # 2 THEN {PageOf(n - 1)} ELSE {Index}

PageLinks(mark, count, allReady, n) ==
  PrevLink(n) \cup NextLink(n, ReadyOf(Row(mark, count), allReady))

(* create_contents *)
ContentsLinks(mark, count, allReady) ==
  {ChapterName(i) : i \in 1 .. Numchaps(mark, count, allReady)}

(* RECENT_CHAPTERS, without the censored stories, and on_chapter of        *)
(* make-log, which leaves out the last chapter for readers.  The statement *)
(* does not look at all_ready.                                             *)
Recent(mark, count) ==
  {n \in 1 .. count : n <= ReadyOf(Row(mark, count), FALSE) \/ count = 1}

LogLinks(mark, count, allReady) ==
  {IF n # 1 THEN PageOf(n) ELSE Index :
     n \in {m \in Recent(mark, count) : allReady \/ m # count}}

(* output_story of make-contents: start, latest, and the sneak peek.       *)
SiteLinks(mark, count) == {Index, ChapterName(ReadyOf(Row(mark, count), FALSE))}

SneakPeekLinks(mark, count) ==
  LET ready == ReadyOf(Row(mark, count), FALSE)
  IN  IF ready < count THEN {ChapterName(ready + 1)} ELSE {}

(* find-chapters-to-publish: UNPUBLISHED_CHAPTERS, all of whose rows have  *)
(* a time (chapters.updated is NOT NULL).                                  *)
Unpublished(mark, count) == {n \in 1 .. count : mark > 0 /\ n > mark}
===============================================================================
