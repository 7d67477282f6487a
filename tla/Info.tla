--------------------------------- MODULE Info ---------------------------------
(***************************************************************************)
(* Title, description and source of a story: storydb_set_info and          *)
(* storydb_with_info (storydb.c), got_info of create_contents, which takes *)
(* them from files and the environment (create.c:139-323), and describe.c, *)
(* which asks for them.  A text is Null, Empty or one of some other texts. *)
(*                                                                         *)
(* got_info keeps a pointer to a buffer of an inner block for the title it *)
(* read; no later block of the function has variables to reuse it for, so  *)
(* the text is still there.                                                *)
(***************************************************************************)
EXTENDS Integers, SequencesExt

Null == "NULL"
Empty == ""
Field == {"title", "description", "source"}

(* Mutant of SetInfo: without COALESCE. *)
SetInfoPlain(row, new) == [f \in Field |-> IF new[f] = Empty THEN Null ELSE new[f]]

(* An empty string is bound as NULL, and COALESCE keeps what was there.    *)
SetInfo(row, new) ==
  [f \in Field |-> IF new[f] \in {Null, Empty} THEN row[f] ELSE new[f]]

(* What got_info goes on with: the file `description' and the environment  *)
(* variable `source' if they differ, the file `title' in any case.         *)
Found(row, given) == [f \in Field |-> IF given[f] # Null THEN given[f] ELSE row[f]]

IsNew(row, given) ==
  \/ given["title"] # Null
  \/ \E f \in {"description", "source"} : given[f] # Null /\ given[f] # row[f]

AfterContents(row, given) ==
  IF IsNew(row, given) THEN SetInfo(row, Found(row, given)) ELSE row

(* The title falls back to the story's directory.                          *)
Shown(row, given, location) ==
  LET found == Found(row, given)
  IN  IF found["title"] = Null THEN [found EXCEPT !["title"] = location] ELSE found

(* FOR_UNDESCRIBED_STORIES *)
Undescribed(row) == \E f \in {"title", "description"} : row[f] \in {Null, Empty}

(* describe's for_story: a source is asked for only if there is none.      *)
AfterDescribe(row, answer) ==
  SetInfo(row, IF row["source"] \in {Null, Empty} THEN answer
               ELSE [answer EXCEPT !["source"] = Null])

(* storydb_for_undescribed: the statement is reset in each turn, so that   *)
(* each turn takes the first row there is.  The rows after the answers.    *)
FirstUndescribed(rows) == CHOOSE k \in DOMAIN rows :
                            /\ Undescribed(rows[k])
                            /\ \A j \in DOMAIN rows : j < k => ~Undescribed(rows[j])

Turn(rows, answer) ==
  IF \A k \in DOMAIN rows : ~Undescribed(rows[k]) THEN rows
  ELSE [rows EXCEPT ![FirstUndescribed(rows)] = AfterDescribe(@, answer)]
===============================================================================
