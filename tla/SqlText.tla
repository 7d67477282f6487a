-------------------------------- MODULE SqlText --------------------------------
(***************************************************************************)
(* The two build tools that turn SQL into C strings: make-sql.c and        *)
(* output_sql of statements2source.c; and what a C compiler makes of what  *)
(* they print.  Text is a sequence of tokens: "nl", "cr", "tab", "space",  *)
(* "quote", ";" and "x" for any other character, and in C also the escapes *)
(* "\\n", "\\r", "\\quote" and a backslash before the end of the line,     *)
(* "join".                                                                 *)
(***************************************************************************)
EXTENDS Integers, SequencesExt

IsSpace(c) == c \in {"nl", "cr", "tab", "space"}

(* End one literal, begin the next on a line of its own.                   *)
NewLine == <<"\\n", "quote", "nl", "tab", "quote">>

-----------------------------------------------------------------------------
(* make-sql.c *)

Escaped(c) ==
  CASE c = "cr" -> "\\r" [] c = "quote" -> "\\quote" [] OTHER -> c

(* Mutant of AfterSpace: without the step back after the loop. *)
AfterSpaceAndOne(sql, i) ==
  CHOOSE j \in i + 2 .. Len(sql) + 2 :
    /\ \A k \in i + 1 .. j - 2 : IsSpace(sql[k])
    /\ j - 1 <= Len(sql) => ~IsSpace(sql[j - 1])

(* A newline takes the space after it away: what follows is the first      *)
(* other character, or the end of the mapped file.                         *)
AfterSpace(sql, i) ==
  CHOOSE j \in i + 1 .. Len(sql) + 1 :
    /\ \A k \in i + 1 .. j - 1 : IsSpace(sql[k])
    /\ j <= Len(sql) => ~IsSpace(sql[j])

MakeSql(sql) ==
  LET body[i \in Nat] ==
        IF i > Len(sql) THEN <<>>
        ELSE IF sql[i] = "nl" THEN NewLine \o body[AfterSpace(sql, i)]
        ELSE <<Escaped(sql[i])>> \o body[i + 1]
  IN  <<"quote">> \o body[1] \o <<"quote", ";", "nl">>

-----------------------------------------------------------------------------
(* statements2source.c: output_sql, and the #define main puts around it.   *)

OutputSql(sql, onlydefine) ==
  LET end == IF sql # <<>> /\ Last(sql) = ";" THEN Len(sql) - 1 ELSE Len(sql)
      one(c) == CASE c = "quote" -> <<"\\quote">>
                  [] c = "nl" /\ onlydefine ->
                       <<"\\n", "quote", "space", "join", "nl", "tab", "quote">>
                  [] c = "nl" /\ ~onlydefine -> NewLine
                  [] OTHER -> <<c>>
  IN  FlattenSeq([k \in 1 .. end |-> one(sql[k])])

(* #define NAME is one logical line, up to a newline nothing joins.        *)
Define(sql) ==
  <<"join", "nl", "tab", "quote">> \o OutputSql(sql, TRUE) \o <<"quote", "nl", "nl">>

-----------------------------------------------------------------------------
(* C: joined lines are one line; literals next to each other are one; a    *)
(* literal ends on the line it begins on.  `ok' is FALSE for what does not *)
(* compile, and a ; outside a literal ends the declaration.                *)

Compiled(text) ==
  FoldLeft(LAMBDA c, t :
    IF ~c.ok \/ c.ended THEN c
    ELSE IF t = "quote" THEN [c EXCEPT !.inside = ~@]
    ELSE IF c.inside
    THEN CASE t = "\\n" -> [c EXCEPT !.value = Append(@, "nl")]
           [] t = "\\r" -> [c EXCEPT !.value = Append(@, "cr")]
           [] t = "\\quote" -> [c EXCEPT !.value = Append(@, "quote")]
           [] t = "nl" -> [c EXCEPT !.ok = FALSE]
           [] OTHER -> [c EXCEPT !.value = Append(@, t)]
    ELSE IF t = ";" THEN [c EXCEPT !.ended = TRUE]
    ELSE [c EXCEPT !.ok = IsSpace(t)],
    [value |-> <<>>, inside |-> FALSE, ended |-> FALSE, ok |-> TRUE], text)

(* The preprocessor's logical line: joined newlines are gone, the first    *)
(* other one ends it.                                                      *)
LogicalLine(text) ==
  LET joined(k) == text[k] = "nl" /\ k > 1 /\ text[k - 1] = "join"
      end == CHOOSE k \in 1 .. Len(text) + 1 :
               /\ \A j \in 1 .. k - 1 : text[j] = "nl" => joined(j)
               /\ k <= Len(text) => text[k] = "nl" /\ ~joined(k)
  IN  SelectSeq([k \in 1 .. end - 1 |-> IF joined(k) THEN "join" ELSE text[k]],
                LAMBDA t : t # "join")

(* What of the SQL has to arrive: make-sql may drop space that follows a   *)
(* newline, statements2source a final semicolon, and nothing else.         *)
WithoutIndent(sql) ==
  LET dropped(k) == \E j \in 1 .. k - 1 :
                      sql[j] = "nl" /\ \A l \in j .. k : IsSpace(sql[l])
      kept == {k \in DOMAIN sql : ~dropped(k)}
  IN  [k \in 1 .. Cardinality(kept) |-> sql[SetToSortSeq(kept, <)[k]]]

WithoutSemicolon(sql) ==
  IF sql # <<>> /\ Last(sql) = ";" THEN Front(sql) ELSE sql
==============================================================================
