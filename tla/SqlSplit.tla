------------------------------ MODULE SqlSplit ------------------------------
(***************************************************************************)
(* Splitting a SQL script into statements (internal/sqlsplit), on          *)
(* sequences of characters.  Letters and digits are two characters here,   *)
(* blanks one more besides the line end; Step stands for the text "step:". *)
(***************************************************************************)
EXTENDS Integers, Sequences, SequencesExt

Quotes == {"'", "\""}
NewLine == "\n"
Blank == {" ", NewLine}
Letter == "a"
Digit == "1"
Step == "s"

(* strings.Index: where sub begins in s, at or after i; 0 if nowhere.      *)
Index(s, sub, i) ==
  LET at == {k \in i..(Len(s) - Len(sub) + 1) : SubSeq(s, k, k + Len(sub) - 1) = sub}
  IN  IF at = {} THEN 0 ELSE CHOOSE k \in at : \A l \in at : k <= l

Past(s, sub, i) == IF Index(s, sub, i) = 0 THEN Len(s) + 1 ELSE Index(s, sub, i) + Len(sub)
LineEnd(s, i) == IF Index(s, <<NewLine>>, i) = 0 THEN Len(s) + 1 ELSE Index(s, <<NewLine>>, i)
StartsAt(s, sub, i) == i + Len(sub) - 1 <= Len(s) /\ SubSeq(s, i, i + Len(sub) - 1) = sub

TrimSpace(s) ==
  LET ink == {i \in DOMAIN s : s[i] \notin Blank}
  IN  IF ink = {} THEN <<>>
      ELSE SubSeq(s, CHOOSE i \in ink : \A j \in ink : i <= j, CHOOSE i \in ink : \A j \in ink : i >= j)

(* A quote that is doubled does not end the string.                        *)
Closing(s, start, quote) ==
  LET end[i \in 1..(Len(s) + 1)] ==
        IF i > Len(s) THEN i
        ELSE IF s[i] # quote THEN end[i + 1]
        ELSE IF i < Len(s) /\ s[i + 1] = quote THEN end[i + 2]
        ELSE i + 1
  IN end[start]

skipQuoted(s, i) == Closing(s, i + 1, s[i])

(* $$ or $tag$ opens a string that the same tag closes; any other $ is one *)
(* character.                                                              *)
skipDollarQuoted_AnyTag(s, i) == Past(s, <<"$">>, i + 1)
skipDollarQuoted(s, i) ==
  LET In(j) == s[j] = Letter \/ (j > i + 1 /\ s[j] = Digit)
      stops == {j \in (i + 1)..Len(s) : ~In(j)}
      j == CHOOSE j \in stops : \A k \in stops : j <= k
  IN  IF stops = {} \/ s[j] # "$" THEN i + 1 ELSE Past(s, SubSeq(s, i, j), j + 1)

stripComments(s) ==
  LET from[i \in 1..(Len(s) + 1)] ==
        IF i > Len(s) THEN <<>>
        ELSE IF s[i] \in Quotes THEN SubSeq(s, i, skipQuoted(s, i) - 1) \o from[skipQuoted(s, i)]
        ELSE IF StartsAt(s, <<"-", "-">>, i) THEN from[LineEnd(s, i)]
        ELSE IF StartsAt(s, <<"/", "*">>, i) THEN from[Past(s, <<"*", "/">>, i + 2)]
        ELSE <<s[i]>> \o from[i + 1]
  IN from[1]

(* Lines of code, and those with a label before the first of them.         *)
Lines(piece) ==
  LET starts == {i \in DOMAIN piece : i = 1 \/ piece[i - 1] = NewLine}
  IN  [i \in starts |-> TrimSpace(SubSeq(piece, i, LineEnd(piece, i) - 1))]

appendStatement_Strips(piece) ==
  LET sql == TrimSpace(stripComments(piece))
      labels == {i \in DOMAIN Lines(piece) : StartsAt(Lines(piece)[i], <<"-", "-", Step>>, 1)}
  IN  IF sql = <<>> THEN <<>> ELSE <<[sql |-> sql, labelled |-> labels # {}]>>
appendStatement(piece) ==
  LET lines == Lines(piece)
      code == {i \in DOMAIN lines : lines[i] # <<>> /\ ~StartsAt(lines[i], <<"-", "-">>, 1)}
      labels == {i \in DOMAIN lines : StartsAt(lines[i], <<"-", "-", Step>>, 1) /\ \A j \in code : i < j}
  IN  IF code = {} \/ TrimSpace(stripComments(piece)) = <<>> THEN <<>>
      ELSE <<[sql |-> TrimSpace(piece), labelled |-> labels # {}]>>

(* The statements from start on, once everything before i was passed.      *)
Split(s) ==
  LET scan[at \in (1..(Len(s) + 1)) \X (1..(Len(s) + 1))] ==
        LET start == at[1]
            i     == at[2]
        IN  IF i > Len(s) THEN appendStatement(SubSeq(s, start, Len(s)))
            ELSE IF s[i] \in Quotes THEN scan[<<start, skipQuoted(s, i)>>]
            ELSE IF StartsAt(s, <<"-", "-">>, i) THEN scan[<<start, LineEnd(s, i)>>]
            ELSE IF StartsAt(s, <<"/", "*">>, i) THEN scan[<<start, Past(s, <<"*", "/">>, i + 2)>>]
            ELSE IF s[i] = "$" THEN scan[<<start, skipDollarQuoted(s, i)>>]
            ELSE IF s[i] = ";" THEN appendStatement(SubSeq(s, start, i - 1)) \o scan[<<i + 1, i + 1>>]
            ELSE scan[<<start, i + 1>>]
  IN scan[<<1, 1>>]

-----------------------------------------------------------------------------
(* SQL, as a reader that takes one character at a time: mode is what the   *)
(* character is in, open what opened it, seen what was read since, depth   *)
(* how many comments are open; a piece is kept if it has code in it.       *)
(* beyond: what was met that both engines know and Split does not, a       *)
(* comment in a comment, or a $ in a name.                                 *)
Start == [mode |-> "code", open |-> <<>>, seen |-> <<>>, depth |-> 0, piece |-> <<>>, code |-> FALSE,
          beyond |-> {}, out |-> <<>>]

Enter(st, mode, open) == [st EXCEPT !.mode = mode, !.open = open, !.seen = <<>>]
Code(st) == [Enter(st, "code", <<>>) EXCEPT !.code = TRUE]
Close(st) == [Start EXCEPT !.out = IF st.code THEN Append(st.out, TrimSpace(st.piece)) ELSE st.out,
                           !.beyond = st.beyond]

(* A character of code: it may begin something with the next ones.         *)
InCode(st, c) ==
  LET more == [st EXCEPT !.piece = Append(@, c)]
  IN  CASE c = ";" -> Close(st)
        [] c \in Quotes -> Enter(Code(more), "string", <<c>>)
        [] c \in {"-", "/"} -> Enter(more, "maybe", <<c>>)
        [] c = "$" -> Enter(Code(more), "tag", <<c>>)
        [] c = Letter -> Enter(Code(more), "name", <<>>)
        [] c \in Blank -> Enter(more, "code", <<>>)
        [] OTHER -> Code(more)

Read(st, c) ==
  LET more == [st EXCEPT !.piece = Append(@, c), !.seen = Append(@, c)]
      ends(sub) == IsSuffix(sub, more.seen)
  IN  CASE st.mode = "code" -> InCode(st, c)
        [] st.mode = "string" -> IF <<c>> = st.open THEN [more EXCEPT !.mode = "closed"] ELSE more
        [] st.mode = "closed" -> IF <<c>> = st.open THEN [more EXCEPT !.mode = "string"] ELSE InCode(st, c)
        [] st.mode = "maybe" ->
             IF st.open = <<"-">> /\ c = "-" THEN Enter(more, "line", <<>>)
             ELSE IF st.open = <<"/">> /\ c = "*" THEN [Enter(more, "block", <<>>) EXCEPT !.depth = 1]
             ELSE InCode(Code(st), c)
        [] st.mode = "line" -> IF c = NewLine THEN InCode(st, c) ELSE more
        [] st.mode = "block" ->
             IF ends(<<"/", "*">>)
             THEN [Enter(more, "block", <<>>) EXCEPT !.depth = @ + 1, !.beyond = @ \cup {"comment"}]
             ELSE IF ends(<<"*", "/">>)
             THEN [Enter(more, IF st.depth = 1 THEN "code" ELSE "block", <<>>) EXCEPT !.depth = @ - 1]
             ELSE more
        [] st.mode = "tag" ->
             IF c = "$" THEN Enter(more, "dollar", st.open \o more.seen)
             ELSE IF c = Letter \/ (c = Digit /\ st.seen # <<>>) THEN more
             ELSE InCode(st, c)
        [] st.mode = "dollar" -> IF ends(st.open) THEN Enter(more, "code", <<>>) ELSE more
        [] st.mode = "name" ->
             IF c = "$" THEN [more EXCEPT !.beyond = @ \cup {"name"}]
             ELSE IF c \in {Letter, Digit} THEN more ELSE InCode(st, c)

ReadAll(script) == FoldLeft(Read, Start, script)
Beyond(script) == ReadAll(script).beyond
IsClosed(script) == ReadAll(script).mode # "block"

StatementsOf(script) ==
  LET st == ReadAll(script)
  IN  Close(IF st.mode = "maybe" THEN Code(st) ELSE st).out
=============================================================================
