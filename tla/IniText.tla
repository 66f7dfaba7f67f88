------------------------------ MODULE IniText ------------------------------
(***************************************************************************)
(* How j2::ini::ini_parser writes a value into a line and reads it back.   *)
(* A text is a sequence of characters.  Digits and the words true and      *)
(* false are one character each here; tab and carriage return behave like  *)
(* the line feed and the blank, and are left out.                          *)
(***************************************************************************)
EXTENDS Integers, SequencesExt

Blank == {" ", "\n"}
Tick == "'"
Quote == "\""
Back == "\\"
Marks == {"#", ";"}
Booleans == {<<"true">>, <<"false">>}
Numbers == {<<"0">>, <<"1">>}

\* trim
Trim(s) ==
  LET solid == {i \in DOMAIN s : s[i] \notin Blank}
  IN IF solid = {} THEN <<>> ELSE SubSeq(s, Min(solid), Max(solid))

(***************************************************************************)
(* strip_inline_comment: a mark outside quotes ends the value after the    *)
(* last character outside quotes that is not blank.  A quote toggles even  *)
(* when it is escaped.  (StripAnyMark, as every definition named after a   *)
(* mistake, is a faulty variant of the one that follows.)                  *)
(***************************************************************************)
StripAnyMark(s) ==
  LET marks == {i \in DOMAIN s : s[i] \in Marks}
  IN IF marks = {} THEN s ELSE Trim(SubSeq(s, 1, Min(marks) - 1))

\* What reading the i-th character changes.
ScanComment(s, st, i) ==
  LET single == IF s[i] = Tick /\ ~st.double THEN ~st.single ELSE st.single
      double == IF s[i] = Quote /\ ~st.single THEN ~st.double ELSE st.double
      outside == ~single /\ ~double
  IN IF st.cut THEN st
     ELSE [single |-> single, double |-> double, cut |-> outside /\ s[i] \in Marks,
           last |-> IF outside /\ s[i] \notin Blank \cup Marks THEN i ELSE st.last]

StripComment(s) ==
  LET after[i \in 0..Len(s)] ==
        IF i = 0 THEN [single |-> FALSE, double |-> FALSE, cut |-> FALSE, last |-> 0]
        ELSE ScanComment(s, after[i - 1], i)
      end == after[Len(s)]
  IN IF end.cut THEN SubSeq(s, 1, end.last) ELSE s

\* encode_escapes_for_string
EscapeString(c) ==
  CASE c = "\n" -> <<Back, "n">>
    [] c \in {Back, Tick} -> <<Back, c>>
    [] OTHER -> <<c>>
Encode(s) == FlattenSeq([i \in DOMAIN s |-> EscapeString(s[i])])

\* Reads a backslash and its successor as meant says; where it says nothing both
\* stay, like everything else.
ReadEscaped(meant, st, c) ==
  CASE st.open -> [open |-> FALSE, out |-> st.out \o (IF c \in DOMAIN meant THEN meant[c] ELSE <<Back, c>>)]
    [] ~st.open /\ c = Back -> [open |-> TRUE, out |-> st.out]
    [] OTHER -> [open |-> FALSE, out |-> Append(st.out, c)]

Decoded(s, meant) ==
  LET after[i \in 0..Len(s)] ==
        IF i = 0 THEN [open |-> FALSE, out |-> <<>>] ELSE ReadEscaped(meant, after[i - 1], s[i])
      end == after[Len(s)]
  IN IF end.open THEN Append(end.out, Back) ELSE end.out

\* decode_escapes_for_string
Decode(s) ==
  Decoded(s, [c \in {"n", Back, Tick, Quote} |-> IF c = "n" THEN <<"\n">> ELSE <<c>>])

\* quote_double_and_escape_literal, and its inverse in unquote_and_unescape,
\* where a backslash is dropped in front of a double quote only.
EscapeLiteral(c) == IF c = Quote THEN <<Back, Quote>> ELSE <<c>>
EncodeLiteral(s) == FlattenSeq([i \in DOMAIN s |-> EscapeLiteral(s[i])])

DecodeLiteral(s) ==
  LET escaped(i) == s[i] = Back /\ i < Len(s) /\ s[i + 1] = Quote
      after[i \in 0..Len(s)] ==
        IF i = 0 THEN <<>> ELSE IF escaped(i) THEN after[i - 1] ELSE Append(after[i - 1], s[i])
  IN after[Len(s)]

Quoted(s, q) == Len(s) >= 2 /\ s[1] = q /\ Last(s) = q
Inner(s) == SubSeq(s, 2, Len(s) - 1)

\* What save() writes after the equals sign.
Written(e) ==
  CASE e.kind = "literal" -> <<Quote>> \o EncodeLiteral(e.value) \o <<Quote>>
    [] e.kind = "raw" -> <<Tick>> \o Encode(e.value) \o <<Tick>>
    [] OTHER -> e.value

\* What load() makes of the text after the equals sign.
ReadBack(text) ==
  LET v == Trim(StripComment(text))
  IN CASE Quoted(v, Tick) -> [kind |-> "raw", value |-> Decode(Inner(v))]
       [] Quoted(v, Quote) -> [kind |-> "literal", value |-> DecodeLiteral(Inner(v))]
       [] v \in Booleans -> [kind |-> "bool", value |-> v]
       [] v \in Numbers -> [kind |-> "number", value |-> v]
       [] OTHER -> [kind |-> "raw", value |-> Decode(v)]

\* The values that a line can hold: a quote of the delimiter's kind followed,
\* anywhere later, by a mark ends the value too soon, and a literal cannot hold
\* a line feed.
Storable(e) ==
  LET delimiter == IF e.kind = "raw" THEN Tick ELSE Quote
  IN e.kind \in {"raw", "literal"} =>
       /\ \A i, j \in DOMAIN e.value :
            i < j => ~(e.value[i] = delimiter /\ e.value[j] \in Marks)
       /\ e.kind = "literal" => "\n" \notin Range(e.value)
=============================================================================
