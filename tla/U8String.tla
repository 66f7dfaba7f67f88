------------------------------ MODULE U8String ------------------------------
(***************************************************************************)
(* j2::string::u8: text as UTF-8 bytes, converted to and from UTF-16 and   *)
(* UTF-32, and u8str, which searches and replaces in the bytes but counts  *)
(* and cuts in code points.  Also the strict converters of j2::encoding.   *)
(***************************************************************************)
EXTENDS Integers, SequencesExt, Calls

CONSTANTS
  CodePoints,    \* of which texts are made
  RawTexts,      \* byte sequences that may be no UTF-8
  WordLength     \* code points of the arguments of the calls

VARIABLES
  value_,        \* the bytes
  text           \* their code points, or NotText for a raw text

u8Vars == <<value_, text>>
Replacement == 65533     \* 0xFFFD
Surrogate(c) == c \in 55296..57343
NotText == <<-1>>

-----------------------------------------------------------------------------
\* next_code_point
LeadLength(b) ==
  CASE b < 128 -> 1 [] b \in 192..223 -> 2 [] b \in 224..239 -> 3 [] b \in 240..247 -> 4
    [] OTHER -> 0

Smallest == <<0, 128, 2048, 65536>>
Payload(s, i, n) ==
  FoldLeft(LAMBDA v, b : 64 * v + (b % 64),
           IF n = 1 THEN s[i] ELSE s[i] % 2^(7 - n), SubSeq(s, i + 1, i + n - 1))

\* A bad lead or continuation consumes one byte, an overlong form, a surrogate
\* or a number that is too large all of its bytes.
NextCodePoint(s, i) ==
  LET n == LeadLength(s[i])
      formed == n > 0 /\ i + n - 1 <= Len(s) /\ \A j \in i+1..i+n-1 : s[j] \in 128..191
      cp == Payload(s, i, n)
  IN CASE ~formed -> [cp |-> Replacement, bytes |-> <<s[i]>>]
       [] OTHER -> [cp |-> IF cp < Smallest[n] \/ Surrogate(cp) \/ cp > 1114111 THEN Replacement ELSE cp,
                    bytes |-> SubSeq(s, i, i + n - 1)]

\* utf8_index_map: the pieces of a text, in order.
Pieces(s) ==
  LET Take(st, i) ==
        IF i <= st.done THEN st
        ELSE LET piece == NextCodePoint(s, i)
             IN [done |-> i + Len(piece.bytes) - 1, out |-> Append(st.out, piece)]
  IN FoldLeftDomain(Take, [done |-> 0, out |-> <<>>], s).out

Joined(pieces) == FlattenSeq([i \in DOMAIN pieces |-> pieces[i].bytes])

\* to_u32string
ToU32(s) == LET pieces == Pieces(s) IN [i \in DOMAIN pieces |-> pieces[i].cp]

\* (A faulty variant: a boundary that is one too high.)
AppendUtf8Late(c) ==
  IF c <= 128 THEN <<c>>
  ELSE IF c <= 2047 THEN <<192 + c \div 64, 128 + (c % 64)>>
  ELSE IF c <= 65535 THEN <<224 + c \div 4096, 128 + ((c \div 64) % 64), 128 + (c % 64)>>
  ELSE <<240 + c \div 262144, 128 + ((c \div 4096) % 64), 128 + ((c \div 64) % 64), 128 + (c % 64)>>

\* append_utf8
AppendUtf8(c) ==
  LET v == IF Surrogate(c) \/ c > 1114111 THEN Replacement ELSE c
  IN CASE v <= 127 -> <<v>>
       [] v \in 128..2047 -> <<192 + v \div 64, 128 + (v % 64)>>
       [] v \in 2048..65535 -> <<224 + v \div 4096, 128 + ((v \div 64) % 64), 128 + (v % 64)>>
       [] OTHER -> <<240 + v \div 262144, 128 + ((v \div 4096) % 64),
                     128 + ((v \div 64) % 64), 128 + (v % 64)>>

\* to_u8_string of UTF-32
FromU32(points) == FlattenSeq([i \in DOMAIN points |-> AppendUtf8(points[i])])

\* to_u16string, and utf32_to_utf16_impl for the code points that it accepts.
Units(c) ==
  IF c <= 65535 THEN <<c>> ELSE <<55296 + (((c - 65536) \div 1024) % 1024), 56320 + ((c - 65536) % 1024)>>
ToU16(s) == LET points == ToU32(s) IN FlattenSeq([i \in DOMAIN points |-> Units(points[i])])

High(w) == w \in 55296..56319
Low(w) == w \in 56320..57343

\* to_u8_string of UTF-16: a surrogate without its other half is replaced.
PointsOfU16(w) ==
  LET paired(i) == High(w[i]) /\ i < Len(w) /\ Low(w[i + 1])
      second(i) == i > 1 /\ paired(i - 1)
  IN FlattenSeq([i \in DOMAIN w |->
       CASE second(i) -> <<>>
         [] paired(i) -> <<(w[i] - 55296) * 1024 + (w[i + 1] - 56320) + 65536>>
         [] OTHER -> IF Surrogate(w[i]) THEN <<Replacement>> ELSE <<w[i]>>])

\* utf16_to_utf32_impl: fails where the former replaces.
StrictlyPaired(w) ==
  \A i \in DOMAIN w : /\ High(w[i]) => i < Len(w) /\ Low(w[i + 1])
                      /\ Low(w[i]) => i > 1 /\ High(w[i - 1])

-----------------------------------------------------------------------------
\* The first occurrence of a word in a sequence from place p on, or 0.
FindWord(s, w, p) ==
  LET at == {i \in p..Len(s) - Len(w) + 1 : SubSeq(s, i, i + Len(w) - 1) = w}
  IN IF at = {} THEN 0 ELSE Min(at)

\* index_of, contains; last_index_of, which finds the empty word at the end.
Holds(s, w) == w = <<>> \/ FindWord(s, w, 1) # 0
LastWord(s, w) ==
  LET at == {i \in 1..Len(s) - Len(w) + 1 : SubSeq(s, i, i + Len(w) - 1) = w}
  IN IF at = {} THEN 0 ELSE Max(at)

\* split: the parts of s between the occurrences of w, from left to right; w is
\* not empty.
Parts(s, w) ==
  LET Cut(st, i) ==
        IF i < st.from \/ SubSeq(s, i, i + Len(w) - 1) # w THEN st
        ELSE [from |-> i + Len(w), out |-> Append(st.out, SubSeq(s, st.from, i - 1))]
      end == FoldLeft(Cut, [from |-> 1, out |-> <<>>], [i \in 1..(Len(s) - Len(w) + 1) |-> i])
  IN Append(end.out, SubSeq(s, end.from, Len(s)))

\* The word at place at becomes another one.
Exchanged(s, at, from, to) == SubSeq(s, 1, at - 1) \o to \o SubSeq(s, at + Len(from), Len(s))

\* replace_all: searches the text that it changes, from behind the last change.
Replaced(s, from, to) ==
  LET Step(st, i) ==
        LET at == FindWord(st.s, from, st.pos)
        IN IF at = 0 THEN st ELSE [s |-> Exchanged(st.s, at, from, to), pos |-> at + Len(to)]
  IN IF from = <<>> THEN s ELSE FoldLeftDomain(Step, [s |-> s, pos |-> 1], s).s

\* replace
ReplacedOnce(s, from, to) ==
  LET at == FindWord(s, from, 1)
  IN IF from = <<>> \/ at = 0 THEN s ELSE Exchanged(s, at, from, to)

\* (A faulty variant: the bytes are counted.)
SliceOfBytes(s, from, to) == SubSeq(s, from, to)

\* left, right, mid: by pieces; reverse_utf8 puts them in the other order.
Slice(s, from, to) == Joined(SubSeq(Pieces(s), from, to))
ReverseUtf8(s) == Joined(Reverse(Pieces(s)))
PadLeft(s, width, fill) == [i \in 1..(width - Len(Pieces(s))) |-> fill] \o s
PadRight(s, width, fill) == s \o [i \in 1..(width - Len(Pieces(s))) |-> fill]
StripPrefix(s, p) == IF IsPrefix(p, s) THEN SubSeq(s, Len(p) + 1, Len(s)) ELSE s
StripSuffix(s, p) == IF IsSuffix(p, s) THEN SubSeq(s, 1, Len(s) - Len(p)) ELSE s

Trimmed(s) ==
  LET solid == {i \in DOMAIN s : s[i] \notin {32} \cup 9..13}
  IN IF solid = {} THEN <<>> ELSE SubSeq(s, Min(solid), Max(solid))

ToUpper(s) == [i \in DOMAIN s |-> IF s[i] \in 97..122 THEN s[i] - 32 ELSE s[i]]
ToLower(s) == [i \in DOMAIN s |-> IF s[i] \in 65..90 THEN s[i] + 32 ELSE s[i]]
EqualsIgnoreCase(a, b) == Len(a) = Len(b) /\ \A i \in DOMAIN a : ToLower(a)[i] = ToLower(b)[i]

-----------------------------------------------------------------------------
\* The objects: a text that was assigned, or a raw one, which is only read.
InitU8 == \/ value_ = <<>> /\ text = <<>>
          \/ value_ \in RawTexts /\ text = NotText

Words == UNION {[1..n -> CodePoints] : n \in 0..WordLength}

\* Each call is made on the bytes, and by its meaning on the code points.
SetText(bytes, points) == Call /\ text # NotText /\ value_' = bytes /\ text' = points

NextU8 ==
  \/ \E w \in Words :
       \/ SetText(value_ \o FromU32(w), text \o w)                     \* operator+=
       \/ SetText(StripPrefix(value_, FromU32(w)), StripPrefix(text, w))
       \/ SetText(StripSuffix(value_, FromU32(w)), StripSuffix(text, w))
       \/ \E to \in Words :
            /\ Len(text) > 0 /\ Len(w) > 0
            /\ \/ SetText(Replaced(value_, FromU32(w), FromU32(to)), Replaced(text, w, to))
               \/ SetText(ReplacedOnce(value_, FromU32(w), FromU32(to)), ReplacedOnce(text, w, to))
  \/ \E n, m \in 0..Len(text) : SetText(Slice(value_, n + 1, m), SubSeq(text, n + 1, m))
  \/ \E n \in {Len(text) + 1} : \/ SetText(PadLeft(value_, n, 32), <<32>> \o text)
                                \/ SetText(PadRight(value_, n, 32), text \o <<32>>)
  \/ SetText(ReverseUtf8(value_), Reverse(text))
  \/ SetText(Trimmed(value_), Trimmed(text))
  \/ SetText(ToUpper(value_), ToUpper(text)) \/ SetText(ToLower(value_), ToLower(text))

-----------------------------------------------------------------------------
\* A string that was made by the class's calls from texts stays UTF-8, and is,
\* byte by byte, what the calls mean for code points; and so do the searches and
\* comparisons answer that work in the bytes, and could do so within a character.
\* (Not the searches for the empty text, for which each has an answer of its own.)
CallsWorkOnCodePoints ==
  text # NotText =>
    /\ value_ = FromU32(text)
    /\ \A w \in Words \ {<<>>} :
         LET needle == FromU32(w)
             parts == Parts(text, w)
             place(i) == IF i = 0 THEN 0 ELSE Len(FromU32(SubSeq(text, 1, i - 1))) + 1
         IN /\ Parts(value_, needle) = [i \in DOMAIN parts |-> FromU32(parts[i])]
            /\ FindWord(value_, needle, 1) = place(FindWord(text, w, 1))
            /\ LastWord(value_, needle) = place(LastWord(text, w))
            /\ Holds(value_, needle) <=> Holds(text, w)
            /\ EqualsIgnoreCase(value_, needle) <=> EqualsIgnoreCase(text, w)

\* RFC 3629, by the ranges of the bytes.
Utf8Char(b) ==
  \/ Len(b) = 1 /\ b[1] \in 0..127
  \/ Len(b) = 2 /\ b[1] \in 194..223 /\ b[2] \in 128..191
  \/ /\ Len(b) = 3 /\ b[1] \in 224..239 /\ b[3] \in 128..191
     /\ b[2] \in (IF b[1] = 224 THEN 160 ELSE 128)..(IF b[1] = 237 THEN 159 ELSE 191)
  \/ /\ Len(b) = 4 /\ b[1] \in 240..244 /\ b[3] \in 128..191 /\ b[4] \in 128..191
     /\ b[2] \in (IF b[1] = 240 THEN 144 ELSE 128)..(IF b[1] = 244 THEN 143 ELSE 191)

\* Bytes are read without loss or overlap; those that are UTF-8 come back as
\* they were, through UTF-16 and UTF-32 alike, by the replacing converters and
\* the strict ones; all others have a replacement where they are not UTF-8, and
\* what they are converted to is UTF-8.
ConversionsAgree ==
  LET pieces == Pieces(value_)
      points == ToU32(value_)
      units == ToU16(value_)
      wellFormed == \A i \in DOMAIN pieces : Utf8Char(pieces[i].bytes)
  IN /\ Joined(pieces) = value_
     /\ wellFormed => FromU32(points) = value_ /\ FromU32(PointsOfU16(units)) = value_
     /\ \A i \in DOMAIN pieces : Utf8Char(pieces[i].bytes) \/ points[i] = Replacement
     /\ ToU32(FromU32(points)) = points
     /\ StrictlyPaired(units) /\ PointsOfU16(units) = points
=============================================================================
