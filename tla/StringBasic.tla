----------------------------- MODULE StringBasic -----------------------------
(***************************************************************************)
(* The free functions of j2::string: they have no state, and several do    *)
(* the same work by loops of their own.  A text is a sequence of bytes.    *)
(***************************************************************************)
EXTENDS U8String

CONSTANTS Texts, Patterns     \* texts to work on, and words and patterns
VARIABLES subjectText, word   \* one of each

stringVars == <<subjectText, word>>

LF == 10
CR == 13
SP == 32
Star == 42
AnyOne == 63
Comma == 44
Backslash == 92
Spaces == {SP, LF, CR}

InitString == subjectText \in Texts /\ word \in Patterns

-----------------------------------------------------------------------------
\* A loop that collects characters and ends a part at the places in ends and where
\* the text ends; the characters in drops are left out, and so are parts without
\* characters unless they are kept.
Collected(s, ends, drops, keep) ==
  LET Flush(st) == IF keep \/ st.cur # <<>> THEN Append(st.out, st.cur) ELSE st.out
      Take(st, i) == CASE i \in ends -> [out |-> Flush(st), cur |-> <<>>]
                       [] i \in drops -> st
                       [] OTHER -> [st EXCEPT !.cur = Append(@, s[i])]
  IN Flush(FoldLeftDomain(Take, [out |-> <<>>, cur |-> <<>>], s))

\* tokenize_any_of
Tokenize(s, delims, keep) == Collected(s, {i \in DOMAIN s : s[i] \in delims}, {}, keep)

\* (A faulty variant: the line feed after a carriage return is not skipped.)
SplitLinesTwice(s, keep) ==
  Collected(s, {i \in DOMAIN s : s[i] \in {CR, LF}}, {}, keep)

\* split_lines: CR LF, CR and LF end a line.
SplitLines(s, keep) ==
  LET second == {i \in 2..Len(s) : s[i] = LF /\ s[i - 1] = CR}
  IN Collected(s, {i \in DOMAIN s : s[i] \in {CR, LF}} \ second, second, keep)

\* normalize_newlines
NormalizeNewlines(s, nl) ==
  LET Take(out, i) ==
        CASE s[i] = CR -> out \o nl
          [] s[i] = LF -> IF i > 1 /\ s[i - 1] = CR THEN out ELSE out \o nl
          [] OTHER -> Append(out, s[i])
  IN FoldLeftDomain(Take, <<>>, s)

\* split with a word; an empty one gives single characters.
SplitWord(s, delimiter, keep) ==
  IF delimiter = <<>> THEN [i \in DOMAIN s |-> <<s[i]>>]
  ELSE SelectSeq(Parts(s, delimiter), LAMBDA part : keep \/ part # <<>>)

\* split with a character (getline): nothing follows a delimiter at the end.
SplitChar(s, d) ==
  LET parts == Parts(s, <<d>>) IN IF Last(parts) = <<>> THEN Front(parts) ELSE parts

\* join
Glue(parts, w) == FlattenSeq([i \in DOMAIN parts |-> IF i = 1 THEN parts[i] ELSE w \o parts[i]])

SplitTrimmed(s, d, drop) ==
  LET parts == SplitChar(s, d)
  IN SelectSeq([i \in DOMAIN parts |-> Trimmed(parts[i])], LAMBDA x : ~drop \/ x # <<>>)

\* collapse_spaces
CollapseSpaces(s) ==
  LET Take(out, c) == IF c \notin Spaces THEN Append(out, c)
                      ELSE IF out # <<>> /\ Last(out) = SP THEN out ELSE Append(out, SP)
  IN Trimmed(FoldLeft(Take, <<>>, s))

\* ltrim, rtrim and trim: from the left, and from the right.
LTrim(s) ==
  LET solid == {i \in DOMAIN s : s[i] \notin {SP} \cup 9..13}
  IN IF solid = {} THEN <<>> ELSE SubSeq(s, Min(solid), Len(s))
RTrim(s) == Reverse(LTrim(Reverse(s)))
Trim(s) == RTrim(LTrim(s))

\* replace and replace_all_inplace have the loop of u8str::replace_all,
\* replace_first does what u8str::replace does; replace_all_map lets the next
\* pair search what the one before has inserted.
Replace(s, from, to) == Replaced(s, from, to)
ReplaceFirst(s, from, to) == ReplacedOnce(s, from, to)
ReplaceAllMap(s, pairs) == FoldLeft(LAMBDA text_, pair : Replace(text_, pair[1], pair[2]), s, pairs)

\* replace_last
ReplaceLast(s, from, to) ==
  LET at == {i \in 1..Len(s) - Len(from) + 1 : SubSeq(s, i, i + Len(from) - 1) = from}
  IN IF from = <<>> \/ at = {} THEN s ELSE Exchanged(s, Max(at), from, to)

\* common_prefix and common_suffix
Common(a, b) == SubSeq(a, 1, CHOOSE k \in 0..Len(a) :
                  /\ k <= Len(b) /\ SubSeq(a, 1, k) = SubSeq(b, 1, k)
                  /\ k < Len(a) /\ k < Len(b) => a[k + 1] # b[k + 1])
CommonPrefix(items) == IF items = <<>> THEN <<>> ELSE FoldLeft(Common, items[1], Tail(items))
CommonSuffix(items) == Reverse(CommonPrefix([i \in DOMAIN items |-> Reverse(items[i])]))

\* remove_prefix and remove_suffix: whether it was there, and what is left.
RemovePrefix(s, p) == [removed |-> IsPrefix(p, s), left |-> StripPrefix(s, p)]
RemoveSuffix(s, p) == [removed |-> IsSuffix(p, s), left |-> StripSuffix(s, p)]

\* iequals; starts_with, ends_with and contains ignoring the case, character by character
\* and by the texts in lower case.
IEquals(a, b) == Len(a) = Len(b) /\ \A i \in DOMAIN a : ToLower(a)[i] = ToLower(b)[i]
IStartsWith(s, p) == Len(p) <= Len(s) /\ \A i \in DOMAIN p : ToLower(s)[i] = ToLower(p)[i]
IEndsWith(s, p) ==
  Len(p) <= Len(s) /\ \A k \in 0..Len(p)-1 : ToLower(s)[Len(s) - k] = ToLower(p)[Len(p) - k]
IContains(s, token) == Holds(ToLower(s), ToLower(token))

\* quote, and strip_quotes, which takes the quotes off and no escapes.
Quote(s, q, escape) ==
  <<q>> \o FlattenSeq([i \in DOMAIN s |-> IF escape /\ s[i] \in {q, Backslash} THEN <<Backslash, s[i]>> ELSE <<s[i]>>])
        \o <<q>>
StripQuotes(s, q) == IF Len(s) >= 2 /\ s[1] = q /\ Last(s) = q THEN SubSeq(s, 2, Len(s) - 1) ELSE s

SurroundIfMissing(s, prefix, suffix) ==
  LET out == IF IsPrefix(prefix, s) THEN s ELSE prefix \o s
  IN IF IsSuffix(suffix, out) THEN out ELSE out \o suffix

\* indent_lines: every line feed begins a line.
IndentLines(s, prefix) ==
  prefix \o FlattenSeq([i \in DOMAIN s |-> IF s[i] = LF THEN <<LF>> \o prefix ELSE <<s[i]>>])

\* pad_left and pad_right, by bytes.
PadLeftTo(s, width, fill) == [i \in 1..(width - Len(s)) |-> fill] \o s
PadRightTo(s, width, fill) == s \o [i \in 1..(width - Len(s)) |-> fill]

PadCenter(s, width, fill) ==
  LET total == IF Len(s) >= width THEN 0 ELSE width - Len(s)
      left == total \div 2
  IN [i \in 1..left |-> fill] \o s \o [i \in 1..total - left |-> fill]

RemoveChars(s, chars) == SelectSeq(s, LAMBDA c : c \notin chars)
Repeat(s, count) == FlattenSeq([i \in 1..count |-> s])
SafeSubstr(s, pos, count) == SubSeq(s, pos + 1, Min({pos + count, Len(s)}))
Ellipsize(s, most, ellipsis) ==
  CASE Len(s) <= most -> s
    [] Len(s) > most /\ most <= Len(ellipsis) -> SubSeq(ellipsis, 1, most)
    [] OTHER -> SubSeq(s, 1, most - Len(ellipsis)) \o ellipsis

\* to_human_readable_korean, of a whole number: from the right, a value for each
\* four digits that are not all zero, with the power of 10000 it counts.
Sections(digits) ==
  LET n == (Len(digits) + 3) \div 4
      section(k) == SubSeq(digits, Max({1, Len(digits) - 4 * k + 1}), Len(digits) - 4 * (k - 1))
      value(k) == FoldLeft(LAMBDA v, d : 10 * v + d, 0, section(k))
  IN SelectSeq([i \in 1..n |-> <<value(n + 1 - i), n - i>>], LAMBDA part : part[1] > 0)

\* wildcard_impl: one anchor, at the last star; a character of the pattern that
\* equals the one of the text is taken as itself first, also if it is a star.
WildcardMatch(s, pat) ==
  LET Run[t \in 1..Len(s) + 1, p \in 1..Len(pat) + 1, star \in 0..Len(pat), from \in 0..Len(s) + 1] ==
        CASE t > Len(s) -> \A i \in p..Len(pat) : pat[i] = Star
          [] t <= Len(s) /\ p <= Len(pat) /\ pat[p] \in {AnyOne, s[t]} -> Run[t + 1, p + 1, star, from]
          [] t <= Len(s) /\ p <= Len(pat) /\ pat[p] \notin {AnyOne, s[t]} /\ pat[p] = Star ->
               Run[t, p + 1, p, t]
          [] OTHER -> star # 0 /\ Run[from + 1, star + 1, star, from + 1]
  IN Run[1, 1, 0, 0]

\* ellipsize_utf8_safe without an ellipsis: the lengths are those of the leads,
\* and a byte that begins no character ends the count.
EllipsizeUtf8(s, most) ==
  LET Take(st, i) ==
        LET n == LeadLength(s[i])
            whole == n > 0 /\ i + n - 1 <= Len(s)
            len == IF whole /\ \A j \in i+1..i+n-1 : s[j] \in 128..191 THEN n ELSE 1
        IN CASE st.stop \/ i < st.next -> st
             [] ~whole -> [st EXCEPT !.stop = TRUE]
             [] OTHER -> [next |-> i + len, count |-> st.count + 1, stop |-> st.count >= most,
                          boundary |-> IF st.count < most THEN i + len - 1 ELSE st.boundary]
      end == FoldLeftDomain(Take, [next |-> 1, count |-> 0, stop |-> FALSE, boundary |-> 0], s)
  IN IF most = 0 THEN <<>> ELSE IF end.count <= most THEN s ELSE SubSeq(s, 1, end.boundary)

\* add_separator, for the digits of a whole number.
AddSeparator(digits, step) ==
  FlattenSeq([i \in DOMAIN digits |->
    IF i > 1 /\ (Len(digits) - i + 1) % step = 0 THEN <<Comma, digits[i]>> ELSE <<digits[i]>>])

-----------------------------------------------------------------------------
\* What a pattern means: a star is any sequence, a question mark any character.
Means(s, pat) ==
  LET Fits[i \in 0..Len(s), j \in 0..Len(pat)] ==
        IF j = 0 THEN i = 0
        ELSE IF pat[j] = Star THEN Fits[i, j - 1] \/ (i > 0 /\ Fits[i - 1, j])
        ELSE i > 0 /\ pat[j] \in {AnyOne, s[i]} /\ Fits[i - 1, j - 1]
  IN Fits[Len(s), Len(pat)]

\* The functions agree with each other where they do the same by loops of their
\* own: what split() cuts at a word, join() puts together again; replace() does
\* not look at what it has inserted; tokenizing at one character is splitting
\* at it; the lines are the parts of the text with normalized line ends;
\* collapsing blanks keeps the words and changes nothing the second time; a cut
\* to a number of code points is u8str's left().
LoopsAgree(s, w) ==
  /\ Glue(SplitWord(s, w, TRUE), w) = s
  /\ w # <<>> => \A to \in {<<>>, w, w \o w, Reverse(w)} :
       LET parts == Parts(s, w)
           once == IF Len(parts) = 1 THEN s ELSE parts[1] \o to \o Glue(Tail(parts), w)
       IN /\ Replace(s, w, to) = Glue(parts, to)
          /\ ReplaceFirst(s, w, to) = once
          /\ ReplaceLast(Reverse(s), Reverse(w), Reverse(to)) = Reverse(once)
          /\ to # <<>> => ReplaceAllMap(s, <<<<w, to>>, <<to, w>>>>) = Glue(Parts(Glue(parts, to), to), w)
  /\ \A c \in Range(w) : /\ Tokenize(s, {c}, TRUE) = Parts(s, <<c>>)
                         /\ SplitChar(s, c) \in {Parts(s, <<c>>), Front(Parts(s, <<c>>))}
  /\ SplitLines(s, TRUE) = Parts(NormalizeNewlines(s, <<LF>>), <<LF>>)
  /\ Tokenize(CollapseSpaces(s), {SP}, FALSE) = Tokenize(s, Spaces, FALSE)
  /\ CollapseSpaces(CollapseSpaces(s)) = CollapseSpaces(s)
  /\ \A n \in 0..Len(s) : EllipsizeUtf8(s, n) = Slice(s, 1, n)

\* The greedy matcher decides what the pattern means, unless the text has a
\* star in it; a prefix is common exactly if no longer one is.
HelpersDecide(s, w) ==
  /\ Star \notin Range(s) => (WildcardMatch(s, w) = Means(s, w))
  /\ LET p == CommonPrefix(<<s, w, s>>)
     IN /\ IsPrefix(p, s) /\ IsPrefix(p, w)
        /\ \A k \in 1..Len(s) : IsPrefix(SubSeq(s, 1, k), w) => k <= Len(p)
  /\ CommonSuffix(<<s, w>>) = Reverse(CommonPrefix(<<Reverse(s), Reverse(w)>>))
  /\ \A k \in 1..3 : /\ SelectSeq(AddSeparator(w, k), LAMBDA c : c # Comma) = w
                     /\ \A part \in Range(Tail(Parts(AddSeparator(w, k), <<Comma>>))) : Len(part) = k

\* Whatever the text: the functions that ignore the case are the others on texts
\* in lower case, quotes come off as they went on, prefixes and suffixes are put
\* once, every line is indented and every width and length is kept.
TextsAreShaped(s, w) ==
  LET low == ToLower(s)
      lowWord == ToLower(w)
      indented == Parts(IndentLines(s, w), <<LF>>)
  IN /\ Trim(s) = Trimmed(s) /\ LTrim(RTrim(s)) = Trim(s)
     /\ IEquals(s, w) = (IStartsWith(s, w) /\ IEndsWith(s, w) /\ IStartsWith(w, s))
     /\ RemovePrefix(s, w).removed => w \o RemovePrefix(s, w).left = s
     /\ RemoveSuffix(s, w).removed => RemoveSuffix(s, w).left \o w = s
     /\ ~RemovePrefix(s, w).removed => RemovePrefix(SurroundIfMissing(s, w, <<>>), w).left = s
     /\ IStartsWith(s, w) = IsPrefix(lowWord, low)
     /\ IEndsWith(s, w) = IsSuffix(lowWord, low)
     /\ IContains(s, w) = (\E i \in 0..Len(low) : IsPrefix(lowWord, SubSeq(low, i + 1, Len(low))))
     /\ \A q \in {Comma, 97} : /\ StripQuotes(Quote(s, q, FALSE), q) = s
                             /\ q \notin Range(s) /\ Backslash \notin Range(s) => Quote(s, q, TRUE) = Quote(s, q, FALSE)
     /\ LET whole == SurroundIfMissing(s, w, w)
        IN IsPrefix(w, whole) /\ IsSuffix(w, whole) /\ SurroundIfMissing(whole, w, w) = whole
     /\ \A part \in Range(indented) : IsPrefix(w, part)
     /\ [i \in DOMAIN indented |-> SubSeq(indented[i], Len(w) + 1, Len(indented[i]))] = Parts(s, <<LF>>)
     /\ \A n \in 0..6 :
          /\ PadCenter(s, n, Comma) = PadRightTo(PadLeftTo(s, (Max({n, Len(s)}) + Len(s)) \div 2, Comma), n, Comma)
          /\ Len(PadCenter(s, n, Comma)) = Max({n, Len(s)})
          /\ Comma \notin Range(s) => RemoveChars(PadCenter(s, n, Comma), {Comma}) = s
          /\ Len(Ellipsize(s, n, w)) = Min({n, Len(s)})
          /\ n <= Len(s) => SafeSubstr(s, 0, n) \o SafeSubstr(s, n, Len(s)) = s
     /\ \A n \in 0..3 : w # <<>> => Replaced(Repeat(w, n), w, <<>>) = <<>>

\* The sections of a number, largest first, add up to it.
SectionsAddUp(digits) ==
  LET parts == Sections(digits)
  IN /\ FoldLeft(LAMBDA v, part : v + part[1] * 10000 ^ part[2], 0, parts)
          = FoldLeft(LAMBDA v, d : 10 * v + d, 0, digits)
     /\ \A i, j \in DOMAIN parts : i < j => parts[i][2] > parts[j][2]

\* Up to nine digits of a number, from a text.
AsDigits(s) == LET twice == s \o s IN SubSeq([i \in DOMAIN twice |-> twice[i] % 10], 1, Min({9, Len(twice)}))

StringHelpersAgree ==
  /\ LoopsAgree(subjectText, word) /\ HelpersDecide(subjectText, word)
  /\ TextsAreShaped(subjectText, word) /\ SectionsAddUp(AsDigits(subjectText))
=============================================================================
