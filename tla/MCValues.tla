------------------------------ MODULE MCValues ------------------------------
(* Small documents, texts, dates and weeks for Values. *)
EXTENDS Values

MCTokens ==
  {Start("", "a", <<>>, FALSE), Start("p", "b", <<Xmlns("p", "u"), Attr("p", "x", <<"<", "&">>)>>, FALSE),
   Start("p", "a", <<Attr("", "x", <<"v">>)>>, TRUE), End("", "a"), End("p", "b"), Text(<<" ">>),
   Text(<<" ", "t", "&", "amp;", "lt;">>), CData(<<"<", "&", "lt;">>), Comment}

\* With a prefix declared twice, before and behind attributes that have it,
\* elements of the same name within each other, and text between them.
MCDeep ==
  <<Start("", "a", <<Xmlns("", "d"), Xmlns("p", "u")>>, FALSE), Text(<<"t">>),
    Start("p", "b", <<Xmlns("p", "v"), Attr("", "x", <<"v">>), Attr("p", "y", <<"v">>)>>, FALSE),
    Start("p", "b", <<Attr("p", "y", <<"v">>), Xmlns("p", "w")>>, TRUE),
    End("p", "b"), Start("p", "b", <<Attr("p", "x", <<"<">>)>>, FALSE), Text(<<"t", " ">>),
    Start("", "b", <<>>, TRUE), Text(<<"&", "t">>), End("q", "b"), Start("", "a", <<Attr("p", "y", <<"v">>)>>, TRUE),
    End("", "a")>>

MCDocuments == UNION {[1..n -> MCTokens] : n \in 0..4} \cup {SubSeq(MCDeep, 1, n) : n \in 1..Len(MCDeep)}

Named(n) == [name |-> n, attr |-> <<>>]
MCQueries ==
  UNION {[1..n -> {Named("a"), Named("b")}] : n \in 0..3}
    \cup {<<Named("a"), [name |-> "b", attr |-> <<"x", <<"v">>>>]>>}

\* Of two-bit bytes; the third has bits behind its last one.
MCSources == {<<<<1>>, 2>>, <<<<1, 3>>, 3>>, <<<<2, 1>>, 0>>, <<<<3>>, 1>>}

\* At every boundary of the encodings; and bytes that begin, continue or are
\* excluded from characters of every length.
MCCodePoints == {97, 32, 128, 2048, 65536}
MCBytes == {65, 128, 144, 160, 191, 192, 194, 224, 237, 240, 244, 255}
MCRawTexts == UNION {[1..n -> MCBytes] : n \in 1..4}

MCTexts == UNION {[1..n -> {97, LF, CR, SP}] : n \in 0..4} \cup UNION {[1..n -> {65, 97, 98}] : n \in 0..3}
           \cup [1..5 -> {97, 98}]
MCPatterns ==
  UNION {[1..n -> {97, 98, Star, AnyOne}] : n \in 0..3} \cup {<<97, Star, 98, Star>>, <<97, 98, 97, 98>>}

\* The epoch and the half second before it, the ends of leap months and days, and
\* of the January before a leap day.
MCMoments ==
  {[s |-> 0, ms |-> 0], [s |-> 1580428800, ms |-> 0], [s |-> 0, ms |-> -500], [s |-> 1709164799, ms |-> 999],
   [s |-> 951782400, ms |-> 5], [s |-> 1577934245, ms |-> 123]}

MCFormats ==
  {IsoFormat, ToTheSecond, <<"YYYY", "/", "MM">>, <<"mm", ":", "ss">>,
   <<"YYYY", "MM", "DD", "hh", "mm", "ss">>,
   <<"DD", ".", "MM", ".", "YYYY", " ", "hh", "mm", "ss", "SSS">>}

MCDates ==
  {Padded(d[1], 4) \o <<"-">> \o Padded(d[2], 2) \o <<"-">> \o Padded(d[3], 2) :
     d \in {<<2023, 2, 29>>, <<2024, 2, 29>>, <<2024, 4, 31>>, <<2024, 13, 1>>, <<1970, 1, 1>>, <<2001, 0, 1>>}}
MCTimes ==
  {<<>>} \cup {<<c>> \o Padded(t[1], 2) \o <<":">> \o Padded(t[2], 2) :
                 c \in {"T", " "}, t \in {<<0, 0>>, <<23, 59>>, <<24, 0>>}}
MCSeconds == {<<>>, <<":", "5">>, <<":", "5", "9">>, <<":", "6", "0">>, <<":", "5", "x">>}
MCFractions == {<<>>, <<".">>, <<".", "1", "2", "3", "4">>}
MCZones == {<<>>, <<"Z">>, <<"+", "0", "9", ":">>, <<"+", "0", "9", ":", "3", "0">>, <<"-", "0", "1">>}
MCIsoTexts ==
  {d \o t \o s \o f \o z : d \in MCDates \cup {<<>>}, t \in MCTimes, s \in MCSeconds,
                           f \in MCFractions, z \in MCZones}

\* A key that is padded, one that is cut, and the standard's; texts that end with
\* a block, next to its end, and with bytes like those of the padding.
MCSecrets == {<<>>, <<1, 255, 128>>, ExampleKey, ExampleKey \o <<7>>}
MCPlainTexts == {[i \in 1..n |-> (37 * i) % 256] : n \in {0, 1, 15, 16, 17}} \cup {<<9, 2, 2>>, [i \in 1..16 |-> 16]}
=============================================================================
