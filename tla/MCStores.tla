------------------------------ MODULE MCStores ------------------------------
(* Small settings, responses, paths and trees for Stores. *)
EXTENDS Stores

Raw(v) == [kind |-> "raw", value |-> v]
Literal(v) == [kind |-> "literal", value |-> v]
Number(v) == [kind |-> "number", value |-> v]

MCEntries == {Raw(<<Tick, "n">>), Literal(<<Quote, "n">>), Number(<<"1">>), Raw(<<"#", Tick>>)}

\* No file, and one with a key twice, a section twice, and comments.
MCHandWritten ==
  {<<>>,
   <<Pair("k", <<"1">>), Header("s"), Pair("k", <<" ", "1", "#", Tick>>), Header("t"),
     Pair("l", <<"n", " ">>), Header("s"), Skipped, Pair("k", <<"true">>),
     Pair("l", <<Tick, "1", Tick>>)>>}

\* A key that makes a comment of its line, and a value that makes two lines, the
\* second with a key; files with a comment, a blank line and a key twice.
MCSettings == {<<"k">>, <<"#", "l">>}
MCSettingValues ==
  {<<"n">>, <<"n", Quote>>, <<Quote, Back, Back, "n", Quote>>, <<" ", "n">>, <<Back, Back, "n">>,
   <<"n", "\n", "k", "=", "=">>}

MCConfigFiles ==
  {<<>>,
   <<<<" ", "#", "k", "=">>, <<"k", "=", " ", "n", " ">>, <<>>,
     <<"l", " ", "=", Quote, "n", Back, Quote, Quote>>, <<" ", "k", "=", "n", "n">>, <<"n">>>>}

\* Responses of up to two parts: one or two headers, a name or none, data that
\* is empty, or holds a line end, an empty line or the marker within a line.
MCHeaders == {<<"h", LineEnd, "a">>, <<"b">>, <<"h">>}
MCPartLists ==
  UNION {[1..n -> [header : MCHeaders, data : {<<>>, <<"x">>}]] : n \in 0..2}
    \cup [1..2 -> [header : {<<"b">>},
                   data : {<<"x", LineEnd, LineEnd, "y", Marker, "y">>, <<"x">>}]]

\* Servers with and without a port and a slash; a redirection, a body in two
\* chunks, one without a content type, and an error.
MCServers ==
  {[scheme |-> "http", host |-> "h", port |-> 0, path |-> <<>>],
   [scheme |-> "http", host |-> "h", port |-> 80, path |-> <<"p">>],
   [scheme |-> "http", host |-> "g", port |-> 0, path |-> <<"/", "p">>],
   [scheme |-> "", host |-> "h", port |-> 0, path |-> <<>>]}
NamedValue(n, v) == [name |-> n, value |-> v]
MCHeaderLists == {<<>>, <<NamedValue("a", "x"), NamedValue("", "y")>>, <<NamedValue("", "y")>>}
MCQueries_ == {<<>>, <<NamedValue(<<"k", "&">>, <<"v", "=">>), NamedValue(<<"k">>, <<>>)>>}
Line(n, v) == [colon |-> TRUE, name |-> n, value |-> v]
StatusLine == [colon |-> FALSE, name |-> "", value |-> ""]
Answer(status, lines, chunks) == [status |-> status, lines |-> lines, chunks |-> chunks]
MCAnswers ==
  {Answer(302, <<StatusLine, Line("content-type", "html")>>, <<<<"m">>>>),
   Answer(200, <<StatusLine, Line("content-type", "json")>>, <<<<"{">>, <<"}">>>>),
   Answer(202, <<Line("x", "1")>>, <<<<"t">>>>), Answer(404, <<StatusLine>>, <<>>),
   Answer(503, <<StatusLine>>, <<<<"e">>>>)}

\* A tree of three directories with a link to its root and one to a directory
\* that is also reached without it.
MCNodes == {"r", "d", "e", "f", "g", "l", "k"}
MCTrees ==
  {[kind |-> [n \in MCNodes |-> CASE n \in {"f", "g"} -> "file"
                                  [] n \in {"l", "k"} -> "link"
                                  [] OTHER -> "dir"],
    target |-> [n \in MCNodes |-> CASE n = "l" -> "r" [] n = "k" -> "e" [] OTHER -> n],
    children |-> [n \in MCNodes |-> CASE n = "r" -> {"d", "f", "k"}
                                      [] n = "d" -> {"e", "l"}
                                      [] n = "e" -> {"g"}
                                      [] OTHER -> {}]]}
MCRank == [r |-> 3, d |-> 2, e |-> 1, f |-> 4, g |-> 5, l |-> 6, k |-> 7]

MCFinderOptions ==
  {o \in [matching : {MCNodes, MCNodes \ {"d"}}, excluded : {{}, {"e"}},
          include_symlinks_as_items : BOOLEAN, include_files : {TRUE}, include_dirs : BOOLEAN,
          follow_symlinks : BOOLEAN, recursive : BOOLEAN, max_depth : {-1, 0, 2},
          limit_results : {0, 2}, stop_on_error : BOOLEAN, sorted : BOOLEAN] :
     /\ ~o.recursive => o.max_depth = -1 /\ ~o.stop_on_error
     /\ o.sorted <=> o.stop_on_error}
=============================================================================
