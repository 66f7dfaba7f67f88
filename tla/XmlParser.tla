----------------------------- MODULE XmlParser -----------------------------
(***************************************************************************)
(* j2::xml: a document is parsed into a tree by one function that calls    *)
(* itself for every element, the tree is written out again by              *)
(* serialize_xml, and asked by paths.  A document is a sequence of tokens  *)
(* here, the recursion a stack of frames, the tree the sequence of its     *)
(* nodes in the order of their start tags, each with its parent's number.  *)
(***************************************************************************)
EXTENDS Integers, SequencesExt

CONSTANTS
  Documents,     \* the sequences of tokens that are parsed
  Queries        \* paths: sequences of steps [name, attr]

VARIABLES
  tokens, at,    \* the document and the position in it
  policy,        \* what happens to blank text
  nodes,         \* the nodes made so far
  calls_,        \* parse_element's frames: [node, ns_map, text_buffer]
  xmlPc,         \* "open", "parse", "root" (the tree is returned), "thrown"
  firstTree      \* the tree before it was written and parsed again

xmlVars == <<tokens, at, policy, nodes, calls_, xmlPc, firstTree>>

\* Tokens: <b:n x="v"> as [tag |-> "start", prefix, name, attrs, empty] with the
\* attributes in their order, </b:n>, text, and what parse_element looks at
\* but keeps nothing of.
Start(p, n, attrs, empty) == [tag |-> "start", prefix |-> p, name |-> n, attrs |-> attrs, empty |-> empty]
End(p, n) == [tag |-> "end", prefix |-> p, name |-> n]
Text(s) == [tag |-> "text", chars |-> s]
CData(s) == [tag |-> "cdata", chars |-> s]
Comment == [tag |-> "skip"]
Attr(p, n, v) == [prefix |-> p, name |-> n, value |-> v]
Xmlns(p, uri) == Attr("xmlns", p, uri)      \* "" is the default namespace

Policies == {"trim", "preserve", "collapse"}
NoParent == 0
NoUri == ""

\* In a text, "&" and what follows it are characters of their own.
Entities == {"lt;", "amp;"}
Entity(c) == IF c = "lt;" THEN "<" ELSE "&"

DecodeEntities(s) ==
  LET Read(st, c) ==
        CASE st.amp /\ c \in Entities -> [amp |-> FALSE, out |-> Append(st.out, Entity(c))]
          [] c = "&" -> [amp |-> TRUE, out |-> IF st.amp THEN Append(st.out, "&") ELSE st.out]
          [] OTHER -> [amp |-> FALSE, out |-> (IF st.amp THEN Append(st.out, "&") ELSE st.out) \o <<c>>]
      end == FoldLeft(Read, [amp |-> FALSE, out |-> <<>>], s)
  IN IF end.amp THEN Append(end.out, "&") ELSE end.out

\* (A faulty variant: "<" is escaped, "&" is not.)
EscapeLessOnly(s) == FlattenSeq([i \in DOMAIN s |-> IF s[i] = "<" THEN <<"&", "lt;">> ELSE <<s[i]>>])

EscapeText(s) ==
  FlattenSeq([i \in DOMAIN s |-> CASE s[i] = "<" -> <<"&", "lt;">>
                                   [] s[i] = "&" -> <<"&", "amp;">> [] OTHER -> <<s[i]>>])

TrimSpaces(s) ==
  LET solid == {i \in DOMAIN s : s[i] # " "}
  IN IF solid = {} THEN <<>> ELSE SubSeq(s, Min(solid), Max(solid))

InitXml ==
  /\ tokens \in Documents /\ policy \in Policies /\ at = 1
  /\ nodes = <<>> /\ calls_ = <<>> /\ xmlPc = "open" /\ firstTree = <<>>

-----------------------------------------------------------------------------
\* With a separating blank unless it is the first.
WithBlank(text, more) == IF text = <<>> THEN more ELSE text \o <<" ">> \o more

\* flush_text_buffer: what the text of a node becomes.
Flushed(text, buffer) ==
  LET trimmed == TrimSpaces(buffer) IN
  CASE buffer = <<>> -> text
    [] policy = "preserve" -> text \o DecodeEntities(buffer)
    [] trimmed = <<>> /\ policy = "trim" -> text
    [] trimmed = <<>> /\ policy = "collapse" -> Append(text, " ")
    [] OTHER -> WithBlank(text, DecodeEntities(trimmed))

\* parse_attributes: declarations fill the map as they are met, an attribute
\* with a prefix looks into what the map holds by then.
Declared(ns, attrs) ==
  FoldLeft(LAMBDA m, a : IF a.prefix = "xmlns" THEN (a.name :> a.value) @@ m ELSE m, ns, attrs)

Uri(ns, p) == IF p \in DOMAIN ns THEN ns[p] ELSE NoUri

KeptAttributes(ns, attrs) ==
  LET kept == SelectSeq([i \in DOMAIN attrs |-> i], LAMBDA i : attrs[i].prefix # "xmlns")
      uri(i) == IF attrs[i].prefix = "" THEN NoUri
                ELSE Uri(Declared(ns, SubSeq(attrs, 1, i - 1)), attrs[i].prefix)
  IN [j \in DOMAIN kept |-> [name |-> attrs[kept[j]].name, prefix |-> attrs[kept[j]].prefix,
                             ns_uri |-> uri(kept[j]), value |-> DecodeEntities(attrs[kept[j]].value)]]

Top == Last(calls_)
Step == at' = at + 1 /\ UNCHANGED <<tokens, policy, firstTree>>
Throws == xmlPc' = "thrown" /\ UNCHANGED <<tokens, at, policy, nodes, calls_, firstTree>>

\* parse_file, convert_xml_to_utf8: no file, an encoding iconv does not know,
\* bytes it cannot convert, an empty text.
OpenFails == xmlPc = "open" /\ Throws
Opens == xmlPc = "open" /\ xmlPc' = "parse" /\ UNCHANGED <<tokens, at, policy, nodes, calls_, firstTree>>

\* parse: comments and instructions before the root, which must be an element.
SkipProlog ==
  /\ xmlPc = "parse" /\ nodes = <<>>
  /\ \/ at > Len(tokens) /\ Throws
     \/ /\ at <= Len(tokens)
        /\ \/ tokens[at].tag \in {"end", "cdata"} /\ Throws
           \/ tokens[at].tag = "text" /\ TrimSpaces(tokens[at].chars) # <<>> /\ Throws
           \/ /\ tokens[at].tag = "skip" \/ (tokens[at].tag = "text" /\ TrimSpaces(tokens[at].chars) = <<>>)
              /\ Step /\ UNCHANGED <<nodes, calls_, xmlPc>>

\* (A faulty variant: the text that waits for its element is dropped.)
KeepTop == nodes

FlushTop == [nodes EXCEPT ![Top.node].text = Flushed(@, Top.text_buffer)]
Emptied == ReplaceAt(calls_, Len(calls_), [Top EXCEPT !.text_buffer = <<>>])

\* parse_element up to the end of the start tag: the child gets a copy of the map.
StartElement ==
  /\ xmlPc = "parse" /\ at <= Len(tokens) /\ tokens[at].tag = "start"
  /\ calls_ # <<>> \/ nodes = <<>>
  /\ LET t == tokens[at]
         inherited == IF calls_ = <<>> THEN <<>> ELSE Top.ns_map
         ns == Declared(inherited, t.attrs)
         parent == IF calls_ = <<>> THEN NoParent ELSE Top.node
         before == IF calls_ = <<>> THEN nodes ELSE FlushTop
         outer == IF calls_ = <<>> THEN calls_ ELSE Emptied
     IN /\ nodes' = Append(before, [parent |-> parent, name |-> t.name, prefix |-> t.prefix,
                                    ns_uri |-> Uri(ns, t.prefix),
                                    attributes |-> KeptAttributes(inherited, t.attrs), text |-> <<>>])
        /\ calls_' = IF t.empty THEN outer
                     ELSE Append(outer, [node |-> Len(nodes) + 1, ns_map |-> ns, text_buffer |-> <<>>])
        /\ xmlPc' = IF calls_' = <<>> THEN "root" ELSE "parse"
  /\ Step

\* The end tag closes the element if the local names agree, whatever the prefix.
EndElement ==
  /\ xmlPc = "parse" /\ at <= Len(tokens) /\ tokens[at].tag = "end" /\ calls_ # <<>>
  /\ \/ tokens[at].name # nodes[Top.node].name /\ Throws
     \/ /\ tokens[at].name = nodes[Top.node].name /\ Step
        /\ nodes' = FlushTop /\ calls_' = Front(calls_)
        /\ xmlPc' = IF calls_' = <<>> THEN "root" ELSE "parse"

ReadText ==
  /\ xmlPc = "parse" /\ at <= Len(tokens) /\ tokens[at].tag = "text" /\ calls_ # <<>> /\ Step
  /\ calls_' = ReplaceAt(calls_, Len(calls_), [Top EXCEPT !.text_buffer = @ \o tokens[at].chars])
  /\ UNCHANGED <<nodes, xmlPc>>

\* A section is text as it is: neither trimmed nor decoded.
ReadCData ==
  /\ xmlPc = "parse" /\ at <= Len(tokens) /\ tokens[at].tag = "cdata" /\ calls_ # <<>> /\ Step
  /\ nodes' = [FlushTop EXCEPT ![Top.node].text = WithBlank(@, tokens[at].chars)]
  /\ calls_' = Emptied /\ UNCHANGED xmlPc

SkipComment ==
  /\ xmlPc = "parse" /\ at <= Len(tokens) /\ tokens[at].tag = "skip" /\ calls_ # <<>> /\ Step
  /\ nodes' = FlushTop /\ calls_' = Emptied /\ UNCHANGED xmlPc

\* Where the document stops inside elements, each of them returns what it has.
InputEnds ==
  /\ xmlPc = "parse" /\ at > Len(tokens) /\ calls_ # <<>>
  /\ nodes' = FlushTop /\ calls_' = Front(calls_)
  /\ xmlPc' = IF calls_' = <<>> THEN "root" ELSE "parse"
  /\ UNCHANGED <<tokens, at, policy, firstTree>>

-----------------------------------------------------------------------------
\* serialize_xml: names without prefixes, no declarations, an indented line for
\* every element.
Chain[i \in Nat] == IF i = NoParent THEN {} ELSE {i} \cup Chain[nodes[i].parent]
HasChildren(i) == \E j \in DOMAIN nodes : nodes[j].parent = i
IsEmpty(i) == nodes[i].text = <<>> /\ ~HasChildren(i)
Blanks == Text(<<" ">>)

PlainAttributes(attrs) == [j \in DOMAIN attrs |-> Attr("", attrs[j].name, EscapeText(attrs[j].value))]

\* The end tags between node i - 1 and node i, innermost first.
Closed(i) ==
  LET left == IF i = 1 THEN {} ELSE Chain[i - 1]
      open == IF i > Len(nodes) THEN {} ELSE Chain[nodes[i].parent]
      ending == SetToSortSeq({j \in left \ open : ~IsEmpty(j)}, >)
  IN FlattenSeq([k \in DOMAIN ending |-> <<End("", nodes[ending[k]].name), Blanks>>])

Opened(i) ==
  <<Start("", nodes[i].name, PlainAttributes(nodes[i].attributes), IsEmpty(i))>>
    \o (IF nodes[i].text = <<>> THEN <<>> ELSE <<Text(EscapeText(nodes[i].text))>>)
    \o (IF HasChildren(i) \/ IsEmpty(i) THEN <<Blanks>> ELSE <<>>)

Serialized ==
  FlattenSeq([i \in DOMAIN nodes |-> Closed(i) \o Opened(i)]) \o Closed(Len(nodes) + 1)

\* The tree is written out, and what was written is parsed.
WriteAndParseAgain ==
  /\ xmlPc = "root" /\ firstTree = <<>>
  /\ firstTree' = nodes /\ tokens' = Serialized
  /\ at' = 1 /\ nodes' = <<>> /\ calls_' = <<>> /\ xmlPc' = "parse" /\ UNCHANGED policy

NextXml ==
  \/ OpenFails \/ Opens \/ SkipProlog \/ StartElement \/ EndElement \/ ReadText \/ ReadCData
  \/ SkipComment \/ InputEnds \/ WriteAndParseAgain

-----------------------------------------------------------------------------
\* xpath_select: the first step may name the root itself, every other goes from
\* the nodes found to their children.  A step may ask for an attribute.
FindAttribute(i, n) ==
  LET named == {j \in DOMAIN nodes[i].attributes : nodes[i].attributes[j].name = n}
  IN IF named = {} THEN <<>> ELSE <<nodes[i].attributes[Min(named)].value>>

Matches(i, step) ==
  nodes[i].name = step.name /\ (step.attr # <<>> => FindAttribute(i, step.attr[1]) = <<step.attr[2]>>)

MatchStepInChildren(found, step) ==
  FlattenSeq([k \in DOMAIN found |->
    SelectSeq([j \in DOMAIN nodes |-> j], LAMBDA j : nodes[j].parent = found[k] /\ Matches(j, step))])

XPathSelect(path) ==
  LET steps == IF path # <<>> /\ path[1].name = nodes[1].name THEN Tail(path) ELSE path
  IN FoldLeft(MatchStepInChildren, <<1>>, steps)

\* get_text_by_path, get_attr_value_by_path: the first node decides; nothing and
\* an empty text are the same.
TextAt(path) == LET found == XPathSelect(path) IN IF found = <<>> THEN <<>> ELSE nodes[found[1]].text
AttributeAt(path, n) ==
  LET found == XPathSelect(path)
      value == IF found = <<>> THEN <<>> ELSE FindAttribute(found[1], n)
  IN IF value = <<>> THEN <<>> ELSE value[1]

\* required_path_validator, which does tell an empty attribute from none.
Validates(required) ==
  \A r \in required :
    LET found == XPathSelect(r.path)
    IN found # <<>> /\ (r.attr # "" => FindAttribute(found[1], r.attr) # <<>>)

\* Read from the node up: do the names on the way to the root fit the path?
Up[i \in Nat, k \in Nat] == IF k = 0 \/ i = NoParent THEN i ELSE Up[nodes[i].parent, k - 1]

FitsUp(i, path) ==
  LET absolute == path # <<>> /\ path[1].name = nodes[1].name
      steps == IF absolute THEN Tail(path) ELSE path
      n == Len(steps)
  IN Up[i, n] = 1 /\ \A k \in 0..n-1 : Matches(Up[i, k], steps[n - k])

-----------------------------------------------------------------------------
Parsed1 == xmlPc = "root" /\ firstTree = <<>>

\* The uri of an element, and of an attribute with a prefix, is the one declared
\* for its prefix by the nearest tag that declares it, its own included, and
\* declarations end with their element; an attribute without one has none.
\* There is an exception that the namespaces of XML do not have: an attribute
\* with its declaration behind it in the same tag is given what was declared by
\* then, by the tag or outside of it, and nothing is said of it here.
DeclaresOnly(ts, p) == {j \in DOMAIN ts : ts[j].prefix = "xmlns" /\ ts[j].name = p}

\* The start tags of the document in order: the tag of node i.
TagsOf(doc) == SelectSeq(doc, LAMBDA t : t.tag = "start")

Nearest[i \in Nat] ==
  [p \in {"", "p", "q"} |->
     IF i = NoParent THEN NoUri
     ELSE LET attrs == TagsOf(tokens)[i].attrs IN
          IF DeclaresOnly(attrs, p) # {} THEN attrs[Max(DeclaresOnly(attrs, p))].value
          ELSE Nearest[nodes[i].parent][p]]

\* The place in its tag of the attribute that is number j of those kept.
PlaceInTag(attrs, j) ==
  CHOOSE k \in DOMAIN attrs :
    attrs[k].prefix # "xmlns" /\ Cardinality({m \in 1..k : attrs[m].prefix # "xmlns"}) = j

DeclaredBehind(i, j) ==
  LET attrs == TagsOf(tokens)[i].attrs
  IN \E d \in DeclaresOnly(attrs, nodes[i].attributes[j].prefix) : d > PlaceInTag(attrs, j)

NamespacesAreScoped ==
  Parsed1 => \A i \in DOMAIN nodes :
    /\ nodes[i].ns_uri = Nearest[i][nodes[i].prefix]
    /\ \A j \in DOMAIN nodes[i].attributes :
         LET a == nodes[i].attributes[j]
         IN \/ a.prefix = "" /\ a.ns_uri = NoUri
            \/ a.prefix # "" /\ (DeclaredBehind(i, j) \/ a.ns_uri = Nearest[i][a.prefix])

\* A parsed tree, written and parsed again, is the tree it was, but for
\* namespaces, when its texts do not begin or end with a blank, and if blank
\* text is discarded, as it is by default: the markup that was escaped does
\* not become markup, text of different places does not run together.
WithoutNamespaces(tree) ==
  [i \in DOMAIN tree |-> [parent |-> tree[i].parent, name |-> tree[i].name, text |-> tree[i].text,
     attributes |-> [j \in DOMAIN tree[i].attributes |->
                       <<tree[i].attributes[j].name, tree[i].attributes[j].value>>]]]

XmlSurvivesSerialization ==
  firstTree # <<>> /\ policy = "trim" /\ (\A i \in DOMAIN firstTree : firstTree[i].text = TrimSpaces(firstTree[i].text)) =>
    /\ xmlPc # "thrown"
    /\ xmlPc = "root" => WithoutNamespaces(nodes) = WithoutNamespaces(firstTree)

\* A path finds, in document order and once, the nodes that it fits when it is
\* read from the node up to the root; an attribute is looked for in the first.
XPathFindsWhatFits ==
  xmlPc = "root" => \A path \in Queries :
    /\ Range(XPathSelect(path)) = {i \in DOMAIN nodes : FitsUp(i, path)}
    /\ \A k \in 2..Len(XPathSelect(path)) : XPathSelect(path)[k - 1] < XPathSelect(path)[k]
    /\ LET fitting == {i \in DOMAIN nodes : FitsUp(i, path)}
           first == Min(fitting)
           has == fitting # {} /\ FindAttribute(first, "x") # <<>>
       IN /\ TextAt(path) = (IF fitting = {} THEN <<>> ELSE nodes[first].text)
          /\ AttributeAt(path, "x") = (IF has THEN FindAttribute(first, "x")[1] ELSE <<>>)
          /\ Validates({[path |-> path, attr |-> "x"], [path |-> path, attr |-> ""]}) <=> has
=============================================================================
