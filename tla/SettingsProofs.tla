--------------------------- MODULE SettingsProofs ---------------------------
(***************************************************************************)
(* What holds of the ini parser, the config manager and the broker for any *)
(* names, entries, files and number of calls: a lookup answers what was    *)
(* last set, removed or loaded, and load() restores what save() wrote.  A  *)
(* behaviour is of one of them ("subject").  The order is that of the      *)
(* argument: sequences, indices, sections, what load() reads, what save()  *)
(* writes, and the steps; then texts, what becomes of a value in a line,   *)
(* and the stores that come back.                                          *)
(***************************************************************************)
EXTENDS Stores, SequenceTheorems, WellFoundedInduction, TLAPS

\* The order of the naturals, as a relation.
LessThan == {p \in Nat \X Nat : p[1] < p[2]}

\* A set of naturals has a least member: what induction over a number is here.
LEMMA HasLeast ==
  ASSUME NEW S \in SUBSET Nat, S # {} PROVE \E x \in S : \A y \in S : x =< y
<1>1. OpToRel(<, Nat) = LessThan
  BY DEF OpToRel, LessThan
<1>2. \E x \in S : \A y \in S : ~ (<<y, x>> \in LessThan)
  BY <1>1, NatLessThanWellFounded, WFMin
<1>3. ASSUME NEW x \in S, NEW y \in S, ~ (<<y, x>> \in LessThan) PROVE x =< y
  BY <1>3 DEF LessThan
<1> QED
  BY <1>2, <1>3

\* load()'s scan is the function of its recursive definition.
LEMMA ReadingIsDefined ==
  ASSUME NEW lines, Len(lines) \in Nat
  PROVE  Reading(lines) =
           [i \in 0..Len(lines) |->
              IF i = 0 THEN [st |-> EmptyStore, current |-> NoName] ELSE ReadLine(Reading(lines)[i - 1], lines[i])]
<1> DEFINE base == [st |-> EmptyStore, current |-> NoName]
           Is(f, n) == f = [i \in 0..n |-> IF i = 0 THEN base ELSE ReadLine(f[i - 1], lines[i])]
<1> HIDE DEF base
<1>1. ASSUME NEW n \in Nat, NEW f, Is(f, n)
      PROVE  \E g : Is(g, n + 1)
  <2> DEFINE g == [i \in 0..n+1 |-> IF i = n + 1 THEN ReadLine(f[n], lines[n + 1]) ELSE f[i]]
  <2>0. DOMAIN g = 0..n+1 /\ g = [i \in 0..n+1 |-> g[i]] 
    OBVIOUS
  <2>1. ASSUME NEW i \in 0..n+1 PROVE g[i] = IF i = 0 THEN base ELSE ReadLine(g[i - 1], lines[i])
    <3>1. CASE i = n + 1
      BY <3>1
    <3>2. CASE i \in 0..n
      BY <1>1, <3>2
    <3> QED
      BY <3>1, <3>2
  <2> HIDE DEF g
  <2>2. Is(g, n + 1)
    BY <2>0, <2>1
  <2> QED
    BY <2>2
<1>2. \E f : Is(f, 0)
  <2>1. Is([i \in 0..0 |-> base], 0)
    OBVIOUS
  <2> QED
    BY <2>1
<1>3. \A n \in Nat : \E f : Is(f, n)
  <2> DEFINE S == {n \in Nat : ~ \E f : Is(f, n)}
  <2> HIDE DEF Is
  <2> SUFFICES S = {}
    OBVIOUS
  <2> SUFFICES ASSUME S # {} PROVE FALSE
    OBVIOUS
  <2>1. PICK n \in S : \A m \in S : n =< m
    BY HasLeast
  <2>2. n # 0
    BY <1>2
  <2>3. n - 1 \in Nat /\ n - 1 \notin S
    BY <2>1, <2>2
  <2>4. PICK f : Is(f, n - 1)
    BY <2>3
  <2>5. \E g : Is(g, (n - 1) + 1)
    BY <1>1, <2>3, <2>4
  <2> QED
    BY <2>5, <2>1
<1>4. Reading(lines) = CHOOSE f : Is(f, Len(lines))
  BY DEF Reading, base
<1>5. Is(Reading(lines), Len(lines))
  <2> HIDE DEF Is
  <2> QED
    BY <1>3, <1>4
<1> QED
  BY <1>5 DEF base

-----------------------------------------------------------------------------
\* A sequence, of whatever elements.
Sequence(s) == s \in Seq(Range(s))

\* A function on 1..n is a sequence of length n.
LEMMA SequenceFrom ==
  ASSUME NEW s, NEW n \in Nat, s = [i \in 1..n |-> s[i]]
  PROVE  Sequence(s) /\ Len(s) = n /\ DOMAIN s = 1..n
<1>1. DOMAIN s = 1..n
  OBVIOUS
<1>2. \A i \in 1..n : s[i] \in Range(s)
  BY <1>1 DEF Range
<1>3. s \in Seq(Range(s))
  <2>1. s \in [1..n -> Range(s)]
    BY <1>2, Zenon
  <2> QED
    BY <2>1, SeqDef, Zenon
<1>4. Len(s) = n
  BY <1>1
<1> QED
  BY <1>1, <1>3, <1>4 DEF Sequence

\* A sequence is the function of its elements.
LEMMA SequenceIs ==
  ASSUME NEW s, Sequence(s)
  PROVE  Len(s) \in Nat /\ DOMAIN s = 1..Len(s) /\ s = [i \in 1..Len(s) |-> s[i]]
  BY DEF Sequence

\* What appending leaves and adds.
LEMMA Longer ==
  ASSUME NEW s, Sequence(s), NEW x
  PROVE  /\ Sequence(Append(s, x)) /\ Len(Append(s, x)) = Len(s) + 1
         /\ DOMAIN Append(s, x) = 1..Len(s) + 1
         /\ \A i \in 1..Len(s) : Append(s, x)[i] = s[i]
         /\ Append(s, x)[Len(s) + 1] = x
<1> DEFINE T == Range(s) \cup {x}
<1>1. s \in Seq(T) /\ x \in T /\ Len(s) \in Nat
  BY DEF Sequence
<1> HIDE DEF T
<1>2. /\ Append(s, x) \in Seq(T) /\ Len(Append(s, x)) = Len(s) + 1
      /\ \A i \in 1..Len(s) : Append(s, x)[i] = s[i]
      /\ Append(s, x)[Len(s) + 1] = x
  BY <1>1
<1>3. Sequence(Append(s, x))
  BY <1>2, SeqOfRange DEF Sequence
<1> QED
  BY <1>1, <1>2, <1>3

\* What erasing an element leaves, and where.
LEMMA Shorter ==
  ASSUME NEW s, Sequence(s), NEW i \in 1..Len(s)
  PROVE  /\ Sequence(RemoveAt(s, i)) /\ Len(RemoveAt(s, i)) = Len(s) - 1
         /\ DOMAIN RemoveAt(s, i) = 1..Len(s) - 1
         /\ \A j \in 1..Len(s) - 1 : RemoveAt(s, i)[j] = IF j < i THEN s[j] ELSE s[j + 1]
<1> DEFINE T == Range(s)
           a == SubSeq(s, 1, i - 1)
           b == SubSeq(s, i + 1, Len(s))
<1>1. s \in Seq(T) /\ Len(s) \in Nat /\ i \in Nat
  BY DEF Sequence
<1>2. \A j \in 1..Len(s) : s[j] \in T
  BY <1>1
<1> HIDE DEF T
<1>3. /\ a \in Seq(T) /\ Len(a) = i - 1
      /\ \A j \in 1..i - 1 : a[j] = s[j]
  BY <1>1, <1>2, SubSeqProperties
<1>4. /\ b \in Seq(T) /\ Len(b) = Len(s) - i
      /\ \A j \in 1..Len(s) - i : b[j] = s[i + j]
  BY <1>1, <1>2, SubSeqProperties
<1>5. RemoveAt(s, i) = a \o b
  BY DEF RemoveAt
<1> DEFINE c == a \o b
<1> HIDE DEF a, b
<1>6. /\ c \in Seq(T) /\ Len(c) = Len(s) - 1
      /\ \A j \in 1..Len(s) - 1 : c[j] = IF j < i THEN s[j] ELSE s[j + 1]
  <2>1. /\ c \in Seq(T) /\ Len(c) = Len(a) + Len(b)
        /\ \A j \in 1..Len(a) + Len(b) : c[j] = IF j <= Len(a) THEN a[j] ELSE b[j - Len(a)]
    BY <1>3, <1>4, ConcatProperties
  <2> HIDE DEF c
  <2>2. Len(a) + Len(b) = Len(s) - 1
    BY <1>1, <1>3, <1>4
  <2>3. ASSUME NEW j \in 1..Len(s) - 1
        PROVE  c[j] = IF j < i THEN s[j] ELSE s[j + 1]
    <3>1. CASE j < i
      BY <1>1, <1>3, <2>1, <2>2, <3>1
    <3>2. CASE j >= i
      <4>1. j - (i - 1) \in 1..Len(s) - i /\ i + (j - (i - 1)) = j + 1
        BY <1>1, <3>2
      <4> QED
        <5>1. c[j] = b[j - (i - 1)]
          BY <1>1, <1>3, <2>1, <2>2, <3>2
        <5> QED
          BY <1>4, <3>2, <4>1, <5>1
    <3> QED
      BY <1>1, <3>1, <3>2
  <2> QED
    BY <2>1, <2>2, <2>3
<1> HIDE DEF c
<1>7. Sequence(c)
  BY <1>6, SeqOfRange, Zenon DEF Sequence
<1>8. DOMAIN c = 1..Len(c)
  BY <1>6
<1> QED
  BY <1>5, <1>6, <1>7, <1>8 DEF c

-----------------------------------------------------------------------------
(***************************************************************************)
(* The ini parser.                                                         *)
(***************************************************************************)
\* An index from names to their positions, and nothing else in it.
Indexed(index, names) ==
  DOMAIN index = Range(names) /\ \A i \in DOMAIN names : index[names[i]] = i

\* An index that fits a list of names finds each at its place, and nothing else.
LEMMA Finds ==
  ASSUME NEW index, NEW names, NEW n \in Nat, DOMAIN names = 1..n, Indexed(index, names), NEW x
  PROVE  /\ Find(index, x) \in 0..n
         /\ Find(index, x) # 0 <=> x \in Range(names)
         /\ Find(index, x) # 0 => names[Find(index, x)] = x /\ index[x] = Find(index, x)
         /\ \A i \in 1..n : Find(index, names[i]) = i
  BY DEF Find, Indexed, Range

\* Emplacing the position of a name that was pushed back keeps the index fitting.
LEMMA IndexGrows ==
  ASSUME NEW index, NEW names, NEW n \in Nat, DOMAIN names = 1..n, Indexed(index, names),
         NEW x, Find(index, x) = 0, NEW more, DOMAIN more = 1..n+1, more[n + 1] = x,
         \A i \in 1..n : more[i] = names[i]
  PROVE  Indexed(Emplace(index, x, n + 1), more)
<1> DEFINE new == Emplace(index, x, n + 1)
<1>1. x \notin Range(names)
  BY Finds
<1>2. /\ DOMAIN new = DOMAIN index \cup {x} /\ new[x] = n + 1
      /\ \A y \in DOMAIN index : y # x => new[y] = index[y]
  BY DEF Emplace
<1>3. Range(more) = Range(names) \cup {x}
  BY DEF Range
<1> HIDE DEF new
<1>4. ASSUME NEW i \in 1..n+1 PROVE new[more[i]] = i
  <2>1. CASE i = n + 1
    BY <1>2, <2>1
  <2>2. CASE i \in 1..n
    BY <1>1, <1>2, <2>2 DEF Indexed, Range
  <2> QED
    BY <2>1, <2>2
<1>5. Indexed(new, more)
  BY <1>2, <1>3, <1>4 DEF Indexed
<1> QED
  BY <1>5 DEF new

\* Recomputing the positions after an erase keeps the index fitting.
LEMMA IndexShrinks ==
  ASSUME NEW index, NEW names, NEW n \in Nat, DOMAIN names = 1..n, Indexed(index, names),
         NEW i \in 1..n, NEW left, DOMAIN left = 1..n-1,
         \A j \in 1..n-1 : left[j] = IF j < i THEN names[j] ELSE names[j + 1]
  PROVE  Indexed(Reindexed(index, names[i], left), left)
<1> DEFINE new == Reindexed(index, names[i], left)
<1>1. \A j, k \in 1..n : names[j] = names[k] => j = k
  BY DEF Indexed
<1>2. \A j, k \in 1..n-1 : left[j] = left[k] => j = k
  <2> SUFFICES ASSUME NEW j \in 1..n-1, NEW k \in 1..n-1, left[j] = left[k] PROVE j = k
    OBVIOUS
  <2>1. j \in 1..n /\ k \in 1..n /\ j + 1 \in 1..n /\ k + 1 \in 1..n
    OBVIOUS
  <2> QED
    BY <1>1, <2>1
<1>3. Range(left) = Range(names) \ {names[i]}
  <2>1. ASSUME NEW j \in 1..n-1 PROVE left[j] \in Range(names) /\ left[j] # names[i]
    <3>1. \E k \in 1..n : k # i /\ left[j] = names[k]
      <4>1. j \in 1..n /\ j + 1 \in 1..n
        OBVIOUS
      <4> QED
        BY <4>1
    <3> QED
      BY <1>1, <3>1 DEF Range
  <2>2. ASSUME NEW j \in 1..n, j # i PROVE names[j] \in Range(left)
    <3>1. CASE j < i
      <4>1. j \in 1..n-1 /\ left[j] = names[j]
        BY <3>1
      <4> QED
        BY <4>1 DEF Range
    <3>2. CASE j > i
      <4>1. j - 1 \in 1..n-1 /\ left[j - 1] = names[j]
        BY <3>2
      <4> QED
        BY <4>1 DEF Range
    <3> QED
      BY <2>2, <3>1, <3>2
  <2> QED
    BY <2>1, <2>2 DEF Range
<1>4. DOMAIN new = Range(left)
  BY <1>3 DEF Indexed, Reindexed, Restrict
<1>5. ASSUME NEW j \in 1..n-1 PROVE new[left[j]] = j
  <2>1. {k \in DOMAIN left : left[k] = left[j]} = {j}
    BY <1>2
  <2>2. left[j] \in Range(left)
    BY DEF Range
  <2>3. new[left[j]] = Max({j})
    BY <1>3, <1>4, <2>1, <2>2 DEF Reindexed
  <2>4. Max({j}) = j
    BY DEF Max
  <2> QED
    BY <2>3, <2>4
<1> QED
  BY <1>4, <1>5 DEF Indexed

\* The names behind the one that is taken out move up by one.
LEMMA ShrunkFinds ==
  ASSUME NEW index, NEW names, NEW n \in Nat, DOMAIN names = 1..n, Indexed(index, names),
         NEW i \in 1..n, NEW left, DOMAIN left = 1..n-1,
         \A j \in 1..n-1 : left[j] = IF j < i THEN names[j] ELSE names[j + 1],
         NEW new, Indexed(new, left)
  PROVE  /\ Find(new, names[i]) = 0
         /\ \A x : x # names[i] /\ Find(index, x) = 0 => Find(new, x) = 0
         /\ \A x : x # names[i] /\ Find(index, x) # 0 =>
              /\ Find(index, x) # i
              /\ Find(new, x) = IF Find(index, x) < i THEN Find(index, x) ELSE Find(index, x) - 1
<1>0. n - 1 \in Nat
  OBVIOUS
<1>1. \A j \in 1..n : Find(index, names[j]) = j
  BY Finds
<1>2. ASSUME NEW x, Find(new, x) # 0
      PROVE  \E j \in 1..n : j # i /\ names[j] = x
  <2> DEFINE q == Find(new, x)
  <2>1. q \in 0..n-1 /\ left[q] = x
    BY <1>0, <1>2, Finds
  <2> HIDE DEF q
  <2>2. q \in 1..n-1 /\ q + 1 \in 1..n /\ q \in 1..n
    BY <1>2, <2>1 DEF q
  <2> QED
    BY <2>1, <2>2
<1>3. Find(new, names[i]) = 0
  BY <1>1, <1>2
<1>4. ASSUME NEW x, Find(index, x) = 0 PROVE Find(new, x) = 0
  BY <1>1, <1>2, <1>4
<1>5. ASSUME NEW x, x # names[i], Find(index, x) # 0
      PROVE  /\ Find(index, x) # i
             /\ Find(new, x) = IF Find(index, x) < i THEN Find(index, x) ELSE Find(index, x) - 1
  <2> DEFINE p == Find(index, x)
             q == IF p < i THEN p ELSE p - 1
  <2>1. p \in 0..n /\ p # 0 /\ names[p] = x
    BY <1>5, Finds
  <2> HIDE DEF p
  <2>2. p # i /\ p \in 1..n
    BY <1>5, <2>1
  <2>3. q \in 1..n-1 /\ left[q] = names[p]
    <3>1. CASE p < i
      BY <2>2, <3>1
    <3>2. CASE p > i
      BY <2>2, <3>2
    <3> QED
      BY <2>2, <3>1, <3>2
  <2>4. Find(new, left[q]) = q
    <3> HIDE DEF q
    <3> QED
      BY <1>0, <2>3, Finds
  <2> QED
    BY <2>1, <2>2, <2>3, <2>4 DEF p
<1> QED
  BY <1>3, <1>4, <1>5

NamesOf(sections) == [i \in DOMAIN sections |-> sections[i].name]
KeysOf(entries) == [i \in DOMAIN entries |-> entries[i].key]

\* The entries of a section, and the sections, each have their index.
BodyOk(b) ==
  /\ b = [entries |-> b.entries, index |-> b.index]
  /\ Sequence(b.entries) /\ Indexed(b.index, KeysOf(b.entries))
SectionOk(sec) == sec = [name |-> sec.name, body |-> sec.body] /\ BodyOk(sec.body)
StoreOk(st) ==
  /\ st = [sections |-> st.sections, sec_index |-> st.sec_index]
  /\ Sequence(st.sections) /\ Indexed(st.sec_index, NamesOf(st.sections))
  /\ \A i \in DOMAIN st.sections : SectionOk(st.sections[i])

\* What a section answers for a key.
Value(e) == [kind |-> e.kind, value |-> e.value]
Says(b, k) == IF Find(b.index, k) = 0 THEN Absent ELSE Value(b.entries[Find(b.index, k)])

\* The index of the sections answers with the section of the name.
LEMMA SectionFinds ==
  ASSUME NEW st, StoreOk(st), NEW s
  PROVE  /\ Len(st.sections) \in Nat /\ DOMAIN st.sections = 1..Len(st.sections)
         /\ Find(st.sec_index, s) \in 0..Len(st.sections)
         /\ Find(st.sec_index, s) # 0 => st.sections[Find(st.sec_index, s)].name = s
         /\ \A i \in 1..Len(st.sections) : Find(st.sec_index, st.sections[i].name) = i
<1>1. Len(st.sections) \in Nat /\ DOMAIN st.sections = 1..Len(st.sections)
  BY SequenceIs DEF StoreOk
<1>2. /\ DOMAIN NamesOf(st.sections) = 1..Len(st.sections)
      /\ \A i \in 1..Len(st.sections) : NamesOf(st.sections)[i] = st.sections[i].name
  BY <1>1 DEF NamesOf
<1>3. Indexed(st.sec_index, NamesOf(st.sections))
  BY DEF StoreOk
<1> QED
  BY <1>1, <1>2, <1>3, Finds

\* The index of a section answers with the entry of the key.
LEMMA KeyFinds ==
  ASSUME NEW b, BodyOk(b), NEW k
  PROVE  /\ Len(b.entries) \in Nat /\ DOMAIN b.entries = 1..Len(b.entries)
         /\ Find(b.index, k) \in 0..Len(b.entries)
         /\ Find(b.index, k) # 0 => /\ b.entries[Find(b.index, k)].key = k
                                    /\ b.index[k] = Find(b.index, k)
         /\ \A i \in 1..Len(b.entries) : Find(b.index, b.entries[i].key) = i
<1>1. Len(b.entries) \in Nat /\ DOMAIN b.entries = 1..Len(b.entries)
  BY SequenceIs DEF BodyOk
<1>2. /\ DOMAIN KeysOf(b.entries) = 1..Len(b.entries)
      /\ \A i \in 1..Len(b.entries) : KeysOf(b.entries)[i] = b.entries[i].key
  BY <1>1 DEF KeysOf
<1>3. Indexed(b.index, KeysOf(b.entries))
  BY DEF BodyOk
<1> QED
  BY <1>1, <1>2, <1>3, Finds

\* A lookup asks the section's index for what its entry says.
LEMMA GetAsks ==
  ASSUME NEW st, StoreOk(st), NEW s, NEW k
  PROVE  Get(st, s, k) = IF Find(st.sec_index, s) = 0 THEN Absent
                         ELSE Says(st.sections[Find(st.sec_index, s)].body, k)
<1> DEFINE at == Find(st.sec_index, s)
           b == st.sections[at].body
<1>1. Get(st, s, k) = IF at = 0 \/ Find(b.index, k) = 0 THEN Absent ELSE Value(b.entries[b.index[k]])
  BY DEF Get, Value
<1>2. CASE at = 0
  <2> HIDE DEF at, b
  <2>1. Get(st, s, k) = IF at = 0 THEN Absent ELSE Says(b, k)
    BY <1>1, <1>2
  <2> QED
    BY <2>1 DEF at, b
<1>3. CASE at # 0
  <2>1. at \in 1..Len(st.sections) /\ DOMAIN st.sections = 1..Len(st.sections)
    BY <1>3, SectionFinds
  <2>2. BodyOk(b)
    <3> HIDE DEF at
    <3> QED
      BY <2>1 DEF StoreOk, SectionOk
  <2> HIDE DEF at, b
  <2>3. Find(b.index, k) # 0 => b.index[k] = Find(b.index, k)
    BY <2>2, KeyFinds
  <2>4. Get(st, s, k) = IF at = 0 THEN Absent ELSE Says(b, k)
    BY <1>1, <1>3, <2>3 DEF Says
  <2> QED
    BY <2>4 DEF at, b
<1> QED
  BY <1>2, <1>3

\* A parser that holds nothing is well formed and answers nothing.
LEMMA EmptyIsOk ==
  /\ BodyOk(NoEntries) /\ \A k : Says(NoEntries, k) = Absent
  /\ StoreOk(EmptyStore) /\ \A s, k : Get(EmptyStore, s, k) = Absent
<1>1. DOMAIN <<>> = {} /\ Sequence(<<>>)
  BY DEF Sequence
<1>2. \A x : Find(<<>>, x) = 0
  BY <1>1 DEF Find
<1>3. Indexed(<<>>, NamesOf(<<>>)) /\ Indexed(<<>>, KeysOf(<<>>))
  BY <1>1 DEF Indexed, NamesOf, KeysOf, Range
<1>4. BodyOk(NoEntries) /\ \A k : Says(NoEntries, k) = Absent
  BY <1>1, <1>2, <1>3 DEF BodyOk, NoEntries, Says
<1>5. StoreOk(EmptyStore)
  BY <1>1, <1>3 DEF StoreOk, EmptyStore
<1>6. \A s, k : Get(EmptyStore, s, k) = Absent
  BY <1>2 DEF Get, EmptyStore
<1> QED
  BY <1>4, <1>5, <1>6

\* Making a section changes no answer.
LEMMA EnsureKeeps ==
  ASSUME NEW st, StoreOk(st), NEW s
  PROVE  /\ StoreOk(EnsureSection(st, s)) /\ Find(EnsureSection(st, s).sec_index, s) # 0
         /\ \A x, k : Get(EnsureSection(st, s), x, k) = Get(st, x, k)
<1> DEFINE u == EnsureSection(st, s)
           n == Len(st.sections)
           fresh == [name |-> s, body |-> NoEntries]
<1>1. CASE Find(st.sec_index, s) # 0
  BY <1>1 DEF EnsureSection
<1>2. CASE Find(st.sec_index, s) = 0
  <2>1. u.sections = Append(st.sections, fresh) /\ u.sec_index = Emplace(st.sec_index, s, n + 1)
        /\ u = [sections |-> u.sections, sec_index |-> u.sec_index]
    BY <1>2 DEF EnsureSection
  <2>2. /\ n \in Nat /\ DOMAIN st.sections = 1..n /\ Sequence(st.sections)
        /\ Indexed(st.sec_index, NamesOf(st.sections))
        /\ \A i \in 1..n : SectionOk(st.sections[i])
    BY SectionFinds DEF StoreOk
  <2> HIDE DEF u, n
  <2>3. /\ Sequence(u.sections) /\ DOMAIN u.sections = 1..n + 1
        /\ \A i \in 1..n : u.sections[i] = st.sections[i]
        /\ u.sections[n + 1] = fresh
    BY <2>1, <2>2, Longer DEF n
  <2>4. Indexed(u.sec_index, NamesOf(u.sections))
    <3>1. /\ DOMAIN NamesOf(st.sections) = 1..n /\ DOMAIN NamesOf(u.sections) = 1..n + 1
          /\ NamesOf(u.sections)[n + 1] = s
          /\ \A i \in 1..n : NamesOf(u.sections)[i] = NamesOf(st.sections)[i]
      BY <2>2, <2>3 DEF NamesOf
    <3> QED
      BY <1>2, <2>1, <2>2, <3>1, IndexGrows
  <2>5. \A i \in 1..n + 1 : SectionOk(u.sections[i])
    <3>1. SectionOk(fresh)
      BY EmptyIsOk DEF SectionOk
    <3> QED
      BY <2>2, <2>3, <3>1
  <2>6. StoreOk(u)
    BY <2>1, <2>3, <2>4, <2>5 DEF StoreOk
  <2>7. /\ Find(u.sec_index, s) = n + 1
        /\ \A x : x # s => Find(u.sec_index, x) = Find(st.sec_index, x)
    BY <2>1 DEF Find, Emplace
  <2>8. ASSUME NEW x, NEW k PROVE Get(u, x, k) = Get(st, x, k)
    <3>1. CASE x = s
      <4>1. Get(u, x, k) = Says(NoEntries, k)
        BY <2>2, <2>3, <2>6, <2>7, <3>1, GetAsks
      <4> QED
        BY <1>2, <3>1, <4>1, EmptyIsOk, GetAsks
    <3>2. CASE x # s
      <4>1. Find(st.sec_index, x) \in 0..n
        BY SectionFinds DEF n
      <4> QED
        BY <2>2, <2>3, <2>6, <2>7, <3>2, <4>1, GetAsks
    <3> QED
      BY <3>1, <3>2
  <2> QED
    BY <2>2, <2>6, <2>7, <2>8 DEF u
<1> QED
  BY <1>1, <1>2

\* What a change of one section's entries does to the answers.
LEMMA BodyChanges ==
  ASSUME NEW st, StoreOk(st), NEW i \in 1..Len(st.sections), NEW b, BodyOk(b),
         NEW u, u = [st EXCEPT !.sections[i].body = b]
  PROVE  /\ StoreOk(u)
         /\ \A x, k : Get(u, x, k) = IF x = st.sections[i].name THEN Says(b, k) ELSE Get(st, x, k)
<1> DEFINE n == Len(st.sections)
<1>1. /\ n \in Nat /\ DOMAIN st.sections = 1..n /\ Sequence(st.sections)
      /\ \A j \in 1..n : SectionOk(st.sections[j])
      /\ st = [sections |-> st.sections, sec_index |-> st.sec_index]
  BY SectionFinds DEF StoreOk
<1>2. /\ u.sections = [st.sections EXCEPT ![i].body = b] /\ u.sec_index = st.sec_index
      /\ u = [sections |-> u.sections, sec_index |-> u.sec_index]
  <2> DEFINE r == [st.sections EXCEPT ![i].body = b]
  <2>1. u = [st EXCEPT !.sections = r]
    OBVIOUS
  <2> HIDE DEF r
  <2>2. u = [sections |-> r, sec_index |-> st.sec_index]
    BY <1>1, <2>1
  <2> QED
    BY <2>2 DEF r
<1> HIDE DEF n
<1>3. /\ DOMAIN u.sections = 1..n /\ u.sections = [j \in 1..n |-> u.sections[j]]
      /\ \A j \in 1..n : j # i => u.sections[j] = st.sections[j]
      /\ u.sections[i] = [st.sections[i] EXCEPT !.body = b]
  BY <1>1, <1>2 DEF n
<1>4. u.sections[i] = [name |-> st.sections[i].name, body |-> b]
  <2> DEFINE sec == st.sections[i]
  <2>1. SectionOk(sec)
    BY <1>1 DEF n
  <2>2. u.sections[i] = [sec EXCEPT !.body = b]
    BY <1>3
  <2> HIDE DEF sec
  <2>3. u.sections[i] = [name |-> sec.name, body |-> b]
    BY <2>1, <2>2 DEF SectionOk
  <2> QED
    BY <2>3 DEF sec
<1>5. Sequence(u.sections)
  BY <1>1, <1>3, SequenceFrom
<1>6. NamesOf(u.sections) = NamesOf(st.sections)
  BY <1>1, <1>3, <1>4 DEF NamesOf
<1>7. \A j \in 1..n : SectionOk(u.sections[j])
  BY <1>1, <1>3, <1>4 DEF SectionOk
<1>8. StoreOk(u)
  BY <1>2, <1>3, <1>5, <1>6, <1>7 DEF StoreOk
<1>9. ASSUME NEW x, NEW k
      PROVE  Get(u, x, k) = IF x = st.sections[i].name THEN Says(b, k) ELSE Get(st, x, k)
  <2> DEFINE at == Find(st.sec_index, x)
  <2>1. at \in 0..n /\ (at # 0 => st.sections[at].name = x) /\ Find(st.sec_index, st.sections[i].name) = i
    BY SectionFinds DEF n
  <2>2. Get(u, x, k) = IF at = 0 THEN Absent ELSE Says(u.sections[at].body, k)
    <3>1. Get(u, x, k) = IF Find(u.sec_index, x) = 0 THEN Absent
                         ELSE Says(u.sections[Find(u.sec_index, x)].body, k)
      BY <1>8, GetAsks
    <3> QED
      BY <1>2, <3>1
  <2>3. Get(st, x, k) = IF at = 0 THEN Absent ELSE Says(st.sections[at].body, k)
    BY GetAsks
  <2>4. i # 0 /\ i \in 1..n
    BY DEF n
  <2>5. x = st.sections[i].name <=> at = i
    BY <2>1, <2>4
  <2> HIDE DEF at
  <2> QED
    BY <1>3, <1>4, <2>1, <2>2, <2>3, <2>4, <2>5
<1> QED
  BY <1>8, <1>9

\* upsert, in a section: the entry is changed where it is, or added behind.
PutIn(b, k, e) ==
  LET at == Find(b.index, k)
      entry == [key |-> k, kind |-> e.kind, value |-> e.value]
  IN IF at # 0 THEN [b EXCEPT !.entries[at] = entry]
     ELSE [entries |-> Append(b.entries, entry), index |-> Emplace(b.index, k, Len(b.entries) + 1)]

\* Putting an entry into a section changes the answer for its key only.
LEMMA PutKeeps ==
  ASSUME NEW b, BodyOk(b), NEW k, NEW e
  PROVE  /\ BodyOk(PutIn(b, k, e))
         /\ \A x : Says(PutIn(b, k, e), x) = IF x = k THEN Value(e) ELSE Says(b, x)
<1> DEFINE c == PutIn(b, k, e)
           n == Len(b.entries)
           at == Find(b.index, k)
           entry == [key |-> k, kind |-> e.kind, value |-> e.value]
<1>1. /\ n \in Nat /\ DOMAIN b.entries = 1..n /\ Sequence(b.entries) /\ at \in 0..n
      /\ Indexed(b.index, KeysOf(b.entries)) /\ b = [entries |-> b.entries, index |-> b.index]
      /\ at # 0 => b.entries[at].key = k
      /\ \A i \in 1..n : Find(b.index, b.entries[i].key) = i
  BY KeyFinds DEF BodyOk
<1>2. entry.key = k /\ Value(entry) = Value(e)
  BY DEF Value
<1>3. \A x : Find(b.index, x) \in 0..n
  BY KeyFinds
<1>4. CASE at # 0
  <2>1. /\ c.entries = [b.entries EXCEPT ![at] = entry] /\ c.index = b.index
        /\ c = [entries |-> c.entries, index |-> c.index]
    <3> DEFINE r == [b.entries EXCEPT ![at] = entry]
    <3>1. c = [b EXCEPT !.entries = r]
      BY <1>4 DEF PutIn
    <3> HIDE DEF c, r
    <3>2. c = [entries |-> r, index |-> b.index]
      BY <1>1, <3>1
    <3> QED
      BY <3>2 DEF r
  <2> HIDE DEF c, n, entry
  <2>2. /\ DOMAIN c.entries = 1..n
        /\ \A i \in 1..n : i # at => c.entries[i] = b.entries[i]
        /\ c.entries[at] = entry
    BY <1>1, <1>4, <2>1
  <2>3. Sequence(c.entries)
    <3>1. c.entries = [i \in 1..n |-> c.entries[i]]
      BY <1>1, <2>1
    <3> QED
      BY <1>1, <3>1, SequenceFrom
  <2>4. KeysOf(c.entries) = KeysOf(b.entries)
    BY <1>1, <1>2, <1>4, <2>2 DEF KeysOf
  <2>5. BodyOk(c)
    BY <1>1, <2>1, <2>3, <2>4 DEF BodyOk
  <2>6. ASSUME NEW x PROVE x = k <=> Find(b.index, x) = at
    <3>1. Find(b.index, x) # 0 => b.entries[Find(b.index, x)].key = x
      BY KeyFinds
    <3> QED
      BY <1>1, <1>4, <3>1
  <2>7. \A x : Says(c, x) = IF x = k THEN Value(e) ELSE Says(b, x)
    BY <1>2, <1>3, <1>4, <2>1, <2>2, <2>6 DEF Says
  <2> QED
    BY <2>5, <2>7 DEF c
<1>5. CASE at = 0
  <2>1. /\ c.entries = Append(b.entries, entry) /\ c.index = Emplace(b.index, k, n + 1)
        /\ c = [entries |-> c.entries, index |-> c.index]
    BY <1>5 DEF PutIn
  <2> HIDE DEF c, n, entry
  <2>2. /\ Sequence(c.entries) /\ DOMAIN c.entries = 1..n + 1
        /\ \A i \in 1..n : c.entries[i] = b.entries[i]
        /\ c.entries[n + 1] = entry
    BY <1>1, <2>1, Longer DEF n
  <2>3. Indexed(c.index, KeysOf(c.entries))
    <3>1. /\ DOMAIN KeysOf(b.entries) = 1..n /\ DOMAIN KeysOf(c.entries) = 1..n + 1
          /\ KeysOf(c.entries)[n + 1] = k
          /\ \A i \in 1..n : KeysOf(c.entries)[i] = KeysOf(b.entries)[i]
      BY <1>1, <1>2, <2>2 DEF KeysOf
    <3> QED
      BY <1>1, <1>5, <2>1, <3>1, IndexGrows
  <2>4. BodyOk(c)
    BY <2>1, <2>2, <2>3 DEF BodyOk
  <2>5. /\ Find(c.index, k) = n + 1
        /\ \A x : x # k => Find(c.index, x) = Find(b.index, x)
    BY <2>1 DEF Find, Emplace
  <2>6. \A x : Says(c, x) = IF x = k THEN Value(e) ELSE Says(b, x)
    BY <1>1, <1>2, <1>3, <2>2, <2>5 DEF Says
  <2> QED
    BY <2>4, <2>6 DEF c
<1> QED
  BY <1>4, <1>5

\* A setter changes the answer for its section and key only.
LEMMA UpsertKeeps ==
  ASSUME NEW st, StoreOk(st), NEW s, NEW k, NEW e
  PROVE  /\ StoreOk(Upsert(st, s, k, e))
         /\ \A x, y : Get(Upsert(st, s, k, e), x, y) = IF x = s /\ y = k THEN Value(e) ELSE Get(st, x, y)
<1> DEFINE v == EnsureSection(st, s)
           i == Find(v.sec_index, s)
           b == v.sections[i].body
<1>1. StoreOk(v) /\ i # 0 /\ \A x, y : Get(v, x, y) = Get(st, x, y)
  BY EnsureKeeps
<1>2. Upsert(st, s, k, e) = [v EXCEPT !.sections[i].body = PutIn(b, k, e)]
  BY DEF Upsert, PutIn
<1> HIDE DEF v
<1>3. i \in 1..Len(v.sections) /\ v.sections[i].name = s /\ DOMAIN v.sections = 1..Len(v.sections)
  <2>1. StoreOk(v) /\ i # 0
    BY <1>1
  <2>2. /\ Len(v.sections) \in Nat /\ DOMAIN v.sections = 1..Len(v.sections)
        /\ i \in 0..Len(v.sections) /\ v.sections[i].name = s
    BY <2>1, SectionFinds
  <2> HIDE DEF i
  <2> QED
    BY <2>1, <2>2
<1>4. \A y : Get(v, s, y) = Says(b, y)
  BY <1>1, GetAsks
<1> HIDE DEF i
<1>5. BodyOk(b)
  BY <1>1, <1>3 DEF StoreOk, SectionOk
<1> HIDE DEF b
<1>6. BodyOk(PutIn(b, k, e)) /\ \A y : Says(PutIn(b, k, e), y) = IF y = k THEN Value(e) ELSE Says(b, y)
  BY <1>5, PutKeeps
<1> DEFINE c == PutIn(b, k, e)
           u == [v EXCEPT !.sections[i].body = c]
<1> HIDE DEF c
<1>7. StoreOk(u) /\ \A x, y : Get(u, x, y) = IF x = s THEN Says(c, y) ELSE Get(v, x, y)
  <2>1. StoreOk(v) /\ BodyOk(c) /\ i \in 1..Len(v.sections)
    BY <1>1, <1>3, <1>6 DEF c
  <2>2. StoreOk(u) /\ \A x, y : Get(u, x, y) = IF x = v.sections[i].name THEN Says(c, y) ELSE Get(v, x, y)
    BY <2>1, BodyChanges
  <2> HIDE DEF u
  <2> QED
    BY <1>3, <2>2
<1> HIDE DEF u
<1>8. \A x, y : Get(u, x, y) = IF x = s /\ y = k THEN Value(e) ELSE Get(st, x, y)
  BY <1>1, <1>4, <1>6, <1>7 DEF c
<1> QED
  BY <1>2, <1>7, <1>8 DEF u, c

\* remove, in a section: the entries behind move up.
TakenOut(b, k) ==
  LET i == Find(b.index, k)
      left == RemoveAt(b.entries, i)
  IN IF i = 0 THEN b
     ELSE [entries |-> left, index |-> Reindexed(b.index, k, [j \in DOMAIN left |-> left[j].key])]

\* Taking an entry out of a section ends the answer for its key only.
LEMMA TakeKeeps ==
  ASSUME NEW b, BodyOk(b), NEW k
  PROVE  /\ BodyOk(TakenOut(b, k))
         /\ \A x : Says(TakenOut(b, k), x) = IF x = k THEN Absent ELSE Says(b, x)
<1> DEFINE i == Find(b.index, k)
           n == Len(b.entries)
           left == RemoveAt(b.entries, i)
           c == TakenOut(b, k)
<1>1. CASE i = 0
  BY <1>1 DEF TakenOut, Says
<1>2. CASE i # 0
  <2>1. /\ n \in Nat /\ DOMAIN b.entries = 1..n /\ Sequence(b.entries) /\ i \in 1..n
        /\ Indexed(b.index, KeysOf(b.entries)) /\ b.entries[i].key = k
    <3>1. /\ n \in Nat /\ DOMAIN b.entries = 1..n /\ i \in 0..n
          /\ i # 0 => b.entries[i].key = k
      BY KeyFinds
    <3>2. Sequence(b.entries) /\ Indexed(b.index, KeysOf(b.entries))
      BY DEF BodyOk
    <3> HIDE DEF i, n
    <3> QED
      BY <1>2, <3>1, <3>2
  <2>2. /\ c = [entries |-> left, index |-> Reindexed(b.index, k, KeysOf(left))]
    BY <1>2 DEF TakenOut, KeysOf
  <2>3. /\ Sequence(left) /\ DOMAIN left = 1..n-1
        /\ \A j \in 1..n-1 : left[j] = IF j < i THEN b.entries[j] ELSE b.entries[j + 1]
    <3> HIDE DEF i
    <3> QED
      BY <2>1, Shorter
  <2>4. \A x : Find(b.index, x) \in 0..n
    BY KeyFinds
  <2> HIDE DEF c, left, n, i
  <2>5. /\ c.entries = left /\ c.index = Reindexed(b.index, k, KeysOf(left))
        /\ c = [entries |-> c.entries, index |-> c.index]
    BY <2>2
  <2>6. /\ DOMAIN KeysOf(b.entries) = 1..n /\ KeysOf(b.entries)[i] = k
        /\ DOMAIN KeysOf(left) = 1..n-1
    BY <2>1, <2>3 DEF KeysOf
  <2>7. \A j \in 1..n-1 : KeysOf(left)[j] = IF j < i THEN KeysOf(b.entries)[j] ELSE KeysOf(b.entries)[j + 1]
    BY <2>1, <2>3 DEF KeysOf
  <2>8. Indexed(c.index, KeysOf(left))
    BY <2>1, <2>5, <2>6, <2>7, IndexShrinks
  <2>9. BodyOk(c)
    BY <2>3, <2>5, <2>8 DEF BodyOk
  <2>10. /\ Find(c.index, k) = 0
         /\ \A x : x # k /\ Find(b.index, x) = 0 => Find(c.index, x) = 0
         /\ \A x : x # k /\ Find(b.index, x) # 0 =>
              /\ Find(b.index, x) # i
              /\ Find(c.index, x) = IF Find(b.index, x) < i THEN Find(b.index, x) ELSE Find(b.index, x) - 1
    <3> DEFINE names == KeysOf(b.entries)
               kept == KeysOf(left)
    <3>1. /\ DOMAIN names = 1..n /\ names[i] = k /\ DOMAIN kept = 1..n-1
          /\ Indexed(b.index, names) /\ Indexed(c.index, kept)
          /\ \A j \in 1..n-1 : kept[j] = IF j < i THEN names[j] ELSE names[j + 1]
      BY <2>1, <2>6, <2>7, <2>8
    <3> HIDE DEF names, kept
    <3> QED
      BY <2>1, <3>1, ShrunkFinds
  <2>11. ASSUME NEW x PROVE Says(c, x) = IF x = k THEN Absent ELSE Says(b, x)
    <3>1. CASE x = k
      BY <2>10, <3>1 DEF Says
    <3>2. CASE x # k /\ Find(b.index, x) = 0
      BY <2>10, <3>2 DEF Says
    <3>3. CASE x # k /\ Find(b.index, x) # 0
      <4> DEFINE p == Find(b.index, x)
                 q == Find(c.index, x)
      <4>1. p \in 0..n /\ p # i /\ q = IF p < i THEN p ELSE p - 1
        BY <2>4, <2>10, <3>3
      <4>2. p # 0
        BY <3>3
      <4> HIDE DEF p, q
      <4>3. q # 0 /\ left[q] = b.entries[p]
        BY <2>1, <2>3, <4>1, <4>2
      <4> QED
        BY <2>5, <3>3, <4>2, <4>3 DEF Says, p, q
    <3> QED
      BY <3>1, <3>2, <3>3
  <2> QED
    BY <2>9, <2>11 DEF c
<1> QED
  BY <1>1, <1>2

\* Removing a key ends the answer for it only, wherever its entry stood.
LEMMA RemoveKeyKeeps ==
  ASSUME NEW st, StoreOk(st), NEW s, NEW k
  PROVE  /\ StoreOk(RemoveKey(st, s, k))
         /\ \A x, y : Get(RemoveKey(st, s, k), x, y) = IF x = s /\ y = k THEN Absent ELSE Get(st, x, y)
<1> DEFINE i == Find(st.sec_index, s)
           b == st.sections[i].body
           u == RemoveKey(st, s, k)
<1>1. CASE i = 0
  <2>1. u = st
    BY <1>1 DEF RemoveKey
  <2>2. \A y : Get(st, s, y) = Absent
    BY <1>1, GetAsks
  <2> QED
    BY <2>1, <2>2
<1>2. CASE i # 0
  <2>1. u = [st EXCEPT !.sections[i].body = TakenOut(b, k)]
    BY <1>2 DEF RemoveKey, TakenOut
  <2>2. i \in 1..Len(st.sections) /\ st.sections[i].name = s /\ DOMAIN st.sections = 1..Len(st.sections)
    BY <1>2, SectionFinds
  <2>3. \A y : Get(st, s, y) = Says(b, y)
    BY <1>2, GetAsks
  <2> HIDE DEF i, u
  <2>4. BodyOk(b)
    BY <2>2 DEF StoreOk, SectionOk
  <2> HIDE DEF b
  <2>5. BodyOk(TakenOut(b, k)) /\ \A y : Says(TakenOut(b, k), y) = IF y = k THEN Absent ELSE Says(b, y)
    BY <2>4, TakeKeeps
  <2>6. StoreOk(u) /\ \A x, y : Get(u, x, y) = IF x = s THEN Says(TakenOut(b, k), y) ELSE Get(st, x, y)
    BY <2>1, <2>2, <2>5, BodyChanges
  <2> QED
    BY <2>3, <2>5, <2>6 DEF u
<1> QED
  BY <1>1, <1>2

\* Removing a section ends the answers for its keys only.
LEMMA RemoveSectionKeeps ==
  ASSUME NEW st, StoreOk(st), NEW s
  PROVE  /\ StoreOk(RemoveSection(st, s))
         /\ \A x, y : Get(RemoveSection(st, s), x, y) = IF x = s THEN Absent ELSE Get(st, x, y)
<1> DEFINE i == Find(st.sec_index, s)
           n == Len(st.sections)
           left == RemoveAt(st.sections, i)
           u == RemoveSection(st, s)
<1>1. CASE i = 0
  <2>1. u = st
    BY <1>1 DEF RemoveSection
  <2>2. \A y : Get(st, s, y) = Absent
    BY <1>1, GetAsks
  <2> QED
    BY <2>1, <2>2
<1>2. CASE i # 0
  <2>1. /\ n \in Nat /\ DOMAIN st.sections = 1..n /\ Sequence(st.sections) /\ i \in 1..n
        /\ Indexed(st.sec_index, NamesOf(st.sections)) /\ st.sections[i].name = s
        /\ \A j \in 1..n : SectionOk(st.sections[j])
    <3>1. /\ n \in Nat /\ DOMAIN st.sections = 1..n /\ i \in 0..n
          /\ i # 0 => st.sections[i].name = s
      BY SectionFinds
    <3>2. /\ Sequence(st.sections) /\ Indexed(st.sec_index, NamesOf(st.sections))
          /\ \A j \in DOMAIN st.sections : SectionOk(st.sections[j])
      BY DEF StoreOk
    <3> HIDE DEF i, n
    <3> QED
      BY <1>2, <3>1, <3>2
  <2>2. u = [sections |-> left, sec_index |-> Reindexed(st.sec_index, s, NamesOf(left))]
    BY <1>2 DEF RemoveSection, NamesOf
  <2>3. /\ Sequence(left) /\ DOMAIN left = 1..n-1
        /\ \A j \in 1..n-1 : left[j] = IF j < i THEN st.sections[j] ELSE st.sections[j + 1]
    <3> HIDE DEF i
    <3> QED
      BY <2>1, Shorter
  <2>4. \A x : Find(st.sec_index, x) \in 0..n
    BY SectionFinds
  <2> HIDE DEF u, left, n, i
  <2>5. /\ u.sections = left /\ u.sec_index = Reindexed(st.sec_index, s, NamesOf(left))
        /\ u = [sections |-> u.sections, sec_index |-> u.sec_index]
    BY <2>2
  <2>6. /\ DOMAIN NamesOf(st.sections) = 1..n /\ NamesOf(st.sections)[i] = s
        /\ DOMAIN NamesOf(left) = 1..n-1
    BY <2>1, <2>3 DEF NamesOf
  <2>7. \A j \in 1..n-1 : NamesOf(left)[j] = IF j < i THEN NamesOf(st.sections)[j] ELSE NamesOf(st.sections)[j + 1]
    BY <2>1, <2>3 DEF NamesOf
  <2>8. Indexed(u.sec_index, NamesOf(left))
    BY <2>1, <2>5, <2>6, <2>7, IndexShrinks
  <2>9. ASSUME NEW j \in 1..n-1 PROVE SectionOk(left[j])
    <3>1. j \in 1..n /\ j + 1 \in 1..n
      BY <2>1
    <3>2. SectionOk(st.sections[j]) /\ SectionOk(st.sections[j + 1])
      BY <2>1, <3>1
    <3> QED
      BY <2>3, <3>2
  <2>10. StoreOk(u)
    BY <2>3, <2>5, <2>8, <2>9 DEF StoreOk
  <2>11. /\ Find(u.sec_index, s) = 0
         /\ \A x : x # s /\ Find(st.sec_index, x) = 0 => Find(u.sec_index, x) = 0
         /\ \A x : x # s /\ Find(st.sec_index, x) # 0 =>
              /\ Find(st.sec_index, x) # i
              /\ Find(u.sec_index, x) = IF Find(st.sec_index, x) < i THEN Find(st.sec_index, x)
                                        ELSE Find(st.sec_index, x) - 1
    <3> DEFINE names == NamesOf(st.sections)
               kept == NamesOf(left)
    <3>1. /\ DOMAIN names = 1..n /\ names[i] = s /\ DOMAIN kept = 1..n-1
          /\ Indexed(st.sec_index, names) /\ Indexed(u.sec_index, kept)
          /\ \A j \in 1..n-1 : kept[j] = IF j < i THEN names[j] ELSE names[j + 1]
      BY <2>1, <2>6, <2>7, <2>8
    <3> HIDE DEF names, kept
    <3> QED
      BY <2>1, <3>1, ShrunkFinds
  <2>12. ASSUME NEW x, NEW y PROVE Get(u, x, y) = IF x = s THEN Absent ELSE Get(st, x, y)
    <3> DEFINE p == Find(st.sec_index, x)
               q == Find(u.sec_index, x)
    <3>1. Get(u, x, y) = IF q = 0 THEN Absent ELSE Says(u.sections[q].body, y)
      BY <2>10, GetAsks
    <3>2. Get(st, x, y) = IF p = 0 THEN Absent ELSE Says(st.sections[p].body, y)
      BY GetAsks
    <3>3. CASE x = s
      BY <2>11, <3>1, <3>3
    <3>4. CASE x # s /\ p = 0
      BY <2>11, <3>1, <3>2, <3>4
    <3>5. CASE x # s /\ p # 0
      <4>1. p \in 0..n /\ p # i /\ q = IF p < i THEN p ELSE p - 1
        BY <2>4, <2>11, <3>5
      <4> HIDE DEF p, q
      <4>2. q # 0 /\ left[q] = st.sections[p]
        BY <2>1, <2>3, <3>5, <4>1
      <4> QED
        BY <2>5, <3>1, <3>2, <3>5, <4>2
    <3> QED
      BY <3>3, <3>4, <3>5
  <2> QED
    BY <2>10, <2>12 DEF u
<1> QED
  BY <1>1, <1>2

-----------------------------------------------------------------------------
\* Counting up to n.
LEMMA CountUp ==
  ASSUME NEW n \in Nat, NEW S, 0 \in S, \A m \in 0..n-1 : m \in S => m + 1 \in S
  PROVE  0..n \subseteq S
<1> DEFINE T == {m \in Nat : m \in 0..n /\ m \notin S}
<1> SUFFICES ASSUME T # {} PROVE FALSE
  OBVIOUS
<1>1. PICK m \in T : \A j \in T : m =< j
  BY HasLeast
<1>2. m # 0 /\ m \in 0..n
  BY <1>1
<1>3. m - 1 \in 0..n-1 /\ m - 1 \in Nat
  BY <1>2
<1>4. m - 1 \in S
  BY <1>1, <1>2, <1>3
<1> QED
  BY <1>1, <1>3, <1>4

\* A line belongs to the section of the last header before it.
Governs(lines, h, i) ==
  h < i /\ lines[h].tag = "section" /\ \A j \in h+1..i-1 : lines[j].tag # "section"
BelongsTo(lines, i, s) ==
  \/ \E h \in DOMAIN lines : Governs(lines, h, i) /\ lines[h].name = s
  \/ s = NoName /\ \A h \in 1..i-1 : lines[h].tag # "section"
SaysOf(lines, i, s, k) == lines[i].tag = "pair" /\ lines[i].key = k /\ BelongsTo(lines, i, s)

\* What a line does to what load() has built.
Scanner(in) == in = [st |-> in.st, current |-> in.current]

\* A header makes its section and goes to it.
LEMMA ReadHeader ==
  ASSUME NEW before, NEW line, line.tag = "section"
  PROVE  ReadLine(before, line) = [st |-> EnsureSection(before.st, line.name), current |-> line.name]
  BY DEF ReadLine

\* A line with a key sets it in the section the scan is in.
LEMMA ReadPair ==
  ASSUME NEW before, Scanner(before), NEW line, line.tag = "pair"
  PROVE  ReadLine(before, line) =
           [st |-> Upsert(before.st, before.current, line.key, ReadBack(line.text)), current |-> before.current]
<1> DEFINE u == Upsert(before.st, before.current, line.key, ReadBack(line.text))
<1>1. ReadLine(before, line) = [before EXCEPT !.st = u]
  BY DEF ReadLine
<1> HIDE DEF u
<1>2. ReadLine(before, line) = [st |-> u, current |-> before.current]
  BY <1>1 DEF Scanner
<1> QED
  BY <1>2 DEF u

\* Any other line is skipped.
LEMMA ReadOther ==
  ASSUME NEW before, NEW line, line.tag \notin {"section", "pair"} PROVE ReadLine(before, line) = before
  BY DEF ReadLine

\* After so many lines the scan is in the section of the last header.
LEMMA CurrentSection ==
  ASSUME NEW lines, Sequence(lines), NEW m \in 0..Len(lines)
  PROVE  Scanner(Reading(lines)[m]) /\ \A s : Reading(lines)[m].current = s <=> BelongsTo(lines, m + 1, s)
<1> DEFINE n == Len(lines)
           R == Reading(lines)
           S == {i \in 0..n : Scanner(R[i]) /\ \A s : R[i].current = s <=> BelongsTo(lines, i + 1, s)}
<1>1. n \in Nat /\ DOMAIN lines = 1..n
  BY SequenceIs
<1>2. /\ R[0] = [st |-> EmptyStore, current |-> NoName]
      /\ \A i \in 0..n-1 : R[i + 1] = ReadLine(R[i], lines[i + 1])
  BY <1>1, ReadingIsDefined
<1> HIDE DEF R, n
<1>3. 0 \in S
  <2>1. ASSUME NEW s PROVE BelongsTo(lines, 1, s) <=> s = NoName
    BY <1>1 DEF BelongsTo, Governs
  <2> QED
    BY <1>1, <1>2, <2>1 DEF Scanner
<1>4. ASSUME NEW i \in 0..n-1, i \in S PROVE i + 1 \in S
  <2> DEFINE line == lines[i + 1]
  <2>1. i \in 0..n /\ i + 1 \in 0..n /\ i + 1 \in 1..n /\ (i + 1) + 1 = i + 2
    BY <1>1
  <2>0. R[i + 1] = ReadLine(R[i], line) /\ Scanner(R[i])
    BY <1>2, <1>4
  <2>2. CASE line.tag = "section"
    <3>1. R[i + 1].current = line.name /\ Scanner(R[i + 1])
      BY <2>0, <2>2, ReadHeader DEF Scanner
    <3>2. ASSUME NEW s PROVE BelongsTo(lines, i + 2, s) <=> s = line.name
      <4>1. Governs(lines, i + 1, i + 2)
        BY <1>1, <2>1, <2>2 DEF Governs
      <4>2. \A h \in 1..n : Governs(lines, h, i + 2) => h = i + 1
        BY <1>1, <2>1, <2>2 DEF Governs
      <4> QED
        BY <1>1, <2>1, <2>2, <4>1, <4>2 DEF BelongsTo
    <3> QED
      BY <2>1, <3>1, <3>2
  <2>3. CASE line.tag # "section"
    <3>1. R[i + 1].current = R[i].current /\ Scanner(R[i + 1])
      <4> DEFINE before == R[i]
                 after == R[i + 1]
      <4>1. Scanner(before) /\ after = ReadLine(before, line)
        BY <2>0
      <4> HIDE DEF before, after, line
      <4>2. ASSUME line.tag = "pair" PROVE after.current = before.current /\ Scanner(after)
        <5>1. after = [st |-> Upsert(before.st, before.current, line.key, ReadBack(line.text)), current |-> before.current]
          BY <4>1, <4>2, ReadPair
        <5> QED
          BY <5>1 DEF Scanner
      <4>3. ASSUME line.tag # "pair" PROVE after.current = before.current /\ Scanner(after)
        <5>1. after = before
          BY <2>3, <4>1, <4>3, ReadOther
        <5> QED
          BY <4>1, <5>1
      <4>4. after.current = before.current /\ Scanner(after)
        BY <4>2, <4>3
      <4> QED
        BY <4>4 DEF before, after
    <3>2. ASSUME NEW s PROVE BelongsTo(lines, i + 2, s) <=> BelongsTo(lines, i + 1, s)
      <4>1. \A h \in 1..n : Governs(lines, h, i + 2) <=> Governs(lines, h, i + 1)
        BY <1>1, <2>1, <2>3 DEF Governs
      <4>2. (\A h \in 1..(i+2)-1 : lines[h].tag # "section") <=> (\A h \in 1..(i+1)-1 : lines[h].tag # "section")
        BY <1>1, <2>1, <2>3
      <4> QED
        BY <1>1, <4>1, <4>2 DEF BelongsTo
    <3> QED
      BY <1>4, <2>1, <3>1, <3>2
  <2> QED
    BY <2>2, <2>3
<1> HIDE DEF S
<1>5. 0..n \subseteq S
  BY <1>1, <1>3, <1>4, CountUp
<1> QED
  BY <1>5 DEF S, n, R

\* After m lines every key reads as the last of them that says something of it.
LEMMA ReadingSays ==
  ASSUME NEW lines, Sequence(lines), NEW m \in 0..Len(lines)
  PROVE  /\ StoreOk(Reading(lines)[m].st)
         /\ \A s, k :
              \/ /\ \A i \in 1..m : ~ SaysOf(lines, i, s, k)
                 /\ Get(Reading(lines)[m].st, s, k) = Absent
              \/ \E i \in 1..m : /\ SaysOf(lines, i, s, k)
                                 /\ \A j \in i+1..m : ~ SaysOf(lines, j, s, k)
                                 /\ Get(Reading(lines)[m].st, s, k) = Value(ReadBack(lines[i].text))
<1> DEFINE n == Len(lines)
           R == Reading(lines)
           Unsaid(i, s, k) == /\ \A j \in 1..i : ~ SaysOf(lines, j, s, k)
                              /\ Get(R[i].st, s, k) = Absent
           Said(i, s, k) == \E h \in 1..i : /\ SaysOf(lines, h, s, k)
                                            /\ \A j \in h+1..i : ~ SaysOf(lines, j, s, k)
                                            /\ Get(R[i].st, s, k) = Value(ReadBack(lines[h].text))
           S == {i \in 0..n : StoreOk(R[i].st) /\ \A s, k : Unsaid(i, s, k) \/ Said(i, s, k)}
<1>1. n \in Nat /\ DOMAIN lines = 1..n
  BY SequenceIs
<1>2. /\ R[0] = [st |-> EmptyStore, current |-> NoName]
      /\ \A i \in 0..n-1 : R[i + 1] = ReadLine(R[i], lines[i + 1])
  BY <1>1, ReadingIsDefined
<1>3. \A i \in 0..n : Scanner(R[i]) /\ \A s : R[i].current = s <=> BelongsTo(lines, i + 1, s)
  BY CurrentSection
<1> HIDE DEF R, n
<1>4. 0 \in S
  <2>1. StoreOk(R[0].st) /\ \A s, k : Unsaid(0, s, k)
    BY <1>1, <1>2, EmptyIsOk
  <2> HIDE DEF Unsaid, Said
  <2> QED
    BY <1>1, <2>1
<1>5. ASSUME NEW i \in 0..n-1, i \in S PROVE i + 1 \in S
  <2> DEFINE line == lines[i + 1]
             t == Value(ReadBack(line.text))
             cur == R[i].current
  <2>1. i \in 0..n /\ i + 1 \in 0..n /\ i \in Nat
    BY <1>1
  <2>2. StoreOk(R[i].st) /\ \A s, k : Unsaid(i, s, k) \/ Said(i, s, k)
    BY <1>5
  <2>3. R[i + 1] = ReadLine(R[i], line) /\ Scanner(R[i])
    BY <1>2, <1>3, <2>1
  <2>4. ASSUME NEW s, NEW k, SaysOf(lines, i + 1, s, k), Get(R[i + 1].st, s, k) = t
        PROVE  Said(i + 1, s, k)
    BY <2>1, <2>4
  <2>5. ASSUME NEW s, NEW k, ~ SaysOf(lines, i + 1, s, k), Get(R[i + 1].st, s, k) = Get(R[i].st, s, k)
        PROVE  Unsaid(i + 1, s, k) \/ Said(i + 1, s, k)
    <3>1. CASE Unsaid(i, s, k)
      BY <2>1, <2>5, <3>1
    <3>2. CASE Said(i, s, k)
      BY <2>1, <2>5, <3>2
    <3> QED
      BY <2>2, <3>1, <3>2
  <2> HIDE DEF Unsaid, Said
  <2>6. CASE line.tag = "section"
    <3>1. R[i + 1].st = EnsureSection(R[i].st, line.name)
      BY <2>3, <2>6, ReadHeader
    <3>2. StoreOk(R[i + 1].st) /\ \A s, k : Get(R[i + 1].st, s, k) = Get(R[i].st, s, k)
      BY <2>2, <3>1, EnsureKeeps
    <3>3. \A s, k : ~ SaysOf(lines, i + 1, s, k)
      BY <2>6 DEF SaysOf
    <3> QED
      BY <2>1, <2>5, <3>2, <3>3
  <2>7. CASE line.tag = "pair"
    <3>1. R[i + 1].st = Upsert(R[i].st, cur, line.key, ReadBack(line.text))
      <4> DEFINE before == R[i]
                 after == R[i + 1]
      <4>1. Scanner(before) /\ after = ReadLine(before, line)
        BY <2>3
      <4> HIDE DEF before, after, line
      <4>2. after = [st |-> Upsert(before.st, before.current, line.key, ReadBack(line.text)), current |-> before.current]
        BY <2>7, <4>1, ReadPair
      <4>3. after.st = Upsert(before.st, before.current, line.key, ReadBack(line.text))
        BY <4>2
      <4> QED
        BY <4>3 DEF before, after
    <3>2. /\ StoreOk(R[i + 1].st)
          /\ \A s, k : Get(R[i + 1].st, s, k) = IF s = cur /\ k = line.key THEN t ELSE Get(R[i].st, s, k)
      BY <2>2, <3>1, UpsertKeeps
    <3>3. \A s, k : SaysOf(lines, i + 1, s, k) <=> s = cur /\ k = line.key
      BY <1>3, <2>1, <2>7 DEF SaysOf
    <3> HIDE DEF line, t, cur
    <3>4. ASSUME NEW s, NEW k PROVE Unsaid(i + 1, s, k) \/ Said(i + 1, s, k)
      BY <2>4, <2>5, <3>2, <3>3
    <3> QED
      BY <2>1, <3>2, <3>4
  <2>8. CASE line.tag \notin {"section", "pair"}
    <3>1. R[i + 1] = R[i]
      BY <2>3, <2>8, ReadOther
    <3>2. \A s, k : ~ SaysOf(lines, i + 1, s, k)
      BY <2>8 DEF SaysOf
    <3> QED
      BY <2>1, <2>2, <2>5, <3>1, <3>2
  <2> QED
    BY <2>6, <2>7, <2>8
<1> HIDE DEF S
<1>6. 0..n \subseteq S
  BY <1>1, <1>4, <1>5, CountUp
<1> QED
  BY <1>6 DEF S, n, R

\* A member of a set that is below no other is its maximum.
LEMMA MaxIs ==
  ASSUME NEW S \in SUBSET Int, NEW i \in S, \A j \in S : i >= j
  PROVE  Max(S) = i
<1> DEFINE m == Max(S)
<1>1. m \in S /\ \A j \in S : m >= j
  BY DEF Max
<1> HIDE DEF m
<1>2. m >= i /\ i >= m /\ m \in Int /\ i \in Int
  BY <1>1
<1>3. m = i
  BY <1>2
<1> QED
  BY <1>3 DEF m

\* load() builds what a reader of the file expects.
LEMMA LoadedSays ==
  ASSUME NEW lines, Sequence(lines)
  PROVE  StoreOk(Loaded(lines)) /\ \A s, k : Get(Loaded(lines), s, k) = LastSaid(lines, s, k)
<1> DEFINE n == Len(lines)
<1>1. n \in Nat /\ DOMAIN lines = 1..n /\ n \in 0..n
  BY SequenceIs
<1>2. Loaded(lines) = Reading(lines)[n].st
  BY DEF Loaded
<1> HIDE DEF n
<1>3. ASSUME NEW text PROVE Value(ReadBack(text)) = ReadBack(text)
  BY DEF Value, ReadBack
<1>4. ASSUME NEW s, NEW k PROVE Get(Loaded(lines), s, k) = LastSaid(lines, s, k)
  <2> DEFINE at == {i \in 1..n : SaysOf(lines, i, s, k)}
  <2>1. LastSaid(lines, s, k) = IF at = {} THEN Absent ELSE ReadBack(lines[Max(at)].text)
    BY <1>1 DEF LastSaid, SaysOf, BelongsTo, Governs
  <2>2. CASE /\ \A i \in 1..n : ~ SaysOf(lines, i, s, k)
             /\ Get(Loaded(lines), s, k) = Absent
    BY <2>1, <2>2
  <2>3. ASSUME NEW i \in 1..n, SaysOf(lines, i, s, k), \A j \in i+1..n : ~ SaysOf(lines, j, s, k),
               Get(Loaded(lines), s, k) = Value(ReadBack(lines[i].text))
        PROVE  Get(Loaded(lines), s, k) = LastSaid(lines, s, k)
    <3>1. i \in at /\ \A j \in at : i >= j
      BY <1>1, <2>3
    <3>2. Max(at) = i
      <4>1. at \subseteq Int
        BY <1>1
      <4> HIDE DEF at
      <4> QED
        BY <3>1, <4>1, MaxIs
    <3> QED
      BY <1>3, <2>1, <2>3, <3>1, <3>2
  <2> QED
    BY <1>1, <1>2, <2>2, <2>3, ReadingSays DEF n
<1>5. StoreOk(Loaded(lines))
  BY <1>1, <1>2, ReadingSays DEF n
<1> QED
  BY <1>4, <1>5

\* Two sequences joined are a sequence.
LEMMA Joined ==
  ASSUME NEW a, NEW b, Sequence(a), Sequence(b) PROVE Sequence(a \o b)
<1> DEFINE T == Range(a) \cup Range(b)
<1>1. a \in Seq(T) /\ b \in Seq(T)
  BY SequenceIs, SeqDef DEF Sequence
<1> HIDE DEF T
<1>2. a \o b \in Seq(T)
  BY <1>1, ConcatProperties
<1> QED
  BY <1>2, SeqOfRange DEF Sequence

\* FlattenSeq is a recursive function: it exists, and joins one by one.
LEMMA FlattenIsDefined ==
  ASSUME NEW ss, Len(ss) \in Nat, Len(ss) # 0
  PROVE  \E f : /\ FlattenSeq(ss) = f[Len(ss)]
                /\ f = [i \in 1..Len(ss) |-> IF i = 1 THEN ss[i] ELSE f[i - 1] \o ss[i]]
<1> DEFINE Is(f, n) == f = [i \in 1..n |-> IF i = 1 THEN ss[i] ELSE f[i - 1] \o ss[i]]
           S == {n \in Nat : \E f : Is(f, n)}
<1>1. ASSUME NEW n \in Nat, NEW f, Is(f, n) PROVE \E g : Is(g, n + 1)
  <2> DEFINE new == IF n = 0 THEN ss[1] ELSE f[n] \o ss[n + 1]
             g == [i \in 1..n+1 |-> IF i = n + 1 THEN new ELSE f[i]]
  <2>0. DOMAIN g = 1..n+1 /\ g = [i \in 1..n+1 |-> g[i]]
    OBVIOUS
  <2>1. ASSUME NEW i \in 1..n+1 PROVE g[i] = IF i = 1 THEN ss[i] ELSE g[i - 1] \o ss[i]
    <3>1. CASE i = n + 1
      BY <3>1
    <3>2. CASE i \in 1..n
      <4>1. g[i] = f[i]
        <5> HIDE DEF new
        <5> QED
          BY <3>2
      <4>3. f[i] = IF i = 1 THEN ss[i] ELSE f[i - 1] \o ss[i]
        <5>1. f = [j \in 1..n |-> IF j = 1 THEN ss[j] ELSE f[j - 1] \o ss[j]]
          BY <1>1
        <5> HIDE DEF g
        <5> QED
          BY <3>2, <5>1, Zenon
      <4>2. i # 1 => g[i - 1] = f[i - 1]
        BY <3>2
      <4> HIDE DEF g
      <4> QED
        BY <4>1, <4>2, <4>3
    <3> QED
      BY <3>1, <3>2
  <2> HIDE DEF g
  <2>2. Is(g, n + 1)
    BY <2>0, <2>1
  <2> QED
    BY <2>2
<1>2. 0 \in S
  <2>1. Is([i \in 1..0 |-> 0], 0)
    OBVIOUS
  <2> QED
    BY <2>1
<1> HIDE DEF Is
<1>3. \A m \in 0..Len(ss)-1 : m \in S => m + 1 \in S
  BY <1>1
<1> HIDE DEF S
<1>4. Len(ss) \in S
  <2>1. 0..Len(ss) \subseteq S
    BY <1>2, <1>3, CountUp
  <2> QED
    BY <2>1
<1> DEFINE flatten == CHOOSE f : Is(f, Len(ss))
<1>5. FlattenSeq(ss) = flatten[Len(ss)]
  BY DEF FlattenSeq, Is
<1>6. Is(flatten, Len(ss))
  BY <1>4 DEF S
<1> HIDE DEF flatten
<1> QED
  BY <1>5, <1>6 DEF Is

\* Sequences joined are a sequence, however many.
LEMMA Flattened ==
  ASSUME NEW ss, Sequence(ss), \A i \in 1..Len(ss) : Sequence(ss[i])
  PROVE  Sequence(FlattenSeq(ss))
<1> DEFINE n == Len(ss)
<1>1. n \in Nat
  BY SequenceIs
<1>2. CASE n = 0
  BY <1>2 DEF FlattenSeq
<1>3. CASE n # 0
  <2>1. PICK f : /\ FlattenSeq(ss) = f[n]
                 /\ f = [i \in 1..n |-> IF i = 1 THEN ss[i] ELSE f[i - 1] \o ss[i]]
    BY <1>1, <1>3, FlattenIsDefined
  <2> DEFINE S == {m \in 0..n : m # 0 => Sequence(f[m])}
  <2> HIDE DEF n
  <2>2. ASSUME NEW m \in 0..n-1, m \in S PROVE m + 1 \in S
    <3>1. m + 1 \in 1..n /\ Sequence(ss[m + 1])
      BY <1>1 DEF n
    <3>2. CASE m = 0
      BY <2>1, <3>1, <3>2
    <3>3. CASE m # 0
      <4>1. f[m + 1] = f[m] \o ss[m + 1]
        <5>1. f[m + 1] = IF m + 1 = 1 THEN ss[m + 1] ELSE f[(m + 1) - 1] \o ss[m + 1]
          BY <2>1, <3>1
        <5>2. m + 1 # 1 /\ (m + 1) - 1 = m
          BY <1>1, <3>3
        <5> QED
          BY <5>1, <5>2
      <4>2. Sequence(f[m + 1])
        BY <2>2, <3>1, <3>3, <4>1, Joined
      <4> QED
        BY <3>1, <4>2
    <3> QED
      BY <3>2, <3>3
  <2>3. 0 \in S
    BY <1>1
  <2> HIDE DEF S
  <2>4. 0..n \subseteq S
    BY <1>1, <2>2, <2>3, CountUp
  <2>5. Sequence(f[n])
    BY <1>1, <1>3, <2>4 DEF S
  <2> QED
    BY <2>1, <2>5
<1> QED
  BY <1>2, <1>3

\* save() writes a sequence of lines.
LEMMA SavedLines ==
  ASSUME NEW st, StoreOk(st) PROVE Sequence(Saved(st))
<1> DEFINE n == Len(st.sections)
           ss == [i \in DOMAIN st.sections |-> SectionLines(st.sections[i])]
<1>1. n \in Nat /\ DOMAIN st.sections = 1..n
  BY SectionFinds
<1>2. ASSUME NEW sec, SectionOk(sec) PROVE Sequence(SectionLines(sec))
  <2> DEFINE es == sec.body.entries
             head == IF sec.name = NoName THEN <<>> ELSE <<Header(sec.name)>>
             tail == [i \in DOMAIN es |-> Pair(es[i].key, Written(es[i]))]
  <2>1. Len(es) \in Nat /\ DOMAIN es = 1..Len(es)
    BY <1>2, SequenceIs DEF SectionOk, BodyOk
  <2>2. Sequence(tail)
    <3> HIDE DEF es
    <3>1. tail = [i \in 1..Len(es) |-> tail[i]]
      BY <2>1
    <3> HIDE DEF tail
    <3> QED
      BY <2>1, <3>1, SequenceFrom
  <2>3. Sequence(head)
    <3>1. Sequence(<<>>) /\ Sequence(<<Header(sec.name)>>)
      BY DEF Sequence, Range
    <3> QED
      BY <3>1
  <2>4. SectionLines(sec) = head \o tail
    BY DEF SectionLines
  <2> HIDE DEF head, tail
  <2> QED
    BY <2>2, <2>3, <2>4, Joined
<1>3. \A i \in 1..n : Sequence(ss[i])
  BY <1>1, <1>2 DEF StoreOk
<1>4. DOMAIN ss = 1..n /\ ss = [i \in 1..n |-> ss[i]]
  BY <1>1
<1>5. Saved(st) = FlattenSeq(ss)
  BY DEF Saved
<1> HIDE DEF ss
<1>6. Sequence(ss) /\ Len(ss) = n
  BY <1>1, <1>4, SequenceFrom
<1> QED
  BY <1>3, <1>5, <1>6, Flattened

\* The store is well formed and answers every key as is expected.
IniInv ==
  /\ StoreOk(store) /\ Sequence(file)
  /\ expected = [slot \in Slots |-> Get(store, slot[1], slot[2])]

\* A parser that was just made answers as expected.
LEMMA IniStart == InitIni => IniInv
<1> SUFFICES ASSUME InitIni PROVE IniInv
  OBVIOUS
<1>1. Sequence(file)
  BY HandWrittenAssumption DEF InitIni, Sequence
<1>2. StoreOk(store) /\ \A s, k : Get(store, s, k) = Absent
  BY EmptyIsOk DEF InitIni
<1>3. expected = [slot \in Slots |-> Get(store, slot[1], slot[2])]
  BY <1>2 DEF InitIni
<1> QED
  BY <1>1, <1>2, <1>3 DEF IniInv

\* Every key reads as expected after a setter,
LEMMA SetKeeps ==
  ASSUME IniInv, NEW s \in SectionNames, NEW k \in Keys, NEW e \in Entries, Set(s, k, e)
  PROVE  IniInv'
<1>1. /\ store' = Upsert(store, s, k, e) /\ file' = file
      /\ expected' = [expected EXCEPT ![<<s, k>>] = e]
  BY DEF Set
<1>2. /\ StoreOk(store')
      /\ \A x, y : Get(store', x, y) = IF x = s /\ y = k THEN Value(e) ELSE Get(store, x, y)
  BY <1>1, UpsertKeeps DEF IniInv
<1>3. Value(e) = e
  BY EntriesAssumption DEF Value
<1>4. DOMAIN expected' = Slots /\ expected' = [slot \in Slots |-> expected'[slot]]
  BY <1>1 DEF IniInv
<1>5. ASSUME NEW slot \in Slots PROVE expected'[slot] = Get(store', slot[1], slot[2])
  <2>1. slot = <<slot[1], slot[2]>>
    BY DEF Slots
  <2>2. slot = <<s, k>> <=> slot[1] = s /\ slot[2] = k
    BY <2>1
  <2>3. expected'[slot] = IF slot = <<s, k>> THEN e ELSE expected[slot]
    BY <1>1 DEF IniInv
  <2>4. expected[slot] = Get(store, slot[1], slot[2])
    BY DEF IniInv
  <2> QED
    BY <1>2, <1>3, <2>2, <2>3, <2>4
<1>6. expected' = [slot \in Slots |-> Get(store', slot[1], slot[2])]
  BY <1>4, <1>5, Zenon
<1>7. Sequence(file')
  BY <1>1 DEF IniInv
<1> QED
  BY <1>2, <1>6, <1>7 DEF IniInv

\* after a key was removed,
LEMMA EraseKeeps ==
  ASSUME IniInv, NEW s \in SectionNames, NEW k \in Keys, Erase(s, k)
  PROVE  IniInv'
<1>1. /\ store' = RemoveKey(store, s, k) /\ file' = file
      /\ expected' = [expected EXCEPT ![<<s, k>>] = Absent]
  BY DEF Erase
<1>2. /\ StoreOk(store')
      /\ \A x, y : Get(store', x, y) = IF x = s /\ y = k THEN Absent ELSE Get(store, x, y)
  BY <1>1, RemoveKeyKeeps DEF IniInv
<1>4. DOMAIN expected' = Slots /\ expected' = [slot \in Slots |-> expected'[slot]]
  BY <1>1 DEF IniInv
<1>5. ASSUME NEW slot \in Slots PROVE expected'[slot] = Get(store', slot[1], slot[2])
  <2>1. slot = <<slot[1], slot[2]>>
    BY DEF Slots
  <2>2. slot = <<s, k>> <=> slot[1] = s /\ slot[2] = k
    BY <2>1
  <2>3. expected'[slot] = IF slot = <<s, k>> THEN Absent ELSE expected[slot]
    BY <1>1 DEF IniInv
  <2>4. expected[slot] = Get(store, slot[1], slot[2])
    BY DEF IniInv
  <2> QED
    BY <1>2, <2>2, <2>3, <2>4
<1>6. expected' = [slot \in Slots |-> Get(store', slot[1], slot[2])]
  BY <1>4, <1>5, Zenon
<1>7. Sequence(file')
  BY <1>1 DEF IniInv
<1> QED
  BY <1>2, <1>6, <1>7 DEF IniInv

\* after a section was removed,
LEMMA EraseSectionKeeps ==
  ASSUME IniInv, NEW s \in SectionNames, EraseSection(s)
  PROVE  IniInv'
<1>1. /\ store' = RemoveSection(store, s) /\ file' = file
      /\ expected' = [slot \in Slots |-> IF slot[1] = s THEN Absent ELSE expected[slot]]
  BY DEF EraseSection
<1>2. /\ StoreOk(store')
      /\ \A x, y : Get(store', x, y) = IF x = s THEN Absent ELSE Get(store, x, y)
  BY <1>1, RemoveSectionKeeps DEF IniInv
<1>3. \A slot \in Slots : expected[slot] = Get(store, slot[1], slot[2])
  BY DEF IniInv
<1>4. expected' = [slot \in Slots |-> Get(store', slot[1], slot[2])]
  <2>1. ASSUME NEW slot \in Slots
        PROVE  Get(store', slot[1], slot[2]) = IF slot[1] = s THEN Absent ELSE expected[slot]
    BY <1>2, <1>3
  <2> QED
    BY <1>1, <2>1, Zenon
<1>5. Sequence(file')
  BY <1>1 DEF IniInv
<1> QED
  BY <1>2, <1>4, <1>5 DEF IniInv

\* and after a load of any file.
LEMMA LoadKeeps ==
  ASSUME IniInv, Load
  PROVE  IniInv'
<1>1. /\ store' = Loaded(file) /\ file' = file
      /\ expected' = [slot \in Slots |-> LastSaid(file, slot[1], slot[2])]
  BY DEF Load
<1>2. StoreOk(store') /\ \A s, k : Get(store', s, k) = LastSaid(file, s, k)
  BY <1>1, LoadedSays DEF IniInv
<1>3. expected' = [slot \in Slots |-> Get(store', slot[1], slot[2])]
  BY <1>1, <1>2, Zenon
<1>4. Sequence(file')
  BY <1>1 DEF IniInv
<1> QED
  BY <1>2, <1>3, <1>4 DEF IniInv

\* Every step of the ini parser keeps its invariant.
LEMMA IniKeeps == IniInv /\ NextIni => IniInv'
<1> SUFFICES ASSUME IniInv, NextIni PROVE IniInv'
  OBVIOUS
<1>1. CASE Save
  <2>1. file' = Saved(store) /\ store' = store /\ expected' = expected
    BY <1>1 DEF Save
  <2>2. Sequence(file')
    BY <2>1, SavedLines DEF IniInv
  <2> QED
    BY <2>1, <2>2 DEF IniInv
<1> QED
  BY <1>1, SetKeeps, EraseKeeps, EraseSectionKeeps, LoadKeeps DEF NextIni

\* The invariant says of each key what it reads as.
LEMMA IniReads == IniInv => IniReadsWhatWasSet
<1> SUFFICES ASSUME IniInv, NEW s \in SectionNames, NEW k \in Keys PROVE Get(store, s, k) = expected[<<s, k>>]
  BY DEF IniReadsWhatWasSet
<1>1. <<s, k>> \in Slots
  BY DEF Slots
<1> QED
  BY <1>1 DEF IniInv

-----------------------------------------------------------------------------
(***************************************************************************)
(* The object broker.                                                      *)
(***************************************************************************)
\* The storage is what was promised, without what guards took away.  A key may
\* stay evicted when its promise has ended: nothing is stored there either way.
BrokerInv ==
  /\ DOMAIN promised \subseteq BrokerKeys
  /\ DOMAIN storage_ = DOMAIN promised \ evicted
  /\ \A key \in DOMAIN storage_ : storage_[key] = promised[key]

\* Drop removes a key and leaves the other keys as they are.
LEMMA DropFact ==
  ASSUME NEW map, NEW key
  PROVE  /\ DOMAIN Drop(map, key) = DOMAIN map \ {key}
         /\ \A k \in DOMAIN map \ {key} : Drop(map, key)[k] = map[k]
  BY DEF Drop, Restrict

\* Nothing is registered at first.
LEMMA BrokerStart == InitBroker => BrokerInv
  BY DEF InitBroker, BrokerInv

\* A registration promises what it stores, and undoes an eviction.
LEMMA RegistrationInv ==
  ASSUME BrokerInv, NEW key \in BrokerKeys, NEW i,
         storage_' = Register(storage_, key, i), promised' = Put(promised, key, i),
         evicted' = evicted \ {key}
  PROVE  BrokerInv'
<1>0. DOMAIN storage_' = DOMAIN storage_ \cup {key} /\ DOMAIN promised' = DOMAIN promised \cup {key}
  BY DEF Register, Put
<1>1. DOMAIN promised' \subseteq BrokerKeys
  BY <1>0 DEF BrokerInv
<1>2. DOMAIN storage_' = DOMAIN promised' \ evicted'
  BY <1>0 DEF BrokerInv
<1>3. ASSUME NEW k \in DOMAIN storage_' PROVE storage_'[k] = promised'[k]
  <2>1. k \in DOMAIN storage_ \cup {key} /\ k \in DOMAIN promised \cup {key}
    BY <1>0 DEF BrokerInv
  <2>2. storage_'[k] = IF k = key THEN i ELSE storage_[k]
    BY <2>1 DEF Register, Put
  <2>3. promised'[k] = IF k = key THEN i ELSE promised[k]
    BY <2>1 DEF Put
  <2> QED BY <2>1, <2>2, <2>3 DEF BrokerInv
<1> QED BY <1>1, <1>2, <1>3 DEF BrokerInv

\* Whoever withdraws what is promised withdraws what is stored.
LEMMA WithdrawalInv ==
  ASSUME BrokerInv, NEW key,
         storage_' = Unregister(storage_, key), promised' = Drop(promised, key),
         evicted' \in {evicted, evicted \ {key}}
  PROVE  BrokerInv'
<1>1. DOMAIN promised' = DOMAIN promised \ {key} /\ DOMAIN storage_' = DOMAIN storage_ \ {key}
  BY DropFact DEF Unregister
<1>2. ASSUME NEW k \in DOMAIN storage_' PROVE storage_'[k] = promised'[k]
  <2>1. k \in DOMAIN storage_ \ {key} /\ k \in DOMAIN promised \ {key}
    BY <1>1 DEF BrokerInv
  <2>2. storage_'[k] = storage_[k] /\ promised'[k] = promised[k]
    BY <2>1, DropFact DEF Unregister
  <2> QED BY <2>1, <2>2 DEF BrokerInv
<1> QED BY <1>1, <1>2 DEF BrokerInv

\* The guard of an earlier registration takes a later one away: what it
\* removes from the storage becomes evicted, and no other key is touched.
LEMMA LeaveScopeInv ==
  ASSUME BrokerInv, NEW g \in Guards, LeaveScope(g)
  PROVE  BrokerInv'
<1> DEFINE key == guard[g].key
           owns == Lookup(promised, key) = guard[g].instance
<1>1. storage_' = Unregister(storage_, key)
  BY DEF LeaveScope
<1>2. CASE owns
  <2>1. promised' = Drop(promised, key) /\ evicted' = evicted
    BY <1>2 DEF LeaveScope
  <2> QED BY <1>1, <2>1, WithdrawalInv
<1>3. CASE ~owns
  <2>1. promised' = promised
    BY <1>3 DEF LeaveScope
  <2>2. evicted' = IF key \in DOMAIN promised THEN evicted \cup {key} ELSE evicted
    BY <1>3 DEF LeaveScope
  <2>3. DOMAIN storage_' = DOMAIN storage_ \ {key}
    BY <1>1, DropFact DEF Unregister
  <2>4. \A k \in DOMAIN storage_ \ {key} : storage_'[k] = storage_[k]
    BY <1>1, DropFact DEF Unregister
  <2>5. DOMAIN storage_' = DOMAIN promised' \ evicted'
    BY <2>1, <2>2, <2>3 DEF BrokerInv
  <2> QED BY <2>1, <2>3, <2>4, <2>5 DEF BrokerInv
<1> QED BY <1>2, <1>3

\* Every operation keeps the invariant.
LEMMA BrokerKeeps == BrokerInv /\ [NextBroker]_<<calls, brokerVars>> => BrokerInv'
<1> SUFFICES ASSUME BrokerInv, [NextBroker]_<<calls, brokerVars>> PROVE BrokerInv'
  OBVIOUS
<1>1. ASSUME NEW key \in BrokerKeys, UnregisterInstance(key) PROVE BrokerInv'
  BY <1>1, WithdrawalInv DEF UnregisterInstance
<1>2. ASSUME NEW key \in BrokerKeys, NEW i \in Instances, RegisterInstance(key, i) PROVE BrokerInv'
  BY <1>2, RegistrationInv DEF RegisterInstance
<1>3. CASE ClearBroker
  BY <1>3 DEF ClearBroker, BrokerInv
<1>4. ASSUME NEW g \in Guards, LeaveScope(g) PROVE BrokerInv'
  BY <1>4, LeaveScopeInv
<1>5. ASSUME NEW g \in Guards, NEW key \in BrokerKeys, NEW i \in Instances, EnterScope(g, key, i)
      PROVE  BrokerInv'
  BY <1>5, RegistrationInv DEF EnterScope
<1>6. CASE UNCHANGED <<calls, brokerVars>>
  BY <1>6 DEF brokerVars, BrokerInv
<1> QED BY <1>1, <1>2, <1>3, <1>4, <1>5, <1>6 DEF NextBroker

\* The invariant gives every lookup and every listing its answer.
LEMMA PromisesFollow == BrokerInv => BrokerKeepsItsPromises
<1> SUFFICES ASSUME BrokerInv PROVE BrokerKeepsItsPromises
  OBVIOUS
<1>1. ASSUME NEW key \in BrokerKeys \ evicted PROVE Lookup(storage_, key) = Lookup(promised, key)
  BY DEF Lookup, BrokerInv
<1>2. ASSUME NEW t \in Types, NEW n \in ListNamesForType(promised, t)
      PROVE  <<t, n>> \in evicted \/ n \in ListNamesForType(storage_, t)
  <2>1. PICK k \in DOMAIN promised : k[1] = t /\ k[2] = n
    BY DEF ListNamesForType
  <2>2. k = <<t, n>>
    BY <2>1 DEF BrokerInv, BrokerKeys
  <2> QED BY <2>1, <2>2 DEF BrokerInv, ListNamesForType
<1>3. ASSUME NEW t \in Types PROVE GetAllWithNames(storage_, t) \subseteq GetAllWithNames(promised, t)
  <2> SUFFICES ASSUME NEW pair \in GetAllWithNames(storage_, t)
               PROVE  pair \in GetAllWithNames(promised, t)
    OBVIOUS
  <2>1. PICK k \in DOMAIN storage_ :
          k[1] = t /\ storage_[k] # Null /\ pair = <<k[2], storage_[k]>>
    BY DEF GetAllWithNames
  <2>2. k \in DOMAIN promised /\ promised[k] = storage_[k]
    BY <2>1 DEF BrokerInv
  <2> QED BY <2>1, <2>2 DEF GetAllWithNames
<1> QED BY <1>1, <1>2, <1>3 DEF BrokerKeepsItsPromises

\* For any types, names, instances and scopes: what was registered is what is
\* found under its type and name until it is withdrawn or replaced, a key that
\* the guard of an earlier registration unregistered excepted.
THEOREM PromisesAreKept == BrokerSpec => []BrokerKeepsItsPromises
<1>1. InitBroker => BrokerInv
  BY BrokerStart
<1>2. BrokerInv /\ [NextBroker]_<<calls, brokerVars>> => BrokerInv'
  BY BrokerKeeps
<1>3. BrokerInv => BrokerKeepsItsPromises
  BY PromisesFollow
<1> QED BY <1>1, <1>2, <1>3, PTL DEF BrokerSpec

-----------------------------------------------------------------------------
(***************************************************************************)
(* Texts: what a value becomes when it is written and read.                *)
(***************************************************************************)
\* Steps taken one after the other: what a recursive function over 0..n defines.
Stepwise(S, n, base, step, g) ==
  g \in [0..n -> S] /\ g[0] = base /\ \A i \in 1..n : g[i] = step[<<g[i - 1], i>>]
StepOn(S, n, step) == step \in [S \X (1..n) -> S]

\* Each value follows from the one before, so the function exists.
LEMMA StepsExist ==
  ASSUME NEW S, NEW n \in Nat, NEW base \in S, NEW step, StepOn(S, n, step)
  PROVE  \E g : Stepwise(S, n, base, step, g)
<1>0. step \in [S \X (1..n) -> S]
  BY DEF StepOn
<1> DEFINE Is(g, k) == g \in [0..k -> S] /\ g[0] = base /\ \A i \in 1..k : g[i] = step[<<g[i - 1], i>>]
           T == {k \in 0..n : \E g : Is(g, k)}
<1>1. ASSUME NEW k \in 0..n-1, NEW f, Is(f, k) PROVE \E g : Is(g, k + 1)
  <2> DEFINE g == [i \in 0..k+1 |-> IF i = k + 1 THEN step[<<f[k], k + 1>>] ELSE f[i]]
  <2>1. k \in Nat /\ k + 1 \in 1..n /\ f[k] \in S
    BY <1>1
  <2>2. step[<<f[k], k + 1>>] \in S
    BY <1>0, <2>1
  <2>3. g \in [0..k+1 -> S]
    BY <1>1, <2>1, <2>2
  <2>4. g[0] = base
    BY <1>1, <2>1
  <2>5. ASSUME NEW i \in 1..k+1 PROVE g[i] = step[<<g[i - 1], i>>]
    <3>1. CASE i = k + 1
      <4>1. i - 1 = k /\ g[k] = f[k] /\ g[k + 1] = step[<<f[k], k + 1>>]
        BY <2>1, <3>1
      <4> QED
        BY <3>1, <4>1
    <3>2. CASE i \in 1..k
      <4>1. g[i] = f[i] /\ g[i - 1] = f[i - 1] /\ f[i] = step[<<f[i - 1], i>>]
        BY <1>1, <2>1, <3>2
      <4> QED
        BY <4>1
    <3> QED
      BY <2>1, <3>1, <3>2
  <2> HIDE DEF g
  <2> QED
    BY <2>3, <2>4, <2>5
<1>2. 0 \in T
  <2> DEFINE g == [i \in 0..0 |-> base]
  <2>1. g \in [0..0 -> S] /\ g[0] = base /\ 1..0 = {}
    OBVIOUS
  <2>2. Is(g, 0)
    BY <2>1
  <2> HIDE DEF Is
  <2> QED
    BY <2>2
<1>3. \A k \in 0..n-1 : k \in T => k + 1 \in T
  <2> HIDE DEF Is
  <2> QED
    BY <1>1
<1>4. n \in T
  <2> HIDE DEF T
  <2>1. 0..n \subseteq T
    BY <1>2, <1>3, CountUp
  <2> QED
    BY <2>1
<1> QED
  BY <1>4 DEF Stepwise

\* Whatever is defined by the same steps takes them.
LEMMA StepsFollow ==
  ASSUME NEW S, NEW n \in Nat, NEW base \in S, NEW step, StepOn(S, n, step),
         NEW f, f = [i \in 0..n |-> f[i]], f[0] = base,
         \A i \in 1..n : f[i - 1] \in S => f[i] = step[<<f[i - 1], i>>]
  PROVE  Stepwise(S, n, base, step, f)
<1> DEFINE T == {i \in 0..n : f[i] \in S}
<1>1. 0 \in T
  OBVIOUS
<1>2. ASSUME NEW m \in 0..n-1, m \in T PROVE m + 1 \in T
  <2>1. m + 1 \in 1..n /\ m + 1 \in 0..n /\ (m + 1) - 1 = m /\ f[m] \in S
    BY <1>2
  <2>2. f[m + 1] = step[<<f[m], m + 1>>]
    BY <2>1
  <2> QED
    BY <2>1, <2>2 DEF StepOn
<1> HIDE DEF T
<1>3. 0..n \subseteq T
  BY <1>1, <1>2, CountUp
<1>4. \A i \in 0..n : f[i] \in S
  BY <1>3 DEF T
<1>5. f \in [0..n -> S]
  BY <1>4, Zenon
<1>6. ASSUME NEW i \in 1..n PROVE f[i] = step[<<f[i - 1], i>>]
  BY <1>4
<1> QED
  BY <1>5, <1>6 DEF Stepwise

\* The states of the search for a comment, and its run over a text.
Scans(s) == [single : BOOLEAN, double : BOOLEAN, cut : BOOLEAN, last : 0..Len(s)]
FirstScan == [single |-> FALSE, double |-> FALSE, cut |-> FALSE, last |-> 0]
Scanning(s, f) ==
  /\ f \in [0..Len(s) -> Scans(s)] /\ f[0] = FirstScan
  /\ \A i \in 1..Len(s) : f[i] = ScanComment(s, f[i - 1], i)

\* strip_inline_comment() runs over its text.
LEMMA StripScans ==
  ASSUME NEW s, Sequence(s)
  PROVE  \E f : /\ Scanning(s, f)
                /\ StripComment(s) = IF f[Len(s)].cut THEN SubSeq(s, 1, f[Len(s)].last) ELSE s
<1> DEFINE n == Len(s)
           step == [x \in Scans(s) \X (1..n) |-> ScanComment(s, x[1], x[2])]
           Is(f) == f = [i \in 0..n |-> IF i = 0 THEN FirstScan ELSE ScanComment(s, f[i - 1], i)]
           after == CHOOSE f : Is(f)
<1>1. n \in Nat
  BY SequenceIs
<1>2. FirstScan \in Scans(s)
  BY <1>1 DEF FirstScan, Scans
<1>3. ASSUME NEW x \in Scans(s), NEW i \in 1..n PROVE ScanComment(s, x, i) \in Scans(s)
  <2>1. i \in 0..Len(s)
    BY <1>1
  <2> QED
    BY <2>1 DEF ScanComment, Scans
<1>4. StepOn(Scans(s), n, step)
  <2> HIDE DEF n
  <2> QED
    BY <1>3 DEF StepOn
<1>5. ASSUME NEW x \in Scans(s), NEW i \in 1..n PROVE step[<<x, i>>] = ScanComment(s, x, i)
  OBVIOUS
<1> HIDE DEF step
<1>6. PICK g : Stepwise(Scans(s), n, FirstScan, step, g)
  BY <1>1, <1>2, <1>4, StepsExist
<1>7. ASSUME NEW f, Stepwise(Scans(s), n, FirstScan, step, f)
      PROVE  f \in [0..n -> Scans(s)] /\ f[0] = FirstScan /\ \A i \in 1..n : f[i] = ScanComment(s, f[i - 1], i)
  <2>1. f \in [0..n -> Scans(s)] /\ f[0] = FirstScan /\ \A i \in 1..n : f[i] = step[<<f[i - 1], i>>]
    BY <1>7 DEF Stepwise
  <2>2. ASSUME NEW i \in 1..n PROVE f[i] = ScanComment(s, f[i - 1], i)
    <3>1. i - 1 \in 0..n /\ f[i - 1] \in Scans(s)
      BY <1>1, <2>1
    <3> QED
      BY <1>5, <2>1, <3>1
  <2> QED
    BY <2>1, <2>2
<1>8. Is(g)
  <2>1. g = [i \in 0..n |-> g[i]]
    BY <1>6, <1>7
  <2>2. ASSUME NEW i \in 0..n PROVE g[i] = IF i = 0 THEN FirstScan ELSE ScanComment(s, g[i - 1], i)
    BY <1>1, <1>6, <1>7
  <2> QED
    BY <2>1, <2>2, Zenon
<1>9. Is(after)
  <2> HIDE DEF Is
  <2> QED
    BY <1>8
<1>10. StripComment(s) = IF after[n].cut THEN SubSeq(s, 1, after[n].last) ELSE s
  BY DEF StripComment, FirstScan
<1>11. Stepwise(Scans(s), n, FirstScan, step, after)
  <2>1. ASSUME NEW f, Is(f) PROVE Stepwise(Scans(s), n, FirstScan, step, f)
    <3>1. f = [i \in 0..n |-> f[i]] /\ f[0] = FirstScan /\ \A i \in 1..n : f[i] = ScanComment(s, f[i - 1], i)
      BY <1>1, <2>1
    <3>2. \A i \in 1..n : f[i - 1] \in Scans(s) => f[i] = step[<<f[i - 1], i>>]
      BY <1>5, <3>1
    <3> HIDE DEF Is, n
    <3> QED
      BY <1>1, <1>2, <1>4, <3>1, <3>2, StepsFollow
  <2> HIDE DEF Is, after
  <2> QED
    BY <1>9, <2>1
<1> HIDE DEF after
<1>12. Scanning(s, after)
  BY <1>7, <1>11 DEF Scanning
<1> QED
  BY <1>10, <1>12

\* What is cut out of a text is a text.
LEMMA PartIs ==
  ASSUME NEW s, Sequence(s), NEW i \in Nat, i >= 1, NEW j \in Nat, j =< Len(s)
  PROVE  /\ Sequence(SubSeq(s, i, j))
         /\ Len(SubSeq(s, i, j)) = IF i =< j THEN j - i + 1 ELSE 0
         /\ \A x \in 1..j-i+1 : SubSeq(s, i, j)[x] = s[i + x - 1]
<1> DEFINE T == Range(s)
           p == SubSeq(s, i, j)
<1>1. s \in Seq(T) /\ Len(s) \in Nat /\ DOMAIN s = 1..Len(s)
  BY DEF Sequence
<1>2. \A x \in i..j : s[x] \in T
  BY <1>1
<1> HIDE DEF T
<1>3. /\ p \in Seq(T) /\ Len(p) = (IF i =< j THEN j - i + 1 ELSE 0)
      /\ \A x \in 1..j-i+1 : p[x] = s[i + x - 1]
  <2>1. p \in Seq(T)
    BY <1>1, <1>2, SubSeqProperties
  <2>2. Len(p) = IF i =< j THEN j - i + 1 ELSE 0
    BY <1>1, <1>2, SubSeqProperties
  <2>3. \A x \in 1..j-i+1 : p[x] = s[i + x - 1]
    BY <1>1, <1>2, SubSeqProperties
  <2> HIDE DEF p
  <2> QED
    BY <2>1, <2>2, <2>3
<1> HIDE DEF p
<1>4. Sequence(p)
  BY <1>3, SeqOfRange, Zenon DEF Sequence
<1> QED
  BY <1>3, <1>4 DEF p

\* Two texts are the same if they are as long and have the same characters.
LEMMA SameText ==
  ASSUME NEW s, Sequence(s), NEW t, Sequence(t), Len(s) = Len(t), \A i \in 1..Len(s) : s[i] = t[i]
  PROVE  s = t
<1>1. s = [i \in 1..Len(s) |-> s[i]] /\ t = [i \in 1..Len(t) |-> t[i]]
  BY SequenceIs
<1> QED
  BY <1>1

\* A text that is cut nowhere.
LEMMA WholeIs ==
  ASSUME NEW s, Sequence(s)
  PROVE  SubSeq(s, 1, Len(s)) = s
<1> DEFINE t == SubSeq(s, 1, Len(s))
           n == Len(s)
<1>1. n \in Nat
  BY SequenceIs
<1>2. Sequence(t) /\ Len(t) = (IF 1 =< n THEN n - 1 + 1 ELSE 0) /\ \A x \in 1..n-1+1 : t[x] = s[1 + x - 1]
  BY <1>1, PartIs
<1> HIDE DEF t, n
<1>3. Len(t) = n /\ \A x \in 1..n : t[x] = s[x]
  BY <1>1, <1>2
<1>4. t = s
  BY <1>2, <1>3, SameText DEF n
<1> QED
  BY <1>4 DEF t, n

\* The least member of a set of naturals.
LEMMA MinIs ==
  ASSUME NEW S \in SUBSET Nat, S # {}
  PROVE  Min(S) \in S /\ \A y \in S : Min(S) =< y
<1> DEFINE m == Min(S)
<1>1. \E x \in S : \A y \in S : x =< y
  BY HasLeast
<1>2. m \in S /\ \A y \in S : m =< y
  BY <1>1 DEF Min
<1> QED
  BY <1>2 DEF m

\* The greatest of some places in a text.
LEMMA LastIs ==
  ASSUME NEW n \in Nat, NEW S \in SUBSET (1..n), S # {}
  PROVE  Max(S) \in S /\ \A y \in S : Max(S) >= y
<1> DEFINE T == {n - x : x \in S}
<1>1. T \in SUBSET Nat /\ T # {}
  <2>1. \A x \in S : n - x \in Nat
    OBVIOUS
  <2>2. T \in SUBSET Nat
    BY <2>1
  <2>3. PICK x \in S : TRUE
    OBVIOUS
  <2>4. n - x \in T
    OBVIOUS
  <2> QED
    BY <2>2, <2>4
<1>2. PICK t \in T : \A u \in T : t =< u
  <2> HIDE DEF T
  <2> QED
    BY <1>1, HasLeast
<1>3. PICK x \in S : t = n - x
  BY <1>2
<1>4. \A y \in S : x >= y
  <2> TAKE y \in S
  <2>1. n - y \in T
    OBVIOUS
  <2>2. n - x =< n - y
    BY <1>2, <1>3, <2>1
  <2> QED
    BY <2>2
<1>5. S \in SUBSET Int
  OBVIOUS
<1> HIDE DEF T
<1>6. Max(S) = x
  BY <1>3, <1>4, <1>5, MaxIs
<1> QED
  BY <1>3, <1>4, <1>6

\* trim() cuts a text out of a text; one whose ends are not blank stays.
LEMMA TrimIs ==
  ASSUME NEW s, Sequence(s)
  PROVE  /\ Sequence(Trim(s))
         /\ Len(s) >= 1 /\ s[1] \notin Blank /\ s[Len(s)] \notin Blank => Trim(s) = s
<1> DEFINE solid == {i \in DOMAIN s : s[i] \notin Blank}
           n == Len(s)
<1>1. n \in Nat /\ DOMAIN s = 1..n
  BY SequenceIs
<1>2. solid \in SUBSET (1..n) /\ solid \in SUBSET Nat
  BY <1>1
<1>3. Trim(s) = IF solid = {} THEN <<>> ELSE SubSeq(s, Min(solid), Max(solid))
  BY DEF Trim
<1>4. n >= 1 /\ s[1] \notin Blank /\ s[n] \notin Blank => 1 \in solid /\ n \in solid
  BY <1>1
<1> HIDE DEF solid, n
<1>5. CASE solid = {}
  <2>1. Sequence(<<>>)
    BY DEF Sequence
  <2> QED
    BY <1>3, <1>4, <1>5, <2>1 DEF n
<1>6. CASE solid # {}
  <2>1. Min(solid) \in solid /\ \A y \in solid : Min(solid) =< y
    BY <1>2, <1>6, MinIs
  <2>2. Max(solid) \in solid /\ \A y \in solid : Max(solid) >= y
    BY <1>1, <1>2, <1>6, LastIs
  <2>3. Sequence(Trim(s))
    <3> DEFINE i == Min(solid)
               j == Max(solid)
    <3>1. i \in 1..n /\ j \in 1..n
      BY <1>2, <2>1, <2>2
    <3> HIDE DEF i, j
    <3>2. i \in Nat /\ i >= 1 /\ j \in Nat /\ j =< n
      BY <1>1, <3>1
    <3>3. Sequence(SubSeq(s, i, j))
      BY <3>2, PartIs DEF n
    <3> QED
      BY <1>3, <1>6, <3>3 DEF i, j
  <2>4. ASSUME 1 \in solid, n \in solid PROVE Trim(s) = s
    <3>1. Min(solid) = 1 /\ Max(solid) = n
      <4>1. Min(solid) =< 1 /\ Min(solid) \in 1..n /\ Max(solid) >= n /\ Max(solid) \in 1..n
        BY <1>2, <2>1, <2>2, <2>4
      <4> QED
        BY <1>1, <4>1
    <3> QED
      BY <1>3, <1>6, <3>1, WholeIs DEF n
  <2> QED
    BY <1>4, <2>3, <2>4 DEF n
<1> QED
  BY <1>5, <1>6

\* What strip_inline_comment() leaves is a text.
LEMMA StripIs ==
  ASSUME NEW s, Sequence(s) PROVE Sequence(StripComment(s))
<1> DEFINE n == Len(s)
<1>1. n \in Nat
  BY SequenceIs
<1>2. PICK f : Scanning(s, f) /\ StripComment(s) = IF f[n].cut THEN SubSeq(s, 1, f[n].last) ELSE s
  BY StripScans
<1>3. f[n] \in Scans(s)
  BY <1>1, <1>2 DEF Scanning
<1>4. f[n].last \in 0..n
  BY <1>3 DEF Scans
<1> DEFINE j == f[n].last
<1>5. j \in Nat /\ j =< Len(s)
  BY <1>1, <1>4
<1> HIDE DEF j, n
<1>6. Sequence(SubSeq(s, 1, j))
  BY <1>5, PartIs
<1> QED
  BY <1>2, <1>6 DEF j

\* The characters that the code tells apart are different ones.
LEMMA CharactersDiffer ==
  /\ Tick # Quote /\ Tick # Back /\ Quote # Back
  /\ \A q \in {Tick, Quote, Back, "n"} : q # "\n" /\ q \notin Marks /\ q \notin Blank
  /\ "n" # Tick /\ "n" # Quote /\ "n" # Back /\ "\n" \notin Marks
  BY DEF Tick, Quote, Back, Marks, Blank

\* A text in quotes loses nothing as a comment, if no mark follows an inner quote.
LEMMA StripKeeps ==
  ASSUME NEW s, Sequence(s), Len(s) >= 1, NEW q \in {Tick, Quote}, s[1] = q,
         \A i, j \in 2..Len(s) : i < j => ~(s[i] = q /\ s[j] \in Marks)
  PROVE  StripComment(s) = s
<1> DEFINE n == Len(s)
<1>1. n \in Nat
  BY SequenceIs
<1>2. PICK f : Scanning(s, f) /\ StripComment(s) = IF f[n].cut THEN SubSeq(s, 1, f[n].last) ELSE s
  BY StripScans
<1> DEFINE S == {i \in 0..n :
                   /\ f[i].cut = FALSE
                   /\ i >= 1 /\ (\A k \in 2..i : s[k] # q) =>
                        f[i].single = (q = Tick) /\ f[i].double = (q = Quote)}
<1>3. /\ \A i \in 0..n : f[i] \in Scans(s)
      /\ f[0] = FirstScan /\ \A i \in 1..n : f[i] = ScanComment(s, f[i - 1], i)
  BY <1>2 DEF Scanning
<1>4. 0 \in S
  BY <1>1, <1>3 DEF FirstScan
<1>5. ASSUME NEW i \in 0..n-1, i \in S PROVE i + 1 \in S
  <2> DEFINE c == s[i + 1]
             st == f[i]
             next == f[i + 1]
  <2>1. i + 1 \in 1..n /\ i \in 0..n /\ i + 1 \in 0..n /\ (i + 1) - 1 = i /\ n = Len(s)
    BY <1>1
  <2>2. next = ScanComment(s, st, i + 1)
    BY <1>3, <2>1
  <2>3. st \in Scans(s) /\ st.cut = FALSE /\ st.single \in BOOLEAN /\ st.double \in BOOLEAN
    BY <1>3, <1>5, <2>1 DEF Scans
  <2>4. /\ next.single = (IF c = Tick /\ ~st.double THEN ~st.single ELSE st.single)
        /\ next.double = (IF c = Quote /\ ~st.single THEN ~st.double ELSE st.double)
        /\ next.cut = (~next.single /\ ~next.double /\ c \in Marks)
    <3> HIDE DEF st, next
    <3>1. next.single = (IF c = Tick /\ ~st.double THEN ~st.single ELSE st.single)
      BY <2>2, <2>3 DEF ScanComment
    <3>2. next.double = (IF c = Quote /\ ~st.single THEN ~st.double ELSE st.double)
      BY <2>2, <2>3 DEF ScanComment
    <3>3. next.cut = (~next.single /\ ~next.double /\ c \in Marks)
      BY <2>2, <2>3 DEF ScanComment
    <3> QED
      BY <3>1, <3>2, <3>3
  <2>5. i >= 1 /\ (\A k \in 2..i : s[k] # q) => st.single = (q = Tick) /\ st.double = (q = Quote)
    BY <1>5
  <2>6. i = 0 => c = q /\ st = FirstScan
    BY <1>3
  <2>7. c \in Marks => i >= 1 /\ \A k \in 2..i : s[k] # q
    <3> SUFFICES ASSUME c \in Marks PROVE i >= 1 /\ \A k \in 2..i : s[k] # q
      OBVIOUS
    <3>1. i # 0
      BY <2>6, CharactersDiffer
    <3>2. ASSUME NEW k \in 2..i PROVE s[k] # q
      <4>1. k \in 2..Len(s) /\ i + 1 \in 2..Len(s) /\ k < i + 1
        BY <2>1, <3>1
      <4> QED
        BY <4>1
    <3> QED
      BY <2>1, <3>1, <3>2
  <2>8. (\A k \in 2..i+1 : s[k] # q) => (\A k \in 2..i : s[k] # q) /\ (i >= 1 => c # q)
    BY <2>1
  <2> HIDE DEF c, st, next, n
  <2>9. CASE i = 0
    <3>1. c = q /\ st.single = FALSE /\ st.double = FALSE
      BY <2>6, <2>9 DEF FirstScan
    <3>2. next.single = (q = Tick) /\ next.double = (q = Quote) /\ next.cut = FALSE
      BY <2>4, <3>1, CharactersDiffer
    <3> QED
      BY <2>1, <3>2 DEF next
  <2>10. CASE i >= 1
    <3>1. next.cut = FALSE
      <4>1. CASE c \in Marks
        <5>1. st.single = (q = Tick) /\ st.double = (q = Quote) /\ c # Tick /\ c # Quote
          BY <2>5, <2>7, <4>1, CharactersDiffer
        <5> QED
          BY <2>4, <5>1
      <4>2. CASE c \notin Marks
        BY <2>4, <4>2
      <4> QED
        BY <4>1, <4>2
    <3>2. ASSUME \A k \in 2..i+1 : s[k] # q PROVE next.single = (q = Tick) /\ next.double = (q = Quote)
      <4>1. st.single = (q = Tick) /\ st.double = (q = Quote) /\ c # q
        BY <2>5, <2>8, <2>10, <3>2
      <4> QED
        BY <2>4, <4>1, CharactersDiffer
    <3> QED
      BY <2>1, <3>1, <3>2 DEF next
  <2>11. i = 0 \/ i >= 1
    BY <2>1
  <2> HIDE DEF S
  <2> QED
    BY <2>9, <2>10, <2>11
<1> HIDE DEF S
<1>6. 0..n \subseteq S
  BY <1>1, <1>4, <1>5, CountUp
<1>7. f[n].cut = FALSE
  BY <1>1, <1>6 DEF S
<1> QED
  BY <1>2, <1>7

\* The states of the reading of escapes, and its run over a text.
Meanings(meant) == \A c \in DOMAIN meant : Sequence(meant[c])
ReadAll(s, meant, T, f) ==
  /\ f \in [0..Len(s) -> [open : BOOLEAN, out : Seq(T)]] /\ f[0] = [open |-> FALSE, out |-> <<>>]
  /\ \A i \in 1..Len(s) : f[i] = ReadEscaped(meant, f[i - 1], s[i])

\* decode_escapes_for_string() reads one character after the other.
LEMMA DecodedReads ==
  ASSUME NEW s, Sequence(s), NEW meant, NEW T, Back \in T, Range(s) \subseteq T,
         \A c \in DOMAIN meant : meant[c] \in Seq(T)
  PROVE  \E f : /\ ReadAll(s, meant, T, f)
                /\ Decoded(s, meant) = IF f[Len(s)].open THEN Append(f[Len(s)].out, Back) ELSE f[Len(s)].out
<1> DEFINE n == Len(s)
           Q == [open : BOOLEAN, out : Seq(T)]
           base == [open |-> FALSE, out |-> <<>>]
           step == [x \in Q \X (1..n) |-> ReadEscaped(meant, x[1], s[x[2]])]
           Is(f) == f = [i \in 0..n |-> IF i = 0 THEN base ELSE ReadEscaped(meant, f[i - 1], s[i])]
           after == CHOOSE f : Is(f)
<1>1. n \in Nat /\ \A i \in 1..n : s[i] \in T
  BY SequenceIs DEF Range
<1>2. base \in Q
  OBVIOUS
<1>3. ASSUME NEW x \in Q, NEW i \in 1..n PROVE ReadEscaped(meant, x, s[i]) \in Q
  <2> DEFINE c == s[i]
             piece == IF c \in DOMAIN meant THEN meant[c] ELSE <<Back, c>>
  <2>1. c \in T /\ x.open \in BOOLEAN /\ x.out \in Seq(T)
    BY <1>1
  <2> HIDE DEF c
  <2>2. piece \in Seq(T)
    BY <2>1
  <2> HIDE DEF piece
  <2>3. x.out \o piece \in Seq(T) /\ Append(x.out, c) \in Seq(T)
    BY <2>1, <2>2
  <2>4. \/ ReadEscaped(meant, x, c) = [open |-> FALSE, out |-> x.out \o piece]
        \/ ReadEscaped(meant, x, c) = [open |-> TRUE, out |-> x.out]
        \/ ReadEscaped(meant, x, c) = [open |-> FALSE, out |-> Append(x.out, c)]
    BY DEF ReadEscaped, piece
  <2> DEFINE a == x.out \o piece
             b == Append(x.out, c)
  <2>5. \A o \in Seq(T) : [open |-> FALSE, out |-> o] \in Q /\ [open |-> TRUE, out |-> o] \in Q
    OBVIOUS
  <2> HIDE DEF a, b, Q
  <2>6. ReadEscaped(meant, x, c) \in Q
    BY <2>1, <2>3, <2>4, <2>5 DEF a, b
  <2> QED
    BY <2>6 DEF c
<1>4. StepOn(Q, n, step)
  <2> HIDE DEF n, Q
  <2> QED
    BY <1>3 DEF StepOn
<1>5. ASSUME NEW x \in Q, NEW i \in 1..n PROVE step[<<x, i>>] = ReadEscaped(meant, x, s[i])
  <2> HIDE DEF n, Q
  <2> QED
    OBVIOUS
<1> HIDE DEF step, Q, base
<1>6. PICK g : Stepwise(Q, n, base, step, g)
  BY <1>1, <1>2, <1>4, StepsExist
<1>7. ASSUME NEW f, Stepwise(Q, n, base, step, f)
      PROVE  f \in [0..n -> Q] /\ f[0] = base /\ \A i \in 1..n : f[i] = ReadEscaped(meant, f[i - 1], s[i])
  <2>1. f \in [0..n -> Q] /\ f[0] = base /\ \A i \in 1..n : f[i] = step[<<f[i - 1], i>>]
    BY <1>7 DEF Stepwise
  <2>2. ASSUME NEW i \in 1..n PROVE f[i] = ReadEscaped(meant, f[i - 1], s[i])
    <3>1. i - 1 \in 0..n /\ f[i - 1] \in Q
      BY <1>1, <2>1
    <3> QED
      BY <1>5, <2>1, <3>1
  <2> QED
    BY <2>1, <2>2
<1>8. Is(g)
  <2>1. g = [i \in 0..n |-> g[i]]
    BY <1>6, <1>7
  <2>2. ASSUME NEW i \in 0..n PROVE g[i] = IF i = 0 THEN base ELSE ReadEscaped(meant, g[i - 1], s[i])
    BY <1>1, <1>6, <1>7
  <2> QED
    BY <2>1, <2>2, Zenon
<1>9. Is(after)
  <2> HIDE DEF Is
  <2> QED
    BY <1>8
<1>10. Decoded(s, meant) = IF after[n].open THEN Append(after[n].out, Back) ELSE after[n].out
  BY DEF Decoded, base
<1>11. Stepwise(Q, n, base, step, after)
  <2>1. ASSUME NEW f, Is(f) PROVE Stepwise(Q, n, base, step, f)
    <3>0. DOMAIN f = 0..n /\ \A i \in 0..n : f[i] = IF i = 0 THEN base ELSE ReadEscaped(meant, f[i - 1], s[i])
      BY <2>1, Zenon
    <3>1. f = [i \in 0..n |-> f[i]] /\ f[0] = base /\ \A i \in 1..n : f[i] = ReadEscaped(meant, f[i - 1], s[i])
      <4> HIDE DEF n
      <4>1. f = [i \in 0..n |-> f[i]]
        BY <2>1
      <4>2. 0 \in 0..n /\ \A i \in 1..n : i \in 0..n /\ i # 0
        BY <1>1
      <4> HIDE DEF Is
      <4> QED
        BY <3>0, <4>1, <4>2
    <3>2. \A i \in 1..n : f[i - 1] \in Q => f[i] = step[<<f[i - 1], i>>]
      BY <1>5, <3>1
    <3> HIDE DEF Is, n
    <3> QED
      BY <1>1, <1>2, <1>4, <3>1, <3>2, StepsFollow
  <2> HIDE DEF Is, after
  <2> QED
    BY <1>9, <2>1
<1> HIDE DEF after
<1>12. ReadAll(s, meant, T, after)
  BY <1>7, <1>11 DEF ReadAll, Q, base
<1> QED
  BY <1>10, <1>12

\* What is read is a text.
LEMMA DecodedIs ==
  ASSUME NEW s, Sequence(s), NEW meant, Meanings(meant)
  PROVE  Sequence(Decoded(s, meant))
<1> DEFINE T == {Back} \cup Range(s) \cup UNION {Range(meant[c]) : c \in DOMAIN meant}
           n == Len(s)
<1>1. Back \in T /\ Range(s) \subseteq T /\ n \in Nat
  BY SequenceIs
<1>2. ASSUME NEW c \in DOMAIN meant PROVE meant[c] \in Seq(T)
  <2>1. Range(meant[c]) \subseteq T
    OBVIOUS
  <2>2. meant[c] \in Seq(Range(meant[c]))
    BY DEF Meanings, Sequence
  <2> HIDE DEF T
  <2> QED
    BY <2>1, <2>2, SeqDef
<1> HIDE DEF T
<1>3. PICK f : /\ ReadAll(s, meant, T, f)
               /\ Decoded(s, meant) = IF f[n].open THEN Append(f[n].out, Back) ELSE f[n].out
  BY <1>1, <1>2, DecodedReads
<1>4. f[n] \in [open : BOOLEAN, out : Seq(T)]
  BY <1>1, <1>3 DEF ReadAll
<1>5. Decoded(s, meant) \in Seq(T)
  BY <1>1, <1>3, <1>4
<1> QED
  BY <1>5, SeqOfRange DEF Sequence

\* unquote_and_unescape() of a literal drops a backslash before a double quote.
Dropped(s, i) == s[i] = Back /\ i < Len(s) /\ s[i + 1] = Quote
Unescaping(s, f) ==
  /\ f \in [0..Len(s) -> Seq(Range(s))] /\ f[0] = <<>>
  /\ \A i \in 1..Len(s) : f[i] = IF Dropped(s, i) THEN f[i - 1] ELSE Append(f[i - 1], s[i])

\* It looks at one character after the other.
LEMMA LiteralReads ==
  ASSUME NEW s, Sequence(s)
  PROVE  \E f : Unescaping(s, f) /\ DecodeLiteral(s) = f[Len(s)]
<1> DEFINE n == Len(s)
           Q == Seq(Range(s))
           Next1(x, i) == IF Dropped(s, i) THEN x ELSE Append(x, s[i])
           step == [x \in Q \X (1..n) |-> Next1(x[1], x[2])]
           Is(f) == f = [i \in 0..n |-> IF i = 0 THEN <<>> ELSE Next1(f[i - 1], i)]
           after == CHOOSE f : Is(f)
<1>1. n \in Nat /\ \A i \in 1..n : s[i] \in Range(s)
  BY SequenceIs DEF Range
<1>2. <<>> \in Q
  OBVIOUS
<1>3. ASSUME NEW x \in Q, NEW i \in 1..n PROVE Next1(x, i) \in Q
  BY <1>1
<1>10. DecodeLiteral(s) = after[n]
  BY DEF DecodeLiteral, Dropped
<1> HIDE DEF Next1
<1>4. StepOn(Q, n, step)
  <2> HIDE DEF n, Q
  <2> QED
    BY <1>3 DEF StepOn
<1>5. ASSUME NEW x \in Q, NEW i \in 1..n PROVE step[<<x, i>>] = Next1(x, i)
  <2> HIDE DEF n, Q
  <2> QED
    OBVIOUS
<1> HIDE DEF step, Q
<1>6. PICK g : Stepwise(Q, n, <<>>, step, g)
  BY <1>1, <1>2, <1>4, StepsExist
<1>7. ASSUME NEW f, Stepwise(Q, n, <<>>, step, f)
      PROVE  f \in [0..n -> Q] /\ f[0] = <<>> /\ \A i \in 1..n : f[i] = Next1(f[i - 1], i)
  <2>1. f \in [0..n -> Q] /\ f[0] = <<>> /\ \A i \in 1..n : f[i] = step[<<f[i - 1], i>>]
    BY <1>7 DEF Stepwise
  <2>2. ASSUME NEW i \in 1..n PROVE f[i] = Next1(f[i - 1], i)
    <3>1. i - 1 \in 0..n /\ f[i - 1] \in Q
      BY <1>1, <2>1
    <3> QED
      BY <1>5, <2>1, <3>1
  <2> QED
    BY <2>1, <2>2
<1>8. Is(g)
  <2>1. g = [i \in 0..n |-> g[i]]
    BY <1>6, <1>7
  <2>2. ASSUME NEW i \in 0..n PROVE g[i] = IF i = 0 THEN <<>> ELSE Next1(g[i - 1], i)
    BY <1>1, <1>6, <1>7
  <2> QED
    BY <2>1, <2>2, Zenon
<1>9. Is(after)
  <2> HIDE DEF Is
  <2> QED
    BY <1>8
<1>11. Stepwise(Q, n, <<>>, step, after)
  <2>1. ASSUME NEW f, Is(f) PROVE Stepwise(Q, n, <<>>, step, f)
    <3>0. DOMAIN f = 0..n /\ \A i \in 0..n : f[i] = IF i = 0 THEN <<>> ELSE Next1(f[i - 1], i)
      BY <2>1, Zenon
    <3>1. f = [i \in 0..n |-> f[i]] /\ f[0] = <<>> /\ \A i \in 1..n : f[i] = Next1(f[i - 1], i)
      <4> HIDE DEF n
      <4>1. f = [i \in 0..n |-> f[i]]
        BY <2>1
      <4>2. 0 \in 0..n /\ \A i \in 1..n : i \in 0..n /\ i # 0
        BY <1>1
      <4> HIDE DEF Is
      <4> QED
        BY <3>0, <4>1, <4>2
    <3>2. \A i \in 1..n : f[i - 1] \in Q => f[i] = step[<<f[i - 1], i>>]
      BY <1>5, <3>1
    <3> HIDE DEF Is, n
    <3> QED
      BY <1>1, <1>2, <1>4, <3>1, <3>2, StepsFollow
  <2> HIDE DEF Is, after
  <2> QED
    BY <1>9, <2>1
<1> HIDE DEF after
<1>12. Unescaping(s, after)
  BY <1>7, <1>11 DEF Unescaping, Q, Next1
<1> QED
  BY <1>10, <1>12

\* What is read of a literal is a text.
LEMMA LiteralIs ==
  ASSUME NEW s, Sequence(s) PROVE Sequence(DecodeLiteral(s))
<1>1. Len(s) \in Nat
  BY SequenceIs
<1>2. PICK f : Unescaping(s, f) /\ DecodeLiteral(s) = f[Len(s)]
  BY LiteralReads
<1>3. DecodeLiteral(s) \in Seq(Range(s))
  BY <1>1, <1>2 DEF Unescaping
<1> QED
  BY <1>3, SeqOfRange DEF Sequence

\* Texts joined one by one: f[i] holds the first i of them.
Joining(ss, f) ==
  /\ f[0] = <<>> /\ \A i \in 0..Len(ss) : Sequence(f[i])
  /\ \A i \in 1..Len(ss) : f[i] = f[i - 1] \o ss[i]

\* FlattenSeq joins them, also when there are none.
LEMMA FlattenJoins ==
  ASSUME NEW ss, Sequence(ss), \A i \in 1..Len(ss) : Sequence(ss[i])
  PROVE  \E f : Joining(ss, f) /\ FlattenSeq(ss) = f[Len(ss)]
<1> DEFINE n == Len(ss)
<1>1. n \in Nat /\ Sequence(<<>>)
  BY SequenceIs DEF Sequence
<1>2. CASE n = 0
  <2> DEFINE g == [i \in 0..0 |-> <<>>]
  <2>1. g[0] = <<>> /\ \A i \in 0..0 : g[i] = <<>>
    OBVIOUS
  <2>2. ss = <<>>
    <3>1. ss \in Seq(Range(ss)) /\ Len(ss) = 0
      BY <1>2 DEF Sequence
    <3> QED
      BY <3>1
  <2>3. FlattenSeq(ss) = ss
    BY <1>2 DEF FlattenSeq
  <2> HIDE DEF g, n
  <2>4. Joining(ss, g)
    BY <1>1, <1>2, <2>1 DEF Joining, n
  <2> QED
    BY <1>2, <2>1, <2>2, <2>3, <2>4 DEF n
<1>3. CASE n # 0
  <2>1. PICK h : /\ FlattenSeq(ss) = h[n]
                 /\ h = [i \in 1..n |-> IF i = 1 THEN ss[i] ELSE h[i - 1] \o ss[i]]
    BY <1>1, <1>3, FlattenIsDefined
  <2>2. \A i \in 1..n : h[i] = IF i = 1 THEN ss[i] ELSE h[i - 1] \o ss[i]
    BY <2>1, Zenon
  <2> DEFINE g == [i \in 0..n |-> IF i = 0 THEN <<>> ELSE h[i]]
             S == {i \in 0..n : Sequence(g[i])}
  <2>3. g[0] = <<>> /\ \A i \in 1..n : g[i] = h[i]
    BY <1>1
  <2> HIDE DEF g, n
  <2>4. ASSUME NEW i \in 1..n PROVE g[i] = g[i - 1] \o ss[i]
    <3>1. CASE i = 1
      <4>1. ss[1] \in Seq(Range(ss[1]))
        BY <3>1 DEF Sequence, n
      <4>2. <<>> \o ss[1] = ss[1]
        BY <4>1
      <4>3. g[1] = ss[1] /\ g[0] = <<>> /\ i - 1 = 0
        <5>1. h[1] = ss[1] /\ g[1] = h[1]
          BY <2>2, <2>3, <3>1, Zenon
        <5> QED
          BY <2>3, <3>1, <5>1
      <4> QED
        BY <3>1, <4>2, <4>3
    <3>2. CASE i # 1
      <4>1. i - 1 \in 1..n
        BY <1>1, <3>2
      <4>2. g[i - 1] = h[i - 1] /\ g[i] = h[i]
        BY <2>3, <4>1
      <4>3. h[i] = h[i - 1] \o ss[i]
        BY <2>2, <3>2, Zenon
      <4> QED
        BY <4>2, <4>3
    <3> QED
      BY <3>1, <3>2
  <2>5. 0 \in S
    BY <1>1, <2>3
  <2>6. ASSUME NEW m \in 0..n-1, m \in S PROVE m + 1 \in S
    <3>1. m + 1 \in 1..n /\ (m + 1) - 1 = m /\ m + 1 \in 0..n
      BY <1>1
    <3>2. Sequence(g[m] \o ss[m + 1])
      BY <2>6, <3>1, Joined DEF n
    <3> QED
      BY <2>4, <3>1, <3>2
  <2> HIDE DEF S
  <2>7. 0..n \subseteq S
    BY <1>1, <2>5, <2>6, CountUp
  <2>8. Joining(ss, g)
    BY <2>3, <2>4, <2>7 DEF Joining, S, n
  <2>9. FlattenSeq(ss) = g[n]
    BY <1>1, <1>3, <2>1, <2>3
  <2> QED
    BY <2>8, <2>9 DEF n
<1> QED
  BY <1>2, <1>3

-----------------------------------------------------------------------------
(***************************************************************************)
(* What an encoder writes: a piece for each character, joined.  A text in  *)
(* quotes is read whole, and each piece is read as its character.          *)
(***************************************************************************)
\* What an encoder writes for a character c of a text in quotes q.
PieceOf(c, p, q) ==
  \/ p = <<c>> /\ c # q /\ c # "\n"
  \/ c \notin Marks /\ \E d \in {"n", Back, q} : p = <<Back, d>> /\ (d = q => c = q)

LEMMA PieceIs ==
  ASSUME NEW c, NEW p, NEW q \in {Tick, Quote}, PieceOf(c, p, q)
  PROVE  /\ Sequence(p) /\ Len(p) \in {1, 2}
         /\ \A y \in 1..Len(p) : p[y] # "\n" /\ (p[y] = q => c = q) /\ (p[y] \in Marks => c \in Marks /\ p = <<c>>)
<1>1. CASE p = <<c>> /\ c # q /\ c # "\n"
  <2>1. Sequence(<<c>>) /\ Len(<<c>>) = 1 /\ <<c>>[1] = c
    BY DEF Sequence, Range
  <2> QED
    BY <1>1, <2>1
<1>2. CASE c \notin Marks /\ \E d \in {"n", Back, q} : p = <<Back, d>> /\ (d = q => c = q)
  <2>1. PICK d \in {"n", Back, q} : p = <<Back, d>> /\ (d = q => c = q)
    BY <1>2
  <2>2. Sequence(<<Back, d>>) /\ Len(<<Back, d>>) = 2 /\ <<Back, d>>[1] = Back /\ <<Back, d>>[2] = d
    BY DEF Sequence, Range
  <2>3. /\ Back # "\n" /\ d # "\n" /\ Back # q /\ Back \notin Marks /\ d \notin Marks
    BY CharactersDiffer
  <2> QED
    BY <2>1, <2>2, <2>3
<1> QED
  BY <1>1, <1>2 DEF PieceOf

LEMMA EscapePiece ==
  ASSUME NEW c PROVE PieceOf(c, EscapeString(c), Tick)
<1>1. CASE c = "\n"
  BY <1>1, CharactersDiffer DEF EscapeString, PieceOf
<1>2. CASE c \in {Back, Tick}
  BY <1>2, CharactersDiffer DEF EscapeString, PieceOf
<1>3. CASE c \notin {Back, Tick, "\n"}
  BY <1>3 DEF EscapeString, PieceOf
<1> QED
  BY <1>1, <1>2, <1>3

LEMMA LiteralPiece ==
  ASSUME NEW c, c # "\n" PROVE PieceOf(c, EscapeLiteral(c), Quote)
  BY CharactersDiffer DEF EscapeLiteral, PieceOf

\* A join appended: what it leaves in front, and adds behind.
LEMMA Appended ==
  ASSUME NEW a, Sequence(a), NEW b, Sequence(b)
  PROVE  /\ Sequence(a \o b) /\ Len(a) \in Nat /\ Len(b) \in Nat /\ Len(a \o b) = Len(a) + Len(b)
         /\ \A x \in 1..Len(a) : (a \o b)[x] = a[x]
         /\ \A y \in 1..Len(b) : (a \o b)[Len(a) + y] = b[y]
<1> DEFINE T == Range(a) \cup Range(b)
           c == a \o b
<1>1. a \in Seq(T) /\ b \in Seq(T) /\ Len(a) \in Nat /\ Len(b) \in Nat
  BY SequenceIs, SeqDef DEF Sequence
<1> HIDE DEF T
<1>2. /\ c \in Seq(T) /\ Len(c) = Len(a) + Len(b)
      /\ \A i \in 1..Len(a) + Len(b) : c[i] = IF i =< Len(a) THEN a[i] ELSE b[i - Len(a)]
  BY <1>1, ConcatProperties
<1> HIDE DEF c
<1>3. ASSUME NEW x \in 1..Len(a) PROVE c[x] = a[x]
  BY <1>1, <1>2
<1>4. ASSUME NEW y \in 1..Len(b) PROVE c[Len(a) + y] = b[y]
  <2>1. Len(a) + y \in 1..Len(a) + Len(b) /\ ~(Len(a) + y =< Len(a)) /\ Len(a) + y - Len(a) = y
    BY <1>1
  <2> QED
    BY <1>2, <2>1
<1>5. Sequence(c)
  BY <1>2, SeqOfRange, Zenon DEF Sequence
<1> QED
  BY <1>1, <1>2, <1>3, <1>4, <1>5 DEF c

\* The place of each text that was joined.
Places(ss, f) ==
  /\ \A i \in 1..Len(ss) : Len(f[i]) = Len(f[i - 1]) + Len(ss[i]) /\ Len(f[i - 1]) \in Nat /\ Len(ss[i]) \in Nat
  /\ \A i \in 1..Len(ss) : \A y \in 1..Len(ss[i]) :
       Len(f[i - 1]) + y \in 1..Len(f[Len(ss)]) /\ f[Len(ss)][Len(f[i - 1]) + y] = ss[i][y]

LEMMA JoinedPlaces ==
  ASSUME NEW ss, Sequence(ss), \A i \in 1..Len(ss) : Sequence(ss[i]), NEW f, Joining(ss, f)
  PROVE  Places(ss, f)
<1> DEFINE n == Len(ss)
           Holds1(j) == \A i \in 1..j : \A y \in 1..Len(ss[i]) :
                          Len(f[i - 1]) + y \in 1..Len(f[j]) /\ f[j][Len(f[i - 1]) + y] = ss[i][y]
           S == {j \in 0..n : Holds1(j)}
<1>1. n \in Nat
  BY SequenceIs
<1>2. ASSUME NEW i \in 1..n
      PROVE  /\ Sequence(f[i - 1]) /\ Sequence(ss[i]) /\ f[i] = f[i - 1] \o ss[i]
             /\ Len(f[i - 1]) \in Nat /\ Len(ss[i]) \in Nat /\ Len(f[i]) = Len(f[i - 1]) + Len(ss[i])
             /\ \A x \in 1..Len(f[i - 1]) : f[i][x] = f[i - 1][x]
             /\ \A y \in 1..Len(ss[i]) : f[i][Len(f[i - 1]) + y] = ss[i][y]
  <2>1. i - 1 \in 0..n
    BY <1>1
  <2>2. Sequence(f[i - 1]) /\ Sequence(ss[i]) /\ f[i] = f[i - 1] \o ss[i]
    BY <2>1 DEF Joining
  <2> DEFINE a == f[i - 1]
             b == ss[i]
  <2>3. Sequence(a) /\ Sequence(b) /\ f[i] = a \o b
    BY <2>2
  <2> HIDE DEF a, b
  <2>4. /\ Len(a) \in Nat /\ Len(b) \in Nat /\ Len(f[i]) = Len(a) + Len(b)
        /\ \A x \in 1..Len(a) : f[i][x] = a[x]
        /\ \A y \in 1..Len(b) : f[i][Len(a) + y] = b[y]
    BY <2>3, Appended
  <2> QED
    BY <2>2, <2>4 DEF a, b
<1>3. 0 \in S
  BY <1>1
<1>4. ASSUME NEW m \in 0..n-1, m \in S PROVE m + 1 \in S
  <2>1. m + 1 \in 1..n /\ (m + 1) - 1 = m /\ m + 1 \in 0..n
    BY <1>1
  <2> DEFINE a == Len(f[m])
             b == Len(ss[m + 1])
  <2>2. /\ a \in Nat /\ b \in Nat /\ Len(f[m + 1]) = a + b
        /\ \A x \in 1..a : f[m + 1][x] = f[m][x]
        /\ \A y \in 1..b : f[m + 1][a + y] = ss[m + 1][y]
    <3> DEFINE i == m + 1
    <3>1. i \in 1..n /\ i - 1 = m
      BY <2>1
    <3> HIDE DEF i, a, b
    <3>2. /\ Len(f[i - 1]) \in Nat /\ Len(ss[i]) \in Nat /\ Len(f[i]) = Len(f[i - 1]) + Len(ss[i])
          /\ \A x \in 1..Len(f[i - 1]) : f[i][x] = f[i - 1][x]
          /\ \A y \in 1..Len(ss[i]) : f[i][Len(f[i - 1]) + y] = ss[i][y]
      BY <1>2, <3>1
    <3>3. /\ Len(f[m]) \in Nat /\ Len(ss[i]) \in Nat /\ Len(f[i]) = Len(f[m]) + Len(ss[i])
          /\ \A x \in 1..Len(f[m]) : f[i][x] = f[m][x]
          /\ \A y \in 1..Len(ss[i]) : f[i][Len(f[m]) + y] = ss[i][y]
      BY <3>1, <3>2, Zenon
    <3> QED
      BY <3>3 DEF i, a, b
  <2>3. ASSUME NEW i \in 1..m+1, NEW y \in 1..Len(ss[i])
        PROVE  Len(f[i - 1]) + y \in 1..Len(f[m + 1]) /\ f[m + 1][Len(f[i - 1]) + y] = ss[i][y]
    <3>1. CASE i = m + 1
      <4>1. y \in 1..b /\ i - 1 = m
        BY <2>1, <3>1
      <4> HIDE DEF a, b
      <4>2. a + y \in 1..a + b
        BY <2>2, <4>1
      <4> QED
        BY <2>2, <3>1, <4>1, <4>2 DEF a
    <3>2. CASE i \in 1..m
      <4>1. Len(f[i - 1]) + y \in 1..a /\ f[m][Len(f[i - 1]) + y] = ss[i][y]
        BY <1>4, <3>2
      <4> DEFINE x == Len(f[i - 1]) + y
      <4> HIDE DEF a, b, x
      <4>2. x \in 1..a + b
        BY <2>2, <4>1 DEF x
      <4> QED
        BY <2>2, <4>1, <4>2 DEF x
    <3> QED
      BY <2>1, <3>1, <3>2
  <2> QED
    BY <2>1, <2>3
<1> HIDE DEF S, Holds1
<1>5. 0..n \subseteq S
  BY <1>1, <1>3, <1>4, CountUp
<1>6. Holds1(n)
  BY <1>1, <1>5 DEF S
<1> QED
  BY <1>2, <1>6 DEF Places, Holds1

\* A text that stays one value between two quotes q: no line feed, and no mark
\* behind a quote.
Clean(t, q) ==
  \A x \in 1..Len(t) : t[x] # "\n" /\ \A y \in 1..Len(t) : x < y => ~(t[x] = q /\ t[y] \in Marks)

\* What an encoder writes for a text is clean if the text is.
LEMMA PiecesAreClean ==
  ASSUME NEW v, NEW n \in Nat, NEW q \in {Tick, Quote},
         \A i, j \in 1..n : i < j => ~(v[i] = q /\ v[j] \in Marks),
         NEW ss, Sequence(ss), Len(ss) = n, \A i \in 1..n : PieceOf(v[i], ss[i], q),
         NEW f, Joining(ss, f)
  PROVE  Clean(f[n], q)
<1> DEFINE From(m) == \A x \in 1..Len(f[m]) : f[m][x] = q => \E i \in 1..m : v[i] = q
           S == {m \in 0..n : Clean(f[m], q) /\ From(m)}
<1>1. 0 \in S
  <2>1. f[0] = <<>> /\ 1..Len(<<>>) = {}
    BY DEF Joining
  <2>2. Clean(f[0], q) /\ From(0)
    BY <2>1 DEF Clean
  <2> QED
    BY <2>2
<1>2. ASSUME NEW m \in 0..n-1, m \in S PROVE m + 1 \in S
  <2> DEFINE a == f[m]
             p == ss[m + 1]
             c == v[m + 1]
             t == f[m + 1]
  <2>1. m + 1 \in 1..n /\ m + 1 \in 0..n /\ m \in 0..n /\ (m + 1) - 1 = m
    OBVIOUS
  <2>2. PieceOf(c, p, q)
    BY <2>1
  <2>3. Clean(a, q) /\ From(m)
    BY <1>2
  <2>4. t = a \o p /\ Sequence(a)
    BY <2>1 DEF Joining
  <2>5. \A i \in 1..m : v[i] = q => c \notin Marks
    BY <2>1
  <2>12. From(m) => \A x \in 1..Len(a) : a[x] = q => \E i \in 1..m : v[i] = q
    OBVIOUS
  <2>13. (\A x \in 1..Len(t) : t[x] = q => \E i \in 1..m+1 : v[i] = q) => From(m + 1)
    OBVIOUS
  <2>14. \A i \in 1..m : i \in 1..m+1 /\ v[i] = v[i]
    BY <2>1
  <2>15. c = q => \E i \in 1..m+1 : v[i] = q
    <3>1. m + 1 \in 1..m+1
      BY <2>1
    <3> QED
      BY <3>1
  <2> HIDE DEF a, p, c, t, From
  <2>6. /\ Sequence(p) /\ Len(p) \in {1, 2}
        /\ \A y \in 1..Len(p) : p[y] # "\n" /\ (p[y] = q => c = q) /\ (p[y] \in Marks => c \in Marks /\ p = <<c>>)
    BY <2>2, PieceIs
  <2>7. /\ Len(a) \in Nat /\ Len(t) = Len(a) + Len(p)
        /\ \A x \in 1..Len(a) : t[x] = a[x]
        /\ \A y \in 1..Len(p) : t[Len(a) + y] = p[y]
    BY <2>4, <2>6, Appended
  <2> DEFINE k == Len(a)
             l == Len(p)
  <2>8. ASSUME NEW x \in 1..Len(t)
        PROVE  x \in 1..k \/ (x - k \in 1..l /\ t[x] = p[x - k] /\ x > k)
    <3> HIDE DEF k, l
    <3>1. k \in Nat /\ l \in {1, 2} /\ x \in 1..k+l
      BY <2>6, <2>7 DEF k, l
    <3>2. CASE x \in 1..k
      BY <3>2
    <3>3. CASE x \notin 1..k
      <4>1. x - k \in 1..l /\ k + (x - k) = x /\ x > k
        BY <3>1, <3>3
      <4>2. t[k + (x - k)] = p[x - k]
        BY <2>7, <4>1 DEF k, l
      <4> QED
        BY <4>1, <4>2
    <3> QED
      BY <3>2, <3>3
  <2>9. ASSUME NEW x \in 1..Len(t), t[x] = q PROVE \E i \in 1..m+1 : v[i] = q
    <3>1. CASE x \in 1..k
      <4>1. a[x] = q
        BY <2>7, <2>9, <3>1
      <4>2. PICK i \in 1..m : v[i] = q
        BY <2>3, <2>12, <3>1, <4>1
      <4> QED
        BY <2>14, <4>2
    <3>2. CASE x - k \in 1..l /\ t[x] = p[x - k]
      <4>1. c = q
        BY <2>6, <2>9, <3>2
      <4> QED
        BY <2>15, <4>1
    <3> QED
      BY <2>8, <3>1, <3>2
  <2>10. ASSUME NEW x \in 1..Len(t), NEW y \in 1..Len(t), x < y, t[x] = q, t[y] \in Marks PROVE FALSE
    <3>1. CASE y \in 1..k
      <4>1. x \in 1..k
        BY <2>10, <3>1
      <4>2. a[x] = q /\ a[y] \in Marks
        BY <2>7, <2>10, <3>1, <4>1
      <4> QED
        BY <2>3, <2>10, <3>1, <4>1, <4>2 DEF Clean
    <3>2. CASE y - k \in 1..l /\ t[y] = p[y - k] /\ y > k
      <4>1. c \in Marks /\ p = <<c>>
        BY <2>6, <2>10, <3>2
      <4>2. l = 1
        BY <4>1
      <4> HIDE DEF k, l
      <4>3. x \in 1..k
        <5>1. k \in Nat /\ y - k \in 1..1
          BY <2>7, <3>2, <4>2 DEF k
        <5>2. x < y /\ x \in Nat /\ x >= 1 /\ y \in Nat
          <6>1. Len(t) \in Nat
            BY <2>6, <2>7
          <6> QED
            BY <2>10, <6>1
        <5> QED
          BY <5>1, <5>2
      <4>4. a[x] = q
        BY <2>7, <2>10, <4>3 DEF k
      <4>5. PICK i \in 1..m : v[i] = q
        BY <2>3, <2>12, <4>3, <4>4 DEF k
      <4> QED
        BY <2>5, <4>1, <4>5
    <3> QED
      BY <2>8, <3>1, <3>2
  <2>11. ASSUME NEW x \in 1..Len(t) PROVE t[x] # "\n"
    <3>1. CASE x \in 1..k
      <4>1. a[x] # "\n"
        BY <2>3, <3>1 DEF Clean
      <4> QED
        BY <2>7, <3>1, <4>1
    <3>2. CASE x - k \in 1..l /\ t[x] = p[x - k]
      BY <2>6, <3>2
    <3> QED
      BY <2>8, <3>1, <3>2
  <2> HIDE DEF k, l
  <2>16. Clean(t, q)
    BY <2>10, <2>11 DEF Clean
  <2>17. From(m + 1)
    BY <2>9, <2>13
  <2> QED
    BY <2>1, <2>16, <2>17 DEF t
<1> HIDE DEF S
<1>3. 0..n \subseteq S
  BY <1>1, <1>2, CountUp
<1> QED
  BY <1>3 DEF S

\* What the quotes enclose.
LEMMA InnerIs ==
  ASSUME NEW t, Sequence(t), NEW k \in Nat, Len(t) = k + 2
  PROVE  Sequence(Inner(t)) /\ Len(Inner(t)) = k /\ \A x \in 1..k : Inner(t)[x] = t[x + 1]
<1> DEFINE j == Len(t) - 1
           i == 2
           u == SubSeq(t, i, j)
<1>1. i \in Nat /\ i >= 1 /\ j \in Nat /\ j =< Len(t)
  OBVIOUS
<1>2. j = k + 1 /\ i = 2 /\ Inner(t) = u
  BY DEF Inner
<1> HIDE DEF i, j
<1>3. Sequence(u) /\ Len(u) = (IF i =< j THEN j - i + 1 ELSE 0) /\ \A x \in 1..j-i+1 : u[x] = t[i + x - 1]
  BY <1>1, PartIs
<1> HIDE DEF u
<1>4. Len(u) = k /\ j - i + 1 = k
  BY <1>2, <1>3
<1>5. ASSUME NEW x \in 1..k PROVE u[x] = t[x + 1]
  <2>1. i + x - 1 = x + 1
    BY <1>2
  <2> QED
    BY <1>3, <1>4, <2>1
<1> QED
  BY <1>2, <1>3, <1>4, <1>5

\* Between two quotes a clean text is read as it is: nothing is stripped, trimmed
\* or cut off, and the quotes are found where they were put.
Between(q, e) == <<q>> \o e \o <<q>>

LEMMA QuotedReads ==
  ASSUME NEW e, Sequence(e), NEW q \in {Tick, Quote}, Clean(e, q),
         NEW t, t = Between(q, e)
  PROVE  /\ Sequence(t) /\ Trim(StripComment(t)) = t
         /\ Quoted(t, q) /\ Inner(t) = e
         /\ \A r \in {Tick, Quote} : r # q => ~Quoted(t, r)
<1> DEFINE one == <<q>>
           a == one \o e
           k == Len(e)
<1>1. Sequence(one) /\ Len(one) = 1 /\ one[1] = q /\ k \in Nat
  BY SequenceIs DEF Sequence, Range
<1>2. t = a \o one
  BY DEF Between
<1> HIDE DEF one
<1>3. /\ Sequence(a) /\ Len(a) = 1 + k
      /\ \A x \in 1..1 : a[x] = one[x]
      /\ \A y \in 1..k : a[1 + y] = e[y]
  <2>1. /\ Sequence(one \o e) /\ Len(one \o e) = Len(one) + Len(e)
        /\ \A x \in 1..Len(one) : (one \o e)[x] = one[x]
        /\ \A y \in 1..Len(e) : (one \o e)[Len(one) + y] = e[y]
    <3>1. Sequence(one) /\ Sequence(e)
      BY <1>1
    <3> QED
      BY <3>1, Appended
  <2> HIDE DEF a, k
  <2>2. /\ Sequence(a) /\ Len(a) = Len(one) + k
        /\ \A x \in 1..Len(one) : a[x] = one[x]
        /\ \A y \in 1..k : a[Len(one) + y] = e[y]
    BY <2>1 DEF a, k
  <2> QED
    BY <1>1, <2>2
<1> HIDE DEF a, k
<1>4. /\ Sequence(t) /\ Len(t) = (1 + k) + 1
      /\ \A x \in 1..1+k : t[x] = a[x]
      /\ \A y \in 1..1 : t[(1 + k) + y] = one[y]
  <2>1. /\ Sequence(t) /\ Len(t) = Len(a) + Len(one)
        /\ \A x \in 1..Len(a) : t[x] = a[x]
        /\ \A y \in 1..Len(one) : t[Len(a) + y] = one[y]
    <3>1. Sequence(a) /\ Sequence(one)
      BY <1>1, <1>3
    <3>2. /\ Sequence(a \o one) /\ Len(a \o one) = Len(a) + Len(one)
          /\ \A x \in 1..Len(a) : (a \o one)[x] = a[x]
          /\ \A y \in 1..Len(one) : (a \o one)[Len(a) + y] = one[y]
      BY <3>1, Appended
    <3> QED
      BY <1>2, <3>2
  <2> QED
    BY <1>1, <1>3, <2>1
<1>5. /\ t[1] = q /\ Len(t) = k + 2 /\ t[k + 2] = q
      /\ \A x \in 2..k+1 : t[x] = e[x - 1]
  <2>1. 1 \in 1..1+k /\ (1 + k) + 1 = k + 2
    BY <1>1
  <2>2. t[1] = q /\ t[k + 2] = q
    BY <1>1, <1>3, <1>4, <2>1
  <2>3. ASSUME NEW x \in 2..k+1 PROVE t[x] = e[x - 1]
    <3>1. x \in 1..1+k /\ x - 1 \in 1..k /\ 1 + (x - 1) = x
      BY <1>1
    <3>2. a[1 + (x - 1)] = e[x - 1]
      BY <1>3, <3>1
    <3> QED
      BY <1>4, <3>1, <3>2
  <2> QED
    BY <1>4, <2>1, <2>2, <2>3
<1>6. q # "\n" /\ q \notin Marks /\ q \notin Blank
  BY CharactersDiffer
<1>7. ASSUME NEW x \in 1..k+2 PROVE x = 1 \/ x = k + 2 \/ (x \in 2..k+1 /\ x - 1 \in 1..k)
  BY <1>1
<1>10. StripComment(t) = t
  <2>1. ASSUME NEW i \in 2..k+2, NEW j \in 2..k+2, i < j, t[i] = q, t[j] \in Marks PROVE FALSE
    <3>1. j # k + 2
      BY <1>5, <1>6, <2>1
    <3>2. j \in 2..k+1 /\ i \in 2..k+1 /\ i - 1 \in 1..k /\ j - 1 \in 1..k /\ i - 1 < j - 1
      BY <1>1, <2>1, <3>1
    <3>3. e[i - 1] = q /\ e[j - 1] \in Marks
      BY <1>5, <2>1, <3>2
    <3> DEFINE x == i - 1
               y == j - 1
    <3> HIDE DEF x, y
    <3>4. x \in 1..k /\ y \in 1..k /\ x < y /\ e[x] = q /\ e[y] \in Marks
      BY <3>2, <3>3 DEF x, y
    <3> QED
      BY <3>4 DEF Clean, k
  <2>2. Len(t) >= 1 /\ \A i, j \in 2..Len(t) : i < j => ~(t[i] = q /\ t[j] \in Marks)
    BY <1>1, <1>5, <2>1
  <2> QED
    BY <1>4, <1>5, <2>2, StripKeeps
<1>11. Trim(t) = t
  <2>1. Len(t) >= 1 /\ t[1] \notin Blank /\ t[Len(t)] \notin Blank
    BY <1>1, <1>5, <1>6
  <2> QED
    BY <1>4, <2>1, TrimIs
<1>12. Quoted(t, q) /\ \A r \in {Tick, Quote} : r # q => ~Quoted(t, r)
  BY <1>1, <1>5 DEF Quoted, Last
<1>13. Inner(t) = e
  <2> DEFINE u == Inner(t)
  <2>4. Sequence(u) /\ Len(u) = k /\ \A x \in 1..k : u[x] = t[x + 1]
    BY <1>1, <1>4, <1>5, InnerIs
  <2> HIDE DEF u
  <2>5. ASSUME NEW x \in 1..k PROVE u[x] = e[x]
    <3>1. x + 1 \in 2..k+1 /\ (x + 1) - 1 = x
      BY <1>1
    <3> QED
      BY <1>5, <2>4, <3>1
  <2>6. u = e
    BY <2>4, <2>5, SameText DEF k
  <2> QED
    BY <2>6 DEF u
<1> QED
  BY <1>4, <1>10, <1>11, <1>12, <1>13

\* A character more behind a text.
Extends(o, x, c) ==
  /\ Sequence(x) /\ Len(o) \in Nat /\ Len(x) = Len(o) + 1
  /\ \A i \in 1..Len(o) : x[i] = o[i]
  /\ x[Len(o) + 1] = c

LEMMA OneMore ==
  ASSUME NEW o, Sequence(o), NEW c
  PROVE  Extends(o, Append(o, c), c) /\ Extends(o, o \o <<c>>, c)
<1> DEFINE one == <<c>>
<1>1. Sequence(one) /\ Len(one) = 1 /\ one[1] = c /\ Len(o) \in Nat
  BY SequenceIs DEF Sequence, Range
<1>2. Extends(o, Append(o, c), c)
  BY <1>1, Longer DEF Extends
<1> HIDE DEF one
<1>3. /\ Sequence(o \o one) /\ Len(o \o one) = Len(o) + Len(one)
      /\ \A x \in 1..Len(o) : (o \o one)[x] = o[x]
      /\ \A y \in 1..Len(one) : (o \o one)[Len(o) + y] = one[y]
  <2>1. Sequence(one) /\ Sequence(o)
    BY <1>1
  <2> QED
    BY <2>1, Appended
<1> DEFINE x == o \o one
<1> HIDE DEF x
<1>4. Extends(o, x, c)
  <2>1. Sequence(x) /\ Len(x) = Len(o) + 1 /\ \A i \in 1..Len(o) : x[i] = o[i]
    BY <1>1, <1>3 DEF x
  <2>2. x[Len(o) + 1] = one[1]
    <3>1. 1 \in 1..Len(one)
      BY <1>1
    <3> QED
      BY <1>3, <3>1 DEF x
  <2> QED
    BY <1>1, <2>1, <2>2 DEF Extends
<1> QED
  BY <1>2, <1>4 DEF x, one

\* A piece that is read as the character c.
Means(meant, p, c) ==
  \/ p = <<c>> /\ c # Back
  \/ \E d \in DOMAIN meant : p = <<Back, d>> /\ meant[d] = <<c>>

\* The decoder is at the start of a piece, and reads on from there; it is behind it.
BeforePiece(meant, g, a, o, p, c) ==
  /\ Means(meant, p, c) /\ Sequence(p) /\ Sequence(o) /\ a \in Nat
  /\ g[a] = [open |-> FALSE, out |-> o]
  /\ \A y \in 1..Len(p) : g[a + y] = ReadEscaped(meant, g[(a + y) - 1], p[y])
BehindPiece(g, a, o, p, c) ==
  \E x : g[a + Len(p)] = [open |-> FALSE, out |-> x] /\ Extends(o, x, c)

\* Reading a piece adds its character.
LEMMA PieceReads ==
  ASSUME NEW meant, NEW g, NEW a, NEW o, NEW p, NEW c, BeforePiece(meant, g, a, o, p, c)
  PROVE  BehindPiece(g, a, o, p, c)
<1>0. /\ Means(meant, p, c) /\ Sequence(p) /\ Sequence(o) /\ a \in Nat
      /\ g[a] = [open |-> FALSE, out |-> o]
      /\ \A y \in 1..Len(p) : g[a + y] = ReadEscaped(meant, g[(a + y) - 1], p[y])
  BY DEF BeforePiece
<1>1. CASE p = <<c>> /\ c # Back
  <2>1. Len(p) = 1 /\ p[1] = c
    BY <1>1
  <2>2. g[a + 1] = ReadEscaped(meant, g[a], c)
    <3>1. 1 \in 1..Len(p) /\ (a + 1) - 1 = a
      BY <1>0, <2>1
    <3>2. g[a + 1] = ReadEscaped(meant, g[(a + 1) - 1], p[1])
      BY <1>0, <3>1
    <3> QED
      BY <2>1, <3>1, <3>2
  <2> DEFINE st == [open |-> FALSE, out |-> o]
  <2>3. st.open = FALSE /\ st.out = o
    OBVIOUS
  <2> HIDE DEF st
  <2>4. ReadEscaped(meant, st, c) = [open |-> FALSE, out |-> Append(o, c)]
    BY <1>1, <2>3 DEF ReadEscaped
  <2>5. g[a + 1] = [open |-> FALSE, out |-> Append(o, c)]
    BY <1>0, <2>2, <2>4 DEF st
  <2>6. Extends(o, Append(o, c), c)
    BY <1>0, OneMore
  <2> QED
    BY <2>1, <2>5, <2>6 DEF BehindPiece
<1>2. ASSUME NEW d \in DOMAIN meant, p = <<Back, d>>, meant[d] = <<c>>
      PROVE  BehindPiece(g, a, o, p, c)
  <2>1. Len(p) = 2 /\ p[1] = Back /\ p[2] = d
    BY <1>2
  <2>2. g[a + 1] = ReadEscaped(meant, g[a], Back) /\ g[a + 2] = ReadEscaped(meant, g[a + 1], d)
    <3>1. 1 \in 1..Len(p) /\ (a + 1) - 1 = a /\ 2 \in 1..Len(p) /\ (a + 2) - 1 = a + 1
      BY <1>0, <2>1
    <3>2. g[a + 1] = ReadEscaped(meant, g[(a + 1) - 1], p[1]) /\ g[a + 2] = ReadEscaped(meant, g[(a + 2) - 1], p[2])
      BY <1>0, <3>1
    <3> QED
      BY <2>1, <3>1, <3>2
  <2> DEFINE st == [open |-> FALSE, out |-> o]
             on == [open |-> TRUE, out |-> o]
             one == <<c>>
  <2>3. st.open = FALSE /\ st.out = o /\ on.open = TRUE /\ on.out = o
    OBVIOUS
  <2>6. on = [open |-> TRUE, out |-> st.out]
    OBVIOUS
  <2>7. meant[d] = one
    BY <1>2
  <2> HIDE DEF st, on, one
  <2>4. ReadEscaped(meant, st, Back) = on
    BY <2>3, <2>6 DEF ReadEscaped
  <2>5. ReadEscaped(meant, on, d) = [open |-> FALSE, out |-> o \o one]
    BY <1>2, <2>3, <2>7 DEF ReadEscaped
  <2>8. g[a + 2] = [open |-> FALSE, out |-> o \o one]
    BY <1>0, <2>2, <2>4, <2>5 DEF st
  <2>9. Extends(o, o \o one, c)
    BY <1>0, OneMore DEF one
  <2> QED
    BY <2>1, <2>8, <2>9 DEF BehindPiece
<1> QED
  BY <1>0, <1>1, <1>2 DEF Means

\* Decoding what an encoder wrote gives the text back.
LEMMA DecodedBack ==
  ASSUME NEW v, Sequence(v), NEW meant, Meanings(meant),
         NEW ss, Sequence(ss), Len(ss) = Len(v), \A i \in 1..Len(v) : Sequence(ss[i]) /\ Means(meant, ss[i], v[i]),
         NEW f, Joining(ss, f)
  PROVE  Decoded(f[Len(v)], meant) = v
<1> DEFINE n == Len(v)
           s == f[n]
           T == {Back} \cup Range(s) \cup UNION {Range(meant[c]) : c \in DOMAIN meant}
<1>1. n \in Nat /\ Sequence(s) /\ Places(ss, f) /\ Len(s) \in Nat
  <2>1. n \in Nat /\ \A i \in 1..Len(ss) : Sequence(ss[i])
    BY SequenceIs
  <2>2. Sequence(s)
    BY <2>1 DEF Joining
  <2> QED
    BY <2>1, <2>2, JoinedPlaces, SequenceIs
<1>2. Back \in T /\ Range(s) \subseteq T
  OBVIOUS
<1>3. ASSUME NEW c \in DOMAIN meant PROVE meant[c] \in Seq(T)
  <2>1. Range(meant[c]) \subseteq T
    OBVIOUS
  <2>2. meant[c] \in Seq(Range(meant[c]))
    BY DEF Meanings, Sequence
  <2> HIDE DEF T
  <2> QED
    BY <2>1, <2>2, SeqDef
<1>8. s = f[n]
  OBVIOUS
<1> HIDE DEF T, s
<1>4. PICK g : /\ ReadAll(s, meant, T, g)
               /\ Decoded(s, meant) = IF g[Len(s)].open THEN Append(g[Len(s)].out, Back) ELSE g[Len(s)].out
  BY <1>1, <1>2, <1>3, DecodedReads
<1> DEFINE ReadTo(m) == \E o : /\ g[Len(f[m])] = [open |-> FALSE, out |-> o]
                               /\ Sequence(o) /\ Len(o) = m /\ \A i \in 1..m : o[i] = v[i]
           S == {m \in 0..n : ReadTo(m)}
<1>5. 0 \in S
  <2>1. f[0] = <<>> /\ Len(<<>>) = 0 /\ g[0] = [open |-> FALSE, out |-> <<>>]
    BY <1>4 DEF Joining, ReadAll
  <2>2. Sequence(<<>>) /\ 1..0 = {}
    BY DEF Sequence
  <2>3. ReadTo(0)
    BY <2>1, <2>2
  <2> HIDE DEF ReadTo
  <2> QED
    BY <1>1, <2>3
<1>6. ASSUME NEW m \in 0..n-1, m \in S PROVE m + 1 \in S
  <2> DEFINE p == ss[m + 1]
             a == Len(f[m])
             c == v[m + 1]
  <2>1. m + 1 \in 1..n /\ (m + 1) - 1 = m /\ m + 1 \in 0..n
    BY <1>1
  <2>2. Sequence(p) /\ Means(meant, p, c)
    BY <2>1
  <2>3. /\ Len(f[m + 1]) = a + Len(p) /\ a \in Nat
        /\ \A y \in 1..Len(p) : a + y \in 1..Len(s) /\ s[a + y] = p[y]
    <3> DEFINE i == m + 1
    <3>1. i \in 1..Len(ss) /\ i - 1 = m
      BY <2>1
    <3> HIDE DEF i
    <3>2. /\ Len(f[i]) = Len(f[i - 1]) + Len(ss[i]) /\ Len(f[i - 1]) \in Nat
          /\ \A y \in 1..Len(ss[i]) :
               Len(f[i - 1]) + y \in 1..Len(f[Len(ss)]) /\ f[Len(ss)][Len(f[i - 1]) + y] = ss[i][y]
      BY <1>1, <3>1 DEF Places
    <3>3. /\ Len(f[i]) = Len(f[m]) + Len(ss[i]) /\ Len(f[m]) \in Nat
          /\ \A y \in 1..Len(ss[i]) :
               Len(f[m]) + y \in 1..Len(f[Len(ss)]) /\ f[Len(ss)][Len(f[m]) + y] = ss[i][y]
      BY <3>1, <3>2, Zenon
    <3>4. f[Len(ss)] = s
      BY <1>8
    <3> QED
      BY <3>3, <3>4 DEF i
  <2>4. PICK o : /\ g[a] = [open |-> FALSE, out |-> o]
                 /\ Sequence(o) /\ Len(o) = m /\ \A i \in 1..m : o[i] = v[i]
    BY <1>6
  <2> HIDE DEF p, a, c
  <2>5. ASSUME NEW y \in 1..Len(p) PROVE g[a + y] = ReadEscaped(meant, g[(a + y) - 1], p[y])
    <3> DEFINE i == a + y
    <3>1. i \in 1..Len(s) /\ s[i] = p[y]
      BY <2>3
    <3> HIDE DEF i
    <3>2. g[i] = ReadEscaped(meant, g[i - 1], s[i])
      BY <1>4, <3>1 DEF ReadAll
    <3>3. g[i] = ReadEscaped(meant, g[i - 1], p[y])
      BY <3>1, <3>2
    <3> QED
      BY <3>3, Zenon DEF i
  <2>6. PICK x : g[a + Len(p)] = [open |-> FALSE, out |-> x] /\ Extends(o, x, c)
    <3>1. BeforePiece(meant, g, a, o, p, c)
      BY <2>2, <2>3, <2>4, <2>5 DEF BeforePiece
    <3>2. BehindPiece(g, a, o, p, c)
      BY <3>1, PieceReads
    <3> QED
      BY <3>2 DEF BehindPiece
  <2>7. Sequence(x) /\ Len(x) = m + 1 /\ \A i \in 1..m+1 : x[i] = v[i]
    <3>1. Sequence(x) /\ Len(x) = m + 1 /\ (\A i \in 1..m : x[i] = o[i]) /\ x[m + 1] = c
      BY <2>4, <2>6 DEF Extends
    <3>2. \A i \in 1..m+1 : i \in 1..m \/ i = m + 1
      BY <2>1
    <3> QED
      BY <2>4, <3>1, <3>2 DEF c
  <2>8. ReadTo(m + 1)
    BY <2>3, <2>6, <2>7
  <2> HIDE DEF ReadTo
  <2> QED
    BY <2>1, <2>8
<1> HIDE DEF S, ReadTo
<1>7. 0..n \subseteq S
  BY <1>1, <1>5, <1>6, CountUp
<1>9. ReadTo(n)
  BY <1>1, <1>7 DEF S
<1>10. PICK o : /\ g[Len(s)] = [open |-> FALSE, out |-> o]
                /\ Sequence(o) /\ Len(o) = n /\ \A i \in 1..n : o[i] = v[i]
  BY <1>8, <1>9 DEF ReadTo
<1>11. o = v
  BY <1>10, SameText
<1>12. Decoded(s, meant) = o
  BY <1>4, <1>10
<1> QED
  BY <1>8, <1>11, <1>12

\* Where the piece behind the first m of n joined texts is.
NextPiece(ss, f, n, m) ==
  /\ Len(f[m + 1]) = Len(f[m]) + Len(ss[m + 1]) /\ Len(f[m]) \in Nat /\ Len(ss[m + 1]) \in Nat
  /\ \A y \in 1..Len(ss[m + 1]) :
       Len(f[m]) + y \in 1..Len(f[n]) /\ f[n][Len(f[m]) + y] = ss[m + 1][y]

LEMMA PieceAt ==
  ASSUME NEW ss, NEW f, Places(ss, f), NEW n \in Nat, Len(ss) = n, NEW m \in Nat, m + 1 =< n
  PROVE  NextPiece(ss, f, n, m)
<1> DEFINE i == m + 1
<1>1. i \in 1..Len(ss) /\ i - 1 = m
  OBVIOUS
<1> HIDE DEF i
<1>2. /\ Len(f[i]) = Len(f[i - 1]) + Len(ss[i]) /\ Len(f[i - 1]) \in Nat /\ Len(ss[i]) \in Nat
      /\ \A y \in 1..Len(ss[i]) :
           Len(f[i - 1]) + y \in 1..Len(f[n]) /\ f[n][Len(f[i - 1]) + y] = ss[i][y]
  BY <1>1 DEF Places
<1>3. /\ Len(f[i]) = Len(f[m]) + Len(ss[i]) /\ Len(f[m]) \in Nat /\ Len(ss[i]) \in Nat
      /\ \A y \in 1..Len(ss[i]) :
           Len(f[m]) + y \in 1..Len(f[n]) /\ f[n][Len(f[m]) + y] = ss[i][y]
  BY <1>1, <1>2, Zenon
<1> QED
  BY <1>3, Zenon DEF i, NextPiece

\* No piece of a literal begins with the quote.
LEMMA LiteralStart ==
  ASSUME NEW c
  PROVE  /\ c = Quote => /\ Len(EscapeLiteral(c)) = 2
                         /\ EscapeLiteral(c)[1] = Back /\ EscapeLiteral(c)[2] = Quote
         /\ c # Quote => Len(EscapeLiteral(c)) = 1 /\ EscapeLiteral(c)[1] = c
         /\ EscapeLiteral(c)[1] # Quote /\ Sequence(EscapeLiteral(c))
<1>1. CASE c = Quote
  <2>1. EscapeLiteral(c) = <<Back, Quote>>
    BY <1>1 DEF EscapeLiteral
  <2>2. Sequence(<<Back, Quote>>)
    BY DEF Sequence, Range
  <2> QED
    BY <1>1, <2>1, <2>2, CharactersDiffer
<1>2. CASE c # Quote
  <2>1. EscapeLiteral(c) = <<c>>
    BY <1>2 DEF EscapeLiteral
  <2>2. Sequence(<<c>>)
    BY DEF Sequence, Range
  <2> QED
    BY <1>2, <2>1, <2>2
<1> QED
  BY <1>1, <1>2

\* Unescaping a literal that was escaped gives it back: a backslash in front of
\* a double quote is dropped, and one that was there before is not.
LEMMA LiteralBack ==
  ASSUME NEW v, Sequence(v), NEW ss, Sequence(ss), Len(ss) = Len(v),
         \A i \in 1..Len(v) : ss[i] = EscapeLiteral(v[i]),
         NEW f, Joining(ss, f)
  PROVE  DecodeLiteral(f[Len(v)]) = v
<1> DEFINE n == Len(v)
           s == f[n]
<1>1. n \in Nat /\ Sequence(s) /\ Places(ss, f) /\ Len(s) \in Nat /\ Len(ss) = n
  <2>1. n \in Nat /\ \A i \in 1..Len(ss) : Sequence(ss[i])
    BY SequenceIs, LiteralStart
  <2>2. Sequence(s)
    BY <2>1 DEF Joining
  <2> QED
    BY <2>1, <2>2, JoinedPlaces, SequenceIs
<1>2. s = f[n]
  OBVIOUS
<1> HIDE DEF s
<1>3. PICK g : Unescaping(s, g) /\ DecodeLiteral(s) = g[Len(s)]
  BY <1>1, LiteralReads
<1>4. /\ g[0] = <<>>
      /\ \A i \in 1..Len(s) : g[i] = IF Dropped(s, i) THEN g[i - 1] ELSE Append(g[i - 1], s[i])
  BY <1>3 DEF Unescaping
<1> DEFINE ReadTo(m) == LET o == g[Len(f[m])]
                        IN Sequence(o) /\ Len(o) = m /\ \A i \in 1..m : o[i] = v[i]
           S == {m \in 0..n : ReadTo(m)}
<1>5. 0 \in S
  <2>1. f[0] = <<>> /\ Len(<<>>) = 0
    BY DEF Joining
  <2>2. Sequence(<<>>) /\ 1..0 = {}
    BY DEF Sequence
  <2>3. ReadTo(0)
    BY <1>4, <2>1, <2>2
  <2> HIDE DEF ReadTo
  <2> QED
    BY <1>1, <2>3
<1>6. ASSUME NEW m \in 0..n-1, m \in S PROVE m + 1 \in S
  <2> DEFINE p == ss[m + 1]
             a == Len(f[m])
             c == v[m + 1]
             o == g[a]
             t == g[Len(f[m + 1])]
  <2>1. m + 1 \in 1..n /\ m + 1 \in 0..n /\ m \in Nat /\ m + 1 =< n
    BY <1>1
  <2>2. p = EscapeLiteral(c)
    BY <2>1
  <2>3. /\ Len(f[m + 1]) = a + Len(p) /\ a \in Nat
        /\ \A y \in 1..Len(p) : a + y \in 1..Len(s) /\ s[a + y] = p[y]
    <3>1. NextPiece(ss, f, n, m)
      BY <1>1, <2>1, PieceAt
    <3> QED
      BY <1>2, <3>1 DEF NextPiece
  <2>4. Sequence(o) /\ Len(o) = m /\ \A i \in 1..m : o[i] = v[i]
    BY <1>6
  <2>5. ASSUME a + 1 < Len(s), Len(f[m + 1]) = a + 1 PROVE s[(a + 1) + 1] # Quote
    <3> DEFINE k == m + 1
    <3>1. k # n
      BY <1>2, <2>5
    <3>2. k \in Nat /\ k + 1 =< n /\ k + 1 \in 1..n
      BY <1>1, <2>1, <3>1
    <3> HIDE DEF k
    <3>3. \A y \in 1..Len(ss[k + 1]) : f[n][Len(f[k]) + y] = ss[k + 1][y]
      <4>1. NextPiece(ss, f, n, k)
        BY <1>1, <3>2, PieceAt
      <4> QED
        BY <4>1 DEF NextPiece
    <3>4. ss[k + 1] = EscapeLiteral(v[k + 1])
      BY <3>2
    <3>5. 1 \in 1..Len(ss[k + 1]) /\ ss[k + 1][1] # Quote
      BY <3>4, LiteralStart
    <3>6. f[n][Len(f[k]) + 1] # Quote
      BY <3>3, <3>5
    <3> QED
      BY <1>2, <2>5, <3>6 DEF k
  <2>6. t = Append(o, c)
    <3>1. CASE c = Quote
      <4>1. Len(p) = 2 /\ p[1] = Back /\ p[2] = Quote
        BY <2>2, <3>1, LiteralStart
      <4>2. /\ a + 1 \in 1..Len(s) /\ s[a + 1] = Back /\ a + 2 \in 1..Len(s) /\ s[a + 2] = Quote
            /\ Len(f[m + 1]) = a + 2
        BY <2>3, <4>1
      <4> HIDE DEF a, p, c
      <4>3. (a + 1) - 1 = a /\ (a + 2) - 1 = a + 1 /\ (a + 1) + 1 = a + 2 /\ a + 1 < Len(s)
        BY <1>1, <2>3, <4>2
      <4>4. Dropped(s, a + 1) /\ ~Dropped(s, a + 2)
        BY <4>2, <4>3, CharactersDiffer DEF Dropped
      <4>5. g[a + 1] = g[(a + 1) - 1]
        BY <1>4, <4>2, <4>4
      <4>6. g[a + 2] = Append(g[(a + 2) - 1], s[a + 2])
        BY <1>4, <4>2, <4>4
      <4>7. g[a + 2] = Append(g[a], c)
        BY <3>1, <4>2, <4>3, <4>5, <4>6
      <4> QED
        BY <4>2, <4>7
    <3>2. CASE c # Quote
      <4>1. Len(p) = 1 /\ p[1] = c
        BY <2>2, <3>2, LiteralStart
      <4>2. a + 1 \in 1..Len(s) /\ s[a + 1] = c /\ Len(f[m + 1]) = a + 1
        BY <2>3, <4>1
      <4> HIDE DEF a, p, c
      <4>3. (a + 1) - 1 = a
        BY <2>3
      <4>4. ~Dropped(s, a + 1)
        BY <2>5, <4>2 DEF Dropped
      <4>5. g[a + 1] = Append(g[(a + 1) - 1], s[a + 1])
        BY <1>4, <4>2, <4>4
      <4> QED
        BY <4>2, <4>3, <4>5
    <3> QED
      BY <3>1, <3>2
  <2> HIDE DEF o, a, p
  <2>7. Sequence(t) /\ Len(t) = m + 1 /\ \A i \in 1..m+1 : t[i] = v[i]
    <3> HIDE DEF t
    <3>1. Extends(o, t, c)
      BY <2>4, <2>6, OneMore
    <3> HIDE DEF c
    <3>2. Sequence(t) /\ Len(t) = m + 1 /\ (\A i \in 1..m : t[i] = o[i]) /\ t[m + 1] = c
      BY <2>4, <3>1 DEF Extends
    <3>3. \A i \in 1..m+1 : i \in 1..m \/ i = m + 1
      BY <2>1
    <3> QED
      BY <2>4, <3>2, <3>3 DEF c
  <2>8. ReadTo(m + 1)
    BY <2>7
  <2> HIDE DEF ReadTo, t
  <2> QED
    BY <2>1, <2>8
<1> HIDE DEF S, ReadTo
<1>7. 0..n \subseteq S
  BY <1>1, <1>5, <1>6, CountUp
<1>8. ReadTo(n)
  BY <1>1, <1>7 DEF S
<1> DEFINE o == g[Len(s)]
<1>9. Sequence(o) /\ Len(o) = n /\ \A i \in 1..n : o[i] = v[i]
  BY <1>2, <1>8 DEF ReadTo
<1> HIDE DEF o
<1>10. o = v
  BY <1>9, SameText
<1> QED
  BY <1>2, <1>3, <1>10 DEF o

\* The pieces that an encoder joins.
LEMMA Encoded ==
  ASSUME NEW v, Sequence(v), NEW ss, ss = [i \in DOMAIN v |-> ss[i]], \A i \in 1..Len(v) : Sequence(ss[i])
  PROVE  /\ Sequence(ss) /\ Len(ss) = Len(v) /\ Len(v) \in Nat
         /\ \E f : Joining(ss, f) /\ FlattenSeq(ss) = f[Len(v)] /\ Sequence(FlattenSeq(ss))
<1> DEFINE n == Len(v)
<1>1. n \in Nat /\ DOMAIN v = 1..n
  BY SequenceIs
<1> HIDE DEF n
<1>2. ss = [i \in 1..n |-> ss[i]]
  BY <1>1
<1>3. Sequence(ss) /\ Len(ss) = n
  BY <1>1, <1>2, SequenceFrom
<1>4. \A i \in 1..Len(ss) : Sequence(ss[i])
  BY <1>3 DEF n
<1>5. PICK f : Joining(ss, f) /\ FlattenSeq(ss) = f[Len(ss)]
  BY <1>3, <1>4, FlattenJoins
<1>6. Sequence(FlattenSeq(ss))
  BY <1>3, <1>4, Flattened
<1> QED
  BY <1>1, <1>3, <1>5, <1>6 DEF n

\* What decode_escapes_for_string() makes of the character behind a backslash.
DecodeMeant == [c \in {"n", Back, Tick, Quote} |-> IF c = "n" THEN <<"\n">> ELSE <<c>>]

LEMMA DecodeMeans ==
  /\ Meanings(DecodeMeant)
  /\ \A c : Means(DecodeMeant, EscapeString(c), c) /\ Sequence(EscapeString(c))
<1>1. \A x : Sequence(<<x>>)
  BY DEF Sequence, Range
<1>2. Meanings(DecodeMeant)
  BY <1>1 DEF Meanings, DecodeMeant
<1>3. ASSUME NEW c PROVE Means(DecodeMeant, EscapeString(c), c)
  <2>1. CASE c = "\n"
    <3>1. "n" \in DOMAIN DecodeMeant /\ DecodeMeant["n"] = <<"\n">>
      BY DEF DecodeMeant
    <3>2. EscapeString(c) = <<Back, "n">>
      BY <2>1, CharactersDiffer DEF EscapeString
    <3> QED
      BY <2>1, <3>1, <3>2 DEF Means
  <2>2. CASE c \in {Back, Tick}
    <3>1. c \in DOMAIN DecodeMeant /\ DecodeMeant[c] = <<c>>
      BY <2>2, CharactersDiffer DEF DecodeMeant
    <3>2. EscapeString(c) = <<Back, c>>
      BY <2>2, CharactersDiffer DEF EscapeString
    <3> QED
      BY <3>1, <3>2 DEF Means
  <2>3. CASE c \notin {Back, Tick, "\n"}
    <3>1. EscapeString(c) = <<c>>
      BY <2>3 DEF EscapeString
    <3> QED
      BY <2>3, <3>1 DEF Means
  <2> QED
    BY <2>1, <2>2, <2>3
<1>4. ASSUME NEW c PROVE Sequence(EscapeString(c))
  <2>1. PieceOf(c, EscapeString(c), Tick)
    BY EscapePiece
  <2> QED
    BY <2>1, PieceIs
<1> QED
  BY <1>2, <1>3, <1>4

\* A text without a tick before a mark, escaped, is clean and comes back.
LEMMA EncodeBack ==
  ASSUME NEW v, Sequence(v), \A i, j \in 1..Len(v) : i < j => ~(v[i] = Tick /\ v[j] \in Marks)
  PROVE  Sequence(Encode(v)) /\ Clean(Encode(v), Tick) /\ Decode(Encode(v)) = v
<1> DEFINE ss == [i \in DOMAIN v |-> EscapeString(v[i])]
           n == Len(v)
<1>1. n \in Nat /\ DOMAIN v = 1..n
  BY SequenceIs
<1>2. ss = [i \in DOMAIN v |-> ss[i]] /\ \A i \in 1..n : ss[i] = EscapeString(v[i])
  BY <1>1
<1>3. Encode(v) = FlattenSeq(ss)
  BY DEF Encode
<1>4. Decode(Encode(v)) = Decoded(Encode(v), DecodeMeant)
  BY DEF Decode, DecodeMeant
<1> HIDE DEF ss
<1>5. \A i \in 1..n : /\ Sequence(ss[i]) /\ Means(DecodeMeant, ss[i], v[i]) /\ PieceOf(v[i], ss[i], Tick)
  BY <1>2, DecodeMeans, EscapePiece
<1>6. Sequence(ss) /\ Len(ss) = n
  BY <1>2, <1>5, Encoded
<1>7. PICK f : Joining(ss, f) /\ FlattenSeq(ss) = f[n] /\ Sequence(FlattenSeq(ss))
  BY <1>2, <1>5, Encoded
<1>8. Clean(f[n], Tick)
  <2>1. Tick \in {Tick, Quote} /\ \A i \in 1..n : PieceOf(v[i], ss[i], Tick)
    BY <1>5
  <2> QED
    BY <1>1, <1>6, <1>7, <2>1, PiecesAreClean
<1>9. Decoded(f[n], DecodeMeant) = v
  BY <1>5, <1>6, <1>7, DecodeMeans, DecodedBack
<1> QED
  BY <1>3, <1>4, <1>7, <1>8, <1>9

\* So does a literal, also one that holds quotes and backslashes.
LEMMA EncodeLiteralBack ==
  ASSUME NEW v, Sequence(v), \A i, j \in 1..Len(v) : i < j => ~(v[i] = Quote /\ v[j] \in Marks),
         \A i \in 1..Len(v) : v[i] # "\n"
  PROVE  Sequence(EncodeLiteral(v)) /\ Clean(EncodeLiteral(v), Quote) /\ DecodeLiteral(EncodeLiteral(v)) = v
<1> DEFINE ss == [i \in DOMAIN v |-> EscapeLiteral(v[i])]
           n == Len(v)
<1>1. n \in Nat /\ DOMAIN v = 1..n
  BY SequenceIs
<1>2. ss = [i \in DOMAIN v |-> ss[i]] /\ \A i \in 1..n : ss[i] = EscapeLiteral(v[i])
  BY <1>1
<1>3. EncodeLiteral(v) = FlattenSeq(ss)
  BY DEF EncodeLiteral
<1> HIDE DEF ss
<1>4. \A i \in 1..n : Sequence(ss[i]) /\ PieceOf(v[i], ss[i], Quote)
  <2>1. \A i \in 1..n : PieceOf(v[i], EscapeLiteral(v[i]), Quote)
    BY LiteralPiece
  <2>2. \A i \in 1..n : Sequence(EscapeLiteral(v[i]))
    BY LiteralStart
  <2> QED
    BY <1>2, <2>1, <2>2
<1>5. Sequence(ss) /\ Len(ss) = n
  BY <1>2, <1>4, Encoded
<1>6. PICK f : Joining(ss, f) /\ FlattenSeq(ss) = f[n] /\ Sequence(FlattenSeq(ss))
  BY <1>2, <1>4, Encoded
<1>7. Clean(f[n], Quote)
  <2>1. Quote \in {Tick, Quote} /\ \A i \in 1..n : PieceOf(v[i], ss[i], Quote)
    BY <1>4
  <2> QED
    BY <1>1, <1>5, <1>6, <2>1, PiecesAreClean
<1>8. DecodeLiteral(f[n]) = v
  BY <1>2, <1>5, <1>6, LiteralBack
<1> QED
  BY <1>3, <1>6, <1>7, <1>8

\* A single character that is neither blank nor a mark is read as it is.
LEMMA CharacterReads ==
  ASSUME NEW c, c \notin Marks, c \notin Blank
  PROVE  Trim(StripComment(<<c>>)) = <<c>> /\ Sequence(<<c>>)
<1> DEFINE s == <<c>>
<1>1. Sequence(s) /\ Len(s) = 1 /\ s[1] = c /\ c # "\n"
  <2>1. Sequence(s) /\ Len(s) = 1 /\ s[1] = c
    BY DEF Sequence, Range
  <2>2. c # "\n"
    BY DEF Blank
  <2> QED
    BY <2>1, <2>2
<1> HIDE DEF s
<1>3. StripComment(s) = s
  <2>1. PICK f : Scanning(s, f) /\ StripComment(s) = IF f[Len(s)].cut THEN SubSeq(s, 1, f[Len(s)].last) ELSE s
    BY <1>1, StripScans
  <2>2. f[1] = ScanComment(s, FirstScan, 1)
    BY <1>1, <2>1 DEF Scanning
  <2>3. f[1].cut = FALSE
    <3> DEFINE r == ScanComment(s, FirstScan, 1)
    <3>1. FirstScan.cut = FALSE
      BY DEF FirstScan
    <3>2. r.cut = (~r.single /\ ~r.double /\ c \in Marks)
      BY <1>1, <3>1 DEF ScanComment
    <3> HIDE DEF r
    <3>3. r.cut = FALSE
      BY <3>2
    <3> QED
      BY <2>2, <3>3 DEF r
  <2> QED
    BY <1>1, <2>1, <2>3
<1>4. Trim(s) = s
  BY <1>1, TrimIs
<1> QED
  BY <1>1, <1>3, <1>4 DEF s

-----------------------------------------------------------------------------
(***************************************************************************)
(* The values of entries.                                                  *)
(***************************************************************************)
\* An entry that a line can be made of: a text, or a word for a bool or a number.
EntryOk(e) ==
  \/ e.kind \in {"raw", "literal"} /\ Sequence(e.value)
  \/ e.kind = "bool" /\ e.value \in Booleans
  \/ e.kind = "number" /\ e.value \in Numbers

\* What is written of it is a text.
LEMMA WrittenIs ==
  ASSUME NEW e, EntryOk(e) PROVE Sequence(Written(e))
<1>1. CASE e.kind = "raw" /\ Sequence(e.value)
  <2> DEFINE one == <<Tick>>
             t == Encode(e.value)
             ss == [i \in DOMAIN e.value |-> EscapeString(e.value[i])]
  <2>1. Written(e) = one \o t \o one
    BY <1>1 DEF Written
  <2>2. Sequence(one)
    BY DEF Sequence, Range
  <2>3. t = FlattenSeq(ss) /\ ss = [i \in DOMAIN e.value |-> ss[i]]
    BY DEF Encode
  <2>4. \A i \in 1..Len(e.value) : Sequence(ss[i])
    BY <1>1, SequenceIs, DecodeMeans
  <2> HIDE DEF ss, t, one
  <2>5. Sequence(t)
    BY <1>1, <2>3, <2>4, Encoded
  <2> DEFINE a == one \o t
  <2>6. Sequence(a)
    BY <2>2, <2>5, Joined
  <2> HIDE DEF a
  <2>7. Sequence(a \o one)
    BY <2>2, <2>6, Joined
  <2> QED
    BY <2>1, <2>7 DEF a
<1>2. CASE e.kind = "literal" /\ Sequence(e.value)
  <2> DEFINE one == <<Quote>>
             t == EncodeLiteral(e.value)
             ss == [i \in DOMAIN e.value |-> EscapeLiteral(e.value[i])]
  <2>1. Written(e) = one \o t \o one
    BY <1>2 DEF Written
  <2>2. Sequence(one)
    BY DEF Sequence, Range
  <2>3. t = FlattenSeq(ss) /\ ss = [i \in DOMAIN e.value |-> ss[i]]
    BY DEF EncodeLiteral
  <2>4. \A i \in 1..Len(e.value) : Sequence(ss[i])
    BY <1>2, SequenceIs, LiteralStart
  <2> HIDE DEF ss, t, one
  <2>5. Sequence(t)
    BY <1>2, <2>3, <2>4, Encoded
  <2> DEFINE a == one \o t
  <2>6. Sequence(a)
    BY <2>2, <2>5, Joined
  <2> HIDE DEF a
  <2>7. Sequence(a \o one)
    BY <2>2, <2>6, Joined
  <2> QED
    BY <2>1, <2>7 DEF a
<1>3. CASE e.kind \in {"bool", "number"} /\ e.value \in Booleans \cup Numbers
  <2>1. Written(e) = e.value
    BY <1>3 DEF Written
  <2>2. \A x : Sequence(<<x>>)
    BY DEF Sequence, Range
  <2>3. \A v \in Booleans \cup Numbers : \E x : v = <<x>>
    BY DEF Booleans, Numbers
  <2> QED
    BY <1>3, <2>1, <2>2, <2>3
<1> QED
  BY <1>1, <1>2, <1>3 DEF EntryOk

\* Whatever text follows the equals sign, load() makes an entry of it.
LEMMA ReadBackIs ==
  ASSUME NEW text, Sequence(text) PROVE EntryOk(ReadBack(text))
<1> DEFINE v == Trim(StripComment(text))
<1>1. Sequence(v)
  <2>2. Sequence(StripComment(text))
    BY StripIs
  <2> QED
    BY <2>2, TrimIs
<1>2. ReadBack(text) =
        CASE Quoted(v, Tick) -> [kind |-> "raw", value |-> Decode(Inner(v))]
          [] Quoted(v, Quote) -> [kind |-> "literal", value |-> DecodeLiteral(Inner(v))]
          [] v \in Booleans -> [kind |-> "bool", value |-> v]
          [] v \in Numbers -> [kind |-> "number", value |-> v]
          [] OTHER -> [kind |-> "raw", value |-> Decode(v)]
  BY DEF ReadBack
<1> HIDE DEF v
<1>3. ASSUME NEW q, Quoted(v, q) PROVE Sequence(Inner(v))
  <2> DEFINE k == Len(v) - 2
  <2>1. k \in Nat /\ Len(v) = k + 2
    BY <1>1, <1>3, SequenceIs DEF Quoted
  <2> HIDE DEF k
  <2> QED
    BY <1>1, <2>1, InnerIs
<1>4. ASSUME NEW s, Sequence(s) PROVE Sequence(Decode(s)) /\ Sequence(DecodeLiteral(s))
  <2>1. Decode(s) = Decoded(s, DecodeMeant)
    BY DEF Decode, DecodeMeant
  <2> QED
    BY <1>4, <2>1, DecodeMeans, DecodedIs, LiteralIs
<1> DEFINE A == [kind |-> "raw", value |-> Decode(Inner(v))]
           B == [kind |-> "literal", value |-> DecodeLiteral(Inner(v))]
           C == [kind |-> "bool", value |-> v]
           D == [kind |-> "number", value |-> v]
           E == [kind |-> "raw", value |-> Decode(v)]
<1>5. Quoted(v, Tick) => EntryOk(A)
  BY <1>3, <1>4 DEF EntryOk
<1>6. Quoted(v, Quote) => EntryOk(B)
  BY <1>3, <1>4 DEF EntryOk
<1>7. (v \in Booleans => EntryOk(C)) /\ (v \in Numbers => EntryOk(D))
  BY DEF EntryOk
<1>8. EntryOk(E)
  BY <1>1, <1>4 DEF EntryOk
<1> HIDE DEF A, B, C, D, E
<1> QED
  BY <1>2, <1>5, <1>6, <1>7, <1>8 DEF A, B, C, D, E

\* A value that a line can hold comes back as it was, with its kind.
LEMMA ReadsBack ==
  ASSUME NEW e, EntryOk(e), Storable(e) PROVE ReadBack(Written(e)) = Value(e)
<1>0. \A t : LET v == Trim(StripComment(t))
             IN ReadBack(t) = CASE Quoted(v, Tick) -> [kind |-> "raw", value |-> Decode(Inner(v))]
                                [] Quoted(v, Quote) -> [kind |-> "literal", value |-> DecodeLiteral(Inner(v))]
                                [] v \in Booleans -> [kind |-> "bool", value |-> v]
                                [] v \in Numbers -> [kind |-> "number", value |-> v]
                                [] OTHER -> [kind |-> "raw", value |-> Decode(v)]
  BY DEF ReadBack
<1>1. CASE e.kind = "raw" /\ Sequence(e.value)
  <2> DEFINE v == e.value
             t == Encode(v)
             w == Between(Tick, t)
  <2>1. \A i, j \in 1..Len(v) : i < j => ~(v[i] = Tick /\ v[j] \in Marks)
    <3>1. DOMAIN v = 1..Len(v)
      BY <1>1, SequenceIs
    <3> QED
      BY <1>1, <3>1 DEF Storable
  <2>2. Sequence(t) /\ Clean(t, Tick) /\ Decode(t) = v
    BY <1>1, <2>1, EncodeBack
  <2>3. Written(e) = w
    BY <1>1 DEF Written, Between
  <2> HIDE DEF t
  <2>4. Tick \in {Tick, Quote} /\ Quote \in {Tick, Quote} /\ Tick # Quote
    BY CharactersDiffer
  <2>5. Sequence(w) /\ Trim(StripComment(w)) = w /\ Quoted(w, Tick) /\ Inner(w) = t /\ ~Quoted(w, Quote)
    <3> HIDE DEF w
    <3>1. w = Between(Tick, t)
      BY DEF w
    <3>2. /\ Sequence(w) /\ Trim(StripComment(w)) = w /\ Quoted(w, Tick) /\ Inner(w) = t
          /\ \A r \in {Tick, Quote} : r # Tick => ~Quoted(w, r)
      BY <2>2, <2>4, <3>1, QuotedReads
    <3> QED
      BY <2>4, <3>2
  <2>6. \A b \in Booleans \cup Numbers : Len(b) = 1
    BY DEF Booleans, Numbers
  <2>7. w \notin Booleans /\ w \notin Numbers
    <3> HIDE DEF w
    <3>1. Len(w) >= 2
      BY <2>5 DEF Quoted
    <3>2. w \in Booleans \cup Numbers => Len(w) = 1
      BY <2>6, Zenon
    <3>4. Len(w) # 1
      <4> DEFINE l == Len(w)
      <4>1. l \in Nat /\ l >= 2
        BY <2>5, <3>1, SequenceIs
      <4> HIDE DEF l
      <4>2. l # 1
        BY <4>1
      <4> QED
        BY <4>2 DEF l
    <3>3. w \notin Booleans \cup Numbers
      BY <3>2, <3>4, Zenon
    <3> QED
      BY <3>3, Zenon
  <2> HIDE DEF w
  <2>8. ReadBack(w) = [kind |-> "raw", value |-> Decode(Inner(w))]
    BY <1>0, <2>5, <2>7
  <2> QED
    BY <1>1, <2>2, <2>3, <2>5, <2>8 DEF Value
<1>2. CASE e.kind = "literal" /\ Sequence(e.value)
  <2> DEFINE v == e.value
             t == EncodeLiteral(v)
             w == Between(Quote, t)
  <2>0. DOMAIN v = 1..Len(v)
    BY <1>2, SequenceIs
  <2>1. \A i, j \in 1..Len(v) : i < j => ~(v[i] = Quote /\ v[j] \in Marks)
    BY <1>2, <2>0 DEF Storable
  <2>9. \A i \in 1..Len(v) : v[i] # "\n"
    <3>1. "\n" \notin Range(v)
      BY <1>2 DEF Storable
    <3> QED
      BY <2>0, <3>1 DEF Range
  <2>2. Sequence(t) /\ Clean(t, Quote) /\ DecodeLiteral(t) = v
    BY <1>2, <2>1, <2>9, EncodeLiteralBack
  <2>3. Written(e) = w
    BY <1>2 DEF Written, Between
  <2> HIDE DEF t
  <2>4. Tick \in {Tick, Quote} /\ Quote \in {Tick, Quote} /\ Tick # Quote
    BY CharactersDiffer
  <2>5. Sequence(w) /\ Trim(StripComment(w)) = w /\ Quoted(w, Quote) /\ Inner(w) = t /\ ~Quoted(w, Tick)
    <3> HIDE DEF w
    <3>1. w = Between(Quote, t)
      BY DEF w
    <3>2. /\ Sequence(w) /\ Trim(StripComment(w)) = w /\ Quoted(w, Quote) /\ Inner(w) = t
          /\ \A r \in {Tick, Quote} : r # Quote => ~Quoted(w, r)
      BY <2>2, <2>4, <3>1, QuotedReads
    <3> QED
      BY <2>4, <3>2
  <2>6. \A b \in Booleans \cup Numbers : Len(b) = 1
    BY DEF Booleans, Numbers
  <2>7. w \notin Booleans /\ w \notin Numbers
    <3> HIDE DEF w
    <3>1. Len(w) >= 2
      BY <2>5 DEF Quoted
    <3>2. w \in Booleans \cup Numbers => Len(w) = 1
      BY <2>6, Zenon
    <3>4. Len(w) # 1
      <4> DEFINE l == Len(w)
      <4>1. l \in Nat /\ l >= 2
        BY <2>5, <3>1, SequenceIs
      <4> HIDE DEF l
      <4>2. l # 1
        BY <4>1
      <4> QED
        BY <4>2 DEF l
    <3>3. w \notin Booleans \cup Numbers
      BY <3>2, <3>4, Zenon
    <3> QED
      BY <3>3, Zenon
  <2> HIDE DEF w
  <2>8. ReadBack(w) = [kind |-> "literal", value |-> DecodeLiteral(Inner(w))]
    BY <1>0, <2>5, <2>7
  <2> QED
    BY <1>2, <2>2, <2>3, <2>5, <2>8 DEF Value
<1>3. CASE \/ e.kind = "bool" /\ e.value \in Booleans
           \/ e.kind = "number" /\ e.value \in Numbers
  <2> DEFINE w == e.value
  <2>1. Written(e) = w
    BY <1>3 DEF Written
  <2>2. PICK c \in {"true", "false", "0", "1"} : w = <<c>>
    BY <1>3 DEF Booleans, Numbers
  <2>3. c \notin Marks /\ c \notin Blank
    BY DEF Marks, Blank
  <2>4. Trim(StripComment(w)) = w
    BY <2>2, <2>3, CharacterReads
  <2>5. ~Quoted(w, Tick) /\ ~Quoted(w, Quote)
    BY <2>2 DEF Quoted
  <2>6. w \in Numbers => w \notin Booleans
    BY DEF Numbers, Booleans
  <2> HIDE DEF w
  <2>7. ReadBack(w) = IF w \in Booleans THEN [kind |-> "bool", value |-> w]
                      ELSE IF w \in Numbers THEN [kind |-> "number", value |-> w]
                      ELSE [kind |-> "raw", value |-> Decode(w)]
    BY <1>0, <2>4, <2>5, <2>6
  <2> QED
    BY <1>3, <2>1, <2>6, <2>7 DEF Value, w
<1> QED
  BY <1>1, <1>2, <1>3 DEF EntryOk

-----------------------------------------------------------------------------
(***************************************************************************)
(* What the entries of a store are, whatever was set, erased or loaded.    *)
(***************************************************************************)
Fn(f) == f = [x \in DOMAIN f |-> f[x]]
EntryShape(e) == e = [key |-> e.key, kind |-> e.kind, value |-> e.value] /\ EntryOk(e)
BodyTyped(b) == Fn(b.index) /\ \A i \in 1..Len(b.entries) : EntryShape(b.entries[i])
StoreTyped(st) == Fn(st.sec_index) /\ \A i \in 1..Len(st.sections) : BodyTyped(st.sections[i].body)

LEMMA EmptyTyped == BodyTyped(NoEntries) /\ StoreTyped(EmptyStore)
<1>1. Fn(<<>>) /\ 1..Len(<<>>) = {}
  BY DEF Fn
<1> QED
  BY <1>1 DEF BodyTyped, StoreTyped, NoEntries, EmptyStore

\* An index that a name was added to, or that was recomputed, is a function.
LEMMA IndexIsFn ==
  /\ \A index, x, at : Fn(Emplace(index, x, at))
  /\ \A index, x, names : Fn(Reindexed(index, x, names))
<1>1. ASSUME NEW index, NEW x, NEW at PROVE Fn(Emplace(index, x, at))
  <2> DEFINE D == DOMAIN index \cup {x}
             g == [n \in D |-> IF n = x THEN at ELSE index[n]]
  <2>1. Emplace(index, x, at) = g
    BY DEF Emplace
  <2>2. g = [n \in DOMAIN g |-> g[n]]
    OBVIOUS
  <2> QED
    BY <2>1, <2>2 DEF Fn
<1>2. ASSUME NEW index, NEW x, NEW names PROVE Fn(Reindexed(index, x, names))
  <2> DEFINE kept == Restrict(index, DOMAIN index \ {x})
             Now(n) == IF n \in Range(names) THEN Max({i \in DOMAIN names : names[i] = n}) ELSE kept[n]
             D == DOMAIN kept \cup Range(names)
             g == [n \in D |-> Now(n)]
  <2>1. Reindexed(index, x, names) = g
    BY DEF Reindexed
  <2> HIDE DEF Now, D
  <2>2. g = [n \in DOMAIN g |-> g[n]]
    OBVIOUS
  <2> QED
    BY <2>1, <2>2 DEF Fn
<1> QED
  BY <1>1, <1>2

LEMMA EnsureTyped ==
  ASSUME NEW st, StoreOk(st), StoreTyped(st), NEW s PROVE StoreTyped(EnsureSection(st, s))
<1> DEFINE u == EnsureSection(st, s)
           n == Len(st.sections)
           fresh == [name |-> s, body |-> NoEntries]
<1>1. CASE Find(st.sec_index, s) # 0
  BY <1>1 DEF EnsureSection
<1>2. CASE Find(st.sec_index, s) = 0
  <2>1. u.sections = Append(st.sections, fresh) /\ u.sec_index = Emplace(st.sec_index, s, n + 1)
    BY <1>2 DEF EnsureSection
  <2>2. Sequence(st.sections) /\ n \in Nat
    BY SequenceIs DEF StoreOk
  <2> HIDE DEF u, n
  <2>3. /\ Len(u.sections) = n + 1 /\ u.sections[n + 1] = fresh
        /\ \A i \in 1..n : u.sections[i] = st.sections[i]
    BY <2>1, <2>2, Longer DEF n
  <2>4. Fn(u.sec_index)
    BY <2>1, IndexIsFn
  <2>5. ASSUME NEW i \in 1..n+1 PROVE BodyTyped(u.sections[i].body)
    <3>1. CASE i = n + 1
      <4>1. fresh.body = NoEntries
        OBVIOUS
      <4> QED
        BY <2>3, <3>1, <4>1, EmptyTyped
    <3>2. CASE i \in 1..n
      <4>1. u.sections[i] = st.sections[i]
        BY <2>3, <3>2
      <4> QED
        BY <3>2, <4>1 DEF StoreTyped, n
    <3> QED
      BY <2>2, <3>1, <3>2
  <2> QED
    BY <2>3, <2>4, <2>5 DEF StoreTyped, u
<1> QED
  BY <1>1, <1>2

\* A change of one section's entries.
Changed(st, u, i, b) ==
  /\ u.sec_index = st.sec_index /\ Len(u.sections) = Len(st.sections)
  /\ u.sections[i] = [name |-> st.sections[i].name, body |-> b]
  /\ \A j \in 1..Len(st.sections) : j # i => u.sections[j] = st.sections[j]

LEMMA SectionChanged ==
  ASSUME NEW st, StoreOk(st), NEW i \in 1..Len(st.sections), NEW b,
         NEW u, u = [st EXCEPT !.sections[i].body = b]
  PROVE  Changed(st, u, i, b)
<1> DEFINE n == Len(st.sections)
<1>1. /\ n \in Nat /\ DOMAIN st.sections = 1..n
      /\ SectionOk(st.sections[i])
      /\ st = [sections |-> st.sections, sec_index |-> st.sec_index]
  BY SectionFinds DEF StoreOk
<1>2. u.sections = [st.sections EXCEPT ![i].body = b] /\ u.sec_index = st.sec_index
  <2> DEFINE r == [st.sections EXCEPT ![i].body = b]
  <2>1. u = [st EXCEPT !.sections = r]
    OBVIOUS
  <2> HIDE DEF r
  <2>2. u = [sections |-> r, sec_index |-> st.sec_index]
    BY <1>1, <2>1
  <2> QED
    BY <2>2 DEF r
<1> HIDE DEF n
<1>3. /\ DOMAIN u.sections = 1..n /\ u.sections = [j \in 1..n |-> u.sections[j]]
      /\ \A j \in 1..n : j # i => u.sections[j] = st.sections[j]
      /\ u.sections[i] = [st.sections[i] EXCEPT !.body = b]
  BY <1>1, <1>2 DEF n
<1>4. u.sections[i] = [name |-> st.sections[i].name, body |-> b]
  <2> DEFINE sec == st.sections[i]
  <2>1. SectionOk(sec)
    BY <1>1
  <2>2. u.sections[i] = [sec EXCEPT !.body = b]
    BY <1>3
  <2> HIDE DEF sec
  <2>3. u.sections[i] = [name |-> sec.name, body |-> b]
    BY <2>1, <2>2 DEF SectionOk
  <2> QED
    BY <2>3 DEF sec
<1>5. Len(u.sections) = n
  BY <1>1, <1>3, SequenceFrom
<1> QED
  BY <1>2, <1>3, <1>4, <1>5 DEF n, Changed

LEMMA ChangedTyped ==
  ASSUME NEW st, StoreOk(st), StoreTyped(st), NEW i \in 1..Len(st.sections), NEW b, BodyTyped(b),
         NEW u, u = [st EXCEPT !.sections[i].body = b]
  PROVE  StoreTyped(u)
<1> DEFINE n == Len(st.sections)
<1>1. /\ u.sec_index = st.sec_index /\ Len(u.sections) = n
      /\ u.sections[i] = [name |-> st.sections[i].name, body |-> b]
      /\ \A j \in 1..n : j # i => u.sections[j] = st.sections[j]
  <2>1. Changed(st, u, i, b)
    BY SectionChanged
  <2> QED
    BY <2>1 DEF Changed
<1>2. ASSUME NEW j \in 1..n PROVE BodyTyped(u.sections[j].body)
  <2>1. CASE j = i
    <3>1. u.sections[j].body = b
      BY <1>1, <2>1
    <3> QED
      BY <3>1
  <2>2. CASE j # i
    <3>1. u.sections[j] = st.sections[j]
      BY <1>1, <2>2
    <3> QED
      BY <3>1 DEF StoreTyped
  <2> QED
    BY <2>1, <2>2
<1>3. Fn(u.sec_index)
  BY <1>1 DEF StoreTyped
<1> QED
  BY <1>1, <1>2, <1>3 DEF StoreTyped

\* What putting an entry into a section makes of its entries.
LEMMA PutChanges ==
  ASSUME NEW b, BodyOk(b), NEW k, NEW e, NEW entry, entry = [key |-> k, kind |-> e.kind, value |-> e.value]
  PROVE  \/ /\ Find(b.index, k) # 0 /\ PutIn(b, k, e).index = b.index
            /\ Len(PutIn(b, k, e).entries) = Len(b.entries)
            /\ \A i \in 1..Len(b.entries) :
                 PutIn(b, k, e).entries[i] = IF i = Find(b.index, k) THEN entry ELSE b.entries[i]
         \/ /\ Find(b.index, k) = 0 /\ Fn(PutIn(b, k, e).index)
            /\ Len(PutIn(b, k, e).entries) = Len(b.entries) + 1
            /\ \A i \in 1..Len(b.entries) : PutIn(b, k, e).entries[i] = b.entries[i]
            /\ PutIn(b, k, e).entries[Len(b.entries) + 1] = entry
<1> DEFINE c == PutIn(b, k, e)
           n == Len(b.entries)
           at == Find(b.index, k)
<1>1. /\ n \in Nat /\ DOMAIN b.entries = 1..n /\ Sequence(b.entries) /\ at \in 0..n
      /\ b = [entries |-> b.entries, index |-> b.index]
  BY KeyFinds DEF BodyOk
<1>2. CASE at # 0
  <2>1. c.entries = [b.entries EXCEPT ![at] = entry] /\ c.index = b.index
    <3> DEFINE r == [b.entries EXCEPT ![at] = entry]
    <3>1. c = [b EXCEPT !.entries = r]
      BY <1>2 DEF PutIn
    <3> HIDE DEF c, r
    <3>2. c = [entries |-> r, index |-> b.index]
      BY <1>1, <3>1
    <3> QED
      BY <3>2 DEF r
  <2> HIDE DEF c, n, at
  <2>2. \A i \in 1..n : c.entries[i] = IF i = at THEN entry ELSE b.entries[i]
    BY <1>1, <1>2, <2>1
  <2>3. Len(c.entries) = n
    <3>1. c.entries = [i \in 1..n |-> c.entries[i]]
      BY <1>1, <2>1
    <3> QED
      BY <1>1, <3>1, SequenceFrom
  <2> QED
    BY <1>2, <2>1, <2>2, <2>3 DEF c, n, at
<1>3. CASE at = 0
  <2>1. c.entries = Append(b.entries, entry) /\ c.index = Emplace(b.index, k, n + 1)
    BY <1>3 DEF PutIn
  <2> HIDE DEF c, n, at
  <2>2. /\ Len(c.entries) = n + 1
        /\ \A i \in 1..n : c.entries[i] = b.entries[i]
        /\ c.entries[n + 1] = entry
    BY <1>1, <2>1, Longer DEF n
  <2>3. Fn(c.index)
    BY <2>1, IndexIsFn
  <2> QED
    BY <1>3, <2>2, <2>3 DEF c, n, at
<1> QED
  BY <1>2, <1>3

LEMMA PutTyped ==
  ASSUME NEW b, BodyOk(b), BodyTyped(b), NEW k, NEW e, EntryOk(e)
  PROVE  BodyTyped(PutIn(b, k, e))
<1> DEFINE c == PutIn(b, k, e)
           n == Len(b.entries)
           at == Find(b.index, k)
           entry == [key |-> k, kind |-> e.kind, value |-> e.value]
<1>1. EntryShape(entry)
  <2>1. entry.key = k /\ entry.kind = e.kind /\ entry.value = e.value
    OBVIOUS
  <2>2. entry = [key |-> entry.key, kind |-> entry.kind, value |-> entry.value]
    OBVIOUS
  <2> HIDE DEF entry
  <2>3. EntryOk(entry)
    BY <2>1 DEF EntryOk
  <2> QED
    BY <2>2, <2>3 DEF EntryShape
<1>2. \/ /\ at # 0 /\ c.index = b.index /\ Len(c.entries) = n
         /\ \A i \in 1..n : c.entries[i] = IF i = at THEN entry ELSE b.entries[i]
      \/ /\ at = 0 /\ Fn(c.index) /\ Len(c.entries) = n + 1
         /\ \A i \in 1..n : c.entries[i] = b.entries[i]
         /\ c.entries[n + 1] = entry
  BY PutChanges
<1>3. n \in Nat /\ Fn(b.index) /\ \A i \in 1..n : EntryShape(b.entries[i])
  BY KeyFinds DEF BodyTyped
<1> HIDE DEF c, n, at, entry
<1>4. Fn(c.index) /\ \A i \in 1..Len(c.entries) : EntryShape(c.entries[i])
  <2>1. CASE at # 0
    BY <1>1, <1>2, <1>3, <2>1
  <2>2. CASE at = 0
    BY <1>1, <1>2, <1>3, <2>2
  <2> QED
    BY <2>1, <2>2
<1> QED
  BY <1>4 DEF BodyTyped, c

\* What a setter changes in the store.
Upserted(st, v, i, u, s, k, e) ==
  /\ StoreOk(v) /\ i \in 1..Len(v.sections) /\ v.sections[i].name = s /\ BodyOk(v.sections[i].body)
  /\ u = [v EXCEPT !.sections[i].body = PutIn(v.sections[i].body, k, e)]

LEMMA UpsertIs ==
  ASSUME NEW st, StoreOk(st), NEW s, NEW k, NEW e
  PROVE  LET v == EnsureSection(st, s) IN Upserted(st, v, Find(v.sec_index, s), Upsert(st, s, k, e), s, k, e)
<1> DEFINE v == EnsureSection(st, s)
           i == Find(v.sec_index, s)
           u == Upsert(st, s, k, e)
<1>1. StoreOk(v) /\ i # 0
  BY EnsureKeeps
<1>2. u = [v EXCEPT !.sections[i].body = PutIn(v.sections[i].body, k, e)]
  BY DEF Upsert, PutIn
<1> HIDE DEF v, u
<1>3. i \in 1..Len(v.sections) /\ v.sections[i].name = s /\ DOMAIN v.sections = 1..Len(v.sections)
  <2>1. StoreOk(v) /\ i # 0
    BY <1>1
  <2>2. /\ Len(v.sections) \in Nat /\ DOMAIN v.sections = 1..Len(v.sections)
        /\ i \in 0..Len(v.sections) /\ v.sections[i].name = s
    BY <2>1, SectionFinds
  <2> HIDE DEF i
  <2> QED
    BY <2>1, <2>2
<1> HIDE DEF i
<1>4. BodyOk(v.sections[i].body)
  BY <1>1, <1>3 DEF StoreOk, SectionOk
<1>5. Upserted(st, v, i, u, s, k, e)
  BY <1>1, <1>2, <1>3, <1>4 DEF Upserted
<1> QED
  BY <1>5 DEF v, i, u

LEMMA UpsertTyped ==
  ASSUME NEW st, StoreOk(st), StoreTyped(st), NEW s, NEW k, NEW e, EntryOk(e)
  PROVE  StoreTyped(Upsert(st, s, k, e))
<1> DEFINE v == EnsureSection(st, s)
           i == Find(v.sec_index, s)
           u == Upsert(st, s, k, e)
<1>1. StoreTyped(v)
  BY EnsureTyped
<1>2. Upserted(st, v, i, u, s, k, e)
  BY UpsertIs
<1> HIDE DEF v, i, u
<1> DEFINE b == v.sections[i].body
           c == PutIn(b, k, e)
<1>3. StoreOk(v) /\ i \in 1..Len(v.sections) /\ BodyOk(b) /\ u = [v EXCEPT !.sections[i].body = c]
  BY <1>2 DEF Upserted
<1>4. BodyTyped(b)
  BY <1>1, <1>3 DEF StoreTyped
<1> HIDE DEF b
<1>5. BodyTyped(c)
  BY <1>3, <1>4, PutTyped
<1> HIDE DEF c
<1>6. StoreTyped(u)
  BY <1>1, <1>3, <1>5, ChangedTyped
<1> QED
  BY <1>6 DEF u

LEMMA TakeTyped ==
  ASSUME NEW b, BodyOk(b), BodyTyped(b), NEW k
  PROVE  BodyTyped(TakenOut(b, k))
<1> DEFINE i == Find(b.index, k)
           n == Len(b.entries)
           left == RemoveAt(b.entries, i)
           c == TakenOut(b, k)
<1>1. CASE i = 0
  BY <1>1 DEF TakenOut
<1>2. CASE i # 0
  <2>1. n \in Nat /\ Sequence(b.entries) /\ i \in 1..n
    <3>1. n \in Nat /\ i \in 0..n /\ Sequence(b.entries)
      BY KeyFinds DEF BodyOk
    <3> HIDE DEF i, n
    <3> QED
      BY <1>2, <3>1
  <2>2. c.entries = left /\ c.index = Reindexed(b.index, k, [j \in DOMAIN left |-> left[j].key])
    BY <1>2 DEF TakenOut
  <2> HIDE DEF c
  <2>3. Fn(c.index)
    BY <2>2, IndexIsFn
  <2> HIDE DEF i
  <2>4. Len(left) = n - 1 /\ \A j \in 1..n-1 : left[j] = IF j < i THEN b.entries[j] ELSE b.entries[j + 1]
    BY <2>1, Shorter
  <2> HIDE DEF left, n
  <2>5. ASSUME NEW j \in 1..n-1 PROVE EntryShape(left[j])
    <3>1. j \in 1..n /\ j + 1 \in 1..n
      BY <2>1
    <3>2. EntryShape(b.entries[j]) /\ EntryShape(b.entries[j + 1])
      BY <3>1 DEF BodyTyped, n
    <3> QED
      BY <2>4, <3>2
  <2> QED
    BY <2>2, <2>3, <2>4, <2>5 DEF BodyTyped, c
<1> QED
  BY <1>1, <1>2

LEMMA RemoveKeyTyped ==
  ASSUME NEW st, StoreOk(st), StoreTyped(st), NEW s, NEW k
  PROVE  StoreTyped(RemoveKey(st, s, k))
<1> DEFINE i == Find(st.sec_index, s)
           b == st.sections[i].body
           u == RemoveKey(st, s, k)
<1>1. CASE i = 0
  BY <1>1 DEF RemoveKey
<1>2. CASE i # 0
  <2>1. u = [st EXCEPT !.sections[i].body = TakenOut(b, k)]
    BY <1>2 DEF RemoveKey, TakenOut
  <2>2. i \in 1..Len(st.sections) /\ DOMAIN st.sections = 1..Len(st.sections)
    BY <1>2, SectionFinds
  <2> HIDE DEF i, u
  <2>3. BodyOk(b) /\ BodyTyped(b)
    BY <2>2 DEF StoreOk, SectionOk, StoreTyped
  <2> HIDE DEF b
  <2> DEFINE c == TakenOut(b, k)
  <2>4. BodyTyped(c)
    BY <2>3, TakeTyped
  <2> HIDE DEF c
  <2>5. StoreTyped(u)
    <3>1. u = [st EXCEPT !.sections[i].body = c]
      BY <2>1 DEF c
    <3> QED
      BY <2>2, <2>4, <3>1, ChangedTyped
  <2> QED
    BY <2>5 DEF u
<1> QED
  BY <1>1, <1>2

LEMMA RemoveSectionTyped ==
  ASSUME NEW st, StoreOk(st), StoreTyped(st), NEW s
  PROVE  StoreTyped(RemoveSection(st, s))
<1> DEFINE i == Find(st.sec_index, s)
           n == Len(st.sections)
           left == RemoveAt(st.sections, i)
           u == RemoveSection(st, s)
<1>1. CASE i = 0
  BY <1>1 DEF RemoveSection
<1>2. CASE i # 0
  <2>1. n \in Nat /\ Sequence(st.sections) /\ i \in 1..n
    <3>1. n \in Nat /\ i \in 0..n /\ Sequence(st.sections)
      BY SectionFinds DEF StoreOk
    <3> HIDE DEF i, n
    <3> QED
      BY <1>2, <3>1
  <2>2. u.sections = left /\ u.sec_index = Reindexed(st.sec_index, s, [j \in DOMAIN left |-> left[j].name])
    BY <1>2 DEF RemoveSection
  <2> HIDE DEF u
  <2>3. Fn(u.sec_index)
    BY <2>2, IndexIsFn
  <2> HIDE DEF i
  <2>4. Len(left) = n - 1 /\ \A j \in 1..n-1 : left[j] = IF j < i THEN st.sections[j] ELSE st.sections[j + 1]
    BY <2>1, Shorter
  <2> HIDE DEF left, n
  <2>5. ASSUME NEW j \in 1..n-1 PROVE BodyTyped(left[j].body)
    <3>1. j \in 1..n /\ j + 1 \in 1..n
      BY <2>1
    <3>2. BodyTyped(st.sections[j].body) /\ BodyTyped(st.sections[j + 1].body)
      BY <3>1 DEF StoreTyped, n
    <3>3. left[j] = st.sections[j] \/ left[j] = st.sections[j + 1]
      BY <2>4
    <3> QED
      BY <3>2, <3>3
  <2> QED
    BY <2>2, <2>3, <2>4, <2>5 DEF StoreTyped, u
<1> QED
  BY <1>1, <1>2

\* A file of which every line with a key has a text.
LineOk(line) == line.tag = "pair" => Sequence(line.text)
FileOk(lines) == Sequence(lines) /\ \A i \in 1..Len(lines) : LineOk(lines[i])

\* load() makes a store of such a file, line by line.
LEMMA ReadingTyped ==
  ASSUME NEW lines, FileOk(lines)
  PROVE  \A m \in 0..Len(lines) : StoreTyped(Reading(lines)[m].st)
<1> DEFINE n == Len(lines)
           R == Reading(lines)
           S == {i \in 0..n : StoreTyped(R[i].st)}
<1>0. Sequence(lines) /\ \A i \in 1..n : LineOk(lines[i])
  BY DEF FileOk
<1>1. n \in Nat /\ DOMAIN lines = 1..n
  BY <1>0, SequenceIs
<1>2. /\ R[0] = [st |-> EmptyStore, current |-> NoName]
      /\ \A i \in 0..n-1 : R[i + 1] = ReadLine(R[i], lines[i + 1])
  BY <1>1, ReadingIsDefined
<1>3. \A i \in 0..n : Scanner(R[i]) /\ StoreOk(R[i].st)
  BY <1>0, CurrentSection, ReadingSays
<1> HIDE DEF R, n
<1>4. 0 \in S
  BY <1>1, <1>2, EmptyTyped
<1>5. ASSUME NEW i \in 0..n-1, i \in S PROVE i + 1 \in S
  <2> DEFINE line == lines[i + 1]
             before == R[i]
             after == R[i + 1]
  <2>1. i \in 0..n /\ i + 1 \in 0..n /\ i + 1 \in 1..n
    BY <1>1
  <2>2. after = ReadLine(before, line) /\ Scanner(before) /\ StoreOk(before.st) /\ StoreTyped(before.st)
    BY <1>2, <1>3, <1>5, <2>1
  <2>3. LineOk(line)
    BY <1>0, <2>1
  <2> HIDE DEF before, after, line
  <2>4. CASE line.tag = "section"
    <3>1. after.st = EnsureSection(before.st, line.name)
      BY <2>2, <2>4, ReadHeader
    <3>2. StoreTyped(after.st)
      BY <2>2, <3>1, EnsureTyped
    <3> QED
      BY <2>1, <3>2 DEF after
  <2>5. CASE line.tag = "pair"
    <3> DEFINE st == before.st
               e == ReadBack(line.text)
               u == Upsert(st, before.current, line.key, e)
    <3>1. after.st = u
      <4>1. after = [st |-> u, current |-> before.current]
        BY <2>2, <2>5, ReadPair
      <4> HIDE DEF u
      <4> QED
        BY <4>1
    <3>2. EntryOk(e)
      BY <2>3, <2>5, ReadBackIs DEF LineOk
    <3>4. StoreOk(st) /\ StoreTyped(st)
      BY <2>2
    <3> HIDE DEF e, st
    <3>3. StoreTyped(u)
      BY <3>2, <3>4, UpsertTyped
    <3> QED
      BY <2>1, <3>1, <3>3 DEF after
  <2>6. CASE line.tag \notin {"section", "pair"}
    <3>1. after = before
      BY <2>2, <2>6, ReadOther
    <3> QED
      BY <2>1, <2>2, <3>1 DEF after
  <2> QED
    BY <2>4, <2>5, <2>6
<1> HIDE DEF S
<1>6. 0..n \subseteq S
  BY <1>1, <1>4, <1>5, CountUp
<1> QED
  BY <1>6 DEF S, n, R

LEMMA LoadedTyped ==
  ASSUME NEW lines, FileOk(lines) PROVE StoreTyped(Loaded(lines))
<1>1. Len(lines) \in Nat
  BY SequenceIs DEF FileOk
<1>2. StoreTyped(Reading(lines)[Len(lines)].st)
  BY <1>1, ReadingTyped
<1> QED
  BY <1>2 DEF Loaded

\* The lines of a section: its header, if it has a name, and its entries.
SectionIs(sec, h, l) ==
  /\ Sequence(l) /\ h \in {0, 1} /\ (h = 0 <=> sec.name = NoName) /\ Len(l) = h + Len(sec.body.entries)
  /\ h = 1 => l[1] = Header(sec.name)
  /\ \A j \in 1..Len(sec.body.entries) :
       l[h + j] = Pair(sec.body.entries[j].key, Written(sec.body.entries[j]))

LEMMA SectionLinesAre ==
  ASSUME NEW sec, SectionOk(sec)
  PROVE  SectionIs(sec, IF sec.name = NoName THEN 0 ELSE 1, SectionLines(sec))
<1> DEFINE es == sec.body.entries
           n == Len(es)
           h == IF sec.name = NoName THEN 0 ELSE 1
           head == IF sec.name = NoName THEN <<>> ELSE <<Header(sec.name)>>
           tail == [i \in DOMAIN es |-> Pair(es[i].key, Written(es[i]))]
           l == head \o tail
<1>1. n \in Nat /\ DOMAIN es = 1..n
  BY SequenceIs DEF SectionOk, BodyOk
<1>2. SectionLines(sec) = l
  BY DEF SectionLines
<1>3. \A j \in 1..n : tail[j] = Pair(es[j].key, Written(es[j]))
  BY <1>1
<1>4. Sequence(tail) /\ Len(tail) = n
  <2> HIDE DEF n
  <2>1. tail = [i \in 1..n |-> tail[i]]
    BY <1>1
  <2> HIDE DEF tail
  <2> QED
    BY <1>1, <2>1, SequenceFrom
<1>5. Sequence(head) /\ Len(head) = h /\ h \in {0, 1} /\ (h = 0 <=> sec.name = NoName) /\ (h = 1 => head[1] = Header(sec.name))
  <2>1. Sequence(<<>>) /\ Sequence(<<Header(sec.name)>>)
    BY DEF Sequence, Range
  <2> QED
    BY <2>1
<1> HIDE DEF head, tail, h
<1>6. /\ Sequence(head \o tail) /\ Len(head) \in Nat /\ Len(tail) \in Nat /\ Len(head \o tail) = Len(head) + Len(tail)
      /\ \A x \in 1..Len(head) : (head \o tail)[x] = head[x]
      /\ \A y \in 1..Len(tail) : (head \o tail)[Len(head) + y] = tail[y]
  <2>1. Sequence(head) /\ Sequence(tail)
    BY <1>4, <1>5
  <2> QED
    BY <2>1, Appended
<1>7. Sequence(l) /\ Len(l) = h + n /\ (h = 1 => l[1] = head[1]) /\ \A y \in 1..n : l[h + y] = tail[y]
  <2>1. /\ Sequence(l) /\ Len(l) = Len(head) + Len(tail)
        /\ \A x \in 1..Len(head) : l[x] = head[x]
        /\ \A y \in 1..Len(tail) : l[Len(head) + y] = tail[y]
    BY <1>6
  <2> HIDE DEF l
  <2>2. h = 1 => 1 \in 1..Len(head)
    BY <1>5
  <2> QED
    BY <1>4, <1>5, <2>1, <2>2
<1> HIDE DEF l
<1>8. SectionIs(sec, h, l)
  <2>1. \A j \in 1..n : l[h + j] = Pair(es[j].key, Written(es[j]))
    BY <1>3, <1>7
  <2>2. h = 1 => l[1] = Header(sec.name)
    BY <1>5, <1>7
  <2> QED
    BY <1>5, <1>7, <2>1, <2>2 DEF SectionIs
<1> QED
  BY <1>2, <1>8 DEF h

\* Joining more texts makes none shorter.
LEMMA JoinsGrow ==
  ASSUME NEW ss, Sequence(ss), \A i \in 1..Len(ss) : Sequence(ss[i]), NEW f, Joining(ss, f),
         NEW n, n = Len(ss), NEW m \in 0..n
  PROVE  Len(f[m]) =< Len(f[n])
<1> DEFINE S == {j \in 0..n : m =< j => Len(f[m]) =< Len(f[j])}
<1>1. n \in Nat /\ Places(ss, f)
  BY SequenceIs, JoinedPlaces
<1>0. \A j \in 0..n : Len(f[j]) \in Nat
  BY SequenceIs DEF Joining
<1>2. 0 \in S
  <2>1. m =< 0 => m = 0
    BY <1>1
  <2> QED
    BY <1>0, <1>1, <2>1
<1>3. ASSUME NEW j \in 0..n-1, j \in S PROVE j + 1 \in S
  <2>1. j \in 0..n /\ j + 1 \in 0..n /\ j \in Nat /\ j + 1 =< n
    BY <1>1
  <2>2. NextPiece(ss, f, n, j)
    BY <1>1, <2>1, PieceAt
  <2> DEFINE a == Len(f[j])
             b == Len(f[j + 1])
             c == Len(ss[j + 1])
             d == Len(f[m])
  <2>3. b = a + c /\ a \in Nat /\ c \in Nat
    BY <2>2 DEF NextPiece
  <2>4. d \in Nat /\ (m =< j => d =< a) /\ (m = j + 1 => d = b)
    BY <1>0, <1>3
  <2>5. m =< j + 1 => m =< j \/ m = j + 1
    BY <1>1, <2>1
  <2> HIDE DEF a, b, c, d
  <2>6. m =< j + 1 => d =< b
    BY <2>3, <2>4, <2>5
  <2> QED
    BY <2>1, <2>6 DEF b, d
<1> HIDE DEF S
<1>4. 0..n \subseteq S
  BY <1>1, <1>2, <1>3, CountUp
<1>5. n \in S /\ m =< n
  BY <1>1, <1>4
<1> QED
  BY <1>5 DEF S

\* Where a section stands in a file, between the lines a and b.
HeadOf(sec) == IF sec.name = NoName THEN 0 ELSE 1
SectionStands(sec, a, b, lines) ==
  /\ a \in Nat /\ Len(sec.body.entries) \in Nat /\ b = (a + HeadOf(sec)) + Len(sec.body.entries)
  /\ b =< Len(lines)
  /\ sec.name # NoName => lines[a + 1] = Header(sec.name)
  /\ \A j \in 1..Len(sec.body.entries) :
       lines[(a + HeadOf(sec)) + j] = Pair(sec.body.entries[j].key, Written(sec.body.entries[j]))
SavedAt(st, lines, p) ==
  /\ p[0] = 0 /\ Len(lines) = p[Len(st.sections)]
  /\ \A i \in 1..Len(st.sections) : SectionStands(st.sections[i], p[i - 1], p[i], lines)

\* save() writes one section after the other.
LEMMA SavedStands ==
  ASSUME NEW st, StoreOk(st) PROVE \E p : SavedAt(st, Saved(st), p)
<1> DEFINE n == Len(st.sections)
           ss == [i \in DOMAIN st.sections |-> SectionLines(st.sections[i])]
           lines == Saved(st)
<1>1. n \in Nat /\ DOMAIN st.sections = 1..n /\ Sequence(st.sections) /\ \A i \in 1..n : SectionOk(st.sections[i])
  BY SectionFinds DEF StoreOk
<1>2. lines = FlattenSeq(ss)
  BY DEF Saved
<1>3. ss = [i \in 1..n |-> ss[i]] /\ \A i \in 1..n : ss[i] = SectionLines(st.sections[i])
  BY <1>1
<1> HIDE DEF ss, n, lines
<1>4. Sequence(ss) /\ Len(ss) = n
  BY <1>1, <1>3, SequenceFrom
<1>5. ASSUME NEW i \in 1..n PROVE SectionIs(st.sections[i], HeadOf(st.sections[i]), ss[i])
  BY <1>1, <1>3, SectionLinesAre DEF HeadOf
<1>6. \A i \in 1..Len(ss) : Sequence(ss[i])
  BY <1>4, <1>5 DEF SectionIs
<1>7. PICK f : Joining(ss, f) /\ FlattenSeq(ss) = f[Len(ss)]
  BY <1>4, <1>6, FlattenJoins
<1>8. Places(ss, f)
  BY <1>4, <1>6, <1>7, JoinedPlaces
<1> DEFINE p == [i \in 0..n |-> Len(f[i])]
<1>9. lines = f[n] /\ p[0] = 0 /\ Len(lines) = p[n] /\ \A i \in 0..n : p[i] = Len(f[i])
  <2>1. 0 \in 0..n /\ n \in 0..n /\ f[0] = <<>>
    BY <1>1, <1>7 DEF Joining
  <2> QED
    BY <1>2, <1>4, <1>7, <2>1
<1> HIDE DEF p
<1>10. ASSUME NEW i \in 1..n PROVE SectionStands(st.sections[i], p[i - 1], p[i], lines)
  <2> DEFINE sec == st.sections[i]
             l == ss[i]
             h == HeadOf(sec)
             a == p[i - 1]
             b == p[i]
             k == Len(sec.body.entries)
  <2>1. SectionIs(sec, h, l) /\ SectionOk(sec)
    BY <1>1, <1>5
  <2>2. i - 1 \in 0..n /\ i \in 0..n
    BY <1>1
  <2>3. /\ Len(f[i]) = Len(f[i - 1]) + Len(ss[i]) /\ Len(f[i - 1]) \in Nat
        /\ \A y \in 1..Len(ss[i]) : Len(f[i - 1]) + y \in 1..Len(f[Len(ss)]) /\ f[Len(ss)][Len(f[i - 1]) + y] = ss[i][y]
    BY <1>4, <1>8 DEF Places
  <2>4. b = a + Len(l) /\ a \in Nat /\ \A y \in 1..Len(l) : a + y \in 1..Len(lines) /\ lines[a + y] = l[y]
    <3>1. a = Len(f[i - 1]) /\ b = Len(f[i])
      BY <1>9, <2>2
    <3> HIDE DEF a, b
    <3>2. f[Len(ss)] = lines
      BY <1>4, <1>9
    <3> QED
      BY <2>3, <3>1, <3>2
  <2>5. k \in Nat
    BY <2>1, SequenceIs DEF SectionOk, BodyOk
  <2>6. Len(lines) \in Nat
    <3>1. \A j \in 0..Len(ss) : Sequence(f[j])
      BY <1>7 DEF Joining
    <3>2. Sequence(lines)
      BY <1>1, <1>4, <1>9, <3>1
    <3> QED
      BY <3>2, SequenceIs
  <2>7. /\ h \in {0, 1} /\ (h = 0 <=> sec.name = NoName) /\ Len(l) = h + k
        /\ h = 1 => l[1] = Header(sec.name)
        /\ \A j \in 1..k : l[h + j] = Pair(sec.body.entries[j].key, Written(sec.body.entries[j]))
    BY <2>1 DEF SectionIs
  <2> HIDE DEF h, a, b, l, k, sec
  <2>8. b = (a + h) + k
    BY <2>4, <2>5, <2>7
  <2>9. b =< Len(lines)
    <3>1. Len(f[i]) =< Len(f[n])
      BY <1>4, <1>6, <1>7, <2>2, JoinsGrow
    <3> QED
      BY <1>9, <2>2, <3>1 DEF b
  <2>10. sec.name # NoName => lines[a + 1] = Header(sec.name)
    <3>1. sec.name # NoName => h = 1 /\ 1 \in 1..Len(l)
      BY <2>5, <2>7
    <3> QED
      BY <2>4, <2>7, <3>1
  <2>11. ASSUME NEW j \in 1..k PROVE lines[(a + h) + j] = Pair(sec.body.entries[j].key, Written(sec.body.entries[j]))
    <3> DEFINE w == Len(l)
    <3>0. w = h + k /\ h \in {0, 1} /\ a \in Nat /\ k \in Nat
      BY <2>4, <2>5, <2>7
    <3> HIDE DEF w
    <3>3. h + j \in 1..w /\ (a + h) + j = a + (h + j)
      BY <3>0
    <3>1. h + j \in 1..Len(l) /\ (a + h) + j = a + (h + j)
      BY <3>3 DEF w
    <3>2. lines[a + (h + j)] = l[h + j]
      BY <2>4, <3>1
    <3> QED
      BY <2>7, <3>1, <3>2
  <2>12. SectionStands(sec, a, b, lines)
    BY <2>4, <2>5, <2>8, <2>9, <2>10, <2>11 DEF SectionStands, h, k
  <2> QED
    BY <2>12 DEF sec, a, b
<1>11. SavedAt(st, lines, p)
  BY <1>9, <1>10 DEF SavedAt, n
<1> QED
  BY <1>11 DEF lines

\* What save() writes is a file that load() can read.
LEMMA FilesJoin ==
  ASSUME NEW a, NEW b, FileOk(a), FileOk(b) PROVE FileOk(a \o b)
<1> DEFINE c == a \o b
           k == Len(a)
           l == Len(b)
<1>1. Sequence(a) /\ Sequence(b)
  BY DEF FileOk
<1>2. /\ Sequence(c) /\ k \in Nat /\ l \in Nat /\ Len(c) = k + l
      /\ \A x \in 1..k : c[x] = a[x]
      /\ \A y \in 1..l : c[k + y] = b[y]
  BY <1>1, Appended
<1>3. (\A x \in 1..k : LineOk(a[x])) /\ (\A y \in 1..l : LineOk(b[y]))
  BY DEF FileOk
<1> HIDE DEF c, k, l
<1>4. ASSUME NEW x \in 1..k+l PROVE LineOk(c[x])
  <2>1. CASE x \in 1..k
    BY <1>2, <1>3, <2>1
  <2>2. CASE x \notin 1..k
    <3> DEFINE y == x - k
    <3>1. y \in 1..l /\ k + y = x
      BY <1>2, <2>2
    <3> HIDE DEF y
    <3> QED
      BY <1>2, <1>3, <3>1
  <2> QED
    BY <2>1, <2>2
<1> QED
  BY <1>2, <1>4 DEF FileOk, c

LEMMA SavedIsFile ==
  ASSUME NEW st, StoreOk(st), StoreTyped(st) PROVE FileOk(Saved(st))
<1> DEFINE n == Len(st.sections)
           ss == [i \in DOMAIN st.sections |-> SectionLines(st.sections[i])]
<1>1. n \in Nat /\ DOMAIN st.sections = 1..n /\ Sequence(st.sections) /\ \A i \in 1..n : SectionOk(st.sections[i])
  BY SectionFinds DEF StoreOk
<1>2. Saved(st) = FlattenSeq(ss)
  BY DEF Saved
<1>3. ss = [i \in 1..n |-> ss[i]] /\ \A i \in 1..n : ss[i] = SectionLines(st.sections[i])
  BY <1>1
<1> HIDE DEF ss
<1>4. Sequence(ss) /\ Len(ss) = n
  BY <1>1, <1>3, SequenceFrom
<1>5. ASSUME NEW i \in 1..n PROVE FileOk(ss[i])
  <2> DEFINE sec == st.sections[i]
             l == ss[i]
             h == HeadOf(sec)
             es == sec.body.entries
             k == Len(es)
  <2>1. SectionIs(sec, h, l) /\ SectionOk(sec) /\ BodyTyped(sec.body)
    BY <1>1, <1>3, SectionLinesAre DEF HeadOf, StoreTyped
  <2>2. k \in Nat
    BY <2>1, SequenceIs DEF SectionOk, BodyOk
  <2>3. /\ Sequence(l) /\ h \in {0, 1} /\ Len(l) = h + k /\ (h = 1 => l[1] = Header(sec.name))
        /\ \A j \in 1..k : l[h + j] = Pair(es[j].key, Written(es[j]))
    BY <2>1 DEF SectionIs
  <2>4. \A j \in 1..k : EntryOk(es[j])
    BY <2>1 DEF BodyTyped, EntryShape
  <2>5. LineOk(Header(sec.name))
    BY DEF LineOk, Header
  <2>6. ASSUME NEW e, EntryOk(e) PROVE LineOk(Pair(e.key, Written(e)))
    <3>1. Pair(e.key, Written(e)).text = Written(e)
      BY DEF Pair
    <3> QED
      BY <2>6, <3>1, WrittenIs DEF LineOk
  <2> HIDE DEF h, k, l, es, sec
  <2>7. ASSUME NEW x \in 1..h+k PROVE LineOk(l[x])
    <3>1. CASE h = 1 /\ x = 1
      BY <2>3, <2>5, <3>1
    <3>2. CASE ~(h = 1 /\ x = 1)
      <4> DEFINE j == x - h
      <4>1. j \in 1..k /\ h + j = x
        BY <2>2, <2>3, <3>2
      <4> HIDE DEF j
      <4>2. l[x] = Pair(es[j].key, Written(es[j]))
        BY <2>3, <4>1
      <4> QED
        BY <2>4, <2>6, <4>1, <4>2
    <3> QED
      BY <3>1, <3>2
  <2>8. FileOk(l)
    BY <2>3, <2>7 DEF FileOk
  <2> QED
    BY <2>8 DEF l
<1>6. \A i \in 1..Len(ss) : Sequence(ss[i])
  BY <1>4, <1>5 DEF FileOk
<1>7. PICK f : Joining(ss, f) /\ FlattenSeq(ss) = f[Len(ss)]
  BY <1>4, <1>6, FlattenJoins
<1> DEFINE S == {m \in 0..n : FileOk(f[m])}
<1>8. 0 \in S
  <2>1. f[0] = <<>> /\ Sequence(<<>>) /\ 1..Len(<<>>) = {}
    BY <1>7 DEF Joining, Sequence
  <2>2. FileOk(f[0])
    BY <2>1 DEF FileOk
  <2> QED
    BY <1>1, <2>2
<1>9. ASSUME NEW m \in 0..n-1, m \in S PROVE m + 1 \in S
  <2> DEFINE i == m + 1
  <2>1. i \in 1..n /\ i \in 0..n /\ i - 1 = m /\ i \in 1..Len(ss)
    BY <1>1, <1>4
  <2> HIDE DEF i
  <2>2. f[i] = f[i - 1] \o ss[i]
    BY <1>7, <2>1 DEF Joining
  <2>3. f[i] = f[m] \o ss[i]
    BY <2>1, <2>2, Zenon
  <2>4. FileOk(f[i])
    BY <1>5, <1>9, <2>1, <2>3, FilesJoin
  <2> QED
    BY <2>1, <2>4 DEF i
<1> HIDE DEF S
<1>10. 0..n \subseteq S
  BY <1>1, <1>8, <1>9, CountUp
<1> QED
  BY <1>1, <1>2, <1>4, <1>7, <1>10 DEF S

-----------------------------------------------------------------------------
(***************************************************************************)
(* load() undoes save(): it makes the same sections in the same order, and *)
(* in each the same entries in the same order, so the indices agree too.   *)
(***************************************************************************)
LEMMA SameIndex ==
  ASSUME NEW f, NEW g, Fn(f), Fn(g), NEW names, Indexed(f, names), Indexed(g, names)
  PROVE  f = g
<1>1. DOMAIN f = DOMAIN g /\ DOMAIN f = Range(names)
  BY DEF Indexed
<1>2. ASSUME NEW x \in DOMAIN f PROVE f[x] = g[x]
  <2>1. PICK i \in DOMAIN names : x = names[i]
    BY <1>1 DEF Range
  <2> QED
    BY <2>1 DEF Indexed
<1> QED
  BY <1>1, <1>2 DEF Fn

\* A body that holds the first j entries of another one.
Filled(b, c, j) == Len(b.entries) = j /\ \A x \in 1..j : b.entries[x] = c.entries[x]

LEMMA SameBody ==
  ASSUME NEW b, NEW c, BodyOk(b), BodyOk(c), BodyTyped(b), BodyTyped(c), Filled(b, c, Len(c.entries))
  PROVE  b = c
<1>1. Sequence(b.entries) /\ Sequence(c.entries) /\ Indexed(b.index, KeysOf(b.entries)) /\ Indexed(c.index, KeysOf(c.entries))
  BY DEF BodyOk
<1>2. b.entries = c.entries
  BY <1>1, SameText DEF Filled
<1>3. b.index = c.index
  BY <1>1, <1>2, SameIndex DEF BodyTyped
<1>4. b = [entries |-> b.entries, index |-> b.index] /\ c = [entries |-> c.entries, index |-> c.index]
  BY DEF BodyOk
<1> QED
  BY <1>2, <1>3, <1>4

\* What load() has made of the file of a store: its first i sections, the last
\* of which may have its first j entries only.
AtSection(u, st, i) ==
  /\ StoreOk(u) /\ StoreTyped(u) /\ Len(u.sections) = i
  /\ \A x \in 1..i : u.sections[x] = st.sections[x]
AtEntry(u, st, i, j) ==
  /\ StoreOk(u) /\ StoreTyped(u) /\ Len(u.sections) = i
  /\ \A x \in 1..i : x # i => u.sections[x] = st.sections[x]
  /\ u.sections[i].name = st.sections[i].name
  /\ Filled(u.sections[i].body, st.sections[i].body, j)

LEMMA SameStore ==
  ASSUME NEW st, StoreOk(st), StoreTyped(st), NEW u, AtSection(u, st, Len(st.sections))
  PROVE  u = st
<1>1. /\ Sequence(u.sections) /\ Sequence(st.sections)
      /\ Indexed(u.sec_index, NamesOf(u.sections)) /\ Indexed(st.sec_index, NamesOf(st.sections))
  BY DEF AtSection, StoreOk
<1>2. u.sections = st.sections
  BY <1>1, SameText DEF AtSection
<1>3. u.sec_index = st.sec_index
  BY <1>1, <1>2, SameIndex DEF AtSection, StoreTyped
<1>4. /\ u = [sections |-> u.sections, sec_index |-> u.sec_index]
      /\ st = [sections |-> st.sections, sec_index |-> st.sec_index]
  BY DEF AtSection, StoreOk
<1> QED
  BY <1>2, <1>3, <1>4

\* The next section has a name that no section before it has.
LEMMA SectionBegins ==
  ASSUME NEW st, StoreOk(st), NEW i \in 1..Len(st.sections), NEW m, m + 1 = i, m \in Nat,
         NEW u, AtSection(u, st, m)
  PROVE  AtEntry(EnsureSection(u, st.sections[i].name), st, i, 0)
<1> DEFINE s == st.sections[i].name
           v == EnsureSection(u, s)
           fresh == [name |-> s, body |-> NoEntries]
           at == Find(u.sec_index, s)
           n == Len(st.sections)
<1>1. StoreOk(u) /\ StoreTyped(u) /\ Len(u.sections) = m /\ \A x \in 1..m : u.sections[x] = st.sections[x]
  BY DEF AtSection
<1>2. /\ n \in Nat /\ \A x \in 1..n : Find(st.sec_index, st.sections[x].name) = x
      /\ Sequence(u.sections) /\ at \in 0..m /\ (at # 0 => u.sections[at].name = s)
  <2>1. n \in Nat /\ \A x \in 1..n : Find(st.sec_index, st.sections[x].name) = x
    BY SectionFinds
  <2>2. Sequence(u.sections)
    BY <1>1 DEF StoreOk
  <2> HIDE DEF s
  <2>3. at \in 0..Len(u.sections) /\ (at # 0 => u.sections[at].name = s)
    BY <1>1, SectionFinds
  <2> QED
    BY <1>1, <2>1, <2>2, <2>3
<1>3. at = 0
  <2> SUFFICES ASSUME at # 0 PROVE FALSE
    OBVIOUS
  <2> HIDE DEF at
  <2>1. at \in 1..m /\ at \in 1..n /\ at # i
    BY <1>2
  <2>2. st.sections[at].name = s
    BY <1>1, <1>2, <2>1
  <2>3. Find(st.sec_index, st.sections[at].name) = at /\ Find(st.sec_index, st.sections[i].name) = i
    BY <1>2, <2>1
  <2> QED
    BY <2>1, <2>2, <2>3
<1>4. v.sections = Append(u.sections, fresh)
  BY <1>1, <1>3 DEF EnsureSection
<1>5. StoreOk(v) /\ StoreTyped(v)
  BY <1>1, EnsureKeeps, EnsureTyped
<1> HIDE DEF v
<1>6. /\ Len(v.sections) = m + 1 /\ v.sections[m + 1] = fresh
      /\ \A x \in 1..m : v.sections[x] = u.sections[x]
  BY <1>1, <1>2, <1>4, Longer
<1>7. v.sections[i].name = s /\ Filled(v.sections[i].body, st.sections[i].body, 0)
  <2>1. fresh.name = s /\ fresh.body = NoEntries /\ NoEntries.entries = <<>> /\ Len(<<>>) = 0
    BY DEF NoEntries
  <2>2. v.sections[i] = fresh
    BY <1>6
  <2> HIDE DEF fresh
  <2> QED
    BY <2>1, <2>2 DEF Filled
<1>8. \A x \in 1..i : x # i => v.sections[x] = st.sections[x]
  BY <1>1, <1>6
<1> HIDE DEF fresh, at
<1>9. AtEntry(v, st, i, 0)
  BY <1>5, <1>6, <1>7, <1>8 DEF AtEntry
<1> QED
  BY <1>9 DEF v

\* The next entry has a key that none before it has.
LEMMA PutFollows ==
  ASSUME NEW b, BodyOk(b), NEW full, BodyOk(full), NEW j \in Nat, Filled(b, full, j),
         NEW e, EntryShape(e), j + 1 \in 1..Len(full.entries), e = full.entries[j + 1]
  PROVE  Filled(PutIn(b, e.key, Value(e)), full, j + 1)
<1> DEFINE n == Len(full.entries)
           k == e.key
           r == Value(e)
           c == PutIn(b, k, r)
           at == Find(b.index, k)
<1>1. Len(b.entries) = j /\ \A x \in 1..j : b.entries[x] = full.entries[x]
  BY DEF Filled
<1>2. at \in 0..j /\ (at # 0 => b.entries[at].key = k)
  <2>1. at \in 0..Len(b.entries) /\ (at # 0 => b.entries[at].key = k)
    BY KeyFinds
  <2> HIDE DEF at, k
  <2> QED
    BY <1>1, <2>1
<1>3. n \in Nat /\ \A x \in 1..n : Find(full.index, full.entries[x].key) = x
  BY KeyFinds
<1>4. e = [key |-> k, kind |-> r.kind, value |-> r.value]
  BY DEF EntryShape, Value
<1>5. j + 1 \in 1..n /\ full.entries[j + 1].key = k
  OBVIOUS
<1> HIDE DEF n, k, r
<1>6. at = 0
  <2> SUFFICES ASSUME at # 0 PROVE FALSE
    OBVIOUS
  <2> HIDE DEF at
  <2>1. at \in 1..j /\ at \in 1..n /\ at # j + 1
    BY <1>2, <1>3, <1>5
  <2>2. full.entries[at].key = k
    BY <1>1, <1>2, <2>1
  <2>3. Find(full.index, k) = at /\ Find(full.index, k) = j + 1
    BY <1>3, <1>5, <2>1, <2>2
  <2> QED
    BY <2>1, <2>3
<1>7. /\ Len(c.entries) = j + 1 /\ c.entries[j + 1] = e
      /\ \A x \in 1..j : c.entries[x] = b.entries[x]
  <2>1. /\ Len(c.entries) = Len(b.entries) + 1 /\ c.entries[Len(b.entries) + 1] = e
        /\ \A x \in 1..Len(b.entries) : c.entries[x] = b.entries[x]
    BY <1>4, <1>6, PutChanges
  <2> HIDE DEF c
  <2> QED
    BY <1>1, <2>1
<1> HIDE DEF c
<1>8. \A x \in 1..j+1 : c.entries[x] = full.entries[x]
  <2>1. \A x \in 1..j+1 : x \in 1..j \/ x = j + 1
    OBVIOUS
  <2> QED
    BY <1>1, <1>7, <2>1
<1>9. Filled(c, full, j + 1)
  BY <1>7, <1>8 DEF Filled
<1> QED
  BY <1>9 DEF c, k, r

LEMMA EntryFollows ==
  ASSUME NEW st, StoreOk(st), StoreTyped(st), NEW i \in 1..Len(st.sections),
         NEW j \in Nat, NEW e, j + 1 \in 1..Len(st.sections[i].body.entries),
         e = st.sections[i].body.entries[j + 1], NEW u, AtEntry(u, st, i, j)
  PROVE  AtEntry(Upsert(u, st.sections[i].name, e.key, Value(e)), st, i, j + 1)
<1> DEFINE s == st.sections[i].name
           k == e.key
           r == Value(e)
           w == Upsert(u, s, k, r)
           b == u.sections[i].body
           full == st.sections[i].body
           c == PutIn(b, k, r)
<1>1. /\ StoreOk(u) /\ StoreTyped(u) /\ Len(u.sections) = i
      /\ \A x \in 1..i : x # i => u.sections[x] = st.sections[x]
      /\ u.sections[i].name = s /\ Filled(b, full, j)
  BY DEF AtEntry
<1>2. BodyOk(full) /\ BodyTyped(full)
  <2>1. DOMAIN st.sections = 1..Len(st.sections)
    BY SectionFinds
  <2>2. SectionOk(st.sections[i])
    BY <2>1 DEF StoreOk
  <2> QED
    BY <2>2 DEF SectionOk, StoreTyped
<1>3. EntryShape(e) /\ EntryOk(r)
  <2>1. EntryShape(e)
    BY <1>2 DEF BodyTyped
  <2>2. r.kind = e.kind /\ r.value = e.value
    BY DEF Value
  <2> HIDE DEF r
  <2> QED
    BY <2>1, <2>2, Zenon DEF EntryShape, EntryOk
<1>4. i \in 1..Len(u.sections) /\ i # 0
  BY <1>1, SectionFinds
<1>5. EnsureSection(u, s) = u /\ Find(u.sec_index, s) = i
  <2>1. Find(u.sec_index, s) = i
    <3>1. Find(u.sec_index, u.sections[i].name) = i
      BY <1>1, <1>4, SectionFinds
    <3> QED
      BY <1>1, <3>1
  <2> QED
    BY <1>4, <2>1 DEF EnsureSection
<1> HIDE DEF s, k, r
<1>6. BodyOk(b) /\ w = [u EXCEPT !.sections[i].body = c]
  <2> DEFINE v == EnsureSection(u, s)
             at == Find(v.sec_index, s)
  <2>1. Upserted(u, v, at, w, s, k, r)
    BY <1>1, UpsertIs
  <2>2. v = u /\ at = i
    BY <1>5
  <2> HIDE DEF w, v, at
  <2>3. Upserted(u, u, i, w, s, k, r)
    BY <2>1, <2>2
  <2> QED
    BY <2>3 DEF Upserted
<1>7. StoreOk(w) /\ StoreTyped(w)
  BY <1>1, <1>3, UpsertKeeps, UpsertTyped
<1>8. Filled(c, full, j + 1)
  <2> HIDE DEF c
  <2>1. BodyOk(b) /\ BodyOk(full) /\ Filled(b, full, j) /\ EntryShape(e)
    BY <1>1, <1>2, <1>3, <1>6
  <2> HIDE DEF b
  <2>2. Filled(PutIn(b, e.key, Value(e)), full, j + 1)
    BY <2>1, PutFollows
  <2> QED
    BY <2>2 DEF c, k, r
<1> HIDE DEF w, c, b, full
<1>9. Changed(u, w, i, c)
  BY <1>1, <1>4, <1>6, SectionChanged
<1>10. /\ w.sections[i].name = s /\ w.sections[i].body = c /\ Len(w.sections) = i
       /\ \A x \in 1..i : x # i => w.sections[x] = u.sections[x]
  BY <1>1, <1>9 DEF Changed
<1>11. AtEntry(w, st, i, j + 1)
  BY <1>1, <1>7, <1>8, <1>10, Zenon DEF AtEntry, full, s
<1> QED
  BY <1>11 DEF w, s, k, r

\* The first entry of a section that has no header makes the section.
LEMMA EntryBegins ==
  ASSUME NEW st, StoreOk(st), StoreTyped(st), NEW i \in 1..Len(st.sections), NEW m \in Nat, m + 1 = i,
         NEW e, 1 \in 1..Len(st.sections[i].body.entries),
         e = st.sections[i].body.entries[1], NEW u, AtSection(u, st, m)
  PROVE  AtEntry(Upsert(u, st.sections[i].name, e.key, Value(e)), st, i, 1)
<1> DEFINE s == st.sections[i].name
           v == EnsureSection(u, s)
<1>1. AtEntry(v, st, i, 0)
  BY SectionBegins
<1>2. EnsureSection(v, s) = v
  <2>1. Find(v.sec_index, s) # 0
    BY EnsureKeeps DEF AtSection
  <2> HIDE DEF v
  <2> QED
    BY <2>1 DEF EnsureSection
<1>3. Upsert(v, s, e.key, Value(e)) = Upsert(u, s, e.key, Value(e))
  BY <1>2 DEF Upsert
<1> HIDE DEF v, s
<1>4. 0 \in Nat /\ 0 + 1 = 1
  OBVIOUS
<1>5. AtEntry(Upsert(v, st.sections[i].name, e.key, Value(e)), st, i, 0 + 1)
  BY <1>1, <1>4, EntryFollows
<1> QED
  BY <1>3, <1>4, <1>5 DEF s

\* A section with all of its entries is done.
LEMMA SectionEnds ==
  ASSUME NEW st, StoreOk(st), StoreTyped(st), NEW i \in 1..Len(st.sections),
         NEW u, AtEntry(u, st, i, Len(st.sections[i].body.entries))
  PROVE  AtSection(u, st, i)
<1> DEFINE a == u.sections[i]
           b == st.sections[i]
<1>1. i \in 1..Len(u.sections)
  BY SectionFinds DEF AtEntry
<1>2. SectionOk(a) /\ SectionOk(b) /\ BodyTyped(a.body) /\ BodyTyped(b.body)
  <2>1. StoreOk(u) /\ StoreTyped(u)
    BY DEF AtEntry
  <2>2. DOMAIN u.sections = 1..Len(u.sections) /\ DOMAIN st.sections = 1..Len(st.sections)
    BY <2>1, SectionFinds
  <2> QED
    BY <1>1, <2>1, <2>2 DEF StoreOk, StoreTyped
<1>3. a.name = b.name /\ Filled(a.body, b.body, Len(b.body.entries))
  BY DEF AtEntry
<1> HIDE DEF a, b
<1>4. a.body = b.body
  BY <1>2, <1>3, SameBody DEF SectionOk
<1>5. a = b
  BY <1>2, <1>3, <1>4 DEF SectionOk
<1> QED
  BY <1>5 DEF AtEntry, AtSection, a, b

\* What load() does at a line.
Reads(R, lines, x) == R[x + 1] = ReadLine(R[x], lines[x + 1]) /\ Scanner(R[x])

LEMMA ReadingSteps ==
  ASSUME NEW lines, Sequence(lines)
  PROVE  /\ Reading(lines)[0] = [st |-> EmptyStore, current |-> NoName]
         /\ \A x \in 0..Len(lines)-1 : Reads(Reading(lines), lines, x)
<1> DEFINE n == Len(lines)
           R == Reading(lines)
<1>1. n \in Nat
  BY SequenceIs
<1>2. R = [i \in 0..n |-> IF i = 0 THEN [st |-> EmptyStore, current |-> NoName] ELSE ReadLine(R[i - 1], lines[i])]
  BY <1>1, ReadingIsDefined
<1>3. \A x \in 0..n : Scanner(R[x])
  BY CurrentSection
<1> HIDE DEF n, R
<1>4. R[0] = [st |-> EmptyStore, current |-> NoName]
  <2>1. 0 \in 0..n
    BY <1>1
  <2> QED
    BY <1>2, <2>1, Zenon
<1>5. ASSUME NEW x \in 0..n-1 PROVE Reads(R, lines, x)
  <2> DEFINE y == x + 1
  <2>1. y \in 0..n /\ y # 0 /\ y - 1 = x /\ x \in 0..n
    BY <1>1
  <2> HIDE DEF y
  <2>2. R[y] = ReadLine(R[x], lines[y])
    BY <1>2, <2>1, Zenon
  <2> QED
    BY <1>3, <2>1, <2>2 DEF Reads, y
<1> QED
  BY <1>4, <1>5 DEF n, R

\* An entry's line, read in its section, sets the entry.
LEMMA PairRead ==
  ASSUME NEW e, EntryOk(e), Storable(e), NEW before, Scanner(before),
         NEW after, after = ReadLine(before, Pair(e.key, Written(e)))
  PROVE  /\ after.current = before.current
         /\ after.st = Upsert(before.st, before.current, e.key, Value(e))
<1> DEFINE line == Pair(e.key, Written(e))
           u == Upsert(before.st, before.current, line.key, ReadBack(line.text))
<1>1. ReadBack(Written(e)) = Value(e)
  BY ReadsBack
<1>2. line.tag = "pair" /\ line.key = e.key /\ line.text = Written(e)
  BY DEF Pair
<1>3. after = [st |-> u, current |-> before.current]
  <2>1. after = ReadLine(before, line)
    OBVIOUS
  <2> HIDE DEF line
  <2> QED
    BY <1>2, <2>1, ReadPair
<1>4. u = Upsert(before.st, before.current, e.key, Value(e))
  BY <1>1, <1>2
<1> HIDE DEF u
<1> QED
  BY <1>3, <1>4

\* The next entry is added to what there is, also if it is the first of a
\* section without a header.
LEMMA EntryComes ==
  ASSUME NEW st, StoreOk(st), StoreTyped(st), NEW i \in 1..Len(st.sections), NEW m \in Nat, m + 1 = i,
         NEW j \in Nat, NEW e, j + 1 \in 1..Len(st.sections[i].body.entries),
         e = st.sections[i].body.entries[j + 1], NEW u,
         AtEntry(u, st, i, j) \/ (j = 0 /\ AtSection(u, st, m))
  PROVE  AtEntry(Upsert(u, st.sections[i].name, e.key, Value(e)), st, i, j + 1)
<1> DEFINE v == Upsert(u, st.sections[i].name, e.key, Value(e))
<1>1. CASE AtEntry(u, st, i, j)
  BY <1>1, EntryFollows
<1>2. CASE j = 0 /\ AtSection(u, st, m)
  <2>1. j = 0 /\ j + 1 = 1 /\ AtSection(u, st, m)
    BY <1>2
  <2>2. 1 \in 1..Len(st.sections[i].body.entries) /\ e = st.sections[i].body.entries[1]
    BY <2>1, Zenon
  <2>3. AtEntry(v, st, i, 1)
    BY <2>1, <2>2, EntryBegins
  <2> QED
    BY <2>1, <2>3, Zenon
<1> QED
  BY <1>1, <1>2, Zenon

\* Where the reading of a section's lines is, behind its first j entries.
Inside(in, st, i, m, j) ==
  /\ in.current = st.sections[i].name
  /\ AtEntry(in.st, st, i, j) \/ (j = 0 /\ st.sections[i].name = NoName /\ AtSection(in.st, st, m))

LEMMA SectionRead ==
  ASSUME NEW st, StoreOk(st), StoreTyped(st), Restorable(st), NEW lines, Sequence(lines),
         NEW i \in 1..Len(st.sections), NEW m \in Nat, m + 1 = i,
         NEW a, NEW b, SectionStands(st.sections[i], a, b, lines),
         NEW R, R = Reading(lines), AtSection(R[a].st, st, m),
         st.sections[i].name = NoName => R[a].current = NoName
  PROVE  AtSection(R[b].st, st, i)
<1> DEFINE sec == st.sections[i]
           s == sec.name
           es == sec.body.entries
           k == Len(es)
           h == HeadOf(sec)
           n == Len(lines)
           o == a + h
           S == {j \in 0..k : Inside(R[o + j], st, i, m, j)}
<1>1. /\ a \in Nat /\ k \in Nat /\ b = o + k /\ b =< n /\ h \in {0, 1}
      /\ (s = NoName /\ h = 0) \/ (s # NoName /\ h = 1 /\ lines[a + 1] = Header(s))
      /\ \A j \in 1..k : lines[o + j] = Pair(es[j].key, Written(es[j]))
  BY DEF SectionStands, HeadOf
<1>2. n \in Nat
  BY SequenceIs
<1>3. \A x \in 0..n-1 : Reads(R, lines, x)
  BY ReadingSteps
<1>4. \A j \in 1..k : Storable(es[j])
  <2>1. BodyOk(sec.body) /\ DOMAIN st.sections = 1..Len(st.sections)
    <3>1. DOMAIN st.sections = 1..Len(st.sections)
      BY SectionFinds
    <3> QED
      BY <3>1 DEF StoreOk, SectionOk
  <2>2. DOMAIN es = 1..k
    BY <2>1, KeyFinds
  <2> QED
    BY <2>1, <2>2 DEF Restorable
<1>5. s = NoName => k # 0
  <2>1. DOMAIN st.sections = 1..Len(st.sections)
    BY SectionFinds
  <2>2. s = NoName => es # <<>>
    BY <2>1 DEF Restorable
  <2>3. Sequence(es)
    BY <2>1 DEF StoreOk, SectionOk, BodyOk
  <2> QED
    BY <2>2, <2>3 DEF Sequence
<1>6. AtSection(R[a].st, st, m) /\ (s = NoName => R[a].current = NoName)
  OBVIOUS
<1> HIDE DEF h, n, o, k
<1>7. 0 \in S
  <2>1. o + 0 = a + h /\ a \in Int
    BY <1>1 DEF o
  <2>2. CASE s = NoName
    <3>1. o + 0 = a /\ R[a].current = s
      BY <1>1, <1>6, <2>1, <2>2
    <3>2. Inside(R[o + 0], st, i, m, 0)
      BY <1>6, <2>2, <3>1 DEF Inside
    <3> QED
      BY <1>1, <3>2
  <2>3. CASE s # NoName
    <3>1. o + 0 = a + 1 /\ a \in 0..n-1 /\ lines[a + 1] = Header(s)
      BY <1>1, <1>2, <2>1, <2>3 DEF o
    <3>2. R[a + 1] = ReadLine(R[a], Header(s))
      BY <1>3, <3>1 DEF Reads
    <3>3. Header(s).tag = "section" /\ Header(s).name = s
      BY DEF Header
    <3> DEFINE u == EnsureSection(R[a].st, s)
    <3>4. R[a + 1] = [st |-> u, current |-> s]
      BY <3>2, <3>3, ReadHeader
    <3>5. AtEntry(u, st, i, 0)
      BY <1>6, SectionBegins
    <3> HIDE DEF u, s
    <3>6. R[a + 1].st = u /\ R[a + 1].current = s
      BY <3>4
    <3>7. Inside(R[o + 0], st, i, m, 0)
      BY <3>1, <3>5, <3>6 DEF Inside, s
    <3> QED
      BY <1>1, <3>7
  <2> QED
    BY <2>2, <2>3
<1>8. ASSUME NEW j \in 0..k-1, j \in S PROVE j + 1 \in S
  <2> DEFINE e == es[j + 1]
             x == o + j
             before == R[x]
             after == R[x + 1]
  <2>1. j \in Nat /\ j + 1 \in 1..k /\ j + 1 \in 0..k /\ x + 1 = o + (j + 1) /\ x \in 0..n-1
    BY <1>1, <1>2 DEF o
  <2>2. Inside(before, st, i, m, j)
    BY <1>8
  <2> HIDE DEF x
  <2>3. after = ReadLine(before, Pair(e.key, Written(e))) /\ Scanner(before)
    <3>1. lines[x + 1] = Pair(e.key, Written(e))
      BY <1>1, <2>1
    <3> QED
      BY <1>3, <2>1, <3>1 DEF Reads
  <2> HIDE DEF before, after
  <2>4. before.current = s /\ (AtEntry(before.st, st, i, j) \/ (j = 0 /\ AtSection(before.st, st, m)))
    BY <2>2 DEF Inside
  <2>5. Storable(e) /\ EntryOk(e) /\ j + 1 \in 1..Len(st.sections[i].body.entries)
    <3>1. j + 1 \in 1..Len(st.sections[i].body.entries)
      BY <2>1 DEF k
    <3>2. EntryOk(e)
      BY <3>1 DEF StoreTyped, BodyTyped, EntryShape
    <3> QED
      BY <1>4, <2>1, <3>1, <3>2
  <2> DEFINE u == before.st
             v == Upsert(u, s, e.key, Value(e))
  <2>6. AtEntry(v, st, i, j + 1)
    <3> HIDE DEF u
    <3>1. AtEntry(u, st, i, j) \/ (j = 0 /\ AtSection(u, st, m))
      BY <2>4 DEF u
    <3> QED
      BY <2>1, <2>5, <3>1, EntryComes
  <2>7. after.current = s /\ after.st = v
    <3> HIDE DEF e, s
    <3>1. after.current = before.current /\ after.st = Upsert(before.st, before.current, e.key, Value(e))
      BY <2>3, <2>5, PairRead
    <3> QED
      BY <2>4, <3>1
  <2> HIDE DEF v, s
  <2>8. Inside(after, st, i, m, j + 1)
    BY <2>6, <2>7 DEF Inside, s
  <2> QED
    BY <2>1, <2>8 DEF after
<1> HIDE DEF S
<1>9. 0..k \subseteq S
  BY <1>1, <1>7, <1>8, CountUp
<1>10. Inside(R[b], st, i, m, k)
  <2>1. k \in S
    BY <1>1, <1>9
  <2> QED
    BY <1>1, <2>1 DEF S
<1>11. AtEntry(R[b].st, st, i, k)
  BY <1>5, <1>10 DEF Inside
<1> QED
  BY <1>11, SectionEnds DEF k

\* What save() writes, load() restores.
LEMMA StoreComesBack ==
  ASSUME NEW st, StoreOk(st), StoreTyped(st), Restorable(st) PROVE Loaded(Saved(st)) = st
<1> DEFINE n == Len(st.sections)
           lines == Saved(st)
           R == Reading(lines)
<1>1. n \in Nat /\ DOMAIN st.sections = 1..n
  BY SectionFinds
<1>2. Sequence(lines)
  BY SavedLines
<1>3. PICK p : SavedAt(st, lines, p)
  BY SavedStands
<1>4. /\ p[0] = 0 /\ Len(lines) = p[n]
      /\ \A i \in 1..n : SectionStands(st.sections[i], p[i - 1], p[i], lines)
  BY <1>3 DEF SavedAt
<1>5. R[0] = [st |-> EmptyStore, current |-> NoName]
  BY <1>2, ReadingSteps
<1>6. \A i \in 1..n : st.sections[i].name = NoName => i = 1
  BY <1>1 DEF Restorable
<1> DEFINE S == {i \in 0..n : AtSection(R[p[i]].st, st, i)}
<1> HIDE DEF R, n, lines
<1>7. 0 \in S
  <2>1. R[p[0]].st = EmptyStore /\ 1..0 = {} /\ Len(<<>>) = 0
    BY <1>4, <1>5
  <2>2. AtSection(R[p[0]].st, st, 0)
    BY <2>1, EmptyIsOk, EmptyTyped DEF AtSection, EmptyStore
  <2> QED
    BY <1>1, <2>2
<1>8. ASSUME NEW m \in 0..n-1, m \in S PROVE m + 1 \in S
  <2> DEFINE i == m + 1
  <2>1. m \in Nat /\ i \in 1..n /\ i \in 0..n /\ i - 1 = m /\ m + 1 = i /\ (i = 1 => m = 0)
    BY <1>1
  <2> HIDE DEF i
  <2>2. SectionStands(st.sections[i], p[m], p[i], lines)
    BY <1>4, <2>1
  <2>3. st.sections[i].name = NoName => R[p[m]].current = NoName
    BY <1>4, <1>5, <1>6, <2>1
  <2>4. AtSection(R[p[m]].st, st, m)
    BY <1>8
  <2> DEFINE a == p[m]
             b == p[i]
  <2>5. SectionStands(st.sections[i], a, b, lines) /\ AtSection(R[a].st, st, m) /\ R = Reading(lines)
        /\ (st.sections[i].name = NoName => R[a].current = NoName)
    BY <2>2, <2>3, <2>4 DEF R
  <2> HIDE DEF a, b
  <2>6. AtSection(R[b].st, st, i)
    BY <1>2, <2>1, <2>5, SectionRead DEF n
  <2> QED
    BY <2>1, <2>6 DEF b, i
<1> HIDE DEF S
<1>9. 0..n \subseteq S
  BY <1>1, <1>7, <1>8, CountUp
<1>10. AtSection(R[p[n]].st, st, n)
  BY <1>1, <1>9 DEF S
<1>11. R[p[n]].st = st
  BY <1>10, SameStore DEF n
<1> QED
  BY <1>4, <1>11 DEF Loaded, R, lines

-----------------------------------------------------------------------------
(***************************************************************************)
(* What the config manager writes: the key, an equals sign between blanks, *)
(* the value.                                                              *)
(***************************************************************************)
Space == " "
Equals == "="
Feed == "\n"
Hash == "#"

LEMMA SpaceIsBlank == Space \in Blank
  BY Zenon DEF Space, Blank

LEMMA SignsDiffer ==
  Space # Equals /\ Equals \notin Blank /\ Feed \in Blank /\ Space # Feed /\ Equals # Feed /\ Equals # Hash
  BY DEF Space, Equals, Feed, Hash, Blank

\* trim() cuts at the outermost characters that are not blank.
LEMMA TrimTo ==
  ASSUME NEW t, Sequence(t), NEW i \in 1..Len(t), NEW j \in 1..Len(t),
         t[i] \notin Blank, t[j] \notin Blank,
         \A x \in 1..Len(t) : t[x] \notin Blank => i =< x /\ x =< j
  PROVE  Trim(t) = SubSeq(t, i, j)
<1> DEFINE solid == {x \in DOMAIN t : t[x] \notin Blank}
           n == Len(t)
           a == Min(solid)
           b == Max(solid)
<1>1. n \in Nat /\ DOMAIN t = 1..n
  BY SequenceIs
<1>2. solid \in SUBSET (1..n) /\ solid \in SUBSET Nat /\ i \in solid /\ j \in solid
  BY <1>1
<1>3. \A x \in solid : i =< x /\ x =< j
  BY <1>1
<1>4. Trim(t) = IF solid = {} THEN <<>> ELSE SubSeq(t, a, b)
  BY DEF Trim
<1> HIDE DEF solid, n
<1>5. a \in solid /\ \A y \in solid : a =< y
  BY <1>2, MinIs
<1>6. b \in solid /\ \A y \in solid : b >= y
  BY <1>1, <1>2, LastIs
<1> HIDE DEF a, b
<1>7. a = i /\ b = j
  <2>1. a =< i /\ i =< a /\ b >= j /\ b =< j /\ a \in Nat /\ b \in Nat /\ i \in Nat /\ j \in Nat
    BY <1>2, <1>3, <1>5, <1>6
  <2> QED
    BY <2>1
<1> QED
  BY <1>2, <1>4, <1>7

\* Nothing is cut off nothing.
LEMMA TrimNothing == Trim(<<>>) = <<>> /\ Sequence(<<>>)
<1>1. {i \in DOMAIN <<>> : <<>>[i] \notin Blank} = {}
  OBVIOUS
<1> QED
  BY <1>1 DEF Trim, Sequence

\* A text that trim() leaves as it is has no blank at its ends.
LEMMA TrimEnds ==
  ASSUME NEW v, Sequence(v), v = Trim(v), v # <<>>
  PROVE  Len(v) \in Nat /\ Len(v) >= 1 /\ v[1] \notin Blank /\ v[Len(v)] \notin Blank
<1> DEFINE solid == {i \in DOMAIN v : v[i] \notin Blank}
           n == Len(v)
           i == Min(solid)
           j == Max(solid)
<1>1. n \in Nat /\ DOMAIN v = 1..n
  BY SequenceIs
<1>2. solid \in SUBSET (1..n) /\ solid \in SUBSET Nat /\ \A x \in solid : v[x] \notin Blank
  BY <1>1
<1>3. v = (IF solid = {} THEN <<>> ELSE SubSeq(v, i, j))
  BY DEF Trim
<1> HIDE DEF solid
<1>4. solid # {} /\ v = SubSeq(v, i, j)
  BY <1>3
<1> HIDE DEF n
<1>5. i \in solid /\ j \in solid
  BY <1>1, <1>2, <1>4, MinIs, LastIs
<1> HIDE DEF i, j
<1>6. i \in Nat /\ j \in Nat /\ i >= 1 /\ j =< n /\ i \in 1..n
  BY <1>1, <1>2, <1>5
<1>7. n = IF i =< j THEN j - i + 1 ELSE 0
  <2>1. Len(SubSeq(v, i, j)) = IF i =< j THEN j - i + 1 ELSE 0
    BY <1>6, PartIs DEF n
  <2> QED
    BY <1>4, <2>1 DEF n
<1>8. i = 1 /\ j = n /\ n >= 1
  BY <1>1, <1>6, <1>7
<1> QED
  BY <1>1, <1>2, <1>5, <1>8 DEF n

\* trim() takes the blank away that save() writes behind the equals sign,
LEMMA BlankGoes ==
  ASSUME NEW v, Sequence(v) PROVE Sequence(<<Space>> \o v) /\ (v = Trim(v) => Trim(<<Space>> \o v) = v)
<1> DEFINE one == <<Space>>
           t == one \o v
           n == Len(v)
           l == Len(t)
           solid == {x \in DOMAIN t : t[x] \notin Blank}
<1>1. Sequence(one) /\ Len(one) = 1 /\ one[1] = Space /\ Space \in Blank
  <2>1. Sequence(one)
    BY DEF Sequence, Range
  <2>2. Len(one) = 1 /\ one[1] = Space
    OBVIOUS
  <2> QED
    BY <2>1, <2>2, SpaceIsBlank
<1>2. /\ Sequence(t) /\ n \in Nat /\ l = 1 + n
      /\ t[1] = Space /\ \A y \in 1..n : t[1 + y] = v[y]
  <2>1. Sequence(one) /\ Sequence(v)
    BY <1>1
  <2> HIDE DEF one
  <2>2. /\ Sequence(t) /\ n \in Nat /\ l = Len(one) + n
        /\ (\A x \in 1..Len(one) : t[x] = one[x]) /\ \A y \in 1..n : t[Len(one) + y] = v[y]
    BY <2>1, Appended
  <2> HIDE DEF t, n, l
  <2>3. 1 \in 1..Len(one)
    BY <1>1
  <2> QED
    BY <1>1, <2>2, <2>3
<1>3. Trim(t) = IF solid = {} THEN <<>> ELSE SubSeq(t, Min(solid), Max(solid))
  BY DEF Trim
<1> HIDE DEF t
<1>4. DOMAIN t = 1..l
  BY <1>2, SequenceIs
<1>5. ASSUME v = Trim(v) PROVE Trim(t) = v
  <2>1. \A x \in solid : x \in 1..l /\ t[x] \notin Blank /\ x # 1
    BY <1>1, <1>2, <1>4
  <2>2. CASE v = <<>>
    <3>1. l = 1
      BY <1>2, <2>2
    <3> HIDE DEF l
    <3>2. solid = {}
      BY <2>1, <3>1
    <3> QED
      BY <1>3, <2>2, <3>2
  <2>3. CASE v # <<>>
    <3>1. n >= 1 /\ v[1] \notin Blank /\ v[n] \notin Blank
      BY <1>5, <2>3, TrimEnds
    <3> HIDE DEF n, l
    <3>2. 2 \in 1..l /\ l \in 1..l /\ l \in Nat /\ t[2] = v[1] /\ t[l] = v[n] /\ 1 + 1 = 2
      BY <1>2, <3>1
    <3>3. 2 \in solid /\ l \in solid
      BY <1>4, <3>1, <3>2
    <3> HIDE DEF solid
    <3>4. solid \in SUBSET Nat /\ solid \in SUBSET (1..l)
      BY <2>1
    <3>5. Min(solid) = 2 /\ Max(solid) = l
      <4> DEFINE a == Min(solid)
                 b == Max(solid)
      <4>1. a \in solid /\ \A y \in solid : a =< y
        BY <3>3, <3>4, MinIs
      <4>2. b \in solid /\ \A y \in solid : b >= y
        BY <3>2, <3>3, <3>4, LastIs
      <4> HIDE DEF a, b
      <4>3. a \in 1..l /\ a # 1 /\ a =< 2 /\ b \in 1..l /\ b >= l
        BY <2>1, <3>3, <4>1, <4>2
      <4>4. a = 2 /\ b = l
        BY <3>2, <4>3
      <4> QED
        BY <4>4 DEF a, b
    <3> DEFINE p == SubSeq(t, 2, l)
    <3>6. Trim(t) = p
      BY <1>3, <3>3, <3>5
    <3>7. Sequence(p) /\ Len(p) = n /\ \A x \in 1..n : p[x] = t[1 + x]
      <4>1. 2 \in Nat /\ 2 >= 1 /\ l \in Nat /\ l =< Len(t)
        BY <3>2 DEF l
      <4>2. Sequence(p) /\ Len(p) = (IF 2 =< l THEN l - 2 + 1 ELSE 0) /\ \A x \in 1..l-2+1 : p[x] = t[2 + x - 1]
        BY <1>2, <4>1, PartIs
      <4> HIDE DEF p
      <4>3. l - 2 + 1 = n /\ 2 =< l /\ \A x \in 1..n : 2 + x - 1 = 1 + x
        BY <1>2, <3>1
      <4> QED
        BY <4>2, <4>3
    <3> HIDE DEF p
    <3>8. p = v
      BY <1>2, <3>7, SameText DEF n
    <3> QED
      BY <3>6, <3>8
  <2> QED
    BY <2>2, <2>3
<1> QED
  BY <1>2, <1>5 DEF t

\* and the one before it.
LEMMA BlankGoesBehind ==
  ASSUME NEW k, Sequence(k), k = Trim(k), k # <<>>
  PROVE  Trim(k \o <<Space>>) = k
<1> DEFINE one == <<Space>>
           t == k \o one
           n == Len(k)
           p == SubSeq(t, 1, n)
<1>1. n \in Nat /\ n >= 1 /\ k[1] \notin Blank /\ k[n] \notin Blank
  BY TrimEnds
<1>2. Sequence(one) /\ Len(one) = 1 /\ one[1] = Space /\ Space \in Blank
  BY SpaceIsBlank DEF Sequence, Range
<1> HIDE DEF one
<1>3. /\ Sequence(t) /\ Len(t) = n + Len(one)
      /\ (\A x \in 1..n : t[x] = k[x]) /\ \A y \in 1..Len(one) : t[n + y] = one[y]
  <2>1. Sequence(one)
    BY <1>2
  <2> QED
    BY <2>1, Appended
<1> HIDE DEF t, n
<1>4. Len(t) = n + 1 /\ t[n + 1] = Space /\ 1 \in 1..n /\ n \in 1..n
  <2>1. 1 \in 1..Len(one)
    BY <1>2
  <2> QED
    BY <1>1, <1>2, <1>3, <2>1
<1>5. t[1] \notin Blank /\ t[n] \notin Blank /\ 1 \in 1..Len(t) /\ n \in 1..Len(t)
  BY <1>1, <1>3, <1>4
<1>6. ASSUME NEW x \in 1..Len(t), t[x] \notin Blank PROVE 1 =< x /\ x =< n
  <2>1. x # n + 1
    BY <1>2, <1>4, <1>6
  <2> QED
    BY <1>1, <1>4, <2>1
<1>7. Trim(t) = SubSeq(t, 1, n)
  BY <1>3, <1>5, <1>6, TrimTo
<1>8. Sequence(p) /\ Len(p) = (IF 1 =< n THEN n - 1 + 1 ELSE 0) /\ \A x \in 1..n-1+1 : p[x] = t[1 + x - 1]
  <2>1. n \in Nat /\ n =< Len(t)
    BY <1>1, <1>4
  <2> QED
    BY <1>3, <2>1, PartIs
<1>9. Len(p) = n /\ \A x \in 1..n : p[x] = k[x]
  <2> HIDE DEF p
  <2>1. n - 1 + 1 = n /\ \A x \in 1..n : 1 + x - 1 = x
    BY <1>1
  <2> QED
    BY <1>1, <1>3, <1>8, <2>1
<1>10. p = k
  <2> HIDE DEF p
  <2> QED
    BY <1>8, <1>9, SameText DEF n
<1> QED
  BY <1>7, <1>10 DEF t, n, one

\* What load() reads as a value is a text.
LEMMA EscapeIs ==
  ASSUME NEW v, Sequence(v) PROVE Sequence(ProcessEscape(v))
<1>1. CASE Quoted(v, Quote)
  <2> DEFINE k == Len(v) - 2
             inner == Inner(v)
             literal == DecodeLiteral(inner)
             meant == [c \in {Back} |-> <<c>>]
  <2>1. k \in Nat /\ Len(v) = k + 2
    BY <1>1, SequenceIs DEF Quoted
  <2> HIDE DEF k
  <2>2. Sequence(inner)
    BY <2>1, InnerIs
  <2> HIDE DEF inner
  <2>3. Sequence(literal)
    BY <2>2, LiteralIs
  <2>4. Meanings(meant)
    BY DEF Meanings, Sequence, Range
  <2>5. ProcessEscape(v) = Decoded(literal, meant)
    BY <1>1 DEF ProcessEscape, inner
  <2> HIDE DEF literal, meant
  <2> QED
    BY <2>3, <2>4, <2>5, DecodedIs
<1>2. CASE ~Quoted(v, Quote)
  BY <1>2 DEF ProcessEscape
<1> QED
  BY <1>1, <1>2

\* A line of a file, and a line of the manager: one with a key, or one that was
\* read and kept as it is.
FileLine(t) == Sequence(t) /\ "\n" \notin Range(t)
FileLines(texts) == Sequence(texts) /\ \A i \in 1..Len(texts) : FileLine(texts[i])

SettingLine(l) ==
  IF l.is_data THEN l = Data(l.key, l.value) /\ Sequence(l.key) /\ Sequence(l.value)
  ELSE FileLine(l.raw_text) /\ ParseLine(l.raw_text) = l
SettingLines(lines) == Sequence(lines) /\ \A i \in 1..Len(lines) : SettingLine(lines[i])

\* load() makes such a line of each line of a file.
LEMMA ParsedLine ==
  ASSUME NEW text, FileLine(text) PROVE SettingLine(ParseLine(text))
<1> DEFINE t == Trim(text)
           n == Len(t)
           seps == {i \in DOMAIN t : t[i] = "="}
           m == Min(seps)
           a == SubSeq(t, 1, m - 1)
           b == SubSeq(t, m + 1, n)
           k == Trim(a)
           v == ProcessEscape(Trim(b))
<1>1. ParseLine(text) = IF seps = {} \/ t[1] = "#" THEN Other(text) ELSE Data(k, v)
  BY DEF ParseLine
<1>2. Sequence(t)
  BY TrimIs DEF FileLine
<1> HIDE DEF t
<1>3. n \in Nat /\ DOMAIN t = 1..n
  BY <1>2, SequenceIs
<1>4. CASE seps = {} \/ t[1] = "#"
  <2>1. ParseLine(text) = Other(text)
    BY <1>1, <1>4
  <2>2. Other(text).is_data = FALSE /\ Other(text).raw_text = text
    BY DEF Other
  <2> QED
    BY <2>1, <2>2 DEF SettingLine
<1>5. CASE ~ (seps = {} \/ t[1] = "#")
  <2>1. seps \in SUBSET (1..n) /\ seps \in SUBSET Nat /\ seps # {}
    BY <1>3, <1>5
  <2> HIDE DEF n, seps
  <2>2. m \in 1..n
    BY <2>1, MinIs
  <2> HIDE DEF m
  <2>3. Sequence(a) /\ Sequence(b)
    <3>1. m - 1 \in Nat /\ m - 1 =< Len(t) /\ m + 1 \in Nat /\ m + 1 >= 1 /\ n =< Len(t)
      BY <1>3, <2>2 DEF n
    <3> QED
      BY <1>2, <1>3, <3>1, PartIs
  <2> HIDE DEF a, b
  <2>4. Sequence(k) /\ Sequence(Trim(b))
    BY <2>3, TrimIs
  <2>5. Sequence(v)
    BY <2>4, EscapeIs
  <2> HIDE DEF k, v
  <2>6. Data(k, v).is_data = TRUE /\ Data(k, v).key = k /\ Data(k, v).value = v
    BY DEF Data
  <2> QED
    BY <1>1, <1>5, <2>4, <2>5, <2>6 DEF SettingLine
<1> QED
  BY <1>4, <1>5

LEMMA ParsedLines ==
  ASSUME NEW texts, FileLines(texts)
  PROVE  /\ SettingLines(Parsed(texts)) /\ DOMAIN Parsed(texts) = DOMAIN texts
         /\ \A i \in DOMAIN texts : Parsed(texts)[i] = ParseLine(texts[i])
<1> DEFINE n == Len(texts)
           new == Parsed(texts)
<1>1. n \in Nat /\ DOMAIN texts = 1..n /\ \A i \in 1..n : FileLine(texts[i])
  BY SequenceIs DEF FileLines
<1>2. DOMAIN new = 1..n /\ new = [i \in 1..n |-> new[i]] /\ \A i \in 1..n : new[i] = ParseLine(texts[i])
  BY <1>1 DEF Parsed
<1> HIDE DEF new, n
<1>3. Sequence(new) /\ Len(new) = n
  BY <1>1, <1>2, SequenceFrom
<1>4. \A i \in 1..n : SettingLine(new[i])
  BY <1>1, <1>2, ParsedLine
<1> QED
  BY <1>1, <1>2, <1>3, <1>4 DEF SettingLines, new

\* The text of a line, character by character.
Spelled(w, k, v) ==
  /\ Sequence(w) /\ Len(k) \in Nat /\ Len(v) \in Nat /\ Len(w) = Len(k) + 3 + Len(v)
  /\ \A x \in 1..Len(k) : w[x] = k[x]
  /\ w[Len(k) + 1] = Space /\ w[Len(k) + 2] = Equals /\ w[Len(k) + 3] = Space
  /\ \A y \in 1..Len(v) : w[Len(k) + 3 + y] = v[y]

LEMMA TextIs ==
  ASSUME NEW k, Sequence(k), NEW v, Sequence(v)
  PROVE  Spelled(TextOf(Data(k, v)), k, v)
<1> DEFINE w == TextOf(Data(k, v))
           mid == <<Space, Equals, Space>>
           a == k \o mid
           n == Len(k)
<1>1. Sequence(mid) /\ Len(mid) = 3 /\ mid[1] = Space /\ mid[2] = Equals /\ mid[3] = Space
  BY DEF Sequence, Range
<1>2. w = a \o v
  BY DEF TextOf, Data, Space, Equals
<1> HIDE DEF w, mid
<1>3. /\ Sequence(a) /\ n \in Nat /\ Len(a) = n + Len(mid)
      /\ (\A x \in 1..n : a[x] = k[x]) /\ \A y \in 1..Len(mid) : a[n + y] = mid[y]
  <2>1. Sequence(mid)
    BY <1>1
  <2> QED
    BY <2>1, Appended
<1> HIDE DEF a
<1>4. /\ Sequence(w) /\ Len(v) \in Nat /\ Len(w) = Len(a) + Len(v)
      /\ (\A x \in 1..Len(a) : w[x] = a[x]) /\ \A y \in 1..Len(v) : w[Len(a) + y] = v[y]
  <2>1. Sequence(a)
    BY <1>3
  <2>2. /\ Sequence(a \o v) /\ Len(v) \in Nat /\ Len(a \o v) = Len(a) + Len(v)
        /\ \A x \in 1..Len(a) : (a \o v)[x] = a[x]
        /\ \A y \in 1..Len(v) : (a \o v)[Len(a) + y] = v[y]
    BY <2>1, Appended
  <2> QED
    BY <1>2, <2>2
<1> HIDE DEF n
<1>5. Len(a) = n + 3 /\ a[n + 1] = Space /\ a[n + 2] = Equals /\ a[n + 3] = Space
  <2>1. 1 \in 1..Len(mid) /\ 2 \in 1..Len(mid) /\ 3 \in 1..Len(mid)
    BY <1>1
  <2> QED
    BY <1>1, <1>3, <2>1
<1>6. /\ \A x \in 1..n : x \in 1..Len(a)
      /\ n + 1 \in 1..Len(a) /\ n + 2 \in 1..Len(a) /\ n + 3 \in 1..Len(a)
  BY <1>3, <1>5
<1>7. Spelled(w, k, v)
  BY <1>3, <1>4, <1>5, <1>6 DEF n, Spelled
<1> QED
  BY <1>7 DEF w

\* load() finds key and value in it.
LEMMA LineComesBack ==
  ASSUME NEW k, Sequence(k), NEW v, Sequence(v), Plain(Data(k, v))
  PROVE  ParseLine(TextOf(Data(k, v))) = Data(k, v)
<1> DEFINE w == TextOf(Data(k, v))
           n == Len(k)
           l == Len(v)
           lo == IF k = <<>> THEN 2 ELSE 1
           hi == IF v = <<>> THEN n + 2 ELSE n + 3 + l
           t == Trim(w)
           e == n + 3 - lo
           seps == {i \in DOMAIN t : t[i] = "="}
           a == SubSeq(t, 1, e - 1)
           b == SubSeq(t, e + 1, Len(t))
<1>0. /\ k = Trim(k) /\ v = Trim(v) /\ ~Quoted(v, Quote)
      /\ "=" \notin Range(k) /\ (k # <<>> => k[1] # Hash)
  BY DEF Plain, Data, Hash
<1>1. /\ Sequence(w) /\ n \in Nat /\ l \in Nat /\ Len(w) = n + 3 + l
      /\ (\A x \in 1..n : w[x] = k[x])
      /\ w[n + 1] = Space /\ w[n + 2] = Equals /\ w[n + 3] = Space
      /\ \A y \in 1..l : w[n + 3 + y] = v[y]
  <2>1. Spelled(w, k, v)
    BY TextIs
  <2> HIDE DEF w
  <2> QED
    BY <2>1 DEF Spelled
<1>2. /\ k = <<>> => n = 0
      /\ k # <<>> => n >= 1 /\ k[1] \notin Blank
      /\ v = <<>> => l = 0
      /\ v # <<>> => l >= 1 /\ v[l] \notin Blank
  BY <1>0, TrimEnds
<1>3. \A x \in 1..n : w[x] # Equals
  <2>1. DOMAIN k = 1..n
    BY SequenceIs
  <2> QED
    BY <1>0, <1>1, <2>1 DEF Equals, Range
<1> HIDE DEF w
<1>4. lo \in 1..Len(w) /\ hi \in 1..Len(w) /\ lo =< n + 2 /\ n + 2 =< hi
  BY <1>1, <1>2
<1>5. w[lo] \notin Blank /\ w[hi] \notin Blank /\ w[lo] # Hash
  <2>1. k # <<>> => w[lo] = k[1]
    BY <1>1, <1>2
  <2>2. k = <<>> => w[lo] = Equals
    BY <1>1, <1>2
  <2>3. v # <<>> => w[hi] = v[l]
    <3>1. v # <<>> => l \in 1..l
      BY <1>1, <1>2
    <3> QED
      BY <1>1, <3>1
  <2>4. v = <<>> => w[hi] = Equals
    BY <1>1
  <2> HIDE DEF lo, hi
  <2> QED
    BY <1>0, <1>2, <2>1, <2>2, <2>3, <2>4, SignsDiffer
<1>6. ASSUME NEW x \in 1..Len(w), w[x] \notin Blank PROVE lo =< x /\ x =< hi
  <2>1. x # n + 1 /\ x # n + 3
    BY <1>1, <1>6, SpaceIsBlank
  <2> QED
    BY <1>1, <1>2, <2>1
<1> HIDE DEF n, l, lo, hi
<1>7. t = SubSeq(w, lo, hi)
  BY <1>1, <1>4, <1>5, <1>6, TrimTo
<1>8. Sequence(t) /\ Len(t) = hi - lo + 1 /\ \A x \in 1..Len(t) : t[x] = w[lo + x - 1]
  <2> DEFINE p == SubSeq(w, lo, hi)
  <2>1. lo \in Nat /\ lo >= 1 /\ hi \in Nat /\ hi =< Len(w) /\ lo =< hi
    BY <1>1, <1>4
  <2>2. Sequence(p) /\ Len(p) = (IF lo =< hi THEN hi - lo + 1 ELSE 0) /\ \A x \in 1..hi-lo+1 : p[x] = w[lo + x - 1]
    BY <1>1, <2>1, PartIs
  <2> HIDE DEF p
  <2>3. Len(p) = hi - lo + 1
    BY <2>1, <2>2
  <2> QED
    BY <1>7, <2>2, <2>3 DEF p
<1> HIDE DEF t
<1>9. DOMAIN t = 1..Len(t) /\ Len(t) \in Nat
  BY <1>8, SequenceIs
<1>10. e \in 1..Len(t) /\ t[e] = Equals /\ \A x \in 1..e-1 : t[x] # Equals
  <2>1. e \in 1..Len(t) /\ lo + e - 1 = n + 2
    BY <1>1, <1>4, <1>8
  <2>2. t[e] = Equals
    BY <1>1, <1>8, <2>1
  <2>3. ASSUME NEW x \in 1..e-1 PROVE t[x] # Equals
    <3>1. x \in 1..Len(t) /\ lo + x - 1 \in 1..n+1
      BY <1>1, <1>4, <1>8, <2>1
    <3>2. lo + x - 1 \in 1..n \/ lo + x - 1 = n + 1
      BY <1>1, <3>1
    <3>3. w[lo + x - 1] # Equals
      BY <1>1, <1>3, <3>2, SignsDiffer
    <3> QED
      BY <1>8, <3>1, <3>3
  <2> QED
    BY <2>1, <2>2, <2>3
<1>11. seps # {} /\ Min(seps) = e
  <2>1. e \in seps /\ seps \in SUBSET (1..Len(t)) /\ seps \in SUBSET Nat
    BY <1>9, <1>10 DEF Equals
  <2>2. \A x \in seps : ~ (x \in 1..e-1)
    BY <1>10 DEF Equals
  <2> DEFINE m == Min(seps)
  <2> HIDE DEF seps
  <2>3. m \in seps /\ m =< e
    BY <2>1, MinIs
  <2> HIDE DEF m, e
  <2>4. m = e
    BY <1>9, <1>10, <2>1, <2>2, <2>3
  <2> QED
    BY <2>1, <2>4 DEF m
<1>12. t[1] # Hash
  <2>1. 1 \in 1..Len(t) /\ lo + 1 - 1 = lo
    BY <1>4, <1>8, <1>9, <1>10
  <2> QED
    BY <1>5, <1>8, <2>1
<1>13. Trim(a) = k
  <2>1. /\ Sequence(a) /\ Len(a) = (IF 1 =< e - 1 THEN e - 1 - 1 + 1 ELSE 0)
        /\ \A x \in 1..e-1-1+1 : a[x] = t[1 + x - 1]
    <3>1. e - 1 \in Nat /\ e - 1 =< Len(t)
      BY <1>9, <1>10
    <3> HIDE DEF e
    <3> QED
      BY <1>8, <3>1, PartIs
  <2>2. Len(a) = e - 1 /\ \A x \in 1..e-1 : a[x] = w[lo + x - 1]
    <3> HIDE DEF a
    <3>1. e \in Nat /\ e >= 1 /\ e - 1 - 1 + 1 = e - 1 /\ \A x \in 1..e-1 : x \in 1..Len(t) /\ 1 + x - 1 = x
      BY <1>9, <1>10
    <3> HIDE DEF e
    <3> QED
      BY <1>8, <2>1, <3>1
  <2> HIDE DEF a
  <2>3. CASE k = <<>>
    <3>1. Len(a) = 0
      BY <1>2, <2>2, <2>3 DEF lo, n
    <3>2. a = <<>>
      BY <2>1, <3>1, SequenceIs DEF Sequence
    <3> QED
      BY <2>3, <3>2, TrimNothing
  <2>4. CASE k # <<>>
    <3> DEFINE s == <<Space>>
               c == k \o s
    <3>1. Sequence(s) /\ Len(s) = 1 /\ s[1] = Space
      BY DEF Sequence, Range
    <3> HIDE DEF s
    <3>2. /\ Sequence(c) /\ Len(c) = n + Len(s)
          /\ (\A x \in 1..n : c[x] = k[x]) /\ \A y \in 1..Len(s) : c[n + y] = s[y]
      <4>1. Sequence(s)
        BY <3>1
      <4> QED
        BY <4>1, Appended DEF n
    <3> HIDE DEF c
    <3>3. Len(c) = n + 1 /\ c[n + 1] = Space
      <4>1. 1 \in 1..Len(s)
        BY <3>1
      <4> QED
        BY <3>1, <3>2, <4>1
    <3>4. lo = 1 /\ e = n + 2
      BY <1>1, <2>4 DEF lo
    <3>5. Len(a) = n + 1
      BY <1>1, <2>2, <3>4
    <3>6. ASSUME NEW x \in 1..n+1 PROVE a[x] = c[x]
      <4>1. x \in 1..e-1 /\ lo + x - 1 = x /\ (x \in 1..n \/ x = n + 1)
        BY <1>1, <3>4
      <4> QED
        BY <1>1, <2>2, <3>2, <3>3, <4>1
    <3>7. a = c
      BY <2>1, <3>2, <3>3, <3>5, <3>6, SameText
    <3> QED
      BY <1>0, <2>4, <3>7, BlankGoesBehind DEF c, s
  <2> QED
    BY <2>3, <2>4
<1>14. Trim(b) = v
  <2>1. Len(t) - (e + 1) + 1 = Len(t) - e /\ Len(t) - e = hi - n - 2 /\ e \in Nat /\ e + 1 \in Nat
    BY <1>1, <1>4, <1>8, <1>9, <1>10
  <2>2. /\ Sequence(b) /\ Len(b) = (IF e + 1 =< Len(t) THEN Len(t) - (e + 1) + 1 ELSE 0)
        /\ \A x \in 1..Len(t)-(e+1)+1 : b[x] = t[e + 1 + x - 1]
    <3> DEFINE o == e + 1
               u == Len(t)
    <3> HIDE DEF e
    <3>1. o \in Nat /\ o >= 1 /\ u \in Nat /\ u =< Len(t)
      BY <1>9, <2>1
    <3> HIDE DEF o, u
    <3>2. /\ Sequence(SubSeq(t, o, u)) /\ Len(SubSeq(t, o, u)) = (IF o =< u THEN u - o + 1 ELSE 0)
          /\ \A x \in 1..u-o+1 : SubSeq(t, o, u)[x] = t[o + x - 1]
      BY <1>8, <3>1, PartIs
    <3> QED
      BY <3>2 DEF o, u
  <2>3. Len(b) = hi - n - 2 /\ \A x \in 1..hi-n-2 : b[x] = w[n + 2 + x]
    <3> HIDE DEF b
    <3>1. Len(b) = hi - n - 2
      BY <1>1, <1>4, <1>9, <1>10, <2>1, <2>2
    <3>2. ASSUME NEW x \in 1..hi-n-2 PROVE b[x] = w[n + 2 + x]
      <4>1. x \in 1..Len(t)-(e+1)+1 /\ e + 1 + x - 1 \in 1..Len(t) /\ lo + (e + 1 + x - 1) - 1 = n + 2 + x
        BY <1>1, <1>4, <1>9, <1>10, <2>1
      <4>2. b[x] = t[e + 1 + x - 1]
        BY <2>2, <4>1
      <4> HIDE DEF e
      <4> QED
        BY <1>8, <4>1, <4>2
    <3> QED
      BY <3>1, <3>2
  <2> HIDE DEF b
  <2>4. CASE v = <<>>
    <3>1. Len(b) = 0
      BY <1>1, <2>3, <2>4 DEF hi
    <3>2. b = <<>>
      BY <2>2, <3>1 DEF Sequence
    <3> QED
      BY <2>4, <3>2, TrimNothing
  <2>5. CASE v # <<>>
    <3> DEFINE s == <<Space>>
               c == s \o v
    <3>1. Sequence(s) /\ Len(s) = 1 /\ s[1] = Space
      BY DEF Sequence, Range
    <3> HIDE DEF s
    <3>2. /\ Sequence(c) /\ Len(c) = Len(s) + l
          /\ (\A x \in 1..Len(s) : c[x] = s[x]) /\ \A y \in 1..l : c[Len(s) + y] = v[y]
      <4>1. Sequence(s)
        BY <3>1
      <4> QED
        BY <4>1, Appended DEF l
    <3> HIDE DEF c
    <3>3. Len(c) = l + 1 /\ c[1] = Space /\ \A y \in 1..l : c[1 + y] = v[y]
      <4>1. 1 \in 1..Len(s)
        BY <3>1
      <4> QED
        BY <1>1, <3>1, <3>2, <4>1
    <3>4. hi - n - 2 = l + 1
      BY <1>1, <2>5 DEF hi
    <3>5. ASSUME NEW x \in 1..l+1 PROVE b[x] = c[x]
      <4>1. b[x] = w[n + 2 + x]
        BY <2>3, <3>4
      <4>2. CASE x = 1
        <5>1. n + 2 + x = n + 3
          BY <1>1, <4>2
        <5> QED
          BY <1>1, <3>3, <4>1, <4>2, <5>1
      <4>3. CASE x # 1
        <5>1. x - 1 \in 1..l /\ n + 3 + (x - 1) = n + 2 + x /\ 1 + (x - 1) = x
          BY <1>1, <4>3
        <5>2. w[n + 3 + (x - 1)] = v[x - 1] /\ c[1 + (x - 1)] = v[x - 1]
          BY <1>1, <3>3, <5>1
        <5> QED
          BY <4>1, <5>1, <5>2
      <4> QED
        BY <4>2, <4>3
    <3>6. b = c
      BY <2>2, <2>3, <3>2, <3>3, <3>4, <3>5, SameText
    <3> QED
      BY <1>0, <3>6, BlankGoes DEF c, s
  <2> QED
    BY <2>4, <2>5
<1>15. ParseLine(w) =
         IF seps = {} \/ t[1] = "#" THEN Other(w)
         ELSE Data(Trim(SubSeq(t, 1, Min(seps) - 1)), ProcessEscape(Trim(SubSeq(t, Min(seps) + 1, Len(t)))))
  BY DEF ParseLine, t
<1> HIDE DEF seps, e
<1>16. ParseLine(w) = Data(Trim(a), ProcessEscape(Trim(b)))
  BY <1>11, <1>12, <1>15 DEF Hash
<1>17. ProcessEscape(v) = v
  BY <1>0 DEF ProcessEscape
<1> QED
  BY <1>13, <1>14, <1>16, <1>17 DEF w

\* The lines read so far of a text: f[i] after i characters.
Lining(s, f) ==
  /\ \A i \in 0..Len(s) : f[i] \in Seq(Seq(Range(s) \ {"\n"})) /\ Len(f[i]) >= 1
  /\ f[0] = <<<<>>>> /\ \A i \in 1..Len(s) : f[i] = AddCharacter(f[i - 1], s[i])

LEMMA LinesAreRead ==
  ASSUME NEW s, Sequence(s)
  PROVE  \E f : Lining(s, f) /\ LinesOf(s) = f[Len(s)]
<1> DEFINE n == Len(s)
           C == Range(s) \ {"\n"}
           Q == {x \in Seq(Seq(C)) : Len(x) >= 1}
           base == <<<<>>>>
           Next1(x, i) == AddCharacter(x, s[i])
           step == [x \in Q \X (1..n) |-> Next1(x[1], x[2])]
           Is(f) == f = [i \in 0..n |-> IF i = 0 THEN base ELSE Next1(f[i - 1], i)]
           read == CHOOSE f : Is(f)
<1>1. n \in Nat /\ \A i \in 1..n : s[i] \in Range(s)
  BY SequenceIs DEF Range
<1>2. base \in Q
  OBVIOUS
<1>3. ASSUME NEW x \in Q, NEW i \in 1..n PROVE Next1(x, i) \in Q
  <2> DEFINE c == s[i]
             L == Seq(C)
  <2>1. x \in Seq(L) /\ Len(x) >= 1 /\ Len(x) \in Nat
    OBVIOUS
  <2>2. CASE c = "\n"
    <3>1. Next1(x, i) = Append(x, <<>>) /\ <<>> \in L
      BY <2>2 DEF AddCharacter
    <3> HIDE DEF L
    <3>2. Append(x, <<>>) \in Seq(L) /\ Len(Append(x, <<>>)) = Len(x) + 1
      BY <2>1, <3>1
    <3>3. Next1(x, i) \in Seq(L) /\ Len(Next1(x, i)) >= 1
      BY <2>1, <3>1, <3>2
    <3> HIDE DEF Next1
    <3> QED
      BY <3>3 DEF L
  <2>3. CASE c # "\n"
    <3> DEFINE m == Len(x)
               d == Append(x[m], c)
               y == [x EXCEPT ![m] = d]
    <3>1. Next1(x, i) = y
      BY <2>3 DEF AddCharacter
    <3>2. c \in C
      BY <1>1, <2>3
    <3>3. x[m] \in L
      BY <2>1
    <3> HIDE DEF c
    <3>4. d \in L
      BY <3>2, <3>3
    <3> HIDE DEF L, d, Next1
    <3>5. y \in Seq(L) /\ Len(y) = m
      BY <2>1, <3>4
    <3> HIDE DEF y
    <3>6. Next1(x, i) \in Seq(L) /\ Len(Next1(x, i)) >= 1
      BY <2>1, <3>1, <3>5
    <3> QED
      BY <3>6 DEF L
  <2> QED
    BY <2>2, <2>3
<1>10. LinesOf(s) = read[n]
  BY DEF LinesOf
<1> HIDE DEF Next1
<1>4. StepOn(Q, n, step)
  <2> HIDE DEF n, Q
  <2> QED
    BY <1>3 DEF StepOn
<1>5. ASSUME NEW x \in Q, NEW i \in 1..n PROVE step[<<x, i>>] = Next1(x, i)
  <2> HIDE DEF n, Q
  <2> QED
    OBVIOUS
<1> HIDE DEF step, Q, base
<1>6. PICK g : Stepwise(Q, n, base, step, g)
  BY <1>1, <1>2, <1>4, StepsExist
<1>7. ASSUME NEW f, Stepwise(Q, n, base, step, f)
      PROVE  f \in [0..n -> Q] /\ f[0] = base /\ \A i \in 1..n : f[i] = Next1(f[i - 1], i)
  <2>1. f \in [0..n -> Q] /\ f[0] = base /\ \A i \in 1..n : f[i] = step[<<f[i - 1], i>>]
    BY <1>7 DEF Stepwise
  <2>2. ASSUME NEW i \in 1..n PROVE f[i] = Next1(f[i - 1], i)
    <3>1. i - 1 \in 0..n /\ f[i - 1] \in Q
      BY <1>1, <2>1
    <3> QED
      BY <1>5, <2>1, <3>1
  <2> QED
    BY <2>1, <2>2
<1>8. Is(g)
  <2>1. g = [i \in 0..n |-> g[i]]
    BY <1>6, <1>7
  <2>2. ASSUME NEW i \in 0..n PROVE g[i] = IF i = 0 THEN base ELSE Next1(g[i - 1], i)
    BY <1>1, <1>6, <1>7
  <2> QED
    BY <2>1, <2>2, Zenon
<1>9. Is(read)
  <2> HIDE DEF Is
  <2> QED
    BY <1>8
<1>11. Stepwise(Q, n, base, step, read)
  <2>1. ASSUME NEW f, Is(f) PROVE Stepwise(Q, n, base, step, f)
    <3>0. DOMAIN f = 0..n /\ \A i \in 0..n : f[i] = IF i = 0 THEN base ELSE Next1(f[i - 1], i)
      BY <2>1, Zenon
    <3>1. f = [i \in 0..n |-> f[i]] /\ f[0] = base /\ \A i \in 1..n : f[i] = Next1(f[i - 1], i)
      <4> HIDE DEF n
      <4>1. f = [i \in 0..n |-> f[i]]
        BY <2>1
      <4>2. 0 \in 0..n /\ \A i \in 1..n : i \in 0..n /\ i # 0
        BY <1>1
      <4> HIDE DEF Is
      <4> QED
        BY <3>0, <4>1, <4>2
    <3>2. \A i \in 1..n : f[i - 1] \in Q => f[i] = step[<<f[i - 1], i>>]
      BY <1>5, <3>1
    <3> HIDE DEF Is, n
    <3> QED
      BY <1>1, <1>2, <1>4, <3>1, <3>2, StepsFollow
  <2> HIDE DEF Is, read
  <2> QED
    BY <1>9, <2>1
<1> HIDE DEF read
<1>12. Lining(s, read)
  <2>1. read \in [0..n -> Q] /\ read[0] = base /\ \A i \in 1..n : read[i] = Next1(read[i - 1], i)
    BY <1>7, <1>11
  <2> HIDE DEF n
  <2>2. \A i \in 0..n : read[i] \in Q
    BY <2>1
  <2> QED
    BY <2>1, <2>2 DEF Lining, Q, Next1, base, n
<1> QED
  BY <1>10, <1>12

\* A text is read as lines of a file, and as one if it has no line feed.
LEMMA LinesAre ==
  ASSUME NEW s, Sequence(s)
  PROVE  FileLines(LinesOf(s)) /\ (FileLine(s) => LinesOf(s) = <<s>>)
<1> DEFINE n == Len(s)
<1>1. n \in Nat /\ DOMAIN s = 1..n
  BY SequenceIs
<1>2. PICK f : Lining(s, f) /\ LinesOf(s) = f[n]
  BY LinesAreRead
<1>3. ASSUME NEW ls \in Seq(Seq(Range(s) \ {"\n"})) PROVE FileLines(ls)
  <2> DEFINE C == Range(s) \ {"\n"}
             L == Seq(C)
  <2>1. ASSUME NEW t \in L PROVE FileLine(t)
    <3>1. Sequence(t)
      BY SeqOfRange DEF Sequence
    <3>2. "\n" \notin C /\ \A x \in 1..Len(t) : t[x] \in C
      OBVIOUS
    <3>3. "\n" \notin Range(t)
      <4> HIDE DEF C, L
      <4>1. DOMAIN t = 1..Len(t)
        BY <3>1, SequenceIs
      <4> QED
        BY <3>2, <4>1 DEF Range
    <3> QED
      BY <3>1, <3>3 DEF FileLine
  <2> HIDE DEF L
  <2>2. ls \in Seq(L)
    BY DEF L
  <2>3. Sequence(ls)
    BY <2>2, SeqOfRange DEF Sequence
  <2>4. \A i \in 1..Len(ls) : ls[i] \in L
    BY <2>2
  <2> QED
    BY <2>1, <2>3, <2>4 DEF FileLines
<1>4. FileLines(LinesOf(s))
  <2>1. n \in 0..n
    BY <1>1
  <2>2. f[n] \in Seq(Seq(Range(s) \ {"\n"}))
    BY <1>2, <2>1 DEF Lining
  <2> QED
    BY <1>2, <1>3, <2>2
<1>5. ASSUME FileLine(s) PROVE LinesOf(s) = <<s>>
  <2> DEFINE Whole(i) == Len(f[i]) = 1 /\ Len(f[i][1]) = i /\ \A x \in 1..i : f[i][1][x] = s[x]
             S == {i \in 0..n : Whole(i)}
  <2>1. 0 \in S
    <3>1. f[0] = <<<<>>>> /\ 0 \in 0..n /\ 1..0 = {}
      BY <1>1, <1>2 DEF Lining
    <3>2. Len(f[0]) = 1 /\ f[0][1] = <<>> /\ Len(<<>>) = 0
      BY <3>1
    <3>3. Whole(0)
      BY <3>1, <3>2
    <3> QED
      BY <3>1, <3>3
  <2>2. ASSUME NEW m \in 0..n-1, m \in S PROVE m + 1 \in S
    <3> DEFINE c == s[m + 1]
               g == f[m]
               h == f[m + 1]
               L == Seq(Range(s) \ {"\n"})
    <3>1. m \in 0..n /\ m + 1 \in 1..n /\ m + 1 \in 0..n /\ (m + 1) - 1 = m
      BY <1>1
    <3>2. c # "\n"
      BY <1>1, <1>5, <3>1 DEF FileLine, Range
    <3>3. g \in Seq(L) /\ Len(g) = 1 /\ Len(g[1]) = m /\ \A x \in 1..m : g[1][x] = s[x]
      BY <1>2, <2>2, <3>1 DEF Lining
    <3>4. h = AddCharacter(g, c)
      BY <1>2, <3>1 DEF Lining
    <3>5. g[1] \in L
      <4> HIDE DEF g, L
      <4> QED
        BY <3>3
    <3>6. Sequence(g[1])
      <4> HIDE DEF g
      <4> QED
        BY <3>5, SeqOfRange DEF Sequence
    <3> HIDE DEF g, c, h
    <3> DEFINE d == Append(g[1], c)
    <3>7. h = [g EXCEPT ![1] = d]
      BY <3>2, <3>3, <3>4 DEF AddCharacter
    <3>8. /\ Len(d) = m + 1 /\ d[m + 1] = c /\ \A x \in 1..m : d[x] = s[x]
      BY <3>3, <3>6, Longer
    <3> HIDE DEF d, L
    <3>9. Len(h) = 1 /\ h[1] = d
      BY <3>3, <3>7
    <3>10. \A x \in 1..m+1 : d[x] = s[x]
      <4>1. \A x \in 1..m+1 : x \in 1..m \/ x = m + 1
        BY <1>1
      <4> QED
        BY <3>8, <4>1 DEF c
    <3>11. Whole(m + 1)
      BY <3>8, <3>9, <3>10 DEF h
    <3> HIDE DEF Whole
    <3> QED
      BY <3>1, <3>11
  <2> HIDE DEF S
  <2>3. n \in S
    <3>1. 0..n \subseteq S
      BY <1>1, <2>1, <2>2, CountUp
    <3> QED
      BY <1>1, <3>1
  <2>4. Whole(n)
    BY <2>3 DEF S
  <2>5. f[n] \in Seq(Seq(Range(s) \ {"\n"}))
    BY <1>1, <1>2 DEF Lining
  <2> DEFINE e == f[n]
  <2>6. Sequence(e) /\ FileLine(e[1]) /\ Len(e) = 1 /\ Len(e[1]) = n /\ \A x \in 1..n : e[1][x] = s[x]
    <3>1. FileLines(e) /\ Len(e) = 1
      BY <1>3, <2>4, <2>5
    <3> HIDE DEF e
    <3>2. 1 \in 1..Len(e)
      BY <3>1
    <3> QED
      BY <2>4, <3>1, <3>2 DEF FileLines, e
  <2> HIDE DEF e
  <2>7. e[1] = s
    BY <2>6, SameText DEF FileLine, n
  <2>8. e = <<e[1]>>
    BY <2>6 DEF Sequence
  <2> QED
    BY <1>2, <2>7, <2>8 DEF e
<1> QED
  BY <1>4, <1>5

\* What save() writes is a file, and one line for each line that is written
\* as one.
LEMMA PrintedLines ==
  ASSUME NEW lines, SettingLines(lines)
  PROVE  /\ FileLines(Printed(lines))
         /\ (\A i \in 1..Len(lines) : FileLine(TextOf(lines[i]))) =>
              Printed(lines) = [i \in 1..Len(lines) |-> TextOf(lines[i])]
<1> DEFINE n == Len(lines)
           ss == [i \in DOMAIN lines |-> LinesOf(TextOf(lines[i]))]
<1>1. n \in Nat /\ DOMAIN lines = 1..n /\ Sequence(lines)
  BY SequenceIs DEF SettingLines
<1>2. ASSUME NEW i \in 1..n PROVE Sequence(TextOf(lines[i]))
  <2>1. SettingLine(lines[i])
    BY DEF SettingLines
  <2>2. CASE lines[i].is_data
    <3> DEFINE k == lines[i].key
               v == lines[i].value
    <3>1. lines[i] = Data(k, v) /\ Sequence(k) /\ Sequence(v)
      BY <2>1, <2>2 DEF SettingLine
    <3> HIDE DEF k, v
    <3>2. Sequence(TextOf(Data(k, v)))
      BY <3>1, TextIs DEF Spelled
    <3> QED
      BY <3>1, <3>2
  <2>3. CASE ~lines[i].is_data
    BY <2>1, <2>3 DEF SettingLine, TextOf, FileLine
  <2> QED
    BY <2>2, <2>3
<1>3. Printed(lines) = FlattenSeq(ss)
  BY DEF Printed
<1>4. ss = [i \in DOMAIN lines |-> ss[i]] /\ \A i \in 1..n : ss[i] = LinesOf(TextOf(lines[i]))
  BY <1>1
<1> HIDE DEF ss
<1>5. ASSUME NEW i \in 1..n
      PROVE  FileLines(ss[i]) /\ (FileLine(TextOf(lines[i])) => ss[i] = <<TextOf(lines[i])>>)
  BY <1>2, <1>4, LinesAre
<1>6. \A i \in 1..n : Sequence(ss[i])
  BY <1>5 DEF FileLines
<1>7. Sequence(ss) /\ Len(ss) = n
  BY <1>1, <1>4, <1>6, Encoded
<1>8. PICK f : Joining(ss, f) /\ FlattenSeq(ss) = f[n]
  BY <1>1, <1>4, <1>6, Encoded
<1> HIDE DEF n
<1>9. f[0] = <<>> /\ \A m \in 0..n-1 : f[m + 1] = f[m] \o ss[m + 1] /\ Sequence(f[m])
  <2>1. \A m \in 0..n-1 : m + 1 \in 1..n /\ (m + 1) - 1 = m /\ m \in 0..n
    BY <1>1
  <2> QED
    BY <1>7, <1>8, <2>1 DEF Joining
<1>10. FileLines(f[n])
  <2> DEFINE S == {m \in 0..n : FileLines(f[m])}
  <2>1. 0 \in S
    <3>1. FileLines(<<>>) /\ 0 \in 0..n
      BY <1>1, TrimNothing DEF FileLines
    <3> QED
      BY <1>9, <3>1
  <2>2. ASSUME NEW m \in 0..n-1, m \in S PROVE m + 1 \in S
    <3> DEFINE a == f[m]
               b == ss[m + 1]
               c == a \o b
    <3>1. m + 1 \in 1..n /\ m + 1 \in 0..n
      BY <1>1
    <3>2. FileLines(a) /\ FileLines(b) /\ f[m + 1] = c
      BY <1>5, <1>9, <2>2, <3>1
    <3> HIDE DEF a, b
    <3>3. /\ Sequence(c) /\ Len(a) \in Nat /\ Len(b) \in Nat /\ Len(c) = Len(a) + Len(b)
          /\ (\A x \in 1..Len(a) : c[x] = a[x]) /\ \A y \in 1..Len(b) : c[Len(a) + y] = b[y]
      BY <3>2, Appended DEF FileLines
    <3> HIDE DEF c
    <3>4. ASSUME NEW x \in 1..Len(c) PROVE FileLine(c[x])
      <4>1. CASE x \in 1..Len(a)
        BY <3>2, <3>3, <4>1 DEF FileLines
      <4>2. CASE x \notin 1..Len(a)
        <5> DEFINE y == x - Len(a)
        <5>1. y \in 1..Len(b) /\ Len(a) + y = x
          BY <3>3, <4>2
        <5> HIDE DEF y
        <5> QED
          BY <3>2, <3>3, <5>1 DEF FileLines
      <4> QED
        BY <4>1, <4>2
    <3>5. FileLines(c)
      BY <3>3, <3>4 DEF FileLines
    <3> QED
      BY <3>1, <3>2, <3>5
  <2> HIDE DEF S
  <2>3. 0..n \subseteq S
    BY <1>1, <2>1, <2>2, CountUp
  <2>4. n \in S
    BY <1>1, <2>3
  <2> QED
    BY <2>4 DEF S
<1>11. ASSUME \A i \in 1..n : FileLine(TextOf(lines[i])) PROVE f[n] = [i \in 1..n |-> TextOf(lines[i])]
  <2> DEFINE T(i) == TextOf(lines[i])
             First(m) == Len(f[m]) = m /\ \A x \in 1..m : f[m][x] = T(x)
             S == {m \in 0..n : First(m)}
  <2>0. \A i \in 1..n : ss[i] = <<T(i)>>
    BY <1>5, <1>11
  <2> HIDE DEF T
  <2>1. 0 \in S
    <3>1. Len(<<>>) = 0 /\ 1..0 = {} /\ 0 \in 0..n
      BY <1>1
    <3> QED
      BY <1>9, <3>1
  <2>2. ASSUME NEW m \in 0..n-1, m \in S PROVE m + 1 \in S
    <3> DEFINE a == f[m]
               b == <<T(m + 1)>>
               c == a \o b
    <3>1. m + 1 \in 1..n /\ m + 1 \in 0..n
      BY <1>1
    <3>2. Sequence(a) /\ Len(a) = m /\ (\A x \in 1..m : a[x] = T(x)) /\ f[m + 1] = c
      BY <1>9, <2>0, <2>2, <3>1
    <3>3. Sequence(b) /\ Len(b) = 1 /\ b[1] = T(m + 1)
      BY DEF Sequence, Range
    <3> HIDE DEF a, b
    <3>4. /\ Len(c) = Len(a) + Len(b)
          /\ (\A x \in 1..Len(a) : c[x] = a[x]) /\ \A y \in 1..Len(b) : c[Len(a) + y] = b[y]
      <4>1. Sequence(a) /\ Sequence(b)
        BY <3>2, <3>3
      <4> QED
        BY <4>1, Appended
    <3> HIDE DEF c
    <3>5. Len(c) = m + 1 /\ c[m + 1] = T(m + 1) /\ \A x \in 1..m : c[x] = T(x)
      <4>1. 1 \in 1..Len(b)
        BY <3>3
      <4> QED
        BY <3>2, <3>3, <3>4, <4>1
    <3>6. First(m + 1)
      <4>1. \A x \in 1..m+1 : x \in 1..m \/ x = m + 1
        BY <1>1
      <4> QED
        BY <3>2, <3>5, <4>1
    <3> HIDE DEF First
    <3> QED
      BY <3>1, <3>6
  <2> HIDE DEF S
  <2>3. 0..n \subseteq S
    BY <1>1, <2>1, <2>2, CountUp
  <2>4. First(n)
    <3>1. n \in S
      BY <1>1, <2>3
    <3> QED
      BY <3>1 DEF S
  <2>5. Sequence(f[n])
    BY <1>10 DEF FileLines
  <2>6. f[n] = [i \in 1..n |-> f[n][i]]
    BY <2>4, <2>5, SequenceIs
  <2> QED
    BY <2>4, <2>6 DEF T
<1> QED
  BY <1>3, <1>8, <1>10, <1>11 DEF n

\* A file that save() wrote is read as the lines it was made of.
LEMMA LinesComeBack ==
  ASSUME NEW lines, SettingLines(lines), \A i \in DOMAIN lines : lines[i].is_data => Plain(lines[i])
  PROVE  Parsed(Printed(lines)) = lines
<1> DEFINE p == Printed(lines)
           new == Parsed(p)
           n == Len(lines)
<1>1. n \in Nat /\ DOMAIN lines = 1..n /\ lines = [i \in 1..n |-> lines[i]]
  BY SequenceIs DEF SettingLines
<1>2. ASSUME NEW i \in 1..n
      PROVE  FileLine(TextOf(lines[i])) /\ ParseLine(TextOf(lines[i])) = lines[i]
  <2>1. SettingLine(lines[i])
    BY DEF SettingLines
  <2>2. CASE lines[i].is_data
    <3> DEFINE k == lines[i].key
               v == lines[i].value
               w == TextOf(Data(k, v))
    <3>1. lines[i] = Data(k, v) /\ Sequence(k) /\ Sequence(v) /\ Plain(Data(k, v))
      <4>1. lines[i] = Data(k, v) /\ Sequence(k) /\ Sequence(v)
        BY <2>1, <2>2 DEF SettingLine
      <4>2. Plain(lines[i])
        BY <1>1, <2>2
      <4> HIDE DEF k, v
      <4> QED
        BY <4>1, <4>2
    <3> HIDE DEF k, v
    <3>2. ParseLine(w) = Data(k, v)
      BY <3>1, LineComesBack
    <3>3. \A x \in 1..Len(k) : k[x] # Feed
      <4>1. "\n" \notin Range(k)
        BY <3>1 DEF Plain, Data
      <4>2. DOMAIN k = 1..Len(k)
        BY <3>1, SequenceIs
      <4> QED
        BY <4>1, <4>2 DEF Range, Feed
    <3>4. \A x \in 1..Len(v) : v[x] # Feed
      <4>1. "\n" \notin Range(v)
        BY <3>1 DEF Plain, Data
      <4>2. DOMAIN v = 1..Len(v)
        BY <3>1, SequenceIs
      <4> QED
        BY <4>1, <4>2 DEF Range, Feed
    <3>5. /\ Sequence(w) /\ Len(k) \in Nat /\ Len(v) \in Nat /\ Len(w) = Len(k) + 3 + Len(v)
          /\ \A x \in 1..Len(k) : w[x] = k[x]
          /\ w[Len(k) + 1] = Space /\ w[Len(k) + 2] = Equals /\ w[Len(k) + 3] = Space
          /\ \A y \in 1..Len(v) : w[Len(k) + 3 + y] = v[y]
      <4>1. Spelled(w, k, v)
        BY <3>1, TextIs
      <4> HIDE DEF w
      <4> QED
        BY <4>1 DEF Spelled
    <3> HIDE DEF w
    <3>6. ASSUME NEW x \in 1..Len(w) PROVE w[x] # Feed
      <4>1. CASE x \in 1..Len(k)
        BY <3>3, <3>5, <4>1
      <4>2. CASE x \in Len(k)+1..Len(k)+3
        <5>1. x = Len(k) + 1 \/ x = Len(k) + 2 \/ x = Len(k) + 3
          BY <3>5, <4>2
        <5> QED
          BY <3>5, <5>1, SignsDiffer
      <4>3. CASE x > Len(k) + 3
        <5> DEFINE y == x - (Len(k) + 3)
        <5>1. y \in 1..Len(v) /\ Len(k) + 3 + y = x
          BY <3>5, <4>3
        <5> HIDE DEF y
        <5> QED
          BY <3>4, <3>5, <5>1
      <4> QED
        BY <3>5, <4>1, <4>2, <4>3
    <3>7. FileLine(w)
      <4>1. DOMAIN w = 1..Len(w)
        BY <3>5, SequenceIs
      <4> QED
        BY <3>5, <3>6, <4>1 DEF FileLine, Range, Feed
    <3> QED
      BY <3>1, <3>2, <3>7 DEF w
  <2>3. CASE ~ lines[i].is_data
    BY <2>1, <2>3 DEF SettingLine, TextOf
  <2> QED
    BY <2>2, <2>3
<1>3. FileLines(p) /\ p = [i \in 1..n |-> TextOf(lines[i])]
  BY <1>2, PrintedLines
<1> HIDE DEF p
<1>4. DOMAIN p = 1..n /\ \A i \in 1..n : p[i] = TextOf(lines[i])
  BY <1>3
<1>5. SettingLines(new) /\ DOMAIN new = 1..n /\ \A i \in 1..n : new[i] = ParseLine(p[i])
  BY <1>3, <1>4, ParsedLines
<1> HIDE DEF new
<1>6. new = [i \in 1..n |-> new[i]] /\ \A i \in 1..n : new[i] = lines[i]
  <2>1. Len(new) \in Nat /\ DOMAIN new = 1..Len(new) /\ new = [i \in 1..Len(new) |-> new[i]]
    BY <1>5, SequenceIs DEF SettingLines
  <2>2. new = [i \in 1..n |-> new[i]]
    BY <1>5, <2>1
  <2> QED
    BY <1>2, <1>4, <1>5, <2>2
<1>7. new = lines
  BY <1>1, <1>6, Zenon
<1> QED
  BY <1>7 DEF new, p

-----------------------------------------------------------------------------
(***************************************************************************)
(* The config manager.                                                     *)
(***************************************************************************)
\* Two files with the same data lines, whatever their values.
LEMMA SameKeys ==
  ASSUME NEW a, NEW b, DOMAIN a = DOMAIN b, Sequence(a),
         \A i \in DOMAIN a : /\ a[i].is_data <=> b[i].is_data
                             /\ a[i].is_data => a[i].key = b[i].key,
         NEW k
  PROVE  FirstWith(a, k) = FirstWith(b, k)
<1>1. Len(a) \in Nat /\ DOMAIN a = 1..Len(a)
  BY SequenceIs
<1>2. ASSUME NEW i \in 1..Len(a), NEW j \in 1..i-1 PROVE j \in 1..Len(a)
  BY <1>1
<1>3. \A i \in 1..Len(a) : a[i].is_data /\ a[i].key = k <=> b[i].is_data /\ b[i].key = k
  BY <1>1
<1> QED
  BY <1>1, <1>2, <1>3 DEF FirstWith

\* The scan for a key finds the first of its lines.
LEMMA FirstIsOne ==
  ASSUME NEW lines, Sequence(lines), NEW k,
         NEW said, said = {i \in DOMAIN lines : lines[i].is_data /\ lines[i].key = k}
  PROVE  /\ said = {} => FirstWith(lines, k) = {}
         /\ said # {} => Min(said) \in said /\ FirstWith(lines, k) = {Min(said)}
<1>1. Len(lines) \in Nat /\ DOMAIN lines = 1..Len(lines)
  BY SequenceIs
<1>2. FirstWith(lines, k) = {i \in said : \A j \in 1..i-1 : j \notin said}
  <2>1. \A i \in said : \A j \in 1..i-1 : j \in DOMAIN lines
    BY <1>1
  <2> QED
    BY <2>1 DEF FirstWith
<1>3. said \subseteq Nat /\ \A i \in said : i >= 1
  BY <1>1
<1>4. ASSUME said # {} PROVE Min(said) \in said /\ FirstWith(lines, k) = {Min(said)}
  <2> DEFINE m == Min(said)
  <2>1. \E x \in said : \A y \in said : x =< y
    BY <1>3, <1>4, HasLeast
  <2>2. m \in said /\ \A y \in said : m =< y
    BY <2>1 DEF Min
  <2> HIDE DEF m
  <2>3. \A j \in 1..m-1 : j \notin said
    BY <1>3, <2>2
  <2>4. ASSUME NEW i \in said, \A j \in 1..i-1 : j \notin said PROVE i = m
    BY <1>3, <2>2, <2>4
  <2>5. FirstWith(lines, k) = {m}
    BY <1>2, <2>2, <2>3, <2>4
  <2> QED
    BY <2>2, <2>5 DEF m
<1> QED
  BY <1>2, <1>4

\* What get() reads is the value of the first line with the key.
LEMMA SettingIs ==
  ASSUME NEW lines, NEW k, NEW i, FirstWith(lines, k) = {i}
  PROVE  GetString(lines, k) = lines[i].value
  BY DEF GetString

\* A line with the key and none before it is the one found.
LEMMA FirstWithIs ==
  ASSUME NEW lines, Sequence(lines), NEW k
  PROVE  \/ FirstWith(lines, k) = {} /\ \A i \in DOMAIN lines : ~ (lines[i].is_data /\ lines[i].key = k)
         \/ \E i \in DOMAIN lines : FirstWith(lines, k) = {i} /\ lines[i].is_data /\ lines[i].key = k
<1> DEFINE said == {i \in DOMAIN lines : lines[i].is_data /\ lines[i].key = k}
<1>1. CASE said = {}
  BY <1>1, FirstIsOne
<1>2. CASE said # {}
  <2>1. Min(said) \in said /\ FirstWith(lines, k) = {Min(said)}
    BY <1>2, FirstIsOne
  <2> QED
    BY <2>1
<1> QED
  BY <1>1, <1>2

\* No line with the key, nothing found.
LEMMA NoneWith ==
  ASSUME NEW lines, Sequence(lines), NEW k, FirstWith(lines, k) = {}
  PROVE  \A i \in DOMAIN lines : ~ (lines[i].is_data /\ lines[i].key = k)
<1> DEFINE said == {i \in DOMAIN lines : lines[i].is_data /\ lines[i].key = k}
<1>1. ASSUME said # {} PROVE FALSE
  <2>1. Min(said) \in said /\ FirstWith(lines, k) = {Min(said)}
    BY <1>1, FirstIsOne
  <2> QED
    BY <2>1
<1> QED
  BY <1>1

\* What the manager and its file hold is lines, and callers expect what get()
\* reads of them.
ConfigInv ==
  /\ SettingLines(m_lines) /\ FileLines(configFile)
  /\ believed = [k \in Settings |-> GetString(m_lines, k)]

\* A config manager that was just made answers as expected.
LEMMA ConfigStart == InitConfig => ConfigInv
<1> SUFFICES ASSUME InitConfig PROVE ConfigInv
  OBVIOUS
<1>1. SettingLines(m_lines) /\ FileLines(configFile)
  <2>1. Sequence(configFile) /\ \A i \in DOMAIN configFile : FileLine(configFile[i])
    BY ConfigFilesAssumption DEF InitConfig, Sequence, FileLine
  <2>2. DOMAIN configFile = 1..Len(configFile)
    BY <2>1, SequenceIs
  <2>3. Sequence(<<>>) /\ 1..Len(<<>>) = {}
    BY DEF Sequence
  <2>4. SettingLines(m_lines)
    BY <2>3 DEF InitConfig, SettingLines
  <2> QED
    BY <2>1, <2>2, <2>4 DEF FileLines
<1>2. ASSUME NEW k \in Settings PROVE GetString(m_lines, k) = NoSetting
  <2>1. FirstWith(<<>>, k) = {}
    BY DEF FirstWith
  <2> QED
    BY <2>1 DEF InitConfig, GetString
<1>3. believed = [k \in Settings |-> GetString(m_lines, k)]
  BY <1>2, Zenon DEF InitConfig
<1> QED
  BY <1>1, <1>3 DEF ConfigInv

\* set() changes the line that get() reads, or adds one, and no other key.
WithSetting(lines, k, v) ==
  IF FirstWith(lines, k) = {} THEN Append(lines, Data(k, v))
  ELSE [i \in DOMAIN lines |-> IF i \in FirstWith(lines, k) THEN Data(k, v) ELSE lines[i]]

\* set() changes what its key reads as, and no other key.
LEMMA SetSettingSays ==
  ASSUME NEW lines, Sequence(lines), NEW k, NEW v, NEW new, new = WithSetting(lines, k, v)
  PROVE  /\ Sequence(new)
         /\ \A x : GetString(new, x) = IF x = k THEN v ELSE GetString(lines, x)
<1> DEFINE n == Len(lines)
           d == Data(k, v)
<1>1. n \in Nat /\ DOMAIN lines = 1..n
  BY SequenceIs
<1>2. d.is_data /\ d.key = k /\ d.value = v
  BY DEF Data
<1> HIDE DEF d, n
<1>3. CASE FirstWith(lines, k) = {}
  <2>1. new = Append(lines, d)
    BY <1>3 DEF d, WithSetting
  <2>2. /\ Sequence(new) /\ DOMAIN new = 1..n + 1 /\ new[n + 1] = d
        /\ \A i \in 1..n : new[i] = lines[i]
    BY <2>1, Longer DEF n
  <2>3. FirstWith(new, k) = {n + 1}
    <3>1. \A i \in 1..n : ~ (lines[i].is_data /\ lines[i].key = k)
      BY <1>1, <1>3, NoneWith
    <3> QED
      BY <1>1, <1>2, <2>2, <3>1 DEF FirstWith
  <2>4. ASSUME NEW x, x # k PROVE FirstWith(new, x) = FirstWith(lines, x)
    <3>1. \A i \in 1..n+1 : new[i].is_data /\ new[i].key = x
                             <=> i \in 1..n /\ lines[i].is_data /\ lines[i].key = x
      BY <1>1, <1>2, <2>2, <2>4
    <3>2. \A i \in 1..n+1 : \A j \in 1..i-1 : j \in 1..n
      BY <1>1
    <3>3. 1..n \subseteq 1..n+1
      BY <1>1
    <3> QED
      BY <1>1, <2>2, <3>1, <3>2, <3>3 DEF FirstWith
  <2>5. ASSUME NEW x, x # k PROVE GetString(new, x) = GetString(lines, x)
    <3>1. FirstWith(new, x) = FirstWith(lines, x)
      BY <2>4, <2>5
    <3>2. CASE FirstWith(lines, x) = {}
      BY <3>1, <3>2 DEF GetString
    <3>3. CASE FirstWith(lines, x) # {}
      <4>1. PICK i \in 1..n : FirstWith(lines, x) = {i}
        BY <1>1, <3>3, FirstWithIs
      <4>2. GetString(new, x) = new[i].value /\ GetString(lines, x) = lines[i].value
        <5>1. FirstWith(new, x) = {i}
          BY <3>1, <4>1
        <5>2. GetString(new, x) = new[i].value
          BY <5>1, SettingIs
        <5>3. GetString(lines, x) = lines[i].value
          BY <4>1, SettingIs
        <5> QED
          BY <5>2, <5>3
      <4> QED
        BY <2>2, <4>2
    <3> QED
      BY <3>2, <3>3
  <2>6. GetString(new, k) = v
    <3>1. GetString(new, k) = new[n + 1].value
      BY <2>3, SettingIs
    <3> QED
      BY <1>2, <2>2, <3>1
  <2> QED
    BY <2>2, <2>5, <2>6
<1>4. CASE FirstWith(lines, k) # {}
  <2>1. PICK at \in 1..n : FirstWith(lines, k) = {at} /\ lines[at].is_data /\ lines[at].key = k
    BY <1>1, <1>4, FirstWithIs
  <2>2. new = [i \in 1..n |-> IF i = at THEN d ELSE lines[i]]
    BY <1>1, <1>4, <2>1 DEF d, WithSetting
  <2>3. Sequence(new)
    <3>1. new = [i \in 1..n |-> new[i]]
      BY <2>2
    <3> QED
      BY <1>1, <3>1, SequenceFrom
  <2>4. ASSUME NEW x PROVE FirstWith(new, x) = FirstWith(lines, x)
    <3>1. /\ DOMAIN new = DOMAIN lines
          /\ \A i \in DOMAIN lines : /\ lines[i].is_data <=> new[i].is_data
                                     /\ lines[i].is_data => lines[i].key = new[i].key
      BY <1>1, <1>2, <2>1, <2>2
    <3> QED
      BY <3>1, SameKeys
  <2>5. ASSUME NEW x, x # k PROVE GetString(new, x) = GetString(lines, x)
    <3>1. FirstWith(new, x) = FirstWith(lines, x)
      BY <2>4
    <3>2. CASE FirstWith(lines, x) = {}
      BY <3>1, <3>2 DEF GetString
    <3>3. CASE FirstWith(lines, x) # {}
      <4>1. PICK i \in 1..n : FirstWith(lines, x) = {i} /\ lines[i].key = x
        BY <1>1, <3>3, FirstWithIs
      <4>2. GetString(new, x) = new[i].value /\ GetString(lines, x) = lines[i].value
        <5>1. FirstWith(new, x) = {i}
          BY <3>1, <4>1
        <5>2. GetString(new, x) = new[i].value
          BY <5>1, SettingIs
        <5>3. GetString(lines, x) = lines[i].value
          BY <4>1, SettingIs
        <5> QED
          BY <5>2, <5>3
      <4>3. i # at
        BY <2>1, <2>5, <4>1
      <4> QED
        BY <2>2, <4>2, <4>3
    <3> QED
      BY <3>2, <3>3
  <2>6. GetString(new, k) = v
    <3>1. FirstWith(new, k) = {at} /\ new[at] = d
      BY <2>1, <2>2, <2>4
    <3> QED
      <4>1. GetString(new, k) = new[at].value
        BY <3>1, SettingIs
      <4> QED
        BY <1>2, <3>1, <4>1
  <2> QED
    BY <2>3, <2>5, <2>6
<1> QED
  BY <1>3, <1>4

\* The lines stay lines.
LEMMA SetLines ==
  ASSUME NEW lines, SettingLines(lines), NEW k, Sequence(k), NEW v, Sequence(v)
  PROVE  SettingLines(WithSetting(lines, k, v))
<1> DEFINE new == WithSetting(lines, k, v)
           n == Len(lines)
           d == Data(k, v)
<1>1. n \in Nat /\ DOMAIN lines = 1..n /\ Sequence(lines) /\ \A i \in 1..n : SettingLine(lines[i])
  BY SequenceIs DEF SettingLines
<1>2. SettingLine(d)
  BY DEF SettingLine, Data
<1>3. CASE FirstWith(lines, k) = {}
  <2>1. new = Append(lines, d)
    BY <1>3 DEF WithSetting
  <2> HIDE DEF new, d, n
  <2>2. Sequence(new) /\ Len(new) = n + 1 /\ new[n + 1] = d /\ \A i \in 1..n : new[i] = lines[i]
    BY <1>1, <2>1, Longer DEF n
  <2>3. \A i \in 1..n+1 : SettingLine(new[i])
    <3>1. \A i \in 1..n+1 : i \in 1..n \/ i = n + 1
      BY <1>1
    <3> QED
      BY <1>1, <1>2, <2>2, <3>1
  <2>4. SettingLines(new)
    BY <2>2, <2>3 DEF SettingLines
  <2> QED
    BY <2>4 DEF new
<1>4. CASE FirstWith(lines, k) # {}
  <2>1. new = [i \in DOMAIN lines |-> IF i \in FirstWith(lines, k) THEN d ELSE lines[i]]
    BY <1>4 DEF WithSetting
  <2> HIDE DEF new, d, n
  <2>2. new = [i \in 1..n |-> new[i]] /\ \A i \in 1..n : new[i] = d \/ new[i] = lines[i]
    BY <1>1, <2>1
  <2>3. Sequence(new) /\ Len(new) = n
    BY <1>1, <2>2, SequenceFrom
  <2>4. \A i \in 1..n : SettingLine(new[i])
    BY <1>1, <1>2, <2>2
  <2>5. SettingLines(new)
    BY <2>3, <2>4 DEF SettingLines
  <2> QED
    BY <2>5 DEF new
<1> QED
  BY <1>3, <1>4

\* Every key reads as expected after set(),
LEMMA SetSettingKeeps ==
  ASSUME ConfigInv, NEW k \in Settings, NEW v \in SettingValues, SetSetting(k, v)
  PROVE  ConfigInv'
<1>1. /\ SettingLines(m_lines')
      /\ \A x : GetString(m_lines', x) = IF x = k THEN v ELSE GetString(m_lines, x)
  <2>1. m_lines' = WithSetting(m_lines, k, v)
    BY DEF SetSetting, WithSetting
  <2>2. SettingLines(m_lines) /\ Sequence(m_lines)
    BY DEF ConfigInv, SettingLines
  <2>3. Sequence(k) /\ Sequence(v)
    BY SettingsAssumption DEF Sequence
  <2>4. SettingLines(m_lines')
    BY <2>1, <2>2, <2>3, SetLines
  <2> QED
    BY <2>1, <2>2, <2>4, SetSettingSays
<1>2. believed' = [believed EXCEPT ![k] = v] /\ configFile' = configFile
  BY DEF SetSetting
<1>3. believed' = [x \in Settings |-> GetString(m_lines', x)]
  <2>1. believed' = [x \in Settings |-> IF x = k THEN v ELSE GetString(m_lines, x)]
    BY <1>2 DEF ConfigInv
  <2> QED
    BY <1>1, <2>1, Zenon
<1> QED
  BY <1>1, <1>2, <1>3 DEF ConfigInv

\* after a load, from the first line with the key,
LEMMA LoadSettingsKeeps ==
  ASSUME ConfigInv, LoadSettings
  PROVE  ConfigInv'
<1> DEFINE new == Parsed(configFile)
           Read(i) == ParseLine(configFile[i])
           said(k) == {i \in DOMAIN configFile : Read(i).is_data /\ Read(i).key = k}
<1>1. /\ m_lines' = new /\ configFile' = configFile
      /\ believed' = [k \in Settings |-> IF said(k) = {} THEN NoSetting ELSE Read(Min(said(k))).value]
  BY DEF LoadSettings
<1>2. /\ SettingLines(new) /\ DOMAIN new = DOMAIN configFile
      /\ \A i \in DOMAIN configFile : new[i] = Read(i)
  BY ParsedLines DEF ConfigInv
<1>3. Sequence(new)
  BY <1>2 DEF SettingLines
<1> HIDE DEF new, Read
<1>4. ASSUME NEW k PROVE said(k) = {i \in DOMAIN new : new[i].is_data /\ new[i].key = k}
  BY <1>2
<1> HIDE DEF said
<1>5. ASSUME NEW k
      PROVE  GetString(new, k) = IF said(k) = {} THEN NoSetting ELSE Read(Min(said(k))).value
  <2>1. CASE said(k) = {}
    <3>1. FirstWith(new, k) = {}
      BY <1>3, <1>4, <2>1, FirstIsOne
    <3> QED
      BY <2>1, <3>1 DEF GetString
  <2>2. CASE said(k) # {}
    <3> DEFINE m == Min(said(k))
    <3>1. m \in said(k) /\ FirstWith(new, k) = {m}
      BY <1>3, <1>4, <2>2, FirstIsOne
    <3>2. m \in DOMAIN configFile
      BY <1>2, <1>4, <3>1
    <3> HIDE DEF m
    <3>3. GetString(new, k) = new[m].value
      BY <3>1, SettingIs
    <3> QED
      BY <1>2, <2>2, <3>2, <3>3 DEF m
  <2> QED
    BY <2>1, <2>2
<1>6. believed' = [k \in Settings |-> GetString(new, k)]
  BY <1>1, <1>5, Zenon
<1> QED
  BY <1>1, <1>2, <1>6 DEF ConfigInv

\* and after a save, which changes the file only.
LEMMA SaveSettingsKeeps ==
  ASSUME ConfigInv, SaveSettings
  PROVE  ConfigInv'
<1>1. configFile' = Printed(m_lines) /\ m_lines' = m_lines /\ believed' = believed
  BY DEF SaveSettings
<1>2. FileLines(configFile')
  BY <1>1, PrintedLines DEF ConfigInv
<1> QED
  BY <1>1, <1>2 DEF ConfigInv

\* Every step of the config manager keeps its invariant.
LEMMA ConfigKeeps == ConfigInv /\ NextConfig => ConfigInv'
  BY SetSettingKeeps, LoadSettingsKeeps, SaveSettingsKeeps DEF NextConfig

\* The invariant says of each key what it reads as,
LEMMA ConfigReads == ConfigInv => ConfigReadsWhatWasSet
  BY DEF ConfigInv, ConfigReadsWhatWasSet

\* and that what is saved is loaded again.
LEMMA ConfigComesBack == ConfigInv => ConfigSurvivesSaveAndLoad
  BY LinesComeBack DEF ConfigInv, ConfigSurvivesSaveAndLoad

-----------------------------------------------------------------------------
(***************************************************************************)
(* All three.                                                              *)
(***************************************************************************)
SettingsInv ==
  /\ subject = "ini" => IniInv
  /\ subject = "config" => ConfigInv
  /\ subject = "broker" => BrokerInv

\* Each component starts in its invariant.
LEMMA SettingsStart == Init => SettingsInv
  BY IniStart, ConfigStart, BrokerStart DEF Init, SettingsInv

\* A step of one component keeps its invariant, and leaves the others alone.
LEMMA SettingsKeep == SettingsInv /\ [Next]_vars => SettingsInv'
<1> SUFFICES ASSUME SettingsInv, [Next]_vars PROVE SettingsInv'
  OBVIOUS
<1>1. subject' = subject
  BY DEF Next, vars
<1>2. CASE UNCHANGED vars
  <2>1. /\ UNCHANGED <<store, file, expected>> /\ UNCHANGED <<m_lines, configFile, believed>>
        /\ UNCHANGED <<storage_, guard, promised, evicted>>
    BY <1>2 DEF vars, settingsVars, iniVars, configVars, brokerVars
  <2>2. IniInv => IniInv'
    BY <2>1 DEF IniInv
  <2>3. ConfigInv => ConfigInv'
    BY <2>1 DEF ConfigInv
  <2>4. BrokerInv => BrokerInv'
    BY <2>1 DEF BrokerInv
  <2> QED
    BY <1>1, <2>2, <2>3, <2>4 DEF SettingsInv
<1>3. CASE subject = "ini" /\ IniStep
  <2>1. IniInv'
    BY <1>3, IniKeeps DEF IniStep, SettingsInv
  <2> QED
    BY <1>1, <1>3, <2>1 DEF SettingsInv
<1>4. CASE subject = "config" /\ ConfigStep
  <2>1. ConfigInv'
    BY <1>4, ConfigKeeps DEF ConfigStep, SettingsInv
  <2> QED
    BY <1>1, <1>4, <2>1 DEF SettingsInv
<1>5. CASE subject = "broker" /\ BrokerStep
  <2>1. BrokerInv'
    BY <1>5, BrokerKeeps DEF BrokerStep, SettingsInv
  <2> QED
    BY <1>1, <1>5, <2>1 DEF SettingsInv
<1>6. CASE subject \notin {"ini", "config", "broker"}
  BY <1>1, <1>6 DEF SettingsInv
<1> QED
  BY <1>2, <1>3, <1>4, <1>5, <1>6 DEF Next

\* For any sections, keys, entries, files, types, names and instances and any
\* number of calls: get() of the ini parser, of the config manager and of the
\* broker answers what was last set, registered, removed or loaded, whatever
\* was erased in between and however the file was written.
THEOREM WhatWasSetIsRead == Spec => []ReadsWhatWasSet
<1>1. Init => SettingsInv
  BY SettingsStart
<1>2. SettingsInv /\ [Next]_vars => SettingsInv'
  BY SettingsKeep
<1>3. SettingsInv => ReadsWhatWasSet
  BY IniReads, ConfigReads, PromisesFollow DEF SettingsInv, ReadsWhatWasSet
<1> QED
  BY <1>1, <1>2, <1>3, PTL DEF Spec

-----------------------------------------------------------------------------
(***************************************************************************)
(* The stores and the files of the ini parser are of texts, so what is     *)
(* saved is loaded as it was.                                              *)
(***************************************************************************)
IniTexts == StoreTyped(store) /\ FileOk(file)

LEMMA IniTextsStart == InitIni => IniTexts
<1> SUFFICES ASSUME InitIni PROVE IniTexts
  OBVIOUS
<1>1. Sequence(file) /\ \A i \in DOMAIN file : LineOk(file[i])
  BY HandWrittenAssumption DEF InitIni, Sequence, LineOk
<1>2. DOMAIN file = 1..Len(file)
  BY <1>1, SequenceIs
<1>3. StoreTyped(store)
  BY EmptyTyped DEF InitIni
<1> QED
  BY <1>1, <1>2, <1>3 DEF IniTexts, FileOk

\* No operation of the ini parser makes anything else of them.
LEMMA IniTextsKeep == IniInv /\ IniTexts /\ NextIni => IniTexts'
<1> SUFFICES ASSUME IniInv, IniTexts, NextIni PROVE IniTexts'
  OBVIOUS
<1>1. StoreOk(store) /\ StoreTyped(store) /\ FileOk(file)
  BY DEF IniInv, IniTexts
<1>2. ASSUME NEW s \in SectionNames, NEW k \in Keys, Erase(s, k) PROVE IniTexts'
  <2>1. store' = RemoveKey(store, s, k) /\ file' = file
    BY <1>2 DEF Erase
  <2>2. StoreTyped(store')
    BY <1>1, <2>1, RemoveKeyTyped
  <2> QED
    BY <1>1, <2>1, <2>2 DEF IniTexts
<1>3. ASSUME NEW s \in SectionNames, NEW k \in Keys, NEW e \in Entries, Set(s, k, e) PROVE IniTexts'
  <2>1. store' = Upsert(store, s, k, e) /\ file' = file
    BY <1>3 DEF Set
  <2>2. EntryOk(e)
    BY EntriesAssumption DEF EntryOk, Sequence
  <2>3. StoreTyped(store')
    BY <1>1, <2>1, <2>2, UpsertTyped
  <2> QED
    BY <1>1, <2>1, <2>3 DEF IniTexts
<1>4. ASSUME NEW s \in SectionNames, EraseSection(s) PROVE IniTexts'
  <2>1. store' = RemoveSection(store, s) /\ file' = file
    BY <1>4 DEF EraseSection
  <2>2. StoreTyped(store')
    BY <1>1, <2>1, RemoveSectionTyped
  <2> QED
    BY <1>1, <2>1, <2>2 DEF IniTexts
<1>5. CASE Save
  <2>1. file' = Saved(store) /\ store' = store
    BY <1>5 DEF Save
  <2>2. FileOk(file')
    BY <1>1, <2>1, SavedIsFile
  <2> QED
    BY <1>1, <2>1, <2>2 DEF IniTexts
<1>6. CASE Load
  <2>1. store' = Loaded(file) /\ file' = file
    BY <1>6 DEF Load
  <2>2. StoreTyped(store')
    BY <1>1, <2>1, LoadedTyped
  <2> QED
    BY <1>1, <2>1, <2>2 DEF IniTexts
<1> QED
  BY <1>2, <1>3, <1>4, <1>5, <1>6 DEF NextIni

LEMMA IniComesBack == IniInv /\ IniTexts => IniSurvivesSaveAndLoad
  BY StoreComesBack DEF IniInv, IniTexts, IniSurvivesSaveAndLoad

\* One component takes the steps of a behaviour.
TextsInv ==
  /\ SettingsInv
  /\ subject = "ini" => IniTexts

LEMMA TextsStart == Init => TextsInv
  BY SettingsStart, IniTextsStart DEF Init, TextsInv

LEMMA TextsKeep == TextsInv /\ [Next]_vars => TextsInv'
<1> SUFFICES ASSUME TextsInv, [Next]_vars PROVE TextsInv'
  OBVIOUS
<1>1. SettingsInv /\ SettingsInv' /\ subject' = subject
  BY SettingsKeep DEF TextsInv, Next, vars
<1>2. CASE UNCHANGED vars
  <2>1. UNCHANGED <<store, file>>
    BY <1>2 DEF vars, settingsVars, iniVars
  <2>2. IniTexts => IniTexts'
    BY <2>1 DEF IniTexts
  <2> QED
    BY <1>1, <2>2 DEF TextsInv
<1>3. CASE subject = "ini" /\ IniStep
  <2>1. IniTexts'
    BY <1>3, IniTextsKeep DEF IniStep, TextsInv, SettingsInv
  <2> QED
    BY <1>1, <1>3, <2>1 DEF TextsInv
<1>4. CASE subject # "ini"
  BY <1>1, <1>4 DEF TextsInv
<1> QED
  BY <1>2, <1>3, <1>4 DEF Next

\* For any settings, any calls and any file that was loaded before: what save()
\* writes, load() restores in the same order and with the same kinds and values,
\* through quotes, escapes and comment marks, in the ini parser if each value
\* can stand in a line, in the config manager if no key and no value is one
\* that load() would read differently from how save() wrote it (Plain).
THEOREM SettingsComeBack == Spec => []SettingsSurviveSaveAndLoad
<1>1. Init => TextsInv
  BY TextsStart
<1>2. TextsInv /\ [Next]_vars => TextsInv'
  BY TextsKeep
<1>3. TextsInv => SettingsSurviveSaveAndLoad
  BY IniComesBack, ConfigComesBack DEF TextsInv, SettingsInv, SettingsSurviveSaveAndLoad
<1> QED
  BY <1>1, <1>2, <1>3, PTL DEF Spec
=============================================================================
