----------------------------- MODULE IniParser -----------------------------
(***************************************************************************)
(* j2::ini::ini_parser: sections in the order they were made, entries in   *)
(* the order they were added, and for both an index from the name to the   *)
(* position.  save() writes lines, load() replaces everything by what a    *)
(* file holds, also one that was edited by hand.                           *)
(***************************************************************************)
EXTENDS IniText, Calls

CONSTANTS
  SectionNames, Keys,  \* "" is a section name: keys before the first header
  Entries,             \* records [kind, value]
  HandWritten          \* files that were not written by save()

\* A string is a text, a bool or a number one of its words; a file is a
\* sequence of lines, and behind an equals sign there is a text.  Left out is
\* what save() writes so that load() finds other lines than it wrote: literals
\* with a line feed, and names with a line feed, a blank at an end, an equals
\* sign or, for a section, a bracket, or names that begin like a comment or a
\* header.
ASSUME EntriesAssumption ==
  \A e \in Entries :
    /\ e = [kind |-> e.kind, value |-> e.value]
    /\ \/ /\ e.kind \in {"raw", "literal"} /\ e.value \in Seq(Range(e.value))
          /\ e.kind = "literal" => "\n" \notin Range(e.value)
       \/ e.kind = "bool" /\ e.value \in Booleans
       \/ e.kind = "number" /\ e.value \in Numbers
ASSUME HandWrittenAssumption ==
  \A f \in HandWritten :
    /\ f \in Seq(Range(f))
    /\ \A i \in DOMAIN f : f[i].tag = "pair" => f[i].text \in Seq(Range(f[i].text))

VARIABLES
  store,      \* [sections, sec_index]
  file,       \* the lines on disk
  expected    \* section and key to the entry that callers expect, or Absent

NoName == ""      \* the section of the keys before the first header
Absent == [kind |-> "none", value |-> <<>>]
Slots == SectionNames \X Keys
NoEntries == [entries |-> <<>>, index |-> <<>>]
EmptyStore == [sections |-> <<>>, sec_index |-> <<>>]

\* lines that load() tells apart: all others are skipped
Header(s) == [tag |-> "section", name |-> s]
Pair(k, text) == [tag |-> "pair", key |-> k, text |-> text]
Skipped == [tag |-> "skipped"]

iniVars == <<store, file, expected>>

InitIni == /\ store = EmptyStore /\ file \in HandWritten
           /\ expected = [slot \in Slots |-> Absent]

\* index.find of a map, where 0 stands for end(), and index.emplace of a new name.
Find(index, name) == IF name \in DOMAIN index THEN index[name] ELSE 0
Emplace(index, name, at) == [n \in DOMAIN index \cup {name} |-> IF n = name THEN at ELSE index[n]]

EnsureSection(st, s) ==
  IF Find(st.sec_index, s) # 0 THEN st
  ELSE [sections |-> Append(st.sections, [name |-> s, body |-> NoEntries]),
        sec_index |-> Emplace(st.sec_index, s, Len(st.sections) + 1)]

\* upsert_string, upsert_numeric
Upsert(st, s, k, e) ==
  LET made == EnsureSection(st, s)
      At(sec) == LET at == Find(sec.index, k)
                     entry == [key |-> k, kind |-> e.kind, value |-> e.value]
                 IN IF at # 0 THEN [sec EXCEPT !.entries[at] = entry]
                    ELSE [entries |-> Append(sec.entries, entry),
                          index |-> Emplace(sec.index, k, Len(sec.entries) + 1)]
  IN [made EXCEPT !.sections[Find(made.sec_index, s)].body = At(@)]

\* (A faulty variant: the positions behind the erased one are not recomputed,
\* and the map answers with the last of all when one is too large.)
StaleIndex(index, gone, names) ==
  [n \in DOMAIN index \ {gone} |-> Min({index[n], Len(names)})]

\* The loop that recomputes an index after an erase.
Reindexed(index, gone, names) ==
  LET kept == Restrict(index, DOMAIN index \ {gone})
  IN [n \in DOMAIN kept \cup Range(names) |->
        IF n \in Range(names) THEN Max({i \in DOMAIN names : names[i] = n}) ELSE kept[n]]

RemoveKey(st, s, k) ==
  LET at == Find(st.sec_index, s)
      Without(sec) == LET i == Find(sec.index, k)
                          left == RemoveAt(sec.entries, i)
                      IN IF i = 0 THEN sec
                         ELSE [entries |-> left,
                               index |-> Reindexed(sec.index, k, [j \in DOMAIN left |-> left[j].key])]
  IN IF at = 0 THEN st ELSE [st EXCEPT !.sections[at].body = Without(@)]

RemoveSection(st, s) ==
  LET at == Find(st.sec_index, s)
      left == RemoveAt(st.sections, at)
  IN IF at = 0 THEN st
     ELSE [sections |-> left,
           sec_index |-> Reindexed(st.sec_index, s, [j \in DOMAIN left |-> left[j].name])]

\* get_string: find_section, then the section's index.
Get(st, s, k) ==
  LET at == Find(st.sec_index, s)
      sec == st.sections[at].body
  IN IF at = 0 \/ Find(sec.index, k) = 0 THEN Absent
     ELSE [kind |-> sec.entries[sec.index[k]].kind, value |-> sec.entries[sec.index[k]].value]

\* save(): no header for the section without a name.
SectionLines(sec) ==
  (IF sec.name = NoName THEN <<>> ELSE <<Header(sec.name)>>)
    \o [i \in DOMAIN sec.body.entries |->
          Pair(sec.body.entries[i].key, Written(sec.body.entries[i]))]

Saved(st) == FlattenSeq([i \in DOMAIN st.sections |-> SectionLines(st.sections[i])])

\* load(): a line belongs to the section of the last header before it.
ReadLine(in, line) ==
  CASE line.tag = "section" -> [st |-> EnsureSection(in.st, line.name), current |-> line.name]
    [] line.tag = "pair" -> [in EXCEPT !.st = Upsert(@, in.current, line.key, ReadBack(line.text))]
    [] OTHER -> in

\* What load() has built after so many lines, and the section it is in.
Reading(lines) ==
  LET after[i \in 0..Len(lines)] ==
        IF i = 0 THEN [st |-> EmptyStore, current |-> NoName] ELSE ReadLine(after[i - 1], lines[i])
  IN after

Loaded(lines) == Reading(lines)[Len(lines)].st

-----------------------------------------------------------------------------
\* set_string, set_string_literal, set_bool, set_int
Set(s, k, e) ==
  /\ Call /\ store' = Upsert(store, s, k, e)
  /\ expected' = [expected EXCEPT ![<<s, k>>] = e] /\ UNCHANGED file

Erase(s, k) ==
  /\ Call /\ store' = RemoveKey(store, s, k)
  /\ expected' = [expected EXCEPT ![<<s, k>>] = Absent] /\ UNCHANGED file

EraseSection(s) ==
  /\ Call /\ store' = RemoveSection(store, s)
  /\ expected' = [slot \in Slots |-> IF slot[1] = s THEN Absent ELSE expected[slot]]
  /\ UNCHANGED file

Save == Call /\ file' = Saved(store) /\ UNCHANGED <<store, expected>>

\* What a reader of the file expects: the last line for a key, in the section
\* of the last header before it, says what its value is.
LastSaid(lines, s, k) ==
  LET governs(h, i) == h < i /\ lines[h].tag = "section"
                       /\ \A j \in h+1..i-1 : lines[j].tag # "section"
      says(i) == /\ lines[i].tag = "pair" /\ lines[i].key = k
                 /\ \/ \E h \in DOMAIN lines : governs(h, i) /\ lines[h].name = s
                    \/ s = NoName /\ \A h \in 1..i-1 : lines[h].tag # "section"
      at == {i \in DOMAIN lines : says(i)}
  IN IF at = {} THEN Absent ELSE ReadBack(lines[Max(at)].text)

Load == /\ Call /\ store' = Loaded(file)
        /\ expected' = [slot \in Slots |-> LastSaid(file, slot[1], slot[2])]
        /\ UNCHANGED file

NextIni ==
  \/ \E s \in SectionNames, k \in Keys : Erase(s, k) \/ \E e \in Entries : Set(s, k, e)
  \/ \E s \in SectionNames : EraseSection(s)
  \/ Save \/ Load

-----------------------------------------------------------------------------
\* Every key reads as it was last set, removed or loaded, whatever was erased
\* in between and however the file was written: the two levels of indices
\* never point at another key's entry.
IniReadsWhatWasSet ==
  \A s \in SectionNames, k \in Keys : Get(store, s, k) = expected[<<s, k>>]

\* What save() writes, load() restores in the same order, if every value can
\* stand in a line, as every name does here, and the section without a name, whose keys have no header,
\* is the first and has keys.
Restorable(st) ==
  \A i \in DOMAIN st.sections :
     /\ st.sections[i].name = NoName => i = 1 /\ st.sections[i].body.entries # <<>>
     /\ \A j \in DOMAIN st.sections[i].body.entries : Storable(st.sections[i].body.entries[j])

IniSurvivesSaveAndLoad == Restorable(store) => Loaded(Saved(store)) = store
=============================================================================
