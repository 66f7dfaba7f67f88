----------------------------- MODULE FileFinder -----------------------------
(***************************************************************************)
(* j2::file::file_finder: a depth-first walk from a root directory, in     *)
(* whatever order the system lists a directory, with options for what is   *)
(* entered and what is taken.  A node is a file, a directory or a link to  *)
(* one; a result is a node as an entry of the real directory it was listed *)
(* in.  The name, extension, time and size filters are one set of nodes;   *)
(* on_visit, which is called with a result in the place of keeping it and  *)
(* may end the walk, is not set.                                           *)
(***************************************************************************)
EXTENDS Integers, SequencesExt

CONSTANTS
  Trees,        \* records [kind, target, children]; the root is Root
  Root,
  Rank,         \* the place of a node in the order that was asked for
  FinderOptions \* records, see TakesEntry and Enters

\* A file system: links lead to files and directories, an entry is in one
\* directory, and the root in none.
ASSUME TreesAssumption ==
  \A t \in Trees :
     /\ IsFiniteSet(DOMAIN t.kind) /\ Root \in DOMAIN t.kind /\ t.kind[Root] = "dir"
     /\ \A n \in DOMAIN t.kind :
          /\ t.children[n] \subseteq DOMAIN t.kind \ {Root}
          /\ t.kind[n] = "link" => t.target[n] \in DOMAIN t.kind /\ t.kind[t.target[n]] # "link"
          /\ \A m \in DOMAIN t.kind : m # n => t.children[m] \cap t.children[n] = {}

\* limit_results is 0 for no limit, and max_depth negative.  file_finder.hpp
\* says of max_depth 0 "children only", but the code lists nothing with it (and
\* asks for the children with 1): here it means what the code does.
ASSUME FinderOptionsAssumption ==
  \A o \in FinderOptions : o.max_depth \in Int /\ o.limit_results \in Nat

ASSUME RankAssumption == \A t \in Trees : \A n \in DOMAIN t.kind : Rank[n] \in Nat

VARIABLES
  fs, opt,      \* what is walked, and how
  frames,       \* the calls of scan_dir_children: [dir, depth, left]
  visited,      \* the real directories entered
  out,          \* results in the order found
  finderPc,     \* "walk", "sort" or "end", or "terminated" by std::terminate
  failed        \* a directory could not be read or an entry not be resolved

finderVars == <<fs, opt, frames, visited, out, finderPc, failed>>

\* What a node leads to: status() follows a link, symlink_status() does not.
Real(node) == IF fs.kind[node] = "link" THEN fs.target[node] ELSE node
IsDir(node) == fs.kind[Real(node)] = "dir"
IsLink(node) == fs.kind[node] = "link"

\* "Is it a result?" (match_name_filters, match_extension and the others)
TakesEntry(node) ==
  /\ node \in opt.matching
  /\ \/ IsLink(node) /\ opt.include_symlinks_as_items
     \/ fs.kind[Real(node)] = "file" /\ opt.include_files
     \/ IsDir(node) /\ opt.include_dirs

\* "Is it walked into?"
Enters(node) == IsDir(node) /\ (opt.follow_symlinks \/ ~IsLink(node))

\* exclude_dir_globs: neither a result nor walked into.
Skips(node) == IsDir(node) /\ node \in opt.excluded

\* A search that is not recursive walks one level.
MaxDepth == IF opt.recursive THEN opt.max_depth ELSE 1

Frame(dir, depth) ==
  [dir |-> dir, depth |-> depth,
   left |-> IF MaxDepth >= 0 /\ depth >= MaxDepth THEN {} ELSE fs.children[dir]]

InitFinder ==
  /\ fs \in Trees /\ opt \in FinderOptions
  /\ visited = {Root} /\ finderPc = "walk" /\ failed = FALSE
  /\ frames = <<Frame(Root, 0)>>
  /\ out = IF opt.include_dirs /\ Root \in opt.matching THEN <<<<Root, Root>>>> ELSE <<>>

-----------------------------------------------------------------------------
\* (A faulty variant: the path is remembered, not the directory it leads to.)
EnteredAs(node) == node

\* What is remembered of a directory that is walked into.
Entered(node) == Real(node)

\* One round of scan_dir_children's loop: the entry is skipped, or it is added
\* to the results, which may reach the limit, and then walked into, which may
\* fail in weakly_canonical.  Where status() fails, nothing is known of the
\* entry but that it is a link.
VisitEntry ==
  /\ finderPc = "walk" /\ frames # <<>>
  /\ LET top == Last(frames)
     IN \E node \in top.left, known \in BOOLEAN :
        LET rest == ReplaceAt(frames, Len(frames), [top EXCEPT !.left = @ \ {node}])
            takes == TakesEntry(node) /\ (known \/ (IsLink(node) /\ opt.include_symlinks_as_items))
            found == IF takes THEN Append(out, <<top.dir, node>>) ELSE out
            enough == found # out /\ opt.limit_results > 0 /\ Len(found) >= opt.limit_results
        IN \/ Skips(node) /\ frames' = rest /\ UNCHANGED <<visited, out, finderPc, failed>>
           \/ /\ ~Skips(node) /\ enough /\ out' = found /\ finderPc' = "sort"
              /\ failed' = (failed \/ ~known) /\ UNCHANGED <<frames, visited>>
           \/ /\ ~Skips(node) /\ ~enough /\ ~known /\ out' = found
              /\ failed' = TRUE /\ frames' = rest /\ UNCHANGED <<visited, finderPc>>
           \/ /\ ~Skips(node) /\ ~enough /\ known /\ out' = found
              /\ \/ /\ Enters(node) /\ Entered(node) \notin visited
                    /\ visited' = visited \cup {Entered(node)}
                    /\ frames' = Append(rest, Frame(Real(node), top.depth + 1))
                    /\ UNCHANGED <<finderPc, failed>>
                 \/ /\ ~(Enters(node) /\ Entered(node) \notin visited)
                    /\ frames' = rest /\ UNCHANGED <<visited, finderPc, failed>>
                 \/ /\ Enters(node) /\ failed' = TRUE
                    /\ frames' = rest /\ finderPc' = IF opt.stop_on_error THEN "sort" ELSE "walk"
                    /\ UNCHANGED visited
  /\ UNCHANGED <<fs, opt>>

\* directory_entry::is_directory() throws where the entry cannot be resolved,
\* in a function that is noexcept: the program is over, and no one has results.
EntryThrows ==
  /\ finderPc = "walk" /\ frames # <<>> /\ Last(frames).left # {}
  /\ finderPc' = "terminated" /\ UNCHANGED <<fs, opt, frames, visited, out, failed>>

\* The directory ends, or cannot be listed (to its end): the loop is over, and
\* an error while listing stops the walk if that was asked for.
LeaveDirectory ==
  /\ finderPc = "walk" /\ frames # <<>>
  /\ \/ /\ Last(frames).left = {} /\ finderPc' = (IF Len(frames) = 1 THEN "sort" ELSE "walk")
        /\ UNCHANGED failed
     \/ /\ Last(frames).left # {} /\ failed' = TRUE
        /\ finderPc' \in {IF Len(frames) = 1 \/ opt.stop_on_error THEN "sort" ELSE "walk",
                          IF Len(frames) = 1 THEN "sort" ELSE "walk"}
  /\ frames' = Front(frames)
  /\ UNCHANGED <<fs, opt, visited, out>>

\* In the order that was asked for, the next is one that none of the rest precedes.
Sorted(results) ==
  LET first[n \in 0..Len(results)] ==
        IF n = 0 THEN <<>>
        ELSE LET rest == Range(results) \ Range(first[n - 1])
             IN Append(first[n - 1], CHOOSE a \in rest : \A b \in rest : Rank[a[2]] =< Rank[b[2]])
  IN first[Len(results)]

\* The results are sorted and cut to the limit, which the root may have passed.
SortAndCut ==
  LET sorted == IF opt.sorted THEN Sorted(out) ELSE out
  IN /\ finderPc = "sort" /\ finderPc' = "end"
     /\ out' = IF opt.limit_results > 0 THEN SubSeq(sorted, 1, Min({Len(sorted), opt.limit_results}))
               ELSE sorted
     /\ UNCHANGED <<fs, opt, frames, visited, failed>>

NextFinder == VisitEntry \/ EntryThrows \/ LeaveDirectory \/ SortAndCut

-----------------------------------------------------------------------------
\* The directories that the entries of some directories lead into, and those
\* within n steps of the root, by any way.
Below(dirs) ==
  {Real(node) : node \in {node \in UNION {fs.children[d] : d \in dirs} : Enters(node) /\ ~Skips(node)}}

Most == Cardinality(DOMAIN fs.kind)
Within[n \in 0..Most] == IF n = 0 THEN {Root} ELSE Within[n - 1] \cup Below(Within[n - 1])

\* The directories whose entries are asked for - none with max_depth 0, see
\* above - and those entries.
Searched ==
  CASE MaxDepth = 0 -> {}
    [] MaxDepth < 0 -> Within[Most]
    [] MaxDepth > 0 -> Within[Min({MaxDepth - 1, Most})]

WantedEntries ==
  {entry \in Searched \X DOMAIN fs.kind :
     entry[2] \in fs.children[entry[1]] /\ ~Skips(entry[2]) /\ TakesEntry(entry[2])}
    \cup {entry \in {<<Root, Root>>} : opt.include_dirs /\ Root \in opt.matching}

\* Whatever the order of the entries, whatever links lead back into the tree:
\* nothing is found twice, nothing is found that was not asked for, and all is
\* found unless reading failed or the limit was reached - or a limit of the
\* depth met links: a directory first reached at the limit by one way is not
\* walked into when it is reached by a shorter one.  (What max_depth 0 asks for
\* is what the code takes it for, not what the header says.)
FinderFindsAll ==
  LET found == Range(out)
      limited == opt.limit_results > 0
      exact == MaxDepth < 0 \/ ~opt.follow_symlinks
  IN /\ \A i, j \in DOMAIN out : out[i] = out[j] => i = j
     /\ found \subseteq WantedEntries
     /\ finderPc = "end" => ~limited \/ Len(out) <= opt.limit_results
     /\ finderPc = "end" /\ ~failed /\ exact =>
          IF limited /\ Cardinality(WantedEntries) > opt.limit_results
          THEN Len(out) = opt.limit_results ELSE found = WantedEntries
=============================================================================
