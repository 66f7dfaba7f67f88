------------------------ MODULE MultipartDownloader ------------------------
(***************************************************************************)
(* j2::network::downloader::multipart_downloader: fetches one multipart    *)
(* response into memory, then writes its parts one after the other, each   *)
(* to <name>.part and from there by rename to <name>.  A body is a         *)
(* sequence of tokens: the marker "--boundary", what closes it ("--"), a   *)
(* line end, header lines (some of which name a file) and data.            *)
(***************************************************************************)
EXTENDS SequencesExt

CONSTANTS
  PartLists,               \* what servers send: sequences of [header, data]
  FilenameLines            \* the header lines that name a file

VARIABLES
  sent,                    \* the parts the server meant to send
  body,                    \* the tokens received: all of them, or cut short
  mdPc, pos, part_index,   \* where download_multipart() is
  current,                 \* name and data of the part it writes
  delete_partial_on_fail_,
  temp, final,             \* the files <name>.part and <name> on disk
  saved_files,             \* what callers are told
  lostInFlush              \* files whose bytes were lost at close, unnoticed

mdVars == <<sent, body, mdPc, pos, part_index, current, delete_partial_on_fail_,
            temp, final, saved_files, lostInFlush>>

Marker == "marker"
Dashes == "--"
LineEnd == "crlf"

\* Parts that fit one response: no header holds an empty line or ends with a
\* line end of its own, and no line of the data begins with the marker.
ASSUME PartListsAssumption ==
  \A parts \in PartLists :
    /\ parts \in Seq(Range(parts))
    /\ \A i \in DOMAIN parts :
         LET head == parts[i].header
             data == parts[i].data
         IN /\ head \in Seq(Range(head)) /\ data \in Seq(Range(data))
            /\ \A k \in DOMAIN head : head[k] = LineEnd => k # Len(head) /\ head[k + 1] # LineEnd
            /\ \A k \in 1..Len(data) - 1 : ~(data[k] = LineEnd /\ data[k + 1] = Marker)

Rendered(parts) ==
  FlattenSeq([i \in DOMAIN parts |->
      (IF i = 1 THEN <<>> ELSE <<LineEnd>>) \o <<Marker, LineEnd>> \o parts[i].header
        \o <<LineEnd, LineEnd>> \o parts[i].data])
    \o <<LineEnd, Marker, Dashes>>

InitDownload ==
  /\ sent \in PartLists
  /\ \E n \in 0..Len(Rendered(sent)) : body = SubSeq(Rendered(sent), 1, n)
  /\ mdPc = "fetch" /\ pos = 1 /\ part_index = 0 /\ current = <<>>
  /\ delete_partial_on_fail_ \in BOOLEAN
  /\ temp = <<>> /\ final = <<>> /\ saved_files = <<>> /\ lostInFlush = {}

\* (A faulty variant: what ends the data is the marker, wherever it is.)
FindMarkerOnly(str, p) ==
  LET at == {i \in p..Len(body) : body[i] = str[Len(str)]} IN IF at = {} THEN 0 ELSE Min(at)

\* find of a string in body from position p on; 0 stands for npos.
FindFrom(str, p) ==
  LET at == {i \in p..(Len(body) - Len(str) + 1) : SubSeq(body, i, i + Len(str) - 1) = str}
  IN IF at = {} THEN 0 ELSE Min(at)

\* extract_filename_from_content_disposition, or part_<index>.bin
NameOf(block, index) ==
  LET named == {i \in DOMAIN block : block[i] \in FilenameLines}
  IN IF named = {} THEN "part_" \o ToString(index) ELSE block[Min(named)]

StoreAs(disk, name, data) == [n \in DOMAIN disk \cup {name} |-> IF n = name THEN data ELSE disk[n]]
Without(disk, name) == Restrict(disk, DOMAIN disk \ {name})

-----------------------------------------------------------------------------
Returns(ok) == mdPc' = IF ok THEN "true" ELSE "false"

\* curl_easy_init or _perform fails, on_progress() aborts, or no boundary.
FetchFails ==
  /\ mdPc = "fetch" /\ Returns(FALSE)
  /\ UNCHANGED <<sent, body, pos, part_index, current, delete_partial_on_fail_, temp, final, saved_files, lostInFlush>>

FetchSucceeds ==
  /\ mdPc = "fetch" /\ mdPc' = "scan"
  /\ UNCHANGED <<sent, body, pos, part_index, current, delete_partial_on_fail_, temp, final, saved_files, lostInFlush>>

\* The loop's head: the next marker, its headers, and the data up to the next
\* line end with a marker behind it - or up to the end of what was received.
Scan ==
  LET bpos == FindFrom(<<Marker>>, pos)
      cur == IF bpos + 1 <= Len(body) /\ body[bpos + 1] = LineEnd THEN bpos + 2 ELSE bpos + 1
      header_end == FindFrom(<<LineEnd, LineEnd>>, cur)
      found == FindFrom(<<LineEnd, Marker>>, header_end + 2)
      next == IF found = 0 THEN Len(body) + 1 ELSE found
  IN /\ mdPc = "scan"
     /\ \/ /\ bpos = 0 \/ (bpos < Len(body) /\ body[bpos + 1] = Dashes)
           /\ Returns(saved_files # <<>>)
           /\ UNCHANGED <<pos, current>>
        \/ /\ bpos # 0 /\ ~(bpos < Len(body) /\ body[bpos + 1] = Dashes) /\ header_end = 0
           /\ Returns(FALSE) /\ UNCHANGED <<pos, current>>
        \/ /\ bpos # 0 /\ ~(bpos < Len(body) /\ body[bpos + 1] = Dashes) /\ header_end # 0
           /\ current' = [name |-> NameOf(SubSeq(body, cur, header_end - 1), part_index),
                          data |-> SubSeq(body, header_end + 2, next - 1)]
           /\ pos' = next /\ mdPc' = "write"
     /\ UNCHANGED <<sent, body, part_index, delete_partial_on_fail_, temp, final, saved_files, lostInFlush>>

\* (A faulty variant: the failing write returns without the deletion.)
KeepPartial(left) ==
  /\ Returns(FALSE) /\ temp' = left
  /\ UNCHANGED <<sent, body, pos, part_index, current, delete_partial_on_fail_, final, saved_files, lostInFlush>>

\* The temporary file cannot be created, or a write fails half-way.
Fails(left) ==
  /\ Returns(FALSE)
  /\ temp' = IF delete_partial_on_fail_ THEN Without(temp, current.name) ELSE left
  /\ UNCHANGED <<sent, body, pos, part_index, current, delete_partial_on_fail_, final, saved_files, lostInFlush>>

WriteFails ==
  /\ mdPc = "write"
  /\ Fails(temp) \/ Fails(StoreAs(temp, current.name, <<>>))

\* What fits the stream's buffer reaches the disk when the stream is closed,
\* where nobody looks at its state any more.
Write ==
  /\ mdPc = "write" /\ mdPc' = "rename"
  /\ \E reached \in {current.data, <<>>} : temp' = StoreAs(temp, current.name, reached)
  /\ UNCHANGED <<sent, body, pos, part_index, current, delete_partial_on_fail_, final, saved_files, lostInFlush>>

Rename ==
  /\ mdPc = "rename" /\ mdPc' = "scan"
  /\ final' = StoreAs(final, current.name, temp[current.name])
  /\ temp' = Without(temp, current.name)
  /\ saved_files' = Append(saved_files, current.name)
  /\ part_index' = part_index + 1
  /\ lostInFlush' = IF temp[current.name] = current.data THEN lostInFlush \ {current.name}
                    ELSE lostInFlush \cup {current.name}
  /\ UNCHANGED <<sent, body, pos, current, delete_partial_on_fail_>>

RenameFails == mdPc = "rename" /\ Fails(temp)

NextDownload == \/ FetchFails \/ FetchSucceeds \/ Scan \/ WriteFails \/ Write \/ Rename \/ RenameFails

-----------------------------------------------------------------------------
\* The parts that were sent whole and those of which only a beginning arrived
\* are numbered alike: the saved files are the first parts, in order, under
\* their names.  Each file holds its whole part (the last one of its name),
\* unless the disk lost it in the flush or the response was cut within it;
\* true is returned for a whole response exactly when all its parts are saved.
DownloadDeliversParts ==
  LET nameOf(i) == NameOf(sent[i].header, i - 1)
      lastOf(n) == Max({i \in DOMAIN saved_files : saved_files[i] = n})
      whole == body = Rendered(sent)
  IN /\ Len(saved_files) <= Len(sent)
     /\ \A i \in DOMAIN saved_files : saved_files[i] = nameOf(i)
     /\ \A n \in DOMAIN final \ lostInFlush :
          \/ final[n] = sent[lastOf(n)].data
          \/ ~whole /\ lastOf(n) = Len(saved_files) /\ IsPrefix(final[n], sent[lastOf(n)].data \o <<LineEnd>>)
     /\ whole /\ mdPc = "true" => Len(saved_files) = Len(sent)

\* A failed download leaves no temporary file when that was asked for.
NoPartialFileLeft ==
  mdPc \in {"true", "false"} /\ delete_partial_on_fail_ => temp = <<>>
=============================================================================
