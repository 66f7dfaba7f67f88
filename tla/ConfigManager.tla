--------------------------- MODULE ConfigManager ---------------------------
(***************************************************************************)
(* j2::config::config_manager: the lines of a settings file, in which the  *)
(* first line with a key holds its value and all other lines, comments and *)
(* blank ones, are kept as they are.  Every operation holds one mutex, so  *)
(* each is a step.                                                         *)
(***************************************************************************)
EXTENDS IniText, Calls

CONSTANTS
  Settings, SettingValues,   \* texts that set() is given as keys and values
  ConfigFiles                \* files as an editor left them

\* A file is a sequence of lines, and a line is a text without a line feed.
ASSUME ConfigFilesAssumption ==
  \A f \in ConfigFiles :
    /\ f \in Seq(Range(f))
    /\ \A i \in DOMAIN f : f[i] \in Seq(Range(f[i])) /\ "\n" \notin Range(f[i])
ASSUME SettingsAssumption == \A t \in Settings \cup SettingValues : t \in Seq(Range(t))

VARIABLES
  m_lines,         \* what load() and set() built
  configFile,      \* the lines on disk
  believed         \* the value that callers expect of each key, or NoSetting

NoSetting == <<"none">>
configVars == <<m_lines, configFile, believed>>

\* config_line: of a data line, only key and value are looked at.
Data(k, v) == [is_data |-> TRUE, key |-> k, value |-> v]
Other(raw) == [is_data |-> FALSE, raw_text |-> raw]

InitConfig == /\ m_lines = <<>> /\ configFile \in ConfigFiles
              /\ believed = [k \in Settings |-> NoSetting]

\* (A faulty variant: every escaped character stands for itself.)
ProcessAnyEscape(v) == Decoded(v, [c \in Range(v) |-> <<c>>])

\* process_escape: inside double quotes, \" is replaced first and \\ afterwards.
ProcessEscape(v) ==
  IF Quoted(v, Quote)
  THEN Decoded(DecodeLiteral(Inner(v)), [c \in {Back} |-> <<c>>])
  ELSE v

\* (A faulty variant: the scan does not stop at the first line.)
LastWith(lines, k) ==
  {i \in DOMAIN lines : /\ lines[i].is_data /\ lines[i].key = k
                        /\ \A j \in i+1..Len(lines) : ~(lines[j].is_data /\ lines[j].key = k)}

FirstWith(lines, k) ==
  {i \in DOMAIN lines : /\ lines[i].is_data /\ lines[i].key = k
                        /\ \A j \in 1..i-1 : ~(lines[j].is_data /\ lines[j].key = k)}

GetString(lines, k) ==
  IF FirstWith(lines, k) = {} THEN NoSetting
  ELSE lines[CHOOSE i \in FirstWith(lines, k) : TRUE].value

\* load() of a line: blank ones, comments and those without '=' are kept as text.
ParseLine(text) ==
  LET t == Trim(text)
      seps == {i \in DOMAIN t : t[i] = "="}
  IN IF seps = {} \/ t[1] = "#" THEN Other(text)
     ELSE Data(Trim(SubSeq(t, 1, Min(seps) - 1)),
               ProcessEscape(Trim(SubSeq(t, Min(seps) + 1, Len(t)))))
Parsed(texts) == [i \in DOMAIN texts |-> ParseLine(texts[i])]

\* save(): "key = value" as they are, without quotes or escapes.
TextOf(line) ==
  IF line.is_data THEN line.key \o <<" ", "=", " ">> \o line.value ELSE line.raw_text

\* What load() finds where save() wrote a text and a line feed: a line feed
\* within the text ends a line too.
AddCharacter(texts, c) ==
  IF c = "\n" THEN Append(texts, <<>>) ELSE [texts EXCEPT ![Len(texts)] = Append(@, c)]
LinesOf(text) ==
  LET read[i \in 0..Len(text)] ==
        IF i = 0 THEN <<<<>>>> ELSE AddCharacter(read[i - 1], text[i])
  IN read[Len(text)]
Printed(lines) == FlattenSeq([i \in DOMAIN lines |-> LinesOf(TextOf(lines[i]))])

-----------------------------------------------------------------------------
SetSetting(k, v) ==
  /\ Call
  /\ m_lines' = IF FirstWith(m_lines, k) = {} THEN Append(m_lines, Data(k, v))
                ELSE [i \in DOMAIN m_lines |-> IF i \in FirstWith(m_lines, k) THEN Data(k, v) ELSE m_lines[i]]
  /\ believed' = [believed EXCEPT ![k] = v]
  /\ UNCHANGED configFile

\* load(), and a load() of a file that cannot be opened, which changes nothing.
LoadSettings ==
  /\ Call /\ m_lines' = Parsed(configFile)
  /\ believed' = [k \in Settings |-> LET said == {i \in DOMAIN configFile :
                                           LET line == ParseLine(configFile[i])
                                           IN line.is_data /\ line.key = k}
                                     IN IF said = {} THEN NoSetting
                                        ELSE ParseLine(configFile[Min(said)]).value]
  /\ UNCHANGED configFile

SaveSettings == Call /\ configFile' = Printed(m_lines) /\ UNCHANGED <<m_lines, believed>>

NextConfig == \/ \E k \in Settings, v \in SettingValues : SetSetting(k, v)
              \/ LoadSettings \/ SaveSettings

-----------------------------------------------------------------------------
\* get_string() answers with what was last set or loaded, also for a file that
\* holds a key twice: the line that set() updates is the one that get() reads.
ConfigReadsWhatWasSet == \A k \in Settings : GetString(m_lines, k) = believed[k]

\* A data line that save() writes and load() reads as the same.  Others do not
\* come back: a blank at an end is trimmed, double quotes around a value are
\* taken off, a line feed makes two lines, a '=' in the key ends it, and a key
\* that begins with '#' makes a comment of its line.
Plain(line) ==
  /\ line.key = Trim(line.key) /\ line.value = Trim(line.value)
  /\ ~Quoted(line.value, Quote)
  /\ "\n" \notin Range(line.key) \cup Range(line.value)
  /\ "=" \notin Range(line.key) /\ (line.key # <<>> => line.key[1] # "#")

\* If all data lines are of this kind, saving and loading keeps every line,
\* comments and repeated keys included, in its place and with its value.
ConfigSurvivesSaveAndLoad ==
  (\A i \in DOMAIN m_lines : m_lines[i].is_data => Plain(m_lines[i]))
    => Parsed(Printed(m_lines)) = m_lines
=============================================================================
