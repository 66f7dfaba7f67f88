------------------------------- MODULE Values -------------------------------
(***************************************************************************)
(* The components that convert and compute: documents, bits, texts, the    *)
(* string functions, dates, weekly schedules and ciphers.  They share nothing     *)
(* with each other, so a behaviour is one of one of them.                  *)
(***************************************************************************)
EXTENDS XmlParser, BitArray, StringBasic, DateTime, WeeklySchedule, Cipher

VARIABLE subject     \* the component that the behaviour is of

Subjects == {"xml", "bits", "u8", "string", "dates", "weekly", "crypt"}

\* The variables of a component that the behaviour is not of.
NoXml == tokens = 0 /\ at = 0 /\ policy = 0 /\ nodes = 0 /\ calls_ = 0 /\ xmlPc = 0 /\ firstTree = 0
NoBits == array = 0 /\ meant = 0
NoU8 == value_ = 0 /\ text = 0
NoString == subjectText = 0 /\ word = 0
NoDates == tp_ = 0 /\ zone = 0 /\ dateText = 0
NoWeekly == ranges_ = 0 /\ added = 0
NoCipher == m_round_keys = 0 /\ key_ = 0

Init ==
  /\ subject \in Subjects /\ InitCalls
  /\ IF subject = "xml" THEN InitXml ELSE NoXml
  /\ IF subject = "bits" THEN InitBits ELSE NoBits
  /\ IF subject = "u8" THEN InitU8 ELSE NoU8
  /\ IF subject = "string" THEN InitString ELSE NoString
  /\ IF subject = "dates" THEN InitDates ELSE NoDates
  /\ IF subject = "weekly" THEN InitWeekly ELSE NoWeekly
  /\ IF subject = "crypt" THEN InitCipher ELSE NoCipher

textVars == <<u8Vars, stringVars>>
vars == <<subject, calls, xmlVars, bitVars, textVars, dateVars, weeklyVars, cipherVars>>

XmlStep == NextXml /\ UNCHANGED <<calls, bitVars, textVars, dateVars, weeklyVars, cipherVars>>
BitsStep == NextBits /\ UNCHANGED <<xmlVars, textVars, dateVars, weeklyVars, cipherVars>>
U8Step == NextU8 /\ UNCHANGED <<xmlVars, bitVars, stringVars, dateVars, weeklyVars, cipherVars>>
DatesStep == NextDates /\ UNCHANGED <<xmlVars, bitVars, textVars, weeklyVars, cipherVars>>
WeeklyStep == NextWeekly /\ UNCHANGED <<calls, xmlVars, bitVars, textVars, dateVars, cipherVars>>
CryptStep == NextCipher /\ UNCHANGED <<xmlVars, bitVars, textVars, dateVars, weeklyVars>>

Next ==
  /\ UNCHANGED subject
  /\ \/ subject = "xml" /\ XmlStep
     \/ subject = "bits" /\ BitsStep
     \/ subject = "u8" /\ U8Step
     \/ subject = "dates" /\ DatesStep
     \/ subject = "weekly" /\ WeeklyStep
     \/ subject = "crypt" /\ CryptStep

Spec == Init /\ [][Next]_vars

-----------------------------------------------------------------------------
\* A document is read as it is written: elements and attributes are in the
\* namespaces that are declared for them, a tree survives being written and
\* parsed again, and a path finds what fits it.
DocumentsReadAsWritten ==
  subject = "xml" => NamespacesAreScoped /\ XmlSurvivesSerialization /\ XPathFindsWhatFits

\* Bits that are cut, joined, shifted and reversed across the bytes stay in order,
\* and a text that is padded to whole blocks and encrypted is decrypted to itself.
BitsAreNeitherLostNorMoved ==
  /\ subject = "bits" => BitsStayInOrder
  /\ subject = "crypt" => TextsAreDecrypted

\* Texts stay UTF-8 whatever is done to them, and all converters agree.
TextsStayUtf8 == subject = "u8" => CallsWorkOnCodePoints /\ ConversionsAgree

\* The string functions do what they say, each by a loop of its own.
StringFunctionsAgree == subject = "string" => StringHelpersAgree

\* Dates are read as they are written, by all of the readers, and moved by months.
DatesReadAsWritten ==
  subject = "dates" => InstantIsReadAsWritten /\ TextsAreRead /\ MonthsAreCounted

\* What the test of from_tm says: local time and UTC, of the same fields, are
\* apart by what utc_offset_seconds() returns.
UtcOffsetIsTrue == subject = "dates" => OffsetSeparatesTheZones

\* Merging neither loses nor invents a minute, and leaves nothing to merge.
ScheduleIsWhatWasAsked == subject = "weekly" => ActiveExactlyWhenAsked /\ Separated

\* Written to JSON and loaded, or cut into days, a schedule stays what it is.
ScheduleSurvives == subject = "weekly" => JsonRoundTrip /\ NormalizePreservesActivity
=============================================================================
