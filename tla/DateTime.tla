------------------------------ MODULE DateTime ------------------------------
(***************************************************************************)
(* j2::datetime: texts are read as dates by a format or as ISO 8601, dates *)
(* are written by a format; v1::date_time is an instant with milliseconds  *)
(* that is moved by durations, months and years.  And the third reader of  *)
(* dates, j2::xml's.  A text is a sequence of characters, a format one of  *)
(* tokens and characters, a std::tm a record of the tokens' values.        *)
(***************************************************************************)
EXTENDS Integers, SequencesExt, Calls

CONSTANTS
  LocalOffset,   \* seconds that the local time is ahead of UTC, always the same
  Moments,       \* instants that the program starts from: [s, ms]
  Formats, IsoTexts,
  FirstYear      \* bound: no instant before it, nor later than 2037

VARIABLES
  tp_,           \* the instant as chrono has it: ms has the sign of the whole
  zone,          \* of its calendar fields: "utc" or "local_time"
  dateText       \* a text from elsewhere, that is only read; else empty

dateVars == <<tp_, zone, dateText>>
Zones == {"utc", "local_time"}
Failed == [ok |-> FALSE]
Read(s, ms) == [ok |-> TRUE, epoch |-> s, millisecond |-> ms]

Digits == {"0", "1", "2", "3", "4", "5", "6", "7", "8", "9"}
DigitOf == <<"0", "1", "2", "3", "4", "5", "6", "7", "8", "9">>
DigitValue == [c \in Digits |-> (CHOOSE i \in 1..10 : DigitOf[i] = c) - 1]

Width == [YYYY |-> 4, MM |-> 2, DD |-> 2, hh |-> 2, mm |-> 2, ss |-> 2, SSS |-> 3]
Fields == DOMAIN Width \ {"SSS"}

-----------------------------------------------------------------------------
\* is_leap, valid_ymd
IsLeap(y) == (y % 4 = 0 /\ y % 100 # 0) \/ y % 400 = 0
DaysInMonth(y, m) ==
  CASE m = 2 -> IF IsLeap(y) THEN 29 ELSE 28 [] m \in {4, 6, 9, 11} -> 30 [] OTHER -> 31

\* (A faulty variant: February has 29 days.)
ValidAnyFebruary(y, m, d) == m \in 1..12 /\ d >= 1 /\ d <= (IF m = 2 THEN 29 ELSE DaysInMonth(y, m))

ValidYmd(y, m, d) == m \in 1..12 /\ d >= 1 /\ d <= DaysInMonth(y, m)

\* The C library: timegm takes fields out of their range as they are meant, and
\* gmtime's fields are those that timegm takes back.
DaysBeforeYear(y) == 365 * y + (y - 1) \div 4 - (y - 1) \div 100 + (y - 1) \div 400
DaysBeforeMonth(y, m) == FoldLeft(LAMBDA n, k : n + DaysInMonth(y, k), 0, [k \in 1..m-1 |-> k])

Timegm(tm) ==
  LET y == tm.YYYY + (tm.MM - 1) \div 12
      m == ((tm.MM - 1) % 12) + 1
      days == DaysBeforeYear(y) - DaysBeforeYear(1970) + DaysBeforeMonth(y, m) + tm.DD - 1
  IN 86400 * days + 3600 * tm.hh + 60 * tm.mm + tm.ss

Gmtime(t) ==
  LET days == t \div 86400 + DaysBeforeYear(1970)
      y == CHOOSE y \in FirstYear..2037 : DaysBeforeYear(y) <= days /\ days < DaysBeforeYear(y + 1)
      m == CHOOSE m \in 1..12 : days - DaysBeforeYear(y) - DaysBeforeMonth(y, m) \in 0..DaysInMonth(y, m)-1
  IN [YYYY |-> y, MM |-> m, DD |-> days - DaysBeforeYear(y) - DaysBeforeMonth(y, m) + 1,
      hh |-> (t % 86400) \div 3600, mm |-> (t % 3600) \div 60, ss |-> t % 60]

Offset(tz) == IF tz = "utc" THEN 0 ELSE LocalOffset
Mktime(tm) == Timegm(tm) - LocalOffset

\* tm_to_time_utc, tm_to_time_local: the second before the epoch is an error.
ToTime(tm, tz, shift, ms) ==
  LET t == Timegm(tm) - Offset(tz) IN IF t = -1 THEN Failed ELSE Read(t - shift, ms)

-----------------------------------------------------------------------------
\* read_ndigits
ReadDigits(s, p, n) ==
  IF p + n - 1 > Len(s) \/ \E i \in p..p+n-1 : s[i] \notin Digits THEN -1
  ELSE FoldLeft(LAMBDA v, c : 10 * v + DigitValue[c], 0, SubSeq(s, p, p + n - 1))

\* append_ndigits, and pad2, pad3, pad4
Padded(v, n) == [i \in 1..n |-> DigitOf[((v \div 10^(n - i)) % 10) + 1]]

\* parse_strict_datetime_ex_impl; base is a tm, or <<>> for none.
ParseStrict(text, format, tz, base) ==
  LET Take(st, f) ==
        LET v == ReadDigits(text, st.ip, Width[f])
        IN CASE ~st.ok -> st
             [] st.ok /\ f \in DOMAIN Width ->
                  [ok |-> v # -1, ip |-> st.ip + Width[f], values |-> (f :> v) @@ st.values]
             [] OTHER -> [st EXCEPT !.ok = st.ip <= Len(text) /\ text[st.ip] = f, !.ip = @ + 1]
      end == FoldLeft(Take, [ok |-> TRUE, ip |-> 1, values |-> <<>>], format)
      present == DOMAIN end.values
      tm == [f \in Fields |-> IF f \in present THEN end.values[f] ELSE base[f]]
      inRange == /\ "hh" \in present => tm.hh <= 23
                 /\ "mm" \in present => tm.mm <= 59
                 /\ "ss" \in present => tm.ss <= 59
                 /\ present \cap {"YYYY", "MM", "DD"} # {} => ValidYmd(tm.YYYY, tm.MM, tm.DD)
  IN IF ~end.ok \/ end.ip # Len(text) + 1 \/ (base = <<>> /\ ~(Fields \subseteq present)) \/ ~inRange
       THEN Failed
       ELSE ToTime(tm, tz, 0, IF "SSS" \in present THEN end.values["SSS"] ELSE 0)

\* current_time_string; format_from_tm_core copies what it takes for no token.
FormatNow(tm, ms, format) ==
  FlattenSeq([i \in DOMAIN format |->
    IF format[i] \in Fields THEN Padded(tm[format[i]], Width[format[i]])
    ELSE IF format[i] = "SSS" THEN Padded(ms, 3) ELSE <<format[i]>>])

FormatTime(tm, format) ==
  FlattenSeq([i \in DOMAIN format |->
    IF format[i] \in Fields THEN Padded(tm[format[i]], Width[format[i]])
    ELSE IF format[i] = "SSS" THEN <<"S", "S", "S">> ELSE <<format[i]>>])
-----------------------------------------------------------------------------
\* A digit stands for any digit in a pattern.
Has(s, p, pattern) ==
  /\ p + Len(pattern) - 1 <= Len(s)
  /\ \A i \in DOMAIN pattern : IF pattern[i] = "9" THEN s[p + i - 1] \in Digits ELSE s[p + i - 1] = pattern[i]

HasOneOf(s, p, chars) == p <= Len(s) /\ s[p] \in chars

\* parse_tz_offset: what is at p, and where it ends; end = 0 if it is no zone.
TzOffset(s, p) ==
  LET minutesAt == IF HasOneOf(s, p + 3, {":"}) THEN p + 4 ELSE p + 3
      seconds == 3600 * ReadDigits(s, p + 1, 2)
                   + (IF Has(s, minutesAt, <<"9", "9">>) THEN 60 * ReadDigits(s, minutesAt, 2) ELSE 0)
  IN CASE HasOneOf(s, p, {"Z", "z"}) -> [offset |-> 0, end |-> p + 1]
       [] HasOneOf(s, p, {"+", "-"}) /\ Has(s, p + 1, <<"9", "9">>)
            /\ (Has(s, minutesAt, <<"9", "9">>) \/ minutesAt = p + 3) ->
            [offset |-> IF s[p] = "-" THEN -seconds ELSE seconds,
             end |-> IF Has(s, minutesAt, <<"9", "9">>) THEN minutesAt + 2 ELSE p + 3]
       [] OTHER -> [offset |-> 0, end |-> 0]

\* The number of digits at p, as many as may be read.
DigitsAt(s, p, most) ==
  CHOOSE n \in 0..most : /\ \A i \in p..p+n-1 : HasOneOf(s, i, Digits)
                         /\ n < most => ~HasOneOf(s, p + n, Digits)

\* The first digits of a fraction of n digits, padded to width.
FractionDigits(s, p, n, width) ==
  LET k == IF n < width THEN n ELSE width IN (IF k = 0 THEN 0 ELSE ReadDigits(s, p, k)) * 10^(width - k)

\* parse_iso8601_strict.  A date alone has the time -1:-1, a time alone the date
\* of today, in the zone that is given with it.
ParseIso(s, tz, now) ==
  LET hasDate == Has(s, 1, <<"9", "9", "9", "9", "-", "9", "9", "-", "9", "9">>)
      hasTime == ~hasDate \/ HasOneOf(s, 11, {"T", "t", " "})
      p == IF hasDate THEN 12 ELSE 1
      timed == Has(s, p, <<"9", "9", ":", "9", "9">>)
      hasSeconds == hasTime /\ HasOneOf(s, p + 5, {":"})
      timeEnd == IF ~hasTime THEN 11 ELSE IF hasSeconds THEN p + 8 ELSE p + 5
      hasFraction == hasTime /\ HasOneOf(s, timeEnd, {"."})
      n == IF hasFraction THEN DigitsAt(s, timeEnd + 1, 9) ELSE 0
      tzAt == IF hasFraction THEN timeEnd + 1 + n ELSE timeEnd
      tzRead == TzOffset(s, tzAt)
      hasTz == tzRead.end # 0
      today == Gmtime(now + (IF hasTz THEN tzRead.offset ELSE Offset(tz)))
      field(p1, width, otherwise, there) == IF there THEN ReadDigits(s, p1, width) ELSE otherwise
      tm == [YYYY |-> field(1, 4, today.YYYY, hasDate), MM |-> field(6, 2, today.MM, hasDate),
             DD |-> field(9, 2, today.DD, hasDate), hh |-> field(p, 2, -1, hasTime),
             mm |-> field(p + 3, 2, -1, hasTime), ss |-> field(p + 6, 2, 0, hasSeconds)]
  IN IF \/ hasTime /\ ~timed
        \/ hasSeconds /\ ~Has(s, p + 6, <<"9", "9">>)
        \/ hasFraction /\ n = 0
        \/ Len(s) + 1 # (IF hasTz THEN tzRead.end ELSE tzAt)
       THEN Failed
       ELSE ToTime(tm, IF hasTz THEN "utc" ELSE tz, IF hasTz THEN tzRead.offset ELSE 0,
                   FractionDigits(s, timeEnd + 1, n, 3))

\* stoi: the digits that a text begins with, without the blanks and signs that
\* it would skip.
Stoi(s, p, n) ==
  LET k == DigitsAt(s, p, n) IN IF k = 0 THEN -1 ELSE ReadDigits(s, p, k)

\* xml::parse_iso8601_datetime, of a trimmed text: what follows the fraction is
\* ignored, the time is taken as local time.
ParseXml(s) ==
  LET n == DigitsAt(s, 21, Len(s))
      alone == Len(s) = 10
      field(p, width) == IF alone /\ p > 10 THEN 0 ELSE Stoi(s, p, width)
      tm == [YYYY |-> field(1, 4), MM |-> field(6, 2), DD |-> field(9, 2),
             hh |-> field(12, 2), mm |-> field(15, 2), ss |-> field(18, 2)]
      formed == /\ Len(s) >= 10 /\ s[5] = "-" /\ s[8] = "-"
                /\ alone \/ (Len(s) >= 19 /\ s[11] \in {"T", "t", " "} /\ s[14] = ":" /\ s[17] = ":")
  IN IF ~formed \/ \E f \in Fields : tm[f] = -1 THEN Failed
     ELSE ToTime(tm, "local_time", 0, IF HasOneOf(s, 20, {"."}) THEN FractionDigits(s, 21, n, 9) \div 10^6 ELSE 0)

\* xml::parse_unix_epoch_seconds and _millis, of a trimmed text: stoll takes the
\* sign and the digits up to whatever follows, and there must be a digit.
Stoll(s) ==
  LET signed == HasOneOf(s, 1, {"+", "-"})
      first == IF signed THEN 2 ELSE 1
      n == DigitsAt(s, first, Len(s))
      v == IF n = 0 THEN 0 ELSE ReadDigits(s, first, n)
  IN [ok |-> n > 0, value |-> IF signed /\ s[1] = "-" THEN -v ELSE v]

ParseEpochSeconds(s) == IF Stoll(s).ok THEN Read(Stoll(s).value, 0) ELSE Failed
ParseEpochMillis(s) ==
  IF Stoll(s).ok THEN Read(Stoll(s).value \div 1000, Stoll(s).value % 1000) ELSE Failed

-----------------------------------------------------------------------------
\* v1::date_time: to_time_t() cuts the milliseconds off towards zero.
Instant(seconds, msecs) ==
  LET s == seconds + msecs \div 1000
      ms == msecs % 1000
  IN IF s < 0 /\ ms > 0 THEN [s |-> s + 1, ms |-> ms - 1000] ELSE [s |-> s, ms |-> ms]

AddMsecs(tp, n) == Instant(tp.s, tp.ms + n)
AddDays(tp, d) == Instant(tp.s + 86400 * d, tp.ms)

ToTm(tp, spec) == Gmtime(tp.s + Offset(spec))

\* (A faulty variant: the month is turned over into the next year, but not back.)
AddMonthsForward(tp, spec, n) ==
  LET tm == ToTm(tp, spec)
      m == tm.MM + n
  IN Instant(Timegm([tm EXCEPT !.MM = IF m < 1 THEN m + 12 ELSE m]) - Offset(spec), tp.ms)

\* add_months and add_years by adjust_calendar: a day that the month has not is
\* one of the next month.
AddMonths(tp, spec, n) ==
  Instant(Timegm([ToTm(tp, spec) EXCEPT !.MM = @ + n]) - Offset(spec), tp.ms)
AddYears(tp, spec, n) ==
  Instant(Timegm([ToTm(tp, spec) EXCEPT !.YYYY = @ + n]) - Offset(spec), tp.ms)

\* utc_offset_seconds
UtcOffsetSeconds == Mktime(ToTm(tp_, "local_time")) - Timegm(ToTm(tp_, "utc"))

InitDates ==
  /\ zone \in Zones
  /\ \/ tp_ \in Moments /\ dateText = <<>>
     \/ tp_ = [s |-> 0, ms |-> 0] /\ dateText \in IsoTexts

Moves(tp) == Call /\ dateText = <<>> /\ tp_' = tp /\ UNCHANGED <<zone, dateText>>

NextDates ==
  \/ \E n \in {-1, 1} : \/ Moves(AddMsecs(tp_, 600 * n))
                        \/ Moves(AddDays(tp_, n))
                        \/ Moves(AddMonths(tp_, zone, n))
                        \/ Moves(AddYears(tp_, zone, n))
  \/ Call /\ dateText = <<>> /\ zone' \in Zones \ {zone} /\ UNCHANGED <<tp_, dateText>>      \* to_utc, to_local_time
-----------------------------------------------------------------------------
IsoFormat == <<"YYYY", "-", "MM", "-", "DD", "T", "hh", ":", "mm", ":", "ss", ".", "SSS">>
ToTheSecond == SubSeq(IsoFormat, 1, 11)
NineHours == {<<"+", "0", "9", ":", "0", "0">>, <<"+", "0", "9", "0", "0">>, <<"+", "0", "9">>}

\* The suffixes with which a text names the zone it is written in.
ZoneMarks(offset) == CASE offset = 0 -> {<<"Z">>, <<"-", "0", "0">>} [] offset = 32400 -> NineHours

\* A number as it is written, with leading zeros.
Decimal(n) == (IF n < 0 THEN <<"-">> ELSE <<>>) \o Padded(IF n < 0 THEN -n ELSE n, 10)

\* Read as written: what a format writes of an instant is read as the instant by
\* the same format, by the ISO parser in whatever zone and on the same day also
\* without the date, by the XML reader in the local zone, and as a number of
\* seconds or milliseconds since the epoch; a token that is missing comes from
\* the base.  (Not the second before the epoch.)
InstantIsReadAsWritten ==
  LET tm == ToTm(tp_, zone)
      here == Read(tp_.s, tp_.ms)
      written == FormatNow(tm, tp_.ms, IsoFormat)
  IN tp_.ms >= 0 /\ tp_.s # -1 =>
       /\ \A f \in Formats :
            /\ ParseStrict(FormatNow(tm, tp_.ms, f), f, zone, tm)
                 = (IF "SSS" \in Range(f) THEN here ELSE Read(tp_.s, 0))
            /\ LET r == ParseStrict(FormatTime(tm, f), f, zone, <<>>)
               IN IF Fields \subseteq Range(f) /\ "SSS" \notin Range(f) THEN r = Read(tp_.s, 0) ELSE r = Failed
       /\ ParseIso(written, zone, 0) = here
       /\ zone = "local_time" => ParseXml(written) = here
       /\ ParseEpochSeconds(Decimal(tp_.s)) = Read(tp_.s, 0)
       /\ tp_.s \in -2000000..2000000 => ParseEpochMillis(Decimal(1000 * tp_.s + tp_.ms)) = here
       /\ \A offset \in {0, 32400} : \A suffix \in ZoneMarks(offset) :
            LET there == FormatNow(Gmtime(tp_.s + offset), tp_.ms, IsoFormat) \o suffix
            IN tp_.s + offset # -1 =>
                 /\ ParseIso(there, zone, 0) = here
                 /\ ParseIso(SubSeq(there, 12, Len(there)), zone, tp_.s) = here

\* A text that is read strictly names a day and a time that there are: written
\* again it is the same text; and two readers that both accept a text with a
\* time and no zone agree on it.
TextsAreRead ==
  LET strict == ParseStrict(dateText, ToTheSecond, zone, <<>>)
      iso == ParseIso(dateText, zone, 0)
      xml == ParseXml(dateText)
      later == {dateText[i] : i \in 11..Len(dateText)}
  IN /\ strict.ok => /\ FormatTime(Gmtime(strict.epoch + Offset(zone)), ToTheSecond) = dateText
                      /\ strict = iso
     /\ iso.ok /\ xml.ok /\ zone = "local_time" /\ Len(dateText) > 10 /\ later \cap {"Z", "z", "+", "-"} = {}
          => iso = xml

\* Months and years are counted in the calendar: the day, the time and the
\* milliseconds stay if the month has the day, and the way back leads back.  If
\* it has not, the days that it lacks are counted into the next month: a month
\* after January 31st, 2020 is March 2nd - the comment at
\* test_date_time_v1.cpp:356 has it the end of February, which nothing tests.
MonthsAreCounted ==
  LET tm == ToTm(tp_, zone)
      n == 12 * tm.YYYY + tm.MM - 1
  IN tp_.ms >= 0 /\ tm.YYYY \in 1972..2035 =>
       /\ \A k \in {-13, -1, 1, 12} :
            LET moved == AddMonths(tp_, zone, k)
                y(i) == (n + i) \div 12
                m(i) == ((n + i) % 12) + 1
                has == DaysInMonth(y(k), m(k))
            IN /\ moved.ms = tp_.ms
               /\ tm.DD <= has =>
                    /\ ToTm(moved, zone) = [tm EXCEPT !.YYYY = y(k), !.MM = m(k)]
                    /\ AddMonths(moved, zone, -k) = tp_
               /\ tm.DD > has =>
                    ToTm(moved, zone) =
                      [tm EXCEPT !.YYYY = y(k + 1), !.MM = m(k + 1), !.DD = tm.DD - has]
       /\ AddYears(tp_, zone, 1) = AddMonths(tp_, zone, 12)

\* What the test of from_tm says: the same fields, taken as local time and as
\* UTC, are apart by what utc_offset_seconds() returns.
OffsetSeparatesTheZones ==
  LET tm == ToTm(tp_, "utc") IN Mktime(tm) - Timegm(tm) = -UtcOffsetSeconds
=============================================================================
