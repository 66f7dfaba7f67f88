--------------------------- MODULE WeeklySchedule ---------------------------
(***************************************************************************)
(* j2::schedule::weekly: a scheduler keeps weekly ranges, merging each new *)
(* one with those it overlaps or touches, and tells whether an instant is  *)
(* in one of them; schedule_normalizer cuts ranges into days; to_json and  *)
(* from_json carry them to another scheduler.                              *)
(*                                                                         *)
(* Abstracted: an hour and a minute are one minute of the day.  The number *)
(* of days and of minutes in a day are parameters (7 and 1440 in the code).*)
(***************************************************************************)
EXTENDS Integers, Sequences, SequencesExt

CONSTANTS Days, MinPerDay,
          MaxAdds             \* bound: calls of add_range in one behaviour

ASSUME DaysAssumption == Days \in 2..7
ASSUME MinPerDayAssumption == MinPerDay \in Nat \ {0}
ASSUME MaxAddsAssumption == MaxAdds \in Nat

VARIABLES ranges_,   \* what the scheduler stores
          added      \* history: the ranges add_range was given
weeklyVars == <<ranges_, added>>

Weekdays == 0..Days - 1
Week == Days * MinPerDay
Minutes == 0..Week - 1

\* A caller may write the end of a day as 24:00.
Inputs == [sd : Weekdays, sm : 0..MinPerDay - 1, ed : Weekdays, em : 0..MinPerDay]

-----------------------------------------------------------------------------
(***************************************************************************)
(* add_range.  Faulty variants (AbsorbUnshifted, ...) precede the          *)
(* definition they distort.                                                *)
(***************************************************************************)
to_pair(x) ==
  LET s == x.sd * MinPerDay + x.sm
      e == x.ed * MinPerDay + x.em
  IN [s |-> s, e |-> IF e < s THEN e + Week ELSE e]

\* The new pair m after range r, kept at index i, was compared with it a week
\* earlier, in place and a week later: the first that touches is absorbed.
AbsorbUnshifted(m, i, r) ==
  LET p == to_pair(r)
  IN IF i \notin m.kept \/ p.s > m.e + 1 \/ p.e < m.s - 1 THEN m
     ELSE [s |-> Min({m.s, p.s}), e |-> Max({m.e, p.e}), kept |-> m.kept \ {i}]

Absorb(m, i, r) ==
  LET p == to_pair(r)
      near == {k \in {-Week, 0, Week} : p.s + k <= m.e + 1 /\ p.e + k >= m.s - 1}
      k == Min(near)
  IN IF i \notin m.kept \/ near = {} THEN m
     ELSE [s |-> Min({m.s, p.s + k}), e |-> Max({m.e, p.e + k}), kept |-> m.kept \ {i}]

Pass(m, rs) ==
  LET after[i \in 0..Len(rs)] == IF i = 0 THEN m ELSE Absorb(after[i - 1], i, rs[i])
  IN after[Len(rs)]

\* Passes are repeated until one absorbs nothing: Len(rs) are enough.
Absorbed(m, rs) ==
  LET after[n \in 0..Len(rs)] == IF n = 0 THEN m ELSE Pass(after[n - 1], rs)
  IN after[Len(rs)]

\* A week or more becomes the whole week; any other pair comes back into it.
MergedUnwrapped(m) ==
  [sd |-> m.s \div MinPerDay, sm |-> m.s % MinPerDay,
   ed |-> m.e \div MinPerDay, em |-> m.e % MinPerDay]

Merged(m) ==
  IF m.e - m.s + 1 >= Week
    THEN [sd |-> 0, sm |-> 0, ed |-> Days - 1, em |-> MinPerDay - 1]
    ELSE [sd |-> (m.s % Week) \div MinPerDay, sm |-> (m.s % Week) % MinPerDay,
          ed |-> (m.e % Week) \div MinPerDay, em |-> (m.e % Week) % MinPerDay]

\* What is not absorbed stays, in its order.
Left(rs, kept) ==
  LET upTo[i \in 0..Len(rs)] ==
        IF i = 0 THEN <<>> ELSE IF i \in kept THEN Append(upTo[i - 1], rs[i]) ELSE upTo[i - 1]
  IN upTo[Len(rs)]

Added(rs, r) ==
  LET p == to_pair(r)
      m == Absorbed([s |-> p.s, e |-> p.e, kept |-> DOMAIN rs], rs)
  IN Append(Left(rs, m.kept), Merged(m))

-----------------------------------------------------------------------------
(***************************************************************************)
(* is_active_at_tm: whether day and minute now are in range r.             *)
(***************************************************************************)
InRangeIgnoringWrap(r, day, now) ==
  /\ r.sd <= day /\ day <= r.ed
  /\ day = r.sd => now >= r.sm
  /\ day = r.ed => now <= r.em

InRange(r, day, now) ==
  /\ IF r.sd <= r.ed THEN r.sd <= day /\ day <= r.ed ELSE day >= r.sd \/ day <= r.ed
  /\ day = r.sd => now >= r.sm
  /\ day = r.ed => now <= r.em

Active(rs) == {t \in Minutes : \E r \in rs : InRange(r, t \div MinPerDay, t % MinPerDay)}

(***************************************************************************)
(* schedule_normalizer: the days of each range, then their intervals in    *)
(* order, merged within a day.                                             *)
(***************************************************************************)
DaysBetweenUnwrapped(r) == {d \in Weekdays : r.sd < d /\ d < r.ed}
DaysBetween(r) ==
  {d \in Weekdays : IF r.sd < r.ed THEN r.sd < d /\ d < r.ed ELSE d > r.sd \/ d < r.ed}

Intervals(r) ==
  IF r.sd = r.ed THEN {<<r.sd, r.sm, r.em>>}
  ELSE {<<r.sd, r.sm, MinPerDay - 1>>, <<r.ed, 0, r.em>>}
       \cup {<<d, 0, MinPerDay - 1>> : d \in DaysBetween(r)}

Before(a, b) ==
  \/ a[1] < b[1]
  \/ a[1] = b[1] /\ a[2] < b[2]
  \/ a[1] = b[1] /\ a[2] = b[2] /\ a[3] < b[3]

Extend(merged, iv) ==
  IF merged = <<>> \/ Last(merged)[1] # iv[1] \/ iv[2] > Last(merged)[3] + 1
    THEN Append(merged, iv)
    ELSE Append(Front(merged), [Last(merged) EXCEPT ![3] = Max({@, iv[3]})])

Sorted(S) ==
  [i \in 1..Cardinality(S) |-> CHOOSE x \in S : Cardinality({y \in S : Before(y, x)}) = i - 1]

\* Of a set of ranges: std::sort forgets their order, and equal intervals merge.
normalize(rs) ==
  LET sorted == Sorted(UNION {Intervals(r) : r \in rs})
      merged[i \in 0..Len(sorted)] == IF i = 0 THEN <<>> ELSE Extend(merged[i - 1], sorted[i])
  IN {[sd |-> m[1], sm |-> m[2], ed |-> m[1], em |-> m[3]] : m \in ToSet(merged[Len(sorted)])}

(***************************************************************************)
(* to_json names the days, from_json finds them by name; load_from_json    *)
(* adds what was read, range by range.                                     *)
(***************************************************************************)
day_name == <<"Mon", "Tue", "Wed", "Thu", "Fri", "Sat", "Sun">>
to_json(rs) ==
  [i \in DOMAIN rs |-> [rs[i] EXCEPT !.sd = day_name[@ + 1], !.ed = day_name[@ + 1]]]
parse_daySundayFirst(v) == CHOOSE d \in Weekdays : day_name[((d + 1) % Days) + 1] = v
parse_day(v) == CHOOSE d \in Weekdays : day_name[d + 1] = v
from_json(j) ==
  [i \in DOMAIN j |-> [j[i] EXCEPT !.sd = parse_day(@), !.ed = parse_day(@)]]
load_from_json(rs, j) ==
  LET after[i \in 0..Len(j)] == IF i = 0 THEN rs ELSE Added(after[i - 1], from_json(j)[i])
  IN after[Len(j)]

InitWeekly == ranges_ = <<>> /\ added = {}

add_range(r) ==
  /\ Cardinality(added) < MaxAdds
  /\ ranges_' = Added(ranges_, r)
  /\ added' = added \cup {r}

NextWeekly == \E r \in Inputs \ added : add_range(r)

WeeklySpec == InitWeekly /\ [][NextWeekly]_weeklyVars

-----------------------------------------------------------------------------
\* The minutes of the week a caller asks for with r: from its start, onwards, to
\* its end.
Asked(r) == LET p == to_pair(r) IN {t % Week : t \in p.s..p.e}
AskedFor == UNION {Asked(r) : r \in added}

\* A range of a single day that ends before it starts: add_range reads it as
\* almost a week, is_active_at_tm as nothing.
Inverted(r) == r.sd = r.ed /\ r.em < r.sm
SomeInverted(rs) == \E i \in DOMAIN rs : Inverted(rs[i])

\* Merging neither loses nor invents a minute: the schedule is active exactly in
\* the minutes of the ranges it was given, whatever their order and overlaps and
\* across the end of the week, unless merging stored an inverted range.
ActiveExactlyWhenAsked == ~SomeInverted(ranges_) => Active(ToSet(ranges_)) = AskedFor

\* No two stored ranges overlap or touch, also across the end of the week: one
\* new range may join many, in any order, and those it grew into in turn.
Separated ==
  \A i, j \in DOMAIN ranges_ : i # j =>
    \A t \in Asked(ranges_[i]) : {t, (t + 1) % Week} \cap Asked(ranges_[j]) = {}

\* A schedule written to JSON and loaded into an empty scheduler is the same
\* schedule: adding its ranges again merges nothing.
JsonRoundTrip == load_from_json(<<>>, to_json(ranges_)) = ranges_

\* Normalizing any list of ranges, merged or not, inverted or not, changes the
\* ranges but not the minutes they are active in.
NormalizePreservesActivity ==
  /\ Active(normalize(added)) = Active(added)
  /\ Active(normalize(ToSet(ranges_))) = Active(ToSet(ranges_))

\* What the test of load_from_json says: is_active_now respects the merged
\* interval.  Here of ranges with clock times, not inverted when they are given.
EveryAddedMinuteIsActive ==
  (\A r \in added : ~Inverted(r) /\ r.em < MinPerDay) => AskedFor \subseteq Active(ToSet(ranges_))
=============================================================================
