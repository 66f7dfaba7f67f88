--------------------------- MODULE WeeklyProofs ---------------------------
(***************************************************************************)
(* What holds of the weekly schedule for any number of days, of minutes in *)
(* a day and of ranges.                                                    *)
(*                                                                         *)
(* add_range() grows the span it was given by every stored range that      *)
(* meets or touches it and drops that range; a pass over the ranges either *)
(* drops one or changes nothing, so as many passes as there are ranges are *)
(* enough, and then no range that is left meets the span. Two spans that   *)
(* meet or touch cover the minutes of their union, so what is covered is   *)
(* what was covered and what was asked for. The invariant is that the      *)
(* stored ranges are apart and cover the minutes asked for; ClearIsApart   *)
(* and ApartIsClear tie the comparison of the code to that, across the end *)
(* of the week too.                                                        *)
(*                                                                         *)
(* A schedule that was saved is added range by range to an empty one:      *)
(* ranges that are apart are never merged, so each comes back as it was.   *)
(* The normalizer sorts the cuts of the intervals and walks through them;  *)
(* a cut's rank is the number of cuts before it.                           *)
(***************************************************************************)
EXTENDS Values, FiniteSetTheorems, SequenceTheorems, WellFoundedInduction, TLAPS

-----------------------------------------------------------------------------
\* The minutes of a week, as numbers.
LEMMA WeekIs ==
  /\ Days \in Nat /\ MinPerDay \in Nat /\ MinPerDay >= 1
  /\ Week \in Nat /\ Week >= 2 /\ Minutes = 0..Week - 1 /\ Weekdays = 0..Days - 1
<1>1. Days \in 2..7 /\ MinPerDay \in Nat \ {0}
  BY DaysAssumption, MinPerDayAssumption
<1>2. Days * MinPerDay \in Nat /\ Days * MinPerDay >= 2
  BY <1>1
<1> QED
  BY <1>1, <1>2 DEF Week, Minutes, Weekdays

\* Division with a remainder.
LEMMA Divided ==
  ASSUME NEW m \in Nat, m >= 1, NEW q \in Int, NEW r \in 0..m-1
  PROVE  (q * m + r) \div m = q /\ (q * m + r) % m = r
  OBVIOUS

\* Every integer is its quotient times m and its remainder.
LEMMA Divides ==
  ASSUME NEW m \in Nat, m >= 1, NEW a \in Int
  PROVE  a \div m \in Int /\ a % m \in 0..m-1 /\ a = (a \div m) * m + (a % m)
  OBVIOUS

\* Adding so many times m leaves the remainder.
LEMMA Rotated ==
  ASSUME NEW m \in Nat, m >= 1, NEW a \in Int, NEW q \in Int
  PROVE  (a + q * m) % m = a % m
<1>1. a \div m \in Int /\ a % m \in 0..m-1 /\ a = (a \div m) * m + (a % m)
  BY Divides
<1> DEFINE p == a \div m
           r == a % m
<1> HIDE DEF p, r
<1>2. a + q * m = (p + q) * m + r /\ p + q \in Int /\ r \in 0..m-1
  BY <1>1 DEF p, r
<1>3. ((p + q) * m + r) % m = r
  BY <1>2, Divided
<1> QED
  BY <1>2, <1>3 DEF r

\* Days come before minutes.
LEMMA DaysFirst ==
  ASSUME NEW m \in Nat, m >= 1, NEW a \in Int, NEW b \in Int, NEW x \in 0..m-1, NEW y \in 0..m-1
  PROVE  a * m + x =< b * m + y <=> (a < b \/ (a = b /\ x =< y))
<1>1. CASE a < b
  <2>1. b >= a + 1
    BY <1>1
  <2>2. b * m >= (a + 1) * m
    BY <2>1
  <2>3. (a + 1) * m = a * m + m /\ a * m \in Int /\ b * m \in Int
    OBVIOUS
  <2> QED
    BY <1>1, <2>2, <2>3
<1>2. CASE a > b
  <2>1. a >= b + 1
    BY <1>2
  <2>2. a * m >= (b + 1) * m
    BY <2>1
  <2>3. (b + 1) * m = b * m + m /\ a * m \in Int /\ b * m \in Int
    OBVIOUS
  <2> QED
    BY <1>2, <2>2, <2>3
<1>3. CASE a = b
  <2>1. a * m \in Int
    OBVIOUS
  <2> QED
    BY <1>3, <2>1
<1> QED
  BY <1>1, <1>2, <1>3

\* Each minute of the week is a minute of one day.
LEMMA MinuteOfDay ==
  ASSUME NEW t \in Minutes
  PROVE  /\ t \div MinPerDay \in Weekdays /\ t % MinPerDay \in 0..MinPerDay - 1
         /\ t = (t \div MinPerDay) * MinPerDay + (t % MinPerDay)
<1> DEFINE d == t \div MinPerDay
           n == t % MinPerDay
<1>1. t \in Int /\ 0 =< t /\ t =< Week - 1 /\ MinPerDay \in Nat /\ MinPerDay >= 1 /\ Days \in Nat
  BY WeekIs
<1>2. d \in Int /\ n \in 0..MinPerDay - 1 /\ t = d * MinPerDay + n
  BY <1>1, Divides
<1> HIDE DEF d, n
<1>3. 0 =< d
  <2>1. 0 * MinPerDay + 0 =< d * MinPerDay + n /\ 0 \in 0..MinPerDay - 1
    BY <1>1, <1>2
  <2> QED
    BY <1>1, <1>2, <2>1, DaysFirst
<1>4. d =< Days - 1
  <2>1. (Days - 1) * MinPerDay + (MinPerDay - 1) = Week - 1
    BY <1>1 DEF Week
  <2>2. d * MinPerDay + n =< (Days - 1) * MinPerDay + (MinPerDay - 1)
    BY <1>1, <1>2, <2>1
  <2>3. MinPerDay - 1 \in 0..MinPerDay - 1 /\ Days - 1 \in Int
    BY <1>1
  <2> QED
    BY <1>1, <1>2, <2>2, <2>3, DaysFirst
<1> QED
  BY <1>2, <1>3, <1>4, WeekIs DEF d, n

\* A minute of the week gives its day and its minute of the day back.
LEMMA DayAndMinute ==
  ASSUME NEW d \in Weekdays, NEW n \in 0..MinPerDay - 1
  PROVE  /\ d * MinPerDay + n \in Minutes
         /\ (d * MinPerDay + n) \div MinPerDay = d /\ (d * MinPerDay + n) % MinPerDay = n
<1>1. /\ d \in Int /\ 0 =< d /\ d =< Days - 1 /\ MinPerDay \in Nat /\ MinPerDay >= 1 /\ Days \in Nat
      /\ n \in 0..MinPerDay - 1
  BY WeekIs
<1>2. d * MinPerDay + n >= 0
  BY <1>1
<1>3. d * MinPerDay + n =< Week - 1
  <2>1. (Days - 1) * MinPerDay + (MinPerDay - 1) = Week - 1
    BY <1>1 DEF Week
  <2>2. MinPerDay - 1 \in 0..MinPerDay - 1 /\ Days - 1 \in Int /\ n =< MinPerDay - 1
    BY <1>1
  <2>3. d * MinPerDay + n =< (Days - 1) * MinPerDay + (MinPerDay - 1)
    BY <1>1, <2>2, DaysFirst
  <2> QED
    BY <2>1, <2>3
<1>4. d * MinPerDay + n \in Int
  BY <1>1
<1> QED
  BY <1>1, <1>2, <1>3, <1>4, Divided, WeekIs

-----------------------------------------------------------------------------
(***************************************************************************)
(* Stretches of minutes, which may go on into the next week or begin in    *)
(* the one before.                                                         *)
(***************************************************************************)
Span(s, e) == {t % Week : t \in s..e}

\* A stretch a few weeks on has the same minutes.
LEMMA SpanRotates ==
  ASSUME NEW s \in Int, NEW e \in Int, NEW q \in Int
  PROVE  Span(s + q * Week, e + q * Week) = Span(s, e)
<1>1. Week \in Nat /\ Week >= 1 /\ q * Week \in Int
  BY WeekIs
<1> DEFINE k == q * Week
<1>2. \A t \in Int : (t + k) % Week = t % Week
  BY <1>1, Rotated
<1>3. k \in Int
  BY <1>1
<1> HIDE DEF k
<1>4. \A t \in s..e : t + k \in (s + k)..(e + k)
  BY <1>3
<1>5. \A t \in (s + k)..(e + k) : t - k \in s..e /\ (t - k) + k = t
  BY <1>3
<1>6. ASSUME NEW x \in Span(s + k, e + k) PROVE x \in Span(s, e)
  <2>1. PICK t \in (s + k)..(e + k) : x = t % Week
    BY <1>6 DEF Span
  <2>2. t - k \in s..e /\ x = (t - k) % Week
    BY <1>2, <1>5, <2>1
  <2> QED
    BY <2>2 DEF Span
<1>7. ASSUME NEW x \in Span(s, e) PROVE x \in Span(s + k, e + k)
  <2>1. PICK t \in s..e : x = t % Week
    BY <1>7 DEF Span
  <2>2. t + k \in (s + k)..(e + k) /\ x = (t + k) % Week
    BY <1>2, <1>4, <2>1
  <2> QED
    BY <2>2 DEF Span
<1> QED
  BY <1>6, <1>7 DEF k

\* Two stretches that overlap or touch are one.
LEMMA SpansJoin ==
  ASSUME NEW s \in Int, NEW e \in Int, NEW u \in Int, NEW v \in Int,
         s =< e, u =< v, u =< e + 1, v >= s - 1,
         NEW a \in Int, NEW b \in Int, a = (IF s =< u THEN s ELSE u), b = (IF e >= v THEN e ELSE v)
  PROVE  Span(a, b) = Span(s, e) \cup Span(u, v)
<1>1. a..b = (s..e) \cup (u..v)
  OBVIOUS
<1> QED
  BY <1>1 DEF Span

\* A stretch of a week or more has every minute.
LEMMA SpanOfAWeek ==
  ASSUME NEW s \in Int, NEW e \in Int, e - s + 1 >= Week
  PROVE  Span(s, e) = Minutes
<1>1. Week \in Nat /\ Week >= 1 /\ Minutes = 0..Week - 1
  BY WeekIs
<1>2. ASSUME NEW t \in Int PROVE t % Week \in Minutes
  BY <1>1, Divides
<1>3. ASSUME NEW x \in Minutes PROVE x \in Span(s, e)
  <2> DEFINE q == s \div Week
             r == s % Week
             t == IF x >= r THEN x + q * Week ELSE x + (q + 1) * Week
  <2>1. q \in Int /\ r \in 0..Week - 1 /\ s = q * Week + r
    BY <1>1, Divides
  <2> HIDE DEF q, r
  <2>2. x \in Int /\ x >= 0 /\ x =< Week - 1 /\ q * Week \in Int /\ (q + 1) * Week = q * Week + Week
    BY <1>1, <2>1
  <2>3. t \in s..e
    BY <1>1, <2>1, <2>2
  <2>4. t % Week = x % Week
    <3>1. \A p \in Int : (x + p * Week) % Week = x % Week
      BY <1>1, <2>2, Rotated
    <3>2. q + 1 \in Int
      BY <2>1
    <3> QED
      BY <2>1, <3>1, <3>2
  <2>5. x % Week = x
    <3>1. x = 0 * Week + x /\ x \in 0..Week - 1
      BY <1>1, <2>2
    <3> QED
      BY <1>1, <3>1, Divided
  <2> QED
    BY <2>3, <2>4, <2>5 DEF Span
<1>4. s..e \subseteq Int
  OBVIOUS
<1> QED
  BY <1>2, <1>3, <1>4 DEF Span

-----------------------------------------------------------------------------
(***************************************************************************)
(* Ranges.                                                                 *)
(***************************************************************************)
\* What add_range() stores: its clock times have no 24:00.
Stored == [sd : Weekdays, sm : 0..MinPerDay - 1, ed : Weekdays, em : 0..MinPerDay - 1]

\* What the schedule stores could be given to it again.
LEMMA StoredAreInputs == Stored \subseteq Inputs
  BY WeekIs DEF Stored, Inputs

\* The minutes that to_pair() counts, from the beginning of the week.
LEMMA PairIs ==
  ASSUME NEW r \in Inputs
  PROVE  /\ to_pair(r) = [s |-> to_pair(r).s, e |-> to_pair(r).e]
         /\ to_pair(r).s = r.sd * MinPerDay + r.sm /\ to_pair(r).s \in Minutes
         /\ to_pair(r).e \in Int /\ to_pair(r).s =< to_pair(r).e
         /\ Asked(r) = Span(to_pair(r).s, to_pair(r).e)
<1> DEFINE s == r.sd * MinPerDay + r.sm
           e == r.ed * MinPerDay + r.em
<1>1. to_pair(r) = [s |-> s, e |-> IF e < s THEN e + Week ELSE e]
  BY DEF to_pair
<1>2. r.sd \in Weekdays /\ r.sm \in 0..MinPerDay - 1 /\ r.ed \in Weekdays /\ r.em \in 0..MinPerDay
  BY DEF Inputs
<1>3. s \in Minutes
  BY <1>2, DayAndMinute
<1>4. e \in Int /\ e >= 0
  <2>1. r.ed \in Nat /\ r.em \in Nat /\ MinPerDay \in Nat
    BY <1>2, WeekIs
  <2> QED
    BY <2>1
<1>5. s \in 0..Week - 1 /\ Week \in Nat
  BY <1>3, WeekIs
<1> HIDE DEF s, e
<1>6. Asked(r) = Span(to_pair(r).s, to_pair(r).e)
  BY DEF Asked, Span
<1> QED
  BY <1>1, <1>3, <1>4, <1>5, <1>6 DEF s

\* Of a stored range, the end is a minute of this week or of the next.
LEMMA StoredPairIs ==
  ASSUME NEW r \in Stored
  PROVE  \E e \in Minutes : /\ e = r.ed * MinPerDay + r.em
                            /\ to_pair(r).e = IF e < to_pair(r).s THEN e + Week ELSE e
<1>1. r.ed * MinPerDay + r.em \in Minutes
  BY DayAndMinute DEF Stored
<1> QED
  BY <1>1 DEF to_pair

\* The minutes of a stretch that starts in the week and is shorter than it.
LEMMA SpanInWeek ==
  ASSUME NEW s \in Minutes, NEW e \in Minutes, NEW t \in Minutes
  PROVE  t \in Span(s, IF e < s THEN e + Week ELSE e)
           <=> IF e < s THEN t >= s \/ t =< e ELSE s =< t /\ t =< e
<1>1. Week \in Nat /\ Week >= 1 /\ Minutes = 0..Week - 1
  BY WeekIs
<1> DEFINE f == IF e < s THEN e + Week ELSE e
<1>2. ASSUME NEW x \in 0..2*Week-1 PROVE x % Week = IF x < Week THEN x ELSE x - Week
  <2>1. CASE x < Week
    <3>1. x = 0 * Week + x /\ x \in 0..Week - 1
      BY <1>1, <1>2, <2>1
    <3> QED
      BY <1>1, <3>1, <2>1, Divided
  <2>2. CASE x >= Week
    <3>1. x = 1 * Week + (x - Week) /\ x - Week \in 0..Week - 1 /\ 1 \in Int
      BY <1>1, <1>2, <2>2
    <3>2. (1 * Week + (x - Week)) % Week = x - Week
      BY <1>1, <3>1, Divided
    <3> QED
      BY <1>1, <1>2, <2>2, <3>1, <3>2
  <2> QED
    BY <1>1, <2>1, <2>2
<1>3. /\ f \in 0..2*Week-1 /\ s \in Int /\ e \in Int /\ t \in Int
      /\ 0 =< s /\ s < Week /\ 0 =< e /\ e < Week /\ 0 =< t /\ t < Week
  BY <1>1
<1>4. t \in Span(s, f) <=> t \in s..f \/ t + Week \in s..f
  <2>1. ASSUME t \in Span(s, f) PROVE t \in s..f \/ t + Week \in s..f
    <3>1. PICK x \in s..f : t = x % Week
      BY <2>1 DEF Span
    <3>2. x \in 0..2*Week-1
      BY <1>1, <1>3
    <3> HIDE DEF f
    <3>3. x = t \/ x = t + Week
      <4>1. t = IF x < Week THEN x ELSE x - Week
        BY <1>2, <3>1, <3>2
      <4> QED
        BY <1>1, <3>2, <4>1
    <3> QED
      BY <3>1, <3>3
  <2>2. t % Week = t /\ (t + Week) % Week = t
    <3>1. t \in 0..2*Week-1 /\ t + Week \in 0..2*Week-1 /\ (t + Week) - Week = t
      BY <1>1, <1>3
    <3> QED
      BY <1>1, <1>2, <1>3, <3>1
  <2> QED
    BY <2>1, <2>2 DEF Span
<1> QED
  BY <1>1, <1>3, <1>4

\* is_active_at_tm() says yes in the minutes that a stored range stands for.
LEMMA InRangeIsAsked ==
  ASSUME NEW r \in Stored, ~Inverted(r), NEW t \in Minutes
  PROVE  InRange(r, t \div MinPerDay, t % MinPerDay) <=> t \in Asked(r)
<1> DEFINE d == t \div MinPerDay
           n == t % MinPerDay
           s == r.sd * MinPerDay + r.sm
           e == r.ed * MinPerDay + r.em
<1>1. d \in Weekdays /\ n \in 0..MinPerDay - 1 /\ t = d * MinPerDay + n
  BY MinuteOfDay
<1>2. r.sd \in Weekdays /\ r.sm \in 0..MinPerDay - 1 /\ r.ed \in Weekdays /\ r.em \in 0..MinPerDay - 1
  BY DEF Stored
<1>3. s \in Minutes /\ e \in Minutes
  BY <1>2, DayAndMinute
<1>4. Asked(r) = Span(s, IF e < s THEN e + Week ELSE e)
  BY StoredPairIs, PairIs, StoredAreInputs
<1>5. t \in Asked(r) <=> IF e < s THEN t >= s \/ t =< e ELSE s =< t /\ t =< e
  <2> HIDE DEF s, e
  <2> QED
    BY <1>3, <1>4, SpanInWeek
<1>6. MinPerDay \in Nat /\ MinPerDay >= 1 /\ Weekdays \subseteq Int
  BY WeekIs
<1> HIDE DEF d, n
<1>7. /\ s =< t <=> r.sd < d \/ (r.sd = d /\ r.sm =< n)
      /\ t =< e <=> d < r.ed \/ (d = r.ed /\ n =< r.em)
      /\ s =< e <=> r.sd < r.ed \/ (r.sd = r.ed /\ r.sm =< r.em)
  <2>1. d \in Int /\ r.sd \in Int /\ r.ed \in Int
    BY <1>1, <1>2, WeekIs
  <2>2. s =< t <=> r.sd < d \/ (r.sd = d /\ r.sm =< n)
    BY <1>1, <1>2, <1>6, <2>1, DaysFirst
  <2>3. t =< e <=> d < r.ed \/ (d = r.ed /\ n =< r.em)
    BY <1>1, <1>2, <1>6, <2>1, DaysFirst
  <2>4. s =< e <=> r.sd < r.ed \/ (r.sd = r.ed /\ r.sm =< r.em)
    BY <1>2, <1>6, <2>1, DaysFirst
  <2> QED
    BY <2>2, <2>3, <2>4
<1>8. s \in Int /\ e \in Int /\ t \in Int /\ d \in Int /\ n \in Int
      /\ r.sd \in Int /\ r.ed \in Int /\ r.sm \in Int /\ r.em \in Int
  <2>1. s \in Int /\ e \in Int /\ t \in Int
    <3> HIDE DEF s, e
    <3> QED
      BY <1>3, WeekIs
  <2>2. d \in Int /\ r.sd \in Int /\ r.ed \in Int
    BY <1>1, <1>2, WeekIs
  <2>3. n \in Int /\ r.sm \in Int /\ r.em \in Int
    BY <1>1, <1>2
  <2> QED
    BY <2>1, <2>2, <2>3
<1> HIDE DEF s, e
<1>9. r.sd = r.ed => r.sm =< r.em
  BY <1>8 DEF Inverted
<1>10. InRange(r, d, n) <=> IF e < s THEN t >= s \/ t =< e ELSE s =< t /\ t =< e
  BY <1>7, <1>8, <1>9 DEF InRange
<1> QED
  BY <1>5, <1>10 DEF d, n

\* A schedule whose ranges are not inverted is active in what they stand for.
LEMMA ActiveIsAsked ==
  ASSUME NEW S \in SUBSET Stored, \A r \in S : ~Inverted(r)
  PROVE  Active(S) = UNION {Asked(r) : r \in S}
<1>1. ASSUME NEW r \in S PROVE Asked(r) \subseteq Minutes
  <2>1. to_pair(r).s \in Int /\ to_pair(r).e \in Int /\ Asked(r) = Span(to_pair(r).s, to_pair(r).e)
    BY PairIs, StoredAreInputs, WeekIs
  <2>2. \A t \in Int : t % Week \in Minutes
    BY WeekIs, Divides
  <2> QED
    BY <2>1, <2>2 DEF Span
<1>2. \A t \in Minutes, r \in S : InRange(r, t \div MinPerDay, t % MinPerDay) <=> t \in Asked(r)
  BY InRangeIsAsked
<1> QED
  BY <1>1, <1>2 DEF Active

\* What a pair that was merged is stored as stands for the same minutes, and is
\* stored as itself if it is added again.
LEMMA MergedIs ==
  ASSUME NEW m, m.s \in Int, m.e \in Int, m.s =< m.e, NEW r, r = Merged(m)
  PROVE  r \in Stored /\ Asked(r) = Span(m.s, m.e) /\ Merged(to_pair(r)) = r
<1> USE DEF Stored
<1>1. /\ Week \in Nat /\ Week >= 2 /\ Minutes = 0..Week - 1 /\ MinPerDay \in Nat /\ MinPerDay >= 1
      /\ Weekdays = 0..Days - 1 /\ Days \in Nat
  BY WeekIs
<1>2. CASE m.e - m.s + 1 >= Week
  <2>1. r = [sd |-> 0, sm |-> 0, ed |-> Days - 1, em |-> MinPerDay - 1]
    BY <1>2 DEF Merged
  <2>2. Days >= 2 /\ r \in Stored
    BY <1>1, <2>1, DaysAssumption
  <2>3. to_pair(r).s = 0 /\ to_pair(r).e = Week - 1
    <3>1. 0 * MinPerDay + 0 = 0 /\ (Days - 1) * MinPerDay + (MinPerDay - 1) = Week - 1
      BY <1>1 DEF Week
    <3> QED
      BY <1>1, <2>1, <3>1 DEF to_pair
  <2>4. Asked(r) = Minutes /\ Span(m.s, m.e) = Minutes
    <3>1. 0 \in Int /\ Week - 1 \in Int /\ (Week - 1) - 0 + 1 >= Week
      BY <1>1
    <3> QED
      BY <1>2, <2>2, <2>3, <3>1, SpanOfAWeek, PairIs, StoredAreInputs
  <2>5. Merged(to_pair(r)) = r
    BY <1>1, <2>1, <2>3 DEF Merged
  <2> QED
    BY <2>2, <2>4, <2>5
<1>3. CASE m.e - m.s + 1 < Week
  <2> DEFINE a == m.s % Week
             b == m.e % Week
             q == m.s \div Week
             p == m.e \div Week
             c == IF b < a THEN b + Week ELSE b
  <2>1. r = [sd |-> a \div MinPerDay, sm |-> a % MinPerDay, ed |-> b \div MinPerDay, em |-> b % MinPerDay]
    BY <1>1, <1>3 DEF Merged
  <2>2. /\ a \in Minutes /\ b \in Minutes /\ q \in Int /\ p \in Int
        /\ m.s = q * Week + a /\ m.e = p * Week + b
    <3>0. Week \in Nat /\ Week >= 1
      BY <1>1
    <3>1. q \in Int /\ a \in 0..Week - 1 /\ m.s = q * Week + a
      BY <3>0, Divides, Zenon
    <3>2. p \in Int /\ b \in 0..Week - 1 /\ m.e = p * Week + b
      BY <3>0, Divides, Zenon
    <3> QED
      BY <1>1, <3>1, <3>2
  <2> HIDE DEF a, b, p, q
  <2>3. r \in Stored /\ to_pair(r).s = a /\ to_pair(r).e = c
    BY <2>1, <2>2, MinuteOfDay DEF to_pair
  <2>4. m.e = c + q * Week
    <3> DEFINE j == p - q
    <3>1. j \in Int /\ j * Week \in Int /\ j * Week + (b - a) >= 0 /\ j * Week + (b - a) =< Week - 2
      <4>1. j * Week = p * Week - q * Week /\ p * Week \in Int /\ q * Week \in Int /\ j \in Int
        BY <1>1, <2>2
      <4> HIDE DEF j
      <4> QED
        BY <1>1, <1>3, <2>2, <4>1
    <3>2. a \in Int /\ b \in Int /\ 0 =< a /\ a < Week /\ 0 =< b /\ b < Week
      BY <1>1, <2>2
    <3>3. j = IF b < a THEN 1 ELSE 0
      <4> HIDE DEF j
      <4>2. ASSUME j >= 2 PROVE FALSE
        <5>1. j * Week >= 2 * Week
          BY <1>1, <3>1, <4>2
        <5> QED
          BY <1>1, <3>1, <3>2, <5>1
      <4>3. ASSUME j =< -1 PROVE FALSE
        <5>1. j * Week =< (-1) * Week
          BY <1>1, <3>1, <4>3
        <5> QED
          BY <1>1, <3>1, <3>2, <5>1
      <4>4. j = 0 \/ j = 1
        BY <3>1, <4>2, <4>3
      <4>5. CASE j = 0
        BY <1>1, <3>1, <3>2, <4>5
      <4>6. CASE j = 1
        BY <1>1, <3>1, <3>2, <4>6
      <4> QED
        BY <4>4, <4>5, <4>6
    <3>4. p = q \/ p = q + 1
      BY <2>2, <3>3
    <3>5. (q + 1) * Week = q * Week + Week /\ q * Week \in Int
      BY <1>1, <2>2
    <3> QED
      BY <1>1, <2>2, <3>2, <3>3, <3>4, <3>5
  <2>5. c \in Int /\ a \in Int /\ a =< c /\ c - a = m.e - m.s
    <3>1. q * Week \in Int /\ a \in 0..Week-1 /\ b \in 0..Week-1
      BY <1>1, <2>2
    <3>2. c \in Int
      BY <1>1, <3>1
    <3> HIDE DEF c
    <3> QED
      BY <1>1, <2>2, <2>4, <3>1, <3>2
  <2>6. Asked(r) = Span(m.s, m.e)
    <3>1. Asked(r) = Span(a, c)
      BY <2>3, PairIs, StoredAreInputs
    <3> HIDE DEF c
    <3>2. Span(a + q * Week, c + q * Week) = Span(a, c)
      BY <2>2, <2>5, SpanRotates
    <3>3. a + q * Week = m.s
      BY <1>1, <2>2, <2>5
    <3> QED
      BY <2>4, <3>1, <3>2, <3>3
  <2>7. Merged(to_pair(r)) = r
    <3>1. a % Week = a /\ c % Week = b
      <4>1. \A x \in Minutes : x % Week = x
        BY <1>1
      <4>2. (b + 1 * Week) % Week = b % Week
        <5>1. b \in Int /\ 1 \in Int /\ Week >= 1
          BY <1>1, <2>2
        <5> QED
          BY <1>1, <5>1, Rotated
      <4>3. 1 * Week = Week
        BY <1>1
      <4> QED
        BY <2>2, <4>1, <4>2, <4>3
    <3>2. to_pair(r).e - to_pair(r).s + 1 < Week
      BY <1>3, <2>3, <2>5
    <3> HIDE DEF c
    <3> QED
      BY <1>1, <2>1, <2>3, <2>5, <3>1, <3>2 DEF Merged
  <2> QED
    BY <2>3, <2>6, <2>7
<1> QED
  BY <1>1, <1>2, <1>3

-----------------------------------------------------------------------------
(***************************************************************************)
(* Merging a new pair with the ranges that it touches.                     *)
(***************************************************************************)
Shifts == {-Week, 0, Week}
Touches(m, r, k) == to_pair(r).s + k =< m.e + 1 /\ to_pair(r).e + k >= m.s - 1
Clear(m, r) == \A k \in Shifts : ~Touches(m, r, k)

Pairs == [s : Int, e : Int, kept : SUBSET Nat]

\* The least and the greatest of two numbers, as the merge takes them.
LEMMA LeastOfTwo ==
  ASSUME NEW a \in Int, NEW b \in Int
  PROVE  /\ Min({a, b}) = (IF a =< b THEN a ELSE b)
         /\ Max({a, b}) = (IF a >= b THEN a ELSE b)
<1>1. Min({a, b}) = (IF a =< b THEN a ELSE b)
  <2> DEFINE P(x) == x \in {a, b} /\ \A y \in {a, b} : x =< y
  <2>1. \A x : P(x) <=> x = (IF a =< b THEN a ELSE b)
    OBVIOUS
  <2>2. Min({a, b}) = CHOOSE x : P(x)
    BY DEF Min
  <2> HIDE DEF P
  <2> QED
    BY <2>1, <2>2
<1>2. Max({a, b}) = (IF a >= b THEN a ELSE b)
  <2> DEFINE P(x) == x \in {a, b} /\ \A y \in {a, b} : x >= y
  <2>1. \A x : P(x) <=> x = (IF a >= b THEN a ELSE b)
    OBVIOUS
  <2>2. Max({a, b}) = CHOOSE x : P(x)
    BY DEF Max
  <2> HIDE DEF P
  <2> QED
    BY <2>1, <2>2
<1> QED
  BY <1>1, <1>2

\* A range that the pair touches is absorbed, with all its minutes; another is left.
LEMMA AbsorbIs ==
  ASSUME NEW m \in Pairs, m.s =< m.e, NEW i \in Nat, NEW r \in Inputs, NEW a, a = Absorb(m, i, r)
  PROVE  /\ a \in Pairs /\ a.s =< m.s /\ m.e =< a.e
         /\ \/ a = m /\ (i \in m.kept => Clear(m, r))
            \/ /\ i \in m.kept /\ ~Clear(m, r) /\ a.kept = m.kept \ {i}
               /\ Span(a.s, a.e) = Span(m.s, m.e) \cup Asked(r)
<1> DEFINE p == to_pair(r)
           near == {k \in Shifts : Touches(m, r, k)}
           k == Min(near)
<1>1. a = IF i \notin m.kept \/ near = {} THEN m
          ELSE [s |-> Min({m.s, p.s + k}), e |-> Max({m.e, p.e + k}), kept |-> m.kept \ {i}]
  BY DEF Absorb, Shifts, Touches
<1>2. /\ m.s \in Int /\ m.e \in Int /\ m.kept \subseteq Nat
      /\ p.s \in Int /\ p.e \in Int /\ p.s =< p.e /\ Asked(r) = Span(p.s, p.e)
      /\ Week \in Nat
  BY PairIs, WeekIs DEF Pairs
<1>3. near = {} => Clear(m, r)
  BY DEF Clear
<1> HIDE DEF p, near, k
<1>4. CASE i \notin m.kept \/ near = {}
  BY <1>1, <1>2, <1>3, <1>4
<1>5. CASE i \in m.kept /\ near # {}
  <2>1. k \in near
    <3>1. Shifts \subseteq Int /\ near \subseteq Shifts
      BY <1>2 DEF Shifts, near
    <3>2. \E x \in near : \A y \in near : x =< y
      <4>1. Week >= 0 /\ -Week \in Int /\ -Week =< 0 /\ -Week =< Week /\ Week \in Int
        BY <1>2
      <4>2. CASE -Week \in near
        BY <3>1, <4>1, <4>2 DEF Shifts
      <4>3. CASE -Week \notin near /\ 0 \in near
        BY <3>1, <4>1, <4>3 DEF Shifts
      <4>4. CASE -Week \notin near /\ 0 \notin near
        <5>1. near = {Week}
          BY <1>5, <3>1, <4>4 DEF Shifts
        <5> QED
          BY <4>1, <5>1
      <4> QED
        BY <4>2, <4>3, <4>4
    <3> QED
      BY <3>2 DEF k, Min
  <2>2. k \in Shifts /\ p.s + k =< m.e + 1 /\ p.e + k >= m.s - 1
    BY <2>1 DEF near, Touches, p
  <2>3. \E q \in Int : k = q * Week
    <3>1. -Week = (-1) * Week /\ 0 = 0 * Week /\ Week = 1 * Week
      BY <1>2
    <3> QED
      BY <2>2, <3>1 DEF Shifts
  <2>4. PICK q \in Int : k = q * Week
    BY <2>3
  <2>5. k \in Int /\ p.s + k \in Int /\ p.e + k \in Int /\ p.s + k =< p.e + k
    BY <1>2, <2>2 DEF Shifts
  <2>6. a = [s |-> Min({m.s, p.s + k}), e |-> Max({m.e, p.e + k}), kept |-> m.kept \ {i}]
    BY <1>1, <1>5
  <2>7. /\ a.s = IF m.s =< p.s + k THEN m.s ELSE p.s + k
        /\ a.e = IF m.e >= p.e + k THEN m.e ELSE p.e + k
        /\ a.kept = m.kept \ {i}
    <3>1. a.s = Min({m.s, p.s + k}) /\ a.e = Max({m.e, p.e + k}) /\ a.kept = m.kept \ {i}
      BY <2>6
    <3>2. Min({m.s, p.s + k}) = IF m.s =< p.s + k THEN m.s ELSE p.s + k
      BY <1>2, <2>5, LeastOfTwo
    <3>3. Max({m.e, p.e + k}) = IF m.e >= p.e + k THEN m.e ELSE p.e + k
      BY <1>2, <2>5, LeastOfTwo
    <3> QED
      BY <3>1, <3>2, <3>3
  <2>8. a \in Pairs /\ a.s =< m.s /\ m.e =< a.e /\ a.s \in Int /\ a.e \in Int
    <3>1. a.s \in Int /\ a.e \in Int /\ a.s =< m.s /\ m.e =< a.e
      BY <1>2, <2>5, <2>7
    <3>2. a = [s |-> a.s, e |-> a.e, kept |-> a.kept]
      BY <2>6
    <3> QED
      BY <1>2, <2>7, <3>1, <3>2 DEF Pairs
  <2>9. Span(a.s, a.e) = Span(m.s, m.e) \cup Span(p.s + k, p.e + k)
    BY <1>2, <2>2, <2>5, <2>7, <2>8, SpansJoin
  <2>10. Span(p.s + k, p.e + k) = Asked(r)
    BY <1>2, <2>4, SpanRotates
  <2> QED
    BY <1>5, <2>2, <2>7, <2>8, <2>9, <2>10 DEF Clear, Touches, p
<1> QED
  BY <1>4, <1>5

-----------------------------------------------------------------------------
\* The order of the naturals, as a relation.
LessThan == {p \in Nat \X Nat : p[1] < p[2]}

\* Counting up to n.
LEMMA CountUp ==
  ASSUME NEW n \in Nat, NEW S, 0 \in S, \A m \in 0..n-1 : m \in S => m + 1 \in S
  PROVE  0..n \subseteq S
<1> DEFINE T == {m \in Nat : m \in 0..n /\ m \notin S}
<1> SUFFICES ASSUME T # {} PROVE FALSE
  OBVIOUS
<1>1. OpToRel(<, Nat) = LessThan
  BY DEF OpToRel, LessThan
<1>2. PICK m \in T : \A j \in T : ~ (<<j, m>> \in LessThan)
  BY <1>1, NatLessThanWellFounded, WFMin
<1>3. m # 0 /\ m \in 0..n /\ m \notin S
  BY <1>2
<1>4. m - 1 \in 0..n-1 /\ m - 1 \in Nat /\ (m - 1) + 1 = m /\ <<m - 1, m>> \in LessThan
  BY <1>3 DEF LessThan
<1>5. m - 1 \in S
  BY <1>2, <1>4
<1> QED
  BY <1>3, <1>4, <1>5

\* Steps taken one after the other: what a recursive function over 0..n defines.
Stepwise(S, n, base, step, g) ==
  g \in [0..n -> S] /\ g[0] = base /\ \A i \in 1..n : g[i] = step[<<g[i - 1], i>>]
StepOn(S, n, step) == step \in [S \X (1..n) -> S]

\* The recursive functions of the model exist: each value follows from the one before.
LEMMA StepsExist ==
  ASSUME NEW S, NEW n \in Nat, NEW base \in S, NEW step, StepOn(S, n, step)
  PROVE  \E g : Stepwise(S, n, base, step, g)
<1>0. step \in [S \X (1..n) -> S]
  BY DEF StepOn
<1> DEFINE Is(g, k) == g \in [0..k -> S] /\ g[0] = base /\ \A i \in 1..k : g[i] = step[<<g[i - 1], i>>]
           T == {k \in 0..n : \E g : Is(g, k)}
<1>1. ASSUME NEW k \in 0..n-1, NEW f, Is(f, k) PROVE \E g : Is(g, k + 1)
  <2> DEFINE g == [i \in 0..k+1 |-> IF i = k + 1 THEN step[<<f[k], k + 1>>] ELSE f[i]]
  <2>1. k \in Nat /\ k + 1 \in 1..n /\ f[k] \in S
    BY <1>1
  <2>2. step[<<f[k], k + 1>>] \in S
    BY <1>0, <2>1
  <2>3. g \in [0..k+1 -> S]
    BY <1>1, <2>1, <2>2
  <2>4. g[0] = base
    BY <1>1, <2>1
  <2>5. ASSUME NEW i \in 1..k+1 PROVE g[i] = step[<<g[i - 1], i>>]
    <3>1. CASE i = k + 1
      <4>1. i - 1 = k /\ g[k] = f[k] /\ g[k + 1] = step[<<f[k], k + 1>>]
        BY <2>1, <3>1
      <4> QED
        BY <3>1, <4>1
    <3>2. CASE i \in 1..k
      <4>1. g[i] = f[i] /\ g[i - 1] = f[i - 1] /\ f[i] = step[<<f[i - 1], i>>]
        BY <1>1, <2>1, <3>2
      <4> QED
        BY <4>1
    <3> QED
      BY <2>1, <3>1, <3>2
  <2> HIDE DEF g
  <2> QED
    BY <2>3, <2>4, <2>5
<1>2. 0 \in T
  <2> DEFINE g == [i \in 0..0 |-> base]
  <2>1. g \in [0..0 -> S] /\ g[0] = base /\ 1..0 = {}
    OBVIOUS
  <2>2. Is(g, 0)
    BY <2>1
  <2> HIDE DEF Is
  <2> QED
    BY <2>2
<1>3. \A k \in 0..n-1 : k \in T => k + 1 \in T
  <2> HIDE DEF Is
  <2> QED
    BY <1>1
<1>4. n \in T
  <2> HIDE DEF T
  <2>1. 0..n \subseteq T
    BY <1>2, <1>3, CountUp
  <2> QED
    BY <2>1
<1> QED
  BY <1>4 DEF Stepwise

-----------------------------------------------------------------------------
\* The new pair p has grown to m, by the ranges of rs that are not kept.
Grown(p, rs, m) ==
  /\ m \in Pairs /\ m.s =< p.s /\ p.e =< m.e /\ m.kept \subseteq DOMAIN rs
  /\ Span(m.s, m.e) = Span(p.s, p.e) \cup UNION {Asked(rs[i]) : i \in DOMAIN rs \ m.kept}

\* It touches none that is kept.
Settled(m, rs) == \A i \in m.kept : Clear(m, rs[i])

\* The arguments of add_range.
Adding(p, rs) == rs \in Seq(Inputs) /\ p.s \in Int /\ p.e \in Int /\ p.s =< p.e

\* Looking at one stored range only widens the span, and only drops that range;
\* nothing changes once the span is settled.
LEMMA AbsorbGrows ==
  ASSUME NEW p, NEW rs, Adding(p, rs), NEW m, Grown(p, rs, m), NEW i \in DOMAIN rs,
         NEW a, a = Absorb(m, i, rs[i])
  PROVE  /\ Grown(p, rs, a) /\ a.kept \subseteq m.kept
         /\ a.kept = m.kept => a = m
         /\ i \in a.kept => Clear(m, rs[i])
         /\ Settled(m, rs) => a = m
<1>1. m \in Pairs /\ m.s =< m.e /\ i \in Nat /\ rs[i] \in Inputs /\ m.kept \subseteq DOMAIN rs
      /\ m.s =< p.s /\ p.e =< m.e /\ m.s \in Int /\ m.e \in Int
  BY DEF Grown, Adding, Pairs
<1>2. /\ a \in Pairs /\ a.s =< m.s /\ m.e =< a.e
      /\ \/ a = m /\ (i \in m.kept => Clear(m, rs[i]))
         \/ /\ i \in m.kept /\ ~Clear(m, rs[i]) /\ a.kept = m.kept \ {i}
            /\ Span(a.s, a.e) = Span(m.s, m.e) \cup Asked(rs[i])
  BY <1>1, AbsorbIs
<1>3. CASE a = m /\ (i \in m.kept => Clear(m, rs[i]))
  BY <1>3, Zenon
<1>4. CASE /\ i \in m.kept /\ ~Clear(m, rs[i]) /\ a.kept = m.kept \ {i}
           /\ Span(a.s, a.e) = Span(m.s, m.e) \cup Asked(rs[i])
  <2>1. DOMAIN rs \ a.kept = (DOMAIN rs \ m.kept) \cup {i}
    BY <1>1, <1>4
  <2>2. Span(a.s, a.e) = Span(p.s, p.e) \cup UNION {Asked(rs[j]) : j \in DOMAIN rs \ a.kept}
    BY <1>4, <2>1 DEF Grown
  <2>3. a.s =< p.s /\ p.e =< a.e
    BY <1>1, <1>2 DEF Adding, Pairs
  <2>4. Grown(p, rs, a)
    BY <1>1, <1>2, <1>4, <2>2, <2>3 DEF Grown
  <2>5. ~Settled(m, rs)
    BY <1>4 DEF Settled
  <2> QED
    BY <1>4, <2>4, <2>5
<1> QED
  BY <1>2, <1>3, <1>4

\* One pass over the ranges, of which each step is Absorb.
LEMMA PassIs ==
  ASSUME NEW p, NEW rs, Adding(p, rs), NEW m \in Pairs
  PROVE  \E g \in [0..Len(rs) -> Pairs] :
           /\ g[0] = m /\ Pass(m, rs) = g[Len(rs)]
           /\ \A i \in 1..Len(rs) : g[i] = Absorb(g[i - 1], i, rs[i])
<1> DEFINE n == Len(rs)
           step == [x \in Pairs \X (1..n) |-> Absorb(x[1], x[2], rs[x[2]])]
           Is(g) == g = [i \in 0..n |-> IF i = 0 THEN m ELSE Absorb(g[i - 1], i, rs[i])]
           after == CHOOSE g : Is(g)
<1>1. n \in Nat /\ DOMAIN rs = 1..n /\ \A i \in 1..n : rs[i] \in Inputs
  BY DEF Adding
<1>2. ASSUME NEW x \in Pairs, NEW i \in 1..n PROVE Absorb(x, i, rs[i]) \in Pairs
  <2> DEFINE q == to_pair(rs[i])
             near == {k \in {-Week, 0, Week} : q.s + k <= x.e + 1 /\ q.e + k >= x.s - 1}
             k == Min(near)
  <2>1. x.s \in Int /\ x.e \in Int /\ x.kept \in SUBSET Nat /\ q.s \in Int /\ q.e \in Int /\ Week \in Nat
    BY <1>1, PairIs, WeekIs DEF Pairs
  <2>2. CASE i \notin x.kept \/ near = {}
    BY <2>2 DEF Absorb
  <2>3. CASE ~(i \notin x.kept \/ near = {})
    <3>1. Absorb(x, i, rs[i]) = [s |-> Min({x.s, q.s + k}), e |-> Max({x.e, q.e + k}), kept |-> x.kept \ {i}]
      BY <2>3 DEF Absorb
    <3>2. k \in near
      <4>1. near \subseteq {-Week, 0, Week}
        OBVIOUS
      <4>2. -Week \in Int /\ -Week =< 0 /\ 0 =< Week /\ -Week =< Week /\ Week \in Int
        BY <2>1
      <4> HIDE DEF near
      <4>3. \E y \in near : \A z \in near : y =< z
        <5>1. CASE -Week \in near
          BY <4>1, <4>2, <5>1
        <5>2. CASE -Week \notin near /\ 0 \in near
          BY <4>1, <4>2, <5>2
        <5>3. CASE -Week \notin near /\ 0 \notin near
          <6>1. near = {Week}
            BY <2>3, <4>1, <5>3
          <6> QED
            BY <4>2, <6>1
        <5> QED
          BY <5>1, <5>2, <5>3
      <4> QED
        BY <4>3 DEF Min
    <3>3. k \in Int
      BY <2>1, <3>2
    <3> HIDE DEF k, q
    <3>4. Min({x.s, q.s + k}) \in Int /\ Max({x.e, q.e + k}) \in Int
      <4>1. q.s + k \in Int /\ q.e + k \in Int
        BY <2>1, <3>3
      <4> QED
        BY <2>1, <4>1, LeastOfTwo
    <3> QED
      BY <2>1, <3>1, <3>4 DEF Pairs
  <2> QED
    BY <2>2, <2>3
<1>3. StepOn(Pairs, n, step)
  BY <1>2 DEF StepOn
<1>4. ASSUME NEW x \in Pairs, NEW i \in 1..n PROVE step[<<x, i>>] = Absorb(x, i, rs[i])
  OBVIOUS
<1> HIDE DEF step
<1>5. PICK g \in [0..n -> Pairs] : g[0] = m /\ \A i \in 1..n : g[i] = step[<<g[i - 1], i>>]
  <2> HIDE DEF n
  <2>1. \E g : Stepwise(Pairs, n, m, step, g)
    BY <1>1, <1>3, StepsExist
  <2> QED
    BY <2>1 DEF Stepwise
<1>6. \A i \in 1..n : g[i] = Absorb(g[i - 1], i, rs[i])
  <2> TAKE i \in 1..n
  <2>1. i - 1 \in 0..n /\ g[i - 1] \in Pairs
    BY <1>1
  <2> QED
    BY <1>4, <1>5, <2>1
<1>7. Is(g)
  <2>1. g = [i \in 0..n |-> g[i]]
    OBVIOUS
  <2>2. ASSUME NEW i \in 0..n PROVE g[i] = IF i = 0 THEN m ELSE Absorb(g[i - 1], i, rs[i])
    BY <1>1, <1>5, <1>6
  <2> QED
    BY <2>1, <2>2, Zenon
<1>8. ASSUME NEW f, Is(f) PROVE f[0] = m /\ \A i \in 1..n : f[i] = Absorb(f[i - 1], i, rs[i])
  BY <1>1, <1>8
<1>9. Pass(m, rs) = after[n]
  BY DEF Pass
<1>10. Is(after)
  <2> HIDE DEF Is
  <2> QED
    BY <1>7
<1>11. after[0] = m /\ \A i \in 1..n : after[i] = Absorb(after[i - 1], i, rs[i])
  <2> HIDE DEF Is, after
  <2> QED
    BY <1>8, <1>10
<1>12. after = [i \in 0..n |-> after[i]]
  <2> HIDE DEF after
  <2> QED
    BY <1>10
<1> HIDE DEF after, Is
<1>13. 0..n \subseteq {i \in 0..n : after[i] \in Pairs}
  <2> DEFINE T == {i \in 0..n : after[i] \in Pairs}
  <2>1. 0 \in T
    BY <1>1, <1>11
  <2>2. ASSUME NEW i \in 0..n-1, i \in T PROVE i + 1 \in T
    <3>1. i + 1 \in 1..n /\ (i + 1) - 1 = i /\ after[i] \in Pairs
      BY <1>1, <2>2
    <3>2. after[i + 1] = Absorb(after[i], i + 1, rs[i + 1])
      BY <1>11, <3>1
    <3> QED
      BY <1>1, <1>2, <3>1, <3>2
  <2> HIDE DEF T
  <2>3. 0..n \subseteq T
    BY <1>1, <2>1, <2>2, CountUp
  <2> QED
    BY <2>3 DEF T
<1>14. after \in [0..n -> Pairs]
  BY <1>12, <1>13
<1> QED
  BY <1>9, <1>11, <1>14

\* A pass that absorbs nothing leaves the pair alone, clear of all it keeps.
LEMMA PassGrows ==
  ASSUME NEW p, NEW rs, Adding(p, rs), NEW m, Grown(p, rs, m), NEW a, a = Pass(m, rs)
  PROVE  /\ Grown(p, rs, a) /\ a.kept \subseteq m.kept
         /\ a.kept = m.kept => a = m /\ Settled(m, rs)
         /\ Settled(m, rs) => a = m
<1> DEFINE n == Len(rs)
<1>1. n \in Nat /\ DOMAIN rs = 1..n /\ m \in Pairs /\ m.kept \subseteq 1..n
  BY DEF Adding, Grown
<1>2. PICK g \in [0..n -> Pairs] : /\ g[0] = m /\ a = g[n]
                                   /\ \A i \in 1..n : g[i] = Absorb(g[i - 1], i, rs[i])
  BY <1>1, PassIs
<1> DEFINE Fits(i) == /\ Grown(p, rs, g[i]) /\ g[i].kept \subseteq m.kept
                      /\ g[i].kept = m.kept => g[i] = m /\ \A j \in 1..i : j \in m.kept => Clear(m, rs[j])
                      /\ Settled(m, rs) => g[i] = m
           T == {i \in 0..n : Fits(i)}
<1>3. 0 \in T
  BY <1>1, <1>2
<1>4. ASSUME NEW i \in 0..n-1, i \in T PROVE Fits(i + 1)
  <2> DEFINE b == g[i]
             c == g[i + 1]
  <2>1. i \in Nat /\ i + 1 \in 1..n /\ (i + 1) - 1 = i
    BY <1>1
  <2>2. c = Absorb(b, i + 1, rs[i + 1]) /\ i + 1 \in DOMAIN rs
    BY <1>1, <1>2, <2>1
  <2>3. Grown(p, rs, b) /\ b.kept \subseteq m.kept
    BY <1>4
  <2>4. /\ b.kept = m.kept => b = m /\ \A j \in 1..i : j \in m.kept => Clear(m, rs[j])
        /\ Settled(m, rs) => b = m
    BY <1>4
  <2> HIDE DEF b, c, T
  <2>5. /\ Grown(p, rs, c) /\ c.kept \subseteq b.kept
        /\ c.kept = b.kept => c = b
        /\ i + 1 \in c.kept => Clear(b, rs[i + 1])
        /\ Settled(b, rs) => c = b
    BY <2>2, <2>3, AbsorbGrows
  <2>6. ASSUME c.kept = m.kept PROVE c = m /\ \A j \in 1..i+1 : j \in m.kept => Clear(m, rs[j])
    <3>1. b.kept = m.kept /\ b = m /\ c = b
      BY <2>3, <2>4, <2>5, <2>6
    <3>2. \A j \in 1..i+1 : j \in 1..i \/ j = i + 1
      BY <2>1
    <3> QED
      BY <2>4, <2>5, <2>6, <3>1, <3>2
  <2>7. Settled(m, rs) => c = m
    BY <2>4, <2>5
  <2>8. Grown(p, rs, c) /\ c.kept \subseteq m.kept
    BY <2>3, <2>5
  <2> QED
    BY <2>6, <2>7, <2>8 DEF c
<1>5. n \in T
  <2>1. \A i \in 0..n-1 : i \in T => i + 1 \in T
    BY <1>1, <1>4
  <2> HIDE DEF T
  <2>2. 0..n \subseteq T
    BY <1>1, <1>3, <2>1, CountUp
  <2> QED
    BY <1>1, <2>2
<1>6. Fits(n)
  BY <1>5
<1> QED
  BY <1>1, <1>2, <1>6 DEF Settled

\* So many passes are enough: what is kept in the end is not touched.
LEMMA AbsorbedIs ==
  ASSUME NEW p, NEW rs, Adding(p, rs), NEW m, Grown(p, rs, m), NEW a, a = Absorbed(m, rs)
  PROVE  Grown(p, rs, a) /\ Settled(a, rs) /\ (Settled(m, rs) => a = m)
<1> DEFINE n == Len(rs)
           G == {x \in Pairs : Grown(p, rs, x)}
           step == [x \in G \X (1..n) |-> Pass(x[1], rs)]
           Is(g) == g = [i \in 0..n |-> IF i = 0 THEN m ELSE Pass(g[i - 1], rs)]
           after == CHOOSE g : Is(g)
<1>1. n \in Nat /\ DOMAIN rs = 1..n /\ m \in G
  BY DEF Adding, Grown
<1>2. \A x \in G : Grown(p, rs, x) /\ x \in Pairs
  OBVIOUS
<1>3. ASSUME NEW x \in G PROVE Pass(x, rs) \in G
  <2>1. Grown(p, rs, Pass(x, rs))
    BY <1>2, PassGrows
  <2> QED
    BY <2>1 DEF Grown
<1> HIDE DEF G
<1>4. StepOn(G, n, step)
  BY <1>3 DEF StepOn
<1>5. ASSUME NEW x \in G, NEW i \in 1..n PROVE step[<<x, i>>] = Pass(x, rs)
  OBVIOUS
<1> HIDE DEF step
<1>6. PICK f \in [0..n -> G] : f[0] = m /\ \A i \in 1..n : f[i] = step[<<f[i - 1], i>>]
  <2> HIDE DEF n
  <2>1. \E g : Stepwise(G, n, m, step, g)
    BY <1>1, <1>4, StepsExist
  <2> QED
    BY <2>1 DEF Stepwise
<1>7. Is(f)
  <2>1. f = [i \in 0..n |-> f[i]]
    OBVIOUS
  <2>2. ASSUME NEW i \in 0..n PROVE f[i] = IF i = 0 THEN m ELSE Pass(f[i - 1], rs)
    <3>1. CASE i = 0
      BY <1>6, <3>1
    <3>2. CASE i # 0
      <4>1. i \in 1..n /\ i - 1 \in 0..n
        BY <1>1, <3>2
      <4> QED
        BY <1>5, <1>6, <3>2, <4>1
    <3> QED
      BY <3>1, <3>2
  <2> QED
    BY <2>1, <2>2, Zenon
<1>8. ASSUME NEW g, Is(g) PROVE g[0] = m /\ \A i \in 1..n : g[i] = Pass(g[i - 1], rs)
  BY <1>1, <1>8
<1>9. a = after[n]
  BY DEF Absorbed
<1>10. Is(after)
  <2> HIDE DEF Is
  <2> QED
    BY <1>7
<1>11. after[0] = m /\ \A i \in 1..n : after[i] = Pass(after[i - 1], rs)
  <2> HIDE DEF Is, after
  <2> QED
    BY <1>8, <1>10
<1> HIDE DEF after, Is
<1> DEFINE Fits(i) == /\ Grown(p, rs, after[i]) /\ (Settled(m, rs) => after[i] = m)
                      /\ \/ Settled(after[i], rs)
                         \/ IsFiniteSet(after[i].kept) /\ Cardinality(after[i].kept) =< n - i
           T == {i \in 0..n : Fits(i)}
<1>12. 0 \in T
  <2>1. m.kept \subseteq 1..n
    BY <1>1 DEF Grown
  <2>2. IsFiniteSet(1..n) /\ Cardinality(1..n) = n
    <3>1. 1 \in Int /\ n \in Int
      BY <1>1
    <3> HIDE DEF n
    <3>2. IsFiniteSet(1..n) /\ Cardinality(1..n) = IF 1 > n THEN 0 ELSE n - 1 + 1
      BY <3>1, FS_Interval
    <3> QED
      BY <1>1, <3>2
  <2>3. IsFiniteSet(m.kept) /\ Cardinality(m.kept) =< n
    BY <2>1, <2>2, FS_Subset
  <2> QED
    BY <1>1, <1>11, <2>3
<1>13. ASSUME NEW i \in 0..n-1, i \in T PROVE Fits(i + 1)
  <2> DEFINE b == after[i]
             c == after[i + 1]
  <2>1. i \in Nat /\ i + 1 \in 1..n /\ (i + 1) - 1 = i
    BY <1>1
  <2>2. c = Pass(b, rs)
    BY <1>11, <2>1
  <2>3. /\ Grown(p, rs, b) /\ (Settled(m, rs) => b = m)
        /\ Settled(b, rs) \/ (IsFiniteSet(b.kept) /\ Cardinality(b.kept) =< n - i)
    BY <1>13
  <2> HIDE DEF b, c, T
  <2>4. /\ Grown(p, rs, c) /\ c.kept \subseteq b.kept
        /\ c.kept = b.kept => c = b /\ Settled(b, rs)
        /\ Settled(b, rs) => c = b
    BY <2>2, <2>3, PassGrows
  <2>5. Settled(c, rs) \/ (IsFiniteSet(c.kept) /\ Cardinality(c.kept) =< n - (i + 1))
    <3>1. CASE Settled(b, rs)
      BY <2>4, <3>1
    <3>2. CASE ~Settled(b, rs)
      <4>1. IsFiniteSet(b.kept) /\ Cardinality(b.kept) =< n - i /\ c.kept # b.kept
        BY <2>3, <2>4, <3>2
      <4>2. IsFiniteSet(c.kept) /\ Cardinality(c.kept) < Cardinality(b.kept)
        BY <2>4, <4>1, FS_Subset
      <4>3. Cardinality(c.kept) \in Nat /\ Cardinality(b.kept) \in Nat
        BY <4>1, <4>2, FS_CardinalityType
      <4> QED
        BY <1>1, <2>1, <4>1, <4>2, <4>3
    <3> QED
      BY <3>1, <3>2
  <2>6. Settled(m, rs) => c = m
    BY <2>3, <2>4
  <2> QED
    BY <2>4, <2>5, <2>6 DEF c
<1>14. n \in T
  <2>1. \A i \in 0..n-1 : i \in T => i + 1 \in T
    BY <1>1, <1>13
  <2> HIDE DEF T
  <2>2. 0..n \subseteq T
    BY <1>1, <1>12, <2>1, CountUp
  <2> QED
    BY <1>1, <2>2
<1>15. Settled(a, rs)
  <2>1. ASSUME IsFiniteSet(a.kept), Cardinality(a.kept) =< n - n PROVE a.kept = {}
    <3>1. Cardinality(a.kept) \in Nat
      BY <2>1, FS_CardinalityType
    <3>2. Cardinality(a.kept) = 0
      BY <1>1, <2>1, <3>1
    <3> QED
      BY <2>1, <3>2, FS_EmptySet
  <2> QED
    BY <1>9, <1>14, <2>1 DEF Settled
<1> QED
  BY <1>9, <1>14, <1>15

-----------------------------------------------------------------------------
\* Of the sequence rs, q has the members at the kept places up to n.
PicksAt(q, l, rs, chosen, pos) ==
  /\ pos \in [1..l -> chosen]
  /\ \A a \in 1..l : q[a] = rs[pos[a]]
  /\ \A a, b \in 1..l : pos[a] = pos[b] => a = b
  /\ \A j \in chosen : \E a \in 1..l : pos[a] = j
Picks(q, rs, kept, n) == \E pos : PicksAt(q, Len(q), rs, kept \cap (1..n), pos)

\* What is not absorbed is left, once each.
LEMMA LeftIs ==
  ASSUME NEW R, NEW rs \in Seq(R), NEW kept \in SUBSET DOMAIN rs
  PROVE  /\ Left(rs, kept) \in Seq(R) /\ Picks(Left(rs, kept), rs, kept, Len(rs))
         /\ kept = DOMAIN rs => Left(rs, kept) = rs
<1> DEFINE n == Len(rs)
           Q == Seq(R)
           Next_(q, i) == IF i \in kept THEN Append(q, rs[i]) ELSE q
           step == [x \in Q \X (1..n) |-> Next_(x[1], x[2])]
           Is(g) == g = [i \in 0..n |-> IF i = 0 THEN <<>>
                                        ELSE IF i \in kept THEN Append(g[i - 1], rs[i]) ELSE g[i - 1]]
           upTo == CHOOSE g : Is(g)
<1>1. n \in Nat /\ DOMAIN rs = 1..n /\ (\A i \in 1..n : rs[i] \in R) /\ <<>> \in Q
  OBVIOUS
<1>2. ASSUME NEW q \in Q, NEW i \in 1..n PROVE Next_(q, i) \in Q
  BY <1>1
<1>3. StepOn(Q, n, step)
  <2> HIDE DEF Q, Next_
  <2> QED
    BY <1>2 DEF StepOn
<1>4. ASSUME NEW q \in Q, NEW i \in 1..n PROVE step[<<q, i>>] = Next_(q, i)
  <2> HIDE DEF Q, Next_
  <2> QED
    OBVIOUS
<1> HIDE DEF step, Q
<1>5. PICK f : Stepwise(Q, n, <<>>, step, f)
  <2> HIDE DEF n
  <2> QED
    BY <1>1, <1>3, StepsExist
<1>6. Is(f)
  <2>0. f = [i \in 0..n |-> f[i]] /\ (\A i \in 0..n : f[i] \in Q) /\ f[0] = <<>>
        /\ \A i \in 1..n : f[i] = step[<<f[i - 1], i>>]
    BY <1>5 DEF Stepwise
  <2>1. ASSUME NEW i \in 0..n
        PROVE  f[i] = IF i = 0 THEN <<>> ELSE IF i \in kept THEN Append(f[i - 1], rs[i]) ELSE f[i - 1]
    <3>1. CASE i = 0
      BY <2>0, <3>1
    <3>2. CASE i # 0
      <4>1. i \in 1..n /\ i - 1 \in 0..n
        BY <1>1, <3>2
      <4>2. f[i] = Next_(f[i - 1], i)
        BY <1>4, <2>0, <4>1
      <4> QED
        BY <3>2, <4>2
    <3> QED
      BY <3>1, <3>2
  <2> QED
    BY <2>0, <2>1, Zenon
<1>7. ASSUME NEW g, Is(g) PROVE g[0] = <<>> /\ \A i \in 1..n : g[i] = Next_(g[i - 1], i)
  <2>1. \A i \in 0..n : g[i] = IF i = 0 THEN <<>> ELSE IF i \in kept THEN Append(g[i - 1], rs[i]) ELSE g[i - 1]
    <3>1. DOMAIN g = 0..n
      BY <1>7
    <3> QED
      BY <1>7, Zenon
  <2>2. 0 \in 0..n /\ \A i \in 1..n : i \in 0..n /\ i # 0
    BY <1>1
  <2> QED
    BY <2>1, <2>2, Zenon
<1>8. Left(rs, kept) = upTo[n]
  BY DEF Left
<1>9. Is(upTo)
  <2> HIDE DEF Is
  <2> QED
    BY <1>6
<1>10. upTo[0] = <<>> /\ \A i \in 1..n : upTo[i] = Next_(upTo[i - 1], i)
  <2> HIDE DEF Is, upTo, Next_
  <2> QED
    BY <1>7, <1>9
<1> HIDE DEF upTo, Is
<1> DEFINE Fits(i) == /\ upTo[i] \in Q /\ Picks(upTo[i], rs, kept, i)
                      /\ kept = DOMAIN rs => Len(upTo[i]) = i /\ \A j \in 1..i : upTo[i][j] = rs[j]
           T == {i \in 0..n : Fits(i)}
<1>11. 0 \in T
  <2>1. Picks(<<>>, rs, kept, 0)
    <3> DEFINE pos == [a \in 1..0 |-> a]
    <3>1. Len(<<>>) = 0 /\ 1..0 = {} /\ pos \in [1..0 -> kept \cap (1..0)]
      OBVIOUS
    <3> HIDE DEF pos
    <3>2. PicksAt(<<>>, 0, rs, kept \cap (1..0), pos)
      BY <3>1 DEF PicksAt
    <3> QED
      BY <3>1, <3>2 DEF Picks
  <2> QED
    BY <1>1, <1>10, <2>1
<1>12. ASSUME NEW i \in 0..n-1, i \in T PROVE Fits(i + 1)
  <2> DEFINE b == upTo[i]
             c == upTo[i + 1]
             l == Len(b)
  <2>1. i \in Nat /\ i + 1 \in 1..n /\ (i + 1) - 1 = i
    BY <1>1
  <2>2. c = Next_(b, i + 1)
    BY <1>10, <2>1
  <2>3. b \in Q /\ Picks(b, rs, kept, i)
        /\ (kept = DOMAIN rs => Len(b) = i /\ \A j \in 1..i : b[j] = rs[j])
    BY <1>12
  <2>4. l \in Nat
    BY <2>3 DEF Q
  <2> HIDE DEF b, c, T
  <2>5. PICK pos :
          /\ pos \in [1..l -> kept \cap (1..i)]
          /\ \A a \in 1..l : b[a] = rs[pos[a]]
          /\ \A a, d \in 1..l : pos[a] = pos[d] => a = d
          /\ \A j \in kept \cap (1..i) : \E a \in 1..l : pos[a] = j
    BY <2>3 DEF Picks, PicksAt
  <2>6. CASE i + 1 \notin kept
    <3>1. c = b /\ kept \cap (1..i+1) = kept \cap (1..i)
      BY <2>1, <2>2, <2>6
    <3>2. kept # DOMAIN rs
      BY <1>1, <2>1, <2>6
    <3> QED
      BY <2>3, <3>1, <3>2 DEF Picks, c
  <2>7. CASE i + 1 \in kept
    <3>1. c = Append(b, rs[i + 1])
      BY <2>2, <2>7
    <3>2. /\ c \in Q /\ Len(c) = l + 1 /\ c[l + 1] = rs[i + 1]
          /\ \A a \in 1..l : c[a] = b[a]
      <4>1. rs[i + 1] \in R /\ b \in Seq(R)
        BY <1>1, <2>1, <2>3 DEF Q
      <4> QED
        BY <3>1, <4>1 DEF Q
    <3> HIDE DEF l
    <3> DEFINE new == [a \in 1..l+1 |-> IF a = l + 1 THEN i + 1 ELSE pos[a]]
    <3>3. new \in [1..l+1 -> kept \cap (1..i+1)]
      <4>1. ASSUME NEW a \in 1..l+1 PROVE new[a] \in kept \cap (1..i+1)
        <5>1. CASE a = l + 1
          BY <2>1, <2>7, <5>1
        <5>2. CASE a \in 1..l
          BY <2>1, <2>4, <2>5, <5>2
        <5> QED
          BY <2>4, <5>1, <5>2
      <4> QED
        BY <4>1
    <3>4. /\ new[l + 1] = i + 1 /\ \A a \in 1..l : new[a] = pos[a] /\ pos[a] \in 1..i /\ a # l + 1
          /\ \A a \in 1..l+1 : a \in 1..l \/ a = l + 1
      BY <2>4, <2>5
    <3> HIDE DEF new
    <3>5. \A a \in 1..l+1 : c[a] = rs[new[a]]
      BY <2>5, <3>2, <3>4
    <3>6. \A a, d \in 1..l+1 : new[a] = new[d] => a = d
      <4>1. \A j \in 1..i : j # i + 1
        BY <2>1
      <4> QED
        BY <2>5, <3>4, <4>1
    <3>7. \A j \in kept \cap (1..i+1) : \E a \in 1..l+1 : new[a] = j
      <4>1. 1..l \subseteq 1..l+1 /\ l + 1 \in 1..l+1
        BY <2>4
      <4>2. \A j \in 1..i+1 : j \in 1..i \/ j = i + 1
        BY <2>1
      <4> QED
        BY <2>5, <3>4, <4>1, <4>2
    <3>8. Picks(c, rs, kept, i + 1)
      <4>1. PicksAt(c, l + 1, rs, kept \cap (1..i+1), new)
        BY <3>3, <3>5, <3>6, <3>7 DEF PicksAt
      <4> QED
        BY <3>2, <4>1 DEF Picks
    <3>9. ASSUME kept = DOMAIN rs PROVE Len(c) = i + 1 /\ \A j \in 1..i+1 : c[j] = rs[j]
      <4>1. l = i /\ \A j \in 1..i : b[j] = rs[j]
        BY <2>3, <3>9 DEF l
      <4>2. \A j \in 1..i+1 : j \in 1..i \/ j = i + 1
        BY <2>1
      <4> QED
        BY <3>2, <4>1, <4>2
    <3> QED
      BY <3>2, <3>8, <3>9 DEF c
  <2> QED
    BY <2>6, <2>7
<1>13. n \in T
  <2>1. \A i \in 0..n-1 : i \in T => i + 1 \in T
    BY <1>1, <1>12
  <2> HIDE DEF T
  <2>2. 0..n \subseteq T
    BY <1>1, <1>11, <2>1, CountUp
  <2> QED
    BY <1>1, <2>2
<1>14. Fits(n)
  BY <1>13
<1>15. ASSUME kept = DOMAIN rs PROVE upTo[n] = rs
  <2>1. upTo[n] \in Seq(R) /\ Len(upTo[n]) = n /\ \A j \in 1..n : upTo[n][j] = rs[j]
    BY <1>14, <1>15 DEF Q
  <2> QED
    BY <2>1, SeqEqual
<1> QED
  BY <1>8, <1>14, <1>15 DEF Q

-----------------------------------------------------------------------------
\* No minute of A is one of B, or comes right before one.
Sep(A, B) == \A t \in A : {t, (t + 1) % Week} \cap B = {}

\* Two minutes with the same place in the week are some weeks apart.
LEMMA WeeksApart ==
  ASSUME NEW t \in Int, NEW u \in Int, t % Week = u % Week
  PROVE  \E j \in Int : t = u + j * Week
<1> DEFINE a == t \div Week
           b == u \div Week
           r == t % Week
<1>1. Week \in Nat /\ Week >= 1
  BY WeekIs
<1>2. a \in Int /\ b \in Int /\ r \in 0..Week-1 /\ t = a * Week + r /\ u = b * Week + r
  <2>1. a \in Int /\ r \in 0..Week-1 /\ t = a * Week + r
    BY <1>1, Divides, Zenon
  <2>2. b \in Int /\ u = b * Week + (u % Week)
    BY <1>1, Divides, Zenon
  <2> QED
    BY <2>1, <2>2
<1> HIDE DEF a, b, r
<1>3. t = u + (a - b) * Week /\ a - b \in Int
  BY <1>1, <1>2
<1> QED
  BY <1>3

\* The minute after one, in its place in the week.
LEMMA NextMinute ==
  ASSUME NEW t \in Int PROVE ((t % Week) + 1) % Week = (t + 1) % Week
<1> DEFINE a == t \div Week
           r == t % Week
<1>1. Week \in Nat /\ Week >= 1
  BY WeekIs
<1>2. a \in Int /\ r \in 0..Week-1 /\ t = a * Week + r
  BY <1>1, Divides, Zenon
<1> HIDE DEF a, r
<1>3. t + 1 = (r + 1) + a * Week /\ r + 1 \in Int
  BY <1>1, <1>2
<1>4. ((r + 1) + a * Week) % Week = (r + 1) % Week
  BY <1>1, <1>2, <1>3, Rotated
<1> QED
  BY <1>3, <1>4 DEF r

\* A pair that is clear of a range is clear of it in every week.
LEMMA ClearIsApart ==
  ASSUME NEW m \in Pairs, NEW x \in Minutes, m.s =< x, x =< m.e, NEW r \in Inputs, Clear(m, r)
  PROVE  Sep(Span(m.s, m.e), Asked(r)) /\ Sep(Asked(r), Span(m.s, m.e))
<1> DEFINE a == to_pair(r).s
           b == to_pair(r).e
<1>1. /\ a \in Int /\ 0 =< a /\ a < Week /\ b \in Int /\ a =< b /\ Asked(r) = Span(a, b)
      /\ Week \in Nat /\ Week >= 1 /\ m.s \in Int /\ m.e \in Int
      /\ x \in Int /\ 0 =< x /\ x < Week
  BY PairIs, WeekIs DEF Pairs
<1>2. \A k \in Shifts : ~(a + k =< m.e + 1 /\ b + k >= m.s - 1)
  BY DEF Clear, Touches
<1> HIDE DEF a, b
<1>3. /\ ~(a + (-Week) =< m.e + 1 /\ b + (-Week) >= m.s - 1)
      /\ ~(a + 0 =< m.e + 1 /\ b + 0 >= m.s - 1)
      /\ ~(a + Week =< m.e + 1 /\ b + Week >= m.s - 1)
  BY <1>2 DEF Shifts
<1>4. b - Week < m.s - 1 /\ a + Week > m.e + 1
  BY <1>1, <1>3
<1>5. ASSUME NEW j \in Int PROVE b + j * Week < m.s - 1 \/ a + j * Week > m.e + 1
  <2>0. j * Week \in Int
    BY <1>1
  <2>1. CASE j = 0
    BY <1>1, <1>3, <2>1
  <2>2. CASE j >= 1
    <3>1. j * Week >= 1 * Week
      BY <1>1, <2>2
    <3> QED
      BY <1>1, <1>4, <2>0, <3>1
  <2>3. CASE j =< -1
    <3>1. j * Week =< (-1) * Week
      BY <1>1, <2>3
    <3> QED
      BY <1>1, <1>4, <2>0, <3>1
  <2> QED
    BY <2>1, <2>2, <2>3
<1>6. ASSUME NEW t \in m.s..m.e, NEW u \in a..b, NEW d \in {-1, 0, 1}
      PROVE  (t + d) % Week # u % Week
  <2> SUFFICES ASSUME (t + d) % Week = u % Week PROVE FALSE
    OBVIOUS
  <2>1. t \in Int /\ u \in Int /\ d \in Int /\ t + d \in Int
    BY <1>1
  <2>2. PICK j \in Int : t + d = u + j * Week
    BY <2>1, WeeksApart
  <2>3. j * Week \in Int
    BY <1>1
  <2> QED
    <3>1. b + j * Week < m.s - 1 \/ a + j * Week > m.e + 1
      BY <1>5
    <3> DEFINE k == j * Week
    <3> HIDE DEF k
    <3>2. k \in Int /\ t + d = u + k /\ (b + k < m.s - 1 \/ a + k > m.e + 1)
      BY <2>2, <2>3, <3>1 DEF k
    <3>3. d >= -1 /\ d =< 1 /\ m.s =< t /\ t =< m.e /\ a =< u /\ u =< b
      BY <1>1, <2>1
    <3> QED
      BY <1>1, <2>1, <3>2, <3>3
<1>7. Sep(Span(m.s, m.e), Span(a, b))
  <2> SUFFICES ASSUME NEW t \in m.s..m.e, NEW u \in a..b
               PROVE  t % Week # u % Week /\ ((t % Week) + 1) % Week # u % Week
    BY DEF Sep, Span
  <2>1. t \in Int /\ t + 0 = t
    BY <1>1
  <2>2. (t + 0) % Week # u % Week /\ (t + 1) % Week # u % Week
    BY <1>6
  <2> QED
    BY <2>1, <2>2, NextMinute
<1>8. Sep(Span(a, b), Span(m.s, m.e))
  <2> SUFFICES ASSUME NEW u \in a..b, NEW t \in m.s..m.e
               PROVE  u % Week # t % Week /\ ((u % Week) + 1) % Week # t % Week
    BY DEF Sep, Span
  <2>1. t \in Int /\ u \in Int /\ t + 0 = t /\ u + 1 \in Int
    BY <1>1
  <2>2. (t + 0) % Week # u % Week
    BY <1>6
  <2>3. ASSUME (u + 1) % Week = t % Week PROVE FALSE
    <3>1. PICK j \in Int : u + 1 = t + j * Week
      BY <2>1, <2>3, WeeksApart
    <3>2. u = (t + (-1)) + j * Week /\ t + (-1) \in Int
      BY <1>1, <2>1, <3>1
    <3>3. u % Week = (t + (-1)) % Week
      BY <1>1, <3>2, Rotated
    <3> QED
      BY <1>6, <3>3
  <2> QED
    BY <2>1, <2>2, <2>3, NextMinute
<1> QED
  BY <1>1, <1>7, <1>8

\* Two ranges that are apart do not touch, in whichever week they are compared.
LEMMA ApartIsClear ==
  ASSUME NEW m, m.s \in Int, m.e \in Int, m.s =< m.e, NEW r \in Inputs,
         Sep(Span(m.s, m.e), Asked(r)), Sep(Asked(r), Span(m.s, m.e))
  PROVE  Clear(m, r)
<1> DEFINE a == to_pair(r).s
           b == to_pair(r).e
<1>1. /\ a \in Int /\ b \in Int /\ a =< b /\ Asked(r) = Span(a, b)
      /\ Week \in Nat /\ Week >= 1
  BY PairIs, WeekIs
<1>2. SUFFICES ASSUME NEW k \in Shifts, a + k =< m.e + 1, b + k >= m.s - 1 PROVE FALSE
  BY DEF Clear, Touches
<1>3. PICK q \in Int : k = q * Week
  <2>1. -Week = (-1) * Week /\ 0 = 0 * Week /\ Week = 1 * Week
    BY <1>1
  <2> QED
    BY <2>1 DEF Shifts
<1> HIDE DEF a, b
<1>4. Span(a + k, b + k) = Asked(r)
  <2>1. Span(a + q * Week, b + q * Week) = Span(a, b)
    BY <1>1, SpanRotates
  <2> QED
    BY <1>1, <1>3, <2>1
<1> DEFINE u == a + k
           v == b + k
<1>5. u \in Int /\ v \in Int /\ u =< v /\ u =< m.e + 1 /\ v >= m.s - 1 /\ Span(u, v) = Asked(r)
  <2>1. k \in Int
    BY <1>1 DEF Shifts
  <2> QED
    BY <1>1, <1>2, <1>4, <2>1
<1> HIDE DEF u, v
<1>6. /\ \A t \in m.s..m.e : t % Week \in Span(m.s, m.e)
      /\ \A t \in u..v : t % Week \in Asked(r)
  BY <1>5 DEF Span
<1>7. CASE u = m.e + 1
  <2>1. m.e \in m.s..m.e /\ u \in u..v
    BY <1>5
  <2>2. ((m.e % Week) + 1) % Week = u % Week
    BY <1>7, NextMinute
  <2> QED
    BY <1>6, <2>1, <2>2 DEF Sep
<1>8. CASE v = m.s - 1
  <2>1. m.s \in m.s..m.e /\ v \in u..v /\ v + 1 = m.s
    BY <1>5, <1>8
  <2>2. ((v % Week) + 1) % Week = m.s % Week
    BY <1>5, <2>1, NextMinute
  <2> QED
    BY <1>6, <2>1, <2>2 DEF Sep
<1>9. CASE u =< m.e /\ v >= m.s
  <2> DEFINE x == IF u >= m.s THEN u ELSE m.s
  <2>1. x \in m.s..m.e /\ x \in u..v
    BY <1>5, <1>9
  <2> HIDE DEF x
  <2> QED
    BY <1>6, <2>1 DEF Sep
<1> QED
  BY <1>5, <1>7, <1>8, <1>9

-----------------------------------------------------------------------------
(***************************************************************************)
(* What add_range keeps.                                                   *)
(***************************************************************************)
Apart(rs) == \A i, j \in DOMAIN rs : i # j => Sep(Asked(rs[i]), Asked(rs[j]))

\* The stored ranges: apart, and each as add_range would store it again.
Proper(rs) == /\ rs \in Seq(Stored) /\ Apart(rs)
              /\ \A i \in DOMAIN rs : Merged(to_pair(rs[i])) = rs[i]

\* All that the ranges stand for.
Covered(rs) == UNION {Asked(rs[i]) : i \in DOMAIN rs}

\* The pair that add_range starts with.
Pair(rs, r) == [s |-> to_pair(r).s, e |-> to_pair(r).e, kept |-> DOMAIN rs]

\* add_range() starts from the span that was asked for, and stores what it grew to.
LEMMA PairGrows ==
  ASSUME NEW rs \in Seq(Stored), NEW r \in Inputs
  PROVE  Adding(to_pair(r), rs) /\ Grown(to_pair(r), rs, Pair(rs, r))
         /\ Added(rs, r) = Append(Left(rs, Absorbed(Pair(rs, r), rs).kept), Merged(Absorbed(Pair(rs, r), rs)))
<1>1. /\ to_pair(r).s \in Int /\ to_pair(r).e \in Int /\ to_pair(r).s =< to_pair(r).e
      /\ rs \in Seq(Inputs) /\ DOMAIN rs \in SUBSET Nat
  <2>1. to_pair(r).s \in Int /\ to_pair(r).e \in Int /\ to_pair(r).s =< to_pair(r).e
    BY PairIs, WeekIs
  <2>2. rs \in Seq(Inputs)
    BY StoredAreInputs
  <2> QED
    BY <2>1, <2>2
<1>2. Pair(rs, r) \in Pairs
  BY <1>1 DEF Pair, Pairs
<1>3. /\ Pair(rs, r).s = to_pair(r).s /\ Pair(rs, r).e = to_pair(r).e /\ Pair(rs, r).kept = DOMAIN rs
  BY DEF Pair
<1>4. DOMAIN rs \ DOMAIN rs = {}
  OBVIOUS
<1>5. Grown(to_pair(r), rs, Pair(rs, r))
  BY <1>1, <1>2, <1>3, <1>4 DEF Grown
<1>6. Added(rs, r) = Append(Left(rs, Absorbed(Pair(rs, r), rs).kept), Merged(Absorbed(Pair(rs, r), rs)))
  BY DEF Added, Pair
<1> QED
  BY <1>1, <1>5, <1>6 DEF Adding

\* Adding a range keeps the stored ranges proper, and adds its minutes.
LEMMA AddedIs ==
  ASSUME NEW rs, Proper(rs), NEW r \in Inputs
  PROVE  Proper(Added(rs, r)) /\ Covered(Added(rs, r)) = Covered(rs) \cup Asked(r)
<1> DEFINE p == to_pair(r)
           m == Absorbed(Pair(rs, r), rs)
           q == Left(rs, m.kept)
           new == Merged(m)
           c == Append(q, new)
<1>1. rs \in Seq(Stored) /\ Adding(p, rs) /\ Grown(p, rs, Pair(rs, r)) /\ Added(rs, r) = c
  BY PairGrows DEF Proper
<1>2. Grown(p, rs, m) /\ Settled(m, rs)
  BY <1>1, AbsorbedIs
<1>3. /\ m \in Pairs /\ m.s \in Int /\ m.e \in Int /\ m.s =< m.e /\ m.s =< p.s /\ p.s =< m.e
      /\ p.s \in Minutes /\ m.kept \in SUBSET DOMAIN rs
      /\ Asked(r) = Span(p.s, p.e)
      /\ Span(m.s, m.e) = Asked(r) \cup UNION {Asked(rs[i]) : i \in DOMAIN rs \ m.kept}
  <2>1. p.s \in Minutes /\ p.s \in Int /\ p.e \in Int /\ p.s =< p.e /\ Asked(r) = Span(p.s, p.e)
    BY PairIs, WeekIs
  <2> QED
    BY <1>2, <2>1 DEF Grown, Pairs
<1>4. q \in Seq(Stored) /\ Picks(q, rs, m.kept, Len(rs))
  BY <1>1, <1>3, LeftIs
<1>5. new \in Stored /\ Asked(new) = Span(m.s, m.e) /\ Merged(to_pair(new)) = new
  BY <1>3, MergedIs
<1> DEFINE l == Len(q)
<1> HIDE DEF p, m, q, new
<1>6. PICK pos : PicksAt(q, l, rs, m.kept \cap (1..Len(rs)), pos)
  BY <1>4 DEF Picks
<1>7. DOMAIN rs = 1..Len(rs) /\ m.kept \cap (1..Len(rs)) = m.kept
  BY <1>1, <1>3
<1>8. /\ l \in Nat /\ c \in Seq(Stored) /\ DOMAIN c = 1..l+1 /\ c[l + 1] = new
      /\ \A a \in 1..l : c[a] = q[a]
  BY <1>4, <1>5
<1> HIDE DEF c, l
<1>9. /\ \A a \in 1..l : pos[a] \in m.kept /\ pos[a] \in DOMAIN rs /\ c[a] = rs[pos[a]]
      /\ \A a, b \in 1..l : pos[a] = pos[b] => a = b
      /\ \A j \in m.kept : \E a \in 1..l : pos[a] = j
  <2>1. PicksAt(q, l, rs, m.kept, pos)
    BY <1>6, <1>7
  <2> QED
    BY <1>3, <1>8, <2>1 DEF PicksAt
<1>10. \A a \in 1..l+1 : a \in 1..l \/ a = l + 1
  BY <1>8
<1>11. ASSUME NEW a \in 1..l PROVE Sep(Asked(c[a]), Asked(new)) /\ Sep(Asked(new), Asked(c[a]))
  <2>1. c[a] \in Inputs /\ c[a] = rs[pos[a]] /\ pos[a] \in m.kept
    BY <1>1, <1>9, StoredAreInputs
  <2>2. Clear(m, c[a])
    BY <1>2, <2>1 DEF Settled
  <2> QED
    BY <1>3, <1>5, <2>1, <2>2, ClearIsApart
<1>12. Apart(c)
  <2> SUFFICES ASSUME NEW i \in 1..l+1, NEW j \in 1..l+1, i # j PROVE Sep(Asked(c[i]), Asked(c[j]))
    BY <1>8 DEF Apart
  <2>1. CASE i = l + 1
    BY <1>8, <1>10, <1>11, <2>1
  <2>2. CASE j = l + 1
    BY <1>8, <1>10, <1>11, <2>2
  <2>3. CASE i \in 1..l /\ j \in 1..l
    <3>1. pos[i] # pos[j] /\ pos[i] \in DOMAIN rs /\ pos[j] \in DOMAIN rs
      BY <1>9, <2>3
    <3>2. Sep(Asked(rs[pos[i]]), Asked(rs[pos[j]]))
      BY <3>1 DEF Proper, Apart
    <3> QED
      BY <1>9, <2>3, <3>2
  <2> QED
    BY <1>10, <2>1, <2>2, <2>3
<1>13. ASSUME NEW i \in 1..l+1 PROVE Merged(to_pair(c[i])) = c[i]
  <2>1. CASE i = l + 1
    BY <1>5, <1>8, <2>1
  <2>2. CASE i \in 1..l
    BY <1>9, <2>2 DEF Proper
  <2> QED
    BY <1>10, <2>1, <2>2
<1>14. Proper(c)
  BY <1>8, <1>12, <1>13 DEF Proper
<1>15. Covered(c) = (UNION {Asked(rs[j]) : j \in m.kept}) \cup Asked(new)
  <2>1. ASSUME NEW t \in Covered(c) PROVE t \in (UNION {Asked(rs[j]) : j \in m.kept}) \cup Asked(new)
    <3>1. PICK i \in 1..l+1 : t \in Asked(c[i])
      BY <1>8, <2>1 DEF Covered
    <3>2. CASE i = l + 1
      BY <1>8, <3>1, <3>2
    <3>3. CASE i \in 1..l
      BY <1>9, <3>1, <3>3
    <3> QED
      BY <1>10, <3>1, <3>2, <3>3
  <2>2. Asked(new) \subseteq Covered(c)
    <3>1. l + 1 \in DOMAIN c
      BY <1>8
    <3> QED
      BY <1>8, <3>1 DEF Covered
  <2>3. ASSUME NEW j \in m.kept PROVE Asked(rs[j]) \subseteq Covered(c)
    <3>1. PICK a \in 1..l : pos[a] = j
      BY <1>9
    <3>2. c[a] = rs[j] /\ a \in DOMAIN c
      BY <1>8, <1>9, <3>1
    <3> QED
      BY <3>2, Zenon DEF Covered
  <2> QED
    BY <2>1, <2>2, <2>3
<1>16. Covered(rs) = (UNION {Asked(rs[j]) : j \in m.kept}) \cup UNION {Asked(rs[i]) : i \in DOMAIN rs \ m.kept}
  BY <1>3 DEF Covered
<1> QED
  BY <1>1, <1>3, <1>5, <1>14, <1>15, <1>16 DEF c

\* A range that is apart from the stored ones is stored after them, as it is.
LEMMA AddedApart ==
  ASSUME NEW rs, rs \in Seq(Stored), NEW r \in Stored, Merged(to_pair(r)) = r,
         \A i \in DOMAIN rs : Sep(Asked(r), Asked(rs[i])) /\ Sep(Asked(rs[i]), Asked(r))
  PROVE  Added(rs, r) = Append(rs, r)
<1> DEFINE p == to_pair(r)
           m == Pair(rs, r)
<1>1. r \in Inputs /\ p.s \in Int /\ p.e \in Int /\ p.s =< p.e /\ Asked(r) = Span(p.s, p.e)
  BY StoredAreInputs, PairIs, WeekIs
<1>2. m.s = p.s /\ m.e = p.e /\ m.kept = DOMAIN rs
  BY DEF Pair
<1>3. /\ Adding(p, rs) /\ Grown(p, rs, m)
      /\ Added(rs, r) = Append(Left(rs, Absorbed(m, rs).kept), Merged(Absorbed(m, rs)))
  BY <1>1, PairGrows
<1> HIDE DEF m
<1>4. Settled(m, rs)
  <2> SUFFICES ASSUME NEW i \in DOMAIN rs PROVE Clear(m, rs[i])
    BY <1>2 DEF Settled
  <2>1. rs[i] \in Inputs
    BY StoredAreInputs
  <2>2. m.s \in Int /\ m.e \in Int /\ m.s =< m.e /\ Asked(r) = Span(m.s, m.e)
    BY <1>1, <1>2
  <2>3. Sep(Span(m.s, m.e), Asked(rs[i])) /\ Sep(Asked(rs[i]), Span(m.s, m.e))
    BY <2>2
  <2> QED
    BY <2>1, <2>2, <2>3, ApartIsClear
<1>5. Absorbed(m, rs) = m
  BY <1>3, <1>4, AbsorbedIs
<1>6. Merged(m) = r
  <2>1. Merged(m) = Merged(p)
    BY <1>2 DEF Merged
  <2> QED
    BY <2>1
<1>7. Left(rs, m.kept) = rs
  BY <1>2, LeftIs
<1> QED
  BY <1>3, <1>5, <1>6, <1>7

-----------------------------------------------------------------------------
(***************************************************************************)
(* To JSON and back.                                                       *)
(***************************************************************************)
\* A day is found by its name.
LEMMA DayIsRead ==
  ASSUME NEW d \in Weekdays PROVE parse_day(day_name[d + 1]) = d
<1>1. Weekdays \subseteq 0..6
  BY DaysAssumption DEF Weekdays
<1>2. /\ day_name[1] = "Mon" /\ day_name[2] = "Tue" /\ day_name[3] = "Wed" /\ day_name[4] = "Thu"
      /\ day_name[5] = "Fri" /\ day_name[6] = "Sat" /\ day_name[7] = "Sun"
  BY DEF day_name
<1>3. ASSUME NEW a \in 0..6, NEW b \in 0..6, day_name[a + 1] = day_name[b + 1] PROVE a = b
  <2>1. /\ a = 0 \/ a = 1 \/ a = 2 \/ a = 3 \/ a = 4 \/ a = 5 \/ a = 6
        /\ b = 0 \/ b = 1 \/ b = 2 \/ b = 3 \/ b = 4 \/ b = 5 \/ b = 6
    OBVIOUS
  <2>2. /\ 0 + 1 = 1 /\ 1 + 1 = 2 /\ 2 + 1 = 3 /\ 3 + 1 = 4 /\ 4 + 1 = 5 /\ 5 + 1 = 6 /\ 6 + 1 = 7
    OBVIOUS
  <2> QED
    BY <1>2, <1>3, <2>1, <2>2
<1>4. parse_day(day_name[d + 1]) \in Weekdays /\ day_name[parse_day(day_name[d + 1]) + 1] = day_name[d + 1]
  BY DEF parse_day
<1> QED
  BY <1>1, <1>3, <1>4

\* What to_json() writes, from_json() reads.
LEMMA JsonIsRead ==
  ASSUME NEW rs \in Seq(Stored) PROVE from_json(to_json(rs)) = rs /\ Len(to_json(rs)) = Len(rs)
<1> DEFINE j == to_json(rs)
<1>1. /\ Len(rs) \in Nat /\ DOMAIN rs = 1..Len(rs) /\ rs = [i \in DOMAIN rs |-> rs[i]]
      /\ \A i \in DOMAIN rs : rs[i] \in Stored
  OBVIOUS
<1>2. DOMAIN j = DOMAIN rs
  BY DEF to_json
<1>3. Len(j) = Len(rs)
  <2> HIDE DEF j
  <2> QED
    BY <1>1, <1>2, LenProperties
<1>4. ASSUME NEW i \in DOMAIN rs PROVE from_json(j)[i] = rs[i]
  <2> DEFINE r == rs[i]
             w == [[r EXCEPT !.sd = day_name[r.sd + 1]] EXCEPT !.ed = day_name[r.ed + 1]]
  <2>1. r \in Stored
    BY <1>1
  <2>2. j[i] = [r EXCEPT !.sd = day_name[@ + 1], !.ed = day_name[@ + 1]]
    BY DEF to_json
  <2> HIDE DEF r
  <2>3. /\ r = [sd |-> r.sd, sm |-> r.sm, ed |-> r.ed, em |-> r.em]
        /\ r.sd \in Weekdays /\ r.ed \in Weekdays
    BY <2>1 DEF Stored
  <2>4. j[i] = [sd |-> day_name[r.sd + 1], sm |-> r.sm, ed |-> day_name[r.ed + 1], em |-> r.em]
    BY <2>2, <2>3
  <2> DEFINE x == j[i]
             a == parse_day(x.sd)
             b == parse_day(x.ed)
  <2>5. from_json(j)[i] = [x EXCEPT !.sd = a, !.ed = b]
    BY <1>2 DEF from_json
  <2>6. from_json(j)[i] = [sd |-> parse_day(day_name[r.sd + 1]), sm |-> r.sm,
                           ed |-> parse_day(day_name[r.ed + 1]), em |-> r.em]
    <3>1. /\ x = [sd |-> x.sd, sm |-> x.sm, ed |-> x.ed, em |-> x.em]
          /\ x.sd = day_name[r.sd + 1] /\ x.sm = r.sm /\ x.ed = day_name[r.ed + 1] /\ x.em = r.em
      BY <2>4
    <3>2. a = parse_day(day_name[r.sd + 1]) /\ b = parse_day(day_name[r.ed + 1])
      BY <3>1, Zenon
    <3> HIDE DEF x, a, b
    <3>3. ASSUME NEW c, NEW d, NEW e, NEW g, x = [sd |-> c, sm |-> d, ed |-> e, em |-> g]
          PROVE  [x EXCEPT !.sd = a, !.ed = b] = [sd |-> a, sm |-> d, ed |-> b, em |-> g]
      <4>1. [x EXCEPT !.sd = a] = [sd |-> a, sm |-> d, ed |-> e, em |-> g]
        BY <3>3
      <4>2. \A y : y = [sd |-> a, sm |-> d, ed |-> e, em |-> g]
                  => [y EXCEPT !.ed = b] = [sd |-> a, sm |-> d, ed |-> b, em |-> g]
        OBVIOUS
      <4> QED
        BY <4>1, <4>2, Zenon
    <3> QED
      BY <2>5, <3>1, <3>2, <3>3
  <2> QED
    BY <2>3, <2>6, DayIsRead DEF r
<1>5. from_json(j) = [i \in DOMAIN rs |-> from_json(j)[i]]
  BY <1>2 DEF from_json
<1> HIDE DEF j
<1>6. from_json(j) = rs
  BY <1>1, <1>4, <1>5
<1> QED
  BY <1>3, <1>6 DEF j

\* The stored ranges, added again to an empty scheduler, are the stored ranges.
LEMMA LoadedIs ==
  ASSUME NEW rs, Proper(rs) PROVE load_from_json(<<>>, to_json(rs)) = rs
<1> DEFINE n == Len(rs)
           First(i) == [k \in 1..i |-> rs[k]]
           Is(g) == g = [i \in 0..n |-> IF i = 0 THEN <<>> ELSE Added(g[i - 1], rs[i])]
           f == [i \in 0..n |-> First(i)]
           after == CHOOSE g : Is(g)
<1>1. /\ rs \in Seq(Stored) /\ n \in Nat /\ DOMAIN rs = 1..n /\ \A i \in 1..n : rs[i] \in Stored
  BY DEF Proper
<1>2. load_from_json(<<>>, to_json(rs)) = after[n]
  <2>1. from_json(to_json(rs)) = rs /\ Len(to_json(rs)) = n
    BY <1>1, JsonIsRead
  <2>2. load_from_json(<<>>, to_json(rs))
          = (CHOOSE g : g = [i \in 0..Len(to_json(rs)) |->
                 IF i = 0 THEN <<>> ELSE Added(g[i - 1], from_json(to_json(rs))[i])])[Len(to_json(rs))]
    BY DEF load_from_json
  <2> QED
    BY <2>1, <2>2
<1>3. ASSUME NEW i \in 1..n PROVE Added(First(i - 1), rs[i]) = First(i)
  <2> DEFINE q == First(i - 1)
  <2>1. i - 1 \in Nat /\ (i - 1) + 1 = i /\ \A k \in 1..i - 1 : k \in 1..n /\ k # i /\ i \in 1..n
    BY <1>1
  <2>2. /\ q \in Seq(Stored) /\ Len(q) = i - 1 /\ DOMAIN q = 1..i - 1 /\ \A k \in 1..i - 1 : q[k] = rs[k]
    <3>1. q \in [1..i - 1 -> Stored]
      BY <1>1, <2>1
    <3>2. q \in Seq(Stored)
      BY <2>1, <3>1, IsASeq
    <3> QED
      BY <2>1, <3>1, <3>2, LenProperties
  <2> HIDE DEF q
  <2>3. \A k \in DOMAIN q : Sep(Asked(rs[i]), Asked(q[k])) /\ Sep(Asked(q[k]), Asked(rs[i]))
    BY <1>1, <2>1, <2>2 DEF Proper, Apart
  <2>4. Added(q, rs[i]) = Append(q, rs[i])
    BY <1>1, <2>2, <2>3, AddedApart DEF Proper
  <2>5. Append(q, rs[i]) = First(i)
    <3>1. Append(q, rs[i]) = [k \in 1..i |-> IF k = i THEN rs[i] ELSE q[k]]
      BY <1>1, <2>1, <2>2
    <3>2. \A k \in 1..i : k = i \/ k \in 1..i - 1
      BY <2>1
    <3> QED
      BY <2>2, <3>1, <3>2
  <2> QED
    BY <2>4, <2>5 DEF q
<1>4. First(0) = <<>>
  OBVIOUS
<1>5. First(n) = rs
  BY <1>1
<1> HIDE DEF First
<1>6. Is(f)
  <2>1. \A i \in 0..n : f[i] = First(i)
    OBVIOUS
  <2>2. ASSUME NEW i \in 0..n PROVE f[i] = IF i = 0 THEN <<>> ELSE Added(f[i - 1], rs[i])
    <3>1. CASE i = 0
      BY <1>4, <2>1, <3>1
    <3>2. CASE i # 0
      <4>1. i \in 1..n /\ i - 1 \in 0..n
        BY <1>1, <3>2
      <4> QED
        BY <1>3, <2>1, <3>2, <4>1
    <3> QED
      BY <3>1, <3>2
  <2>3. f = [i \in 0..n |-> f[i]]
    OBVIOUS
  <2> QED
    BY <2>2, <2>3, Zenon
<1>7. Is(after)
  <2> HIDE DEF Is, f
  <2> QED
    BY <1>6
<1>8. \A i \in 0..n : after[i] = IF i = 0 THEN <<>> ELSE Added(after[i - 1], rs[i])
  <2> HIDE DEF after
  <2>1. DOMAIN after = 0..n
    BY <1>7
  <2> QED
    BY <1>7, Zenon
<1> HIDE DEF after, Is, f
<1> DEFINE T == {i \in 0..n : after[i] = First(i)}
<1>9. 0 \in T
  BY <1>1, <1>4, <1>8
<1>10. ASSUME NEW i \in 0..n-1, i \in T PROVE i + 1 \in T
  <2>1. i + 1 \in 0..n /\ i + 1 # 0 /\ i + 1 \in 1..n /\ (i + 1) - 1 = i
    BY <1>1
  <2>2. after[i + 1] = Added(First(i), rs[i + 1])
    BY <1>8, <1>10, <2>1
  <2>3. Added(First(i), rs[i + 1]) = First(i + 1)
    BY <1>3, <2>1
  <2> QED
    BY <2>1, <2>2, <2>3
<1>11. n \in T
  <2> HIDE DEF T
  <2>1. 0..n \subseteq T
    BY <1>1, <1>9, <1>10, CountUp
  <2> QED
    BY <1>1, <2>1
<1> QED
  BY <1>2, <1>5, <1>11

-----------------------------------------------------------------------------
(***************************************************************************)
(* The inductive invariant.                                                *)
(***************************************************************************)
WeeklyInv ==
  subject = "weekly" =>
    /\ added \subseteq Inputs /\ IsFiniteSet(added)
    /\ Proper(ranges_)
    /\ Covered(ranges_) = AskedFor

\* The schedule starts empty.
LEMMA WeeklyInit == Init => WeeklyInv
<1> SUFFICES ASSUME Init, subject = "weekly"
             PROVE  added \subseteq Inputs /\ IsFiniteSet(added) /\ Proper(ranges_) /\ Covered(ranges_) = AskedFor
  BY DEF WeeklyInv
<1>1. ranges_ = <<>> /\ added = {}
  BY DEF Init, InitWeekly
<1>2. <<>> \in Seq(Stored) /\ DOMAIN <<>> = {}
  OBVIOUS
<1>3. Proper(<<>>) /\ Covered(<<>>) = {}
  BY <1>2 DEF Proper, Apart, Covered
<1>4. AskedFor = {}
  BY <1>1 DEF AskedFor
<1> QED
  BY <1>1, <1>3, <1>4, FS_EmptySet

\* Every operation on the schedule keeps the invariant.
LEMMA WeeklyKept == WeeklyInv /\ [Next]_vars => WeeklyInv'
<1> SUFFICES ASSUME WeeklyInv, [Next]_vars, subject' = "weekly" PROVE WeeklyInv'
  BY DEF WeeklyInv
<1>1. subject = "weekly"
  BY DEF Next, vars
<1>2. /\ added \subseteq Inputs /\ IsFiniteSet(added)
      /\ Proper(ranges_) /\ Covered(ranges_) = AskedFor
  BY <1>1 DEF WeeklyInv
<1>3. ASSUME NEW r \in Inputs, add_range(r) PROVE WeeklyInv'
  <2>1. ranges_' = Added(ranges_, r) /\ added' = added \cup {r}
    BY <1>3 DEF add_range
  <2>2. added' \subseteq Inputs /\ IsFiniteSet(added')
    BY <1>2, <2>1, FS_AddElement
  <2>3. Proper(ranges_') /\ Covered(ranges_') = Covered(ranges_) \cup Asked(r)
    BY <1>2, <2>1, AddedIs
  <2>4. AskedFor' = AskedFor \cup Asked(r)
    BY <2>1 DEF AskedFor
  <2> QED
    BY <1>2, <2>2, <2>3, <2>4 DEF WeeklyInv
<1>4. CASE UNCHANGED weeklyVars
  BY <1>1, <1>2, <1>4 DEF WeeklyInv, weeklyVars, AskedFor
<1> QED
  BY <1>1, <1>3, <1>4 DEF Next, WeeklyStep, NextWeekly, vars

\* So it holds in every behaviour.
LEMMA WeeklyAlways == Spec => []WeeklyInv
BY WeeklyInit, WeeklyKept, PTL DEF Spec

\* Whatever ranges add_range() is given, in whatever order and across the end of
\* the week, the schedule is active exactly in their minutes, unless merging
\* stored an inverted range; and no two stored ranges overlap or touch.
THEOREM ScheduleAsAsked == Spec => []ScheduleIsWhatWasAsked
<1>1. WeeklyInv => ScheduleIsWhatWasAsked
  <2> SUFFICES ASSUME WeeklyInv, subject = "weekly" PROVE ActiveExactlyWhenAsked /\ Separated
    BY DEF ScheduleIsWhatWasAsked
  <2>1. Proper(ranges_) /\ Covered(ranges_) = AskedFor
    BY DEF WeeklyInv
  <2>2. Separated
    BY <2>1 DEF Separated, Proper, Apart, Sep
  <2>3. ASSUME ~SomeInverted(ranges_) PROVE Active(ToSet(ranges_)) = AskedFor
    <3>1. ToSet(ranges_) = {ranges_[i] : i \in DOMAIN ranges_}
      BY DEF ToSet
    <3>2. \A i \in DOMAIN ranges_ : ranges_[i] \in Stored
      BY <2>1 DEF Proper
    <3>3. ToSet(ranges_) \in SUBSET Stored
      BY <3>1, <3>2
    <3>4. \A r \in ToSet(ranges_) : ~Inverted(r)
      BY <2>3, <3>1 DEF SomeInverted
    <3>5. Active(ToSet(ranges_)) = UNION {Asked(r) : r \in ToSet(ranges_)}
      BY <3>3, <3>4, ActiveIsAsked
    <3> QED
      BY <2>1, <3>1, <3>5 DEF Covered
  <2> QED
    BY <2>2, <2>3 DEF ActiveExactlyWhenAsked
<1> QED
  BY <1>1, WeeklyAlways, PTL

-----------------------------------------------------------------------------
(***************************************************************************)
(* schedule_normalizer: intervals within a day.                            *)
(***************************************************************************)
Cuts == Weekdays \X (0..MinPerDay - 1) \X (0..MinPerDay)
Lies(c, d, n) == c[1] = d /\ c[2] =< n /\ n =< c[3]
Held(q, d, n) == \E k \in DOMAIN q : Lies(q[k], d, n)

\* A range is active in what its intervals hold, inverted or not.
LEMMA IntervalsAre ==
  ASSUME NEW r \in Inputs
  PROVE  /\ Intervals(r) \subseteq Cuts /\ IsFiniteSet(Intervals(r))
         /\ \A d \in Weekdays, n \in 0..MinPerDay - 1 :
              InRange(r, d, n) <=> \E c \in Intervals(r) : Lies(c, d, n)
<1>1. /\ r.sd \in Weekdays /\ r.sm \in 0..MinPerDay - 1 /\ r.ed \in Weekdays /\ r.em \in 0..MinPerDay
      /\ MinPerDay \in Nat /\ MinPerDay >= 1 /\ Weekdays \subseteq Int
  BY WeekIs DEF Inputs
<1> DEFINE Whole(d) == <<d, 0, MinPerDay - 1>>
           between == {Whole(d) : d \in DaysBetween(r)}
<1>2. CASE r.sd = r.ed
  <2>1. Intervals(r) = {<<r.sd, r.sm, r.em>>}
    BY <1>2 DEF Intervals
  <2>2. <<r.sd, r.sm, r.em>> \in Cuts
    BY <1>1 DEF Cuts
  <2>3. ASSUME NEW d \in Weekdays, NEW n \in 0..MinPerDay - 1
        PROVE  InRange(r, d, n) <=> Lies(<<r.sd, r.sm, r.em>>, d, n)
    <3>1. Lies(<<r.sd, r.sm, r.em>>, d, n) <=> r.sd = d /\ r.sm =< n /\ n =< r.em
      BY DEF Lies
    <3>2. d \in Int /\ n \in Int /\ r.sd \in Int /\ r.sm \in Int /\ r.em \in Int
      BY <1>1, WeekIs
    <3> QED
      BY <1>2, <3>1, <3>2 DEF InRange
  <2> QED
    BY <2>1, <2>2, <2>3, FS_Singleton
<1>3. CASE r.sd # r.ed
  <2>1. Intervals(r) = {<<r.sd, r.sm, MinPerDay - 1>>, <<r.ed, 0, r.em>>} \cup between
    BY <1>3 DEF Intervals
  <2>2. DaysBetween(r) \subseteq Weekdays
    BY DEF DaysBetween
  <2>3. /\ <<r.sd, r.sm, MinPerDay - 1>> \in Cuts /\ <<r.ed, 0, r.em>> \in Cuts
        /\ \A d \in Weekdays : Whole(d) \in Cuts
    BY <1>1 DEF Cuts
  <2>4. IsFiniteSet(between)
    <3> DEFINE f == [d \in DaysBetween(r) |-> Whole(d)]
    <3>1. f \in Surjection(DaysBetween(r), between)
      BY DEF Surjection
    <3>2. IsFiniteSet(Weekdays)
      BY WeekIs, FS_Interval
    <3>3. IsFiniteSet(DaysBetween(r))
      BY <2>2, <3>2, FS_Subset
    <3> QED
      BY <3>1, <3>3, FS_Surjection
  <2>5. IsFiniteSet(Intervals(r))
    <3>1. IsFiniteSet(between \cup {<<r.sd, r.sm, MinPerDay - 1>>})
      BY <2>4, FS_AddElement
    <3>2. IsFiniteSet((between \cup {<<r.sd, r.sm, MinPerDay - 1>>}) \cup {<<r.ed, 0, r.em>>})
      BY <3>1, FS_AddElement
    <3>3. Intervals(r) = (between \cup {<<r.sd, r.sm, MinPerDay - 1>>}) \cup {<<r.ed, 0, r.em>>}
      BY <2>1, Zenon
    <3> QED
      BY <3>2, <3>3
  <2>6. Intervals(r) \subseteq Cuts
    BY <2>1, <2>2, <2>3
  <2>7. ASSUME NEW d \in Weekdays, NEW n \in 0..MinPerDay - 1
        PROVE  InRange(r, d, n) <=> \E c \in Intervals(r) : Lies(c, d, n)
    <3>1. /\ Lies(<<r.sd, r.sm, MinPerDay - 1>>, d, n) <=> d = r.sd /\ n >= r.sm
          /\ Lies(<<r.ed, 0, r.em>>, d, n) <=> d = r.ed /\ n =< r.em
          /\ \A e \in Weekdays : Lies(Whole(e), d, n) <=> e = d
      BY <1>1 DEF Lies
    <3>2. (\E c \in Intervals(r) : Lies(c, d, n))
            <=> \/ d = r.sd /\ n >= r.sm
                \/ d = r.ed /\ n =< r.em
                \/ d \in DaysBetween(r)
      <4>1. (\E c \in between : Lies(c, d, n)) <=> d \in DaysBetween(r)
        BY <2>2, <3>1
      <4> HIDE DEF between
      <4> QED
        BY <2>1, <3>1, <4>1
    <3>3. d \in DaysBetween(r) <=> IF r.sd < r.ed THEN r.sd < d /\ d < r.ed ELSE d > r.sd \/ d < r.ed
      BY DEF DaysBetween
    <3>4. /\ d \in Int /\ n \in Int /\ r.sd \in Int /\ r.sm \in Int /\ r.ed \in Int /\ r.em \in Int
          /\ 0 =< n /\ n =< MinPerDay - 1
      BY <1>1, WeekIs
    <3>5. InRange(r, d, n)
            <=> \/ d = r.sd /\ n >= r.sm
                \/ d = r.ed /\ n =< r.em
                \/ d \in DaysBetween(r)
      BY <1>3, <3>3, <3>4 DEF InRange
    <3> QED
      BY <3>2, <3>5
  <2> QED
    BY <2>5, <2>6, <2>7
<1> QED
  BY <1>2, <1>3

\* Intervals are put in order by day, then by start, then by end.
LEMMA BeforeIs ==
  ASSUME NEW a \in Cuts, NEW b \in Cuts
  PROVE  /\ ~Before(a, a) /\ (Before(a, b) \/ a = b \/ Before(b, a))
         /\ \A c \in Cuts : Before(a, b) /\ Before(b, c) => Before(a, c)
         /\ Before(a, b) /\ a[1] = b[1] => a[2] =< b[2]
<1>1. \A c \in Cuts : c = <<c[1], c[2], c[3]>> /\ c[1] \in Int /\ c[2] \in Int /\ c[3] \in Int
  BY WeekIs DEF Cuts
<1> QED
  BY <1>1 DEF Before

\* The normalizer sees the cuts in order, each of them.
LEMMA SortedIs ==
  ASSUME NEW T \in SUBSET Cuts, IsFiniteSet(T)
  PROVE  /\ Sorted(T) \in Seq(T) /\ Len(Sorted(T)) \in Nat /\ DOMAIN Sorted(T) = 1..Len(Sorted(T))
         /\ \A x \in T : \E i \in DOMAIN Sorted(T) : Sorted(T)[i] = x
         /\ \A i \in 1..Len(Sorted(T)) - 1 : Before(Sorted(T)[i], Sorted(T)[i + 1])
<1> DEFINE n == Cardinality(T)
           Under(x) == {y \in T : Before(y, x)}
           rank == [x \in T |-> Cardinality(Under(x))]
           s == Sorted(T)
<1>1. n \in Nat
  BY FS_CardinalityType
<1>2. \A x \in T : IsFiniteSet(Under(x)) /\ Cardinality(Under(x)) \in Nat
  BY FS_Subset, FS_CardinalityType
<1>3. ASSUME NEW x \in T, NEW y \in T, Before(x, y) PROVE Cardinality(Under(x)) < Cardinality(Under(y))
  <2>1. Under(x) \subseteq Under(y) /\ x \in Under(y) /\ x \notin Under(x)
    BY <1>3, BeforeIs
  <2> HIDE DEF Under
  <2>2. Under(x) # Under(y) /\ Under(x) \in SUBSET Under(y)
    BY <2>1
  <2>3. Cardinality(Under(x)) <= Cardinality(Under(y)) /\ Cardinality(Under(x)) # Cardinality(Under(y))
    <3>1. IsFiniteSet(Under(y))
      BY <1>2
    <3> QED
      BY <2>2, <3>1, FS_Subset
  <2> QED
    BY <1>2, <2>3
<1>4. ASSUME NEW x \in T PROVE Cardinality(Under(x)) < n
  <2>1. Under(x) \in SUBSET T /\ Under(x) # T
    BY BeforeIs
  <2> HIDE DEF Under
  <2>2. Cardinality(Under(x)) <= n /\ Cardinality(Under(x)) # n
    BY <2>1, FS_Subset
  <2> QED
    BY <1>1, <1>2, <2>2
<1>5. rank \in Injection(T, 0..n-1)
  <2>1. rank \in [T -> 0..n-1]
    BY <1>1, <1>2, <1>4
  <2>2. ASSUME NEW x \in T, NEW y \in T, rank[x] = rank[y] PROVE x = y
    <3>1. ~(Cardinality(Under(x)) < Cardinality(Under(y))) /\ ~(Cardinality(Under(y)) < Cardinality(Under(x)))
      BY <1>2, <2>2
    <3>2. ~Before(x, y) /\ ~Before(y, x)
      BY <1>3, <3>1
    <3> QED
      BY <3>2, BeforeIs
  <2> HIDE DEF rank
  <2> QED
    BY <2>1, <2>2 DEF Injection, IsInjective
<1>6. rank \in Surjection(T, 0..n-1)
  <2>1. IsFiniteSet(0..n-1) /\ Cardinality(0..n-1) = n
    <3>1. 0 \in Int /\ n - 1 \in Int
      BY <1>1
    <3> HIDE DEF n
    <3>2. IsFiniteSet(0..n-1) /\ Cardinality(0..n-1) = IF 0 > n - 1 THEN 0 ELSE (n - 1) - 0 + 1
      BY <3>1, FS_Interval
    <3> QED
      BY <1>1, <3>2
  <2> HIDE DEF rank
  <2> QED
    BY <1>5, <2>1, FS_Injection
<1>7. ASSUME NEW i \in 1..n PROVE s[i] \in T /\ Cardinality(Under(s[i])) = i - 1
  <2>1. i - 1 \in 0..n-1
    BY <1>1
  <2>2. \E x \in T : rank[x] = i - 1
    <3> HIDE DEF rank
    <3> QED
      BY <1>6, <2>1 DEF Surjection
  <2>3. \E x \in T : Cardinality(Under(x)) = i - 1
    BY <2>2
  <2>4. s[i] = CHOOSE x \in T : Cardinality(Under(x)) = i - 1
    BY DEF Sorted
  <2> HIDE DEF Under, s
  <2> QED
    BY <2>3, <2>4
<1>8. DOMAIN s = 1..n /\ s = [i \in 1..n |-> s[i]]
  <2> DEFINE g(i) == CHOOSE x \in T : Cardinality(Under(x)) = i - 1
  <2>1. s = [i \in 1..n |-> g(i)]
    BY DEF Sorted
  <2> HIDE DEF g, n, s
  <2> QED
    BY <2>1
<1> HIDE DEF s, Under, rank, n
<1>9. s \in Seq(T) /\ Len(s) = n
  <2>1. s \in [1..n -> T]
    BY <1>7, <1>8
  <2>2. s \in Seq(T)
    BY <1>1, <2>1, IsASeq
  <2> QED
    BY <1>1, <1>8, <2>2, LenProperties
<1>10. ASSUME NEW x \in T PROVE \E i \in 1..n : s[i] = x
  <2>1. Cardinality(Under(x)) \in 0..n-1
    BY <1>1, <1>2, <1>4
  <2>2. PICK i \in 1..n : i - 1 = Cardinality(Under(x))
    <3>1. Cardinality(Under(x)) + 1 \in 1..n /\ (Cardinality(Under(x)) + 1) - 1 = Cardinality(Under(x))
      BY <1>1, <2>1
    <3> QED
      BY <3>1
  <2>3. s[i] \in T /\ Cardinality(Under(s[i])) = Cardinality(Under(x))
    BY <1>7, <2>2
  <2>4. ~Before(s[i], x) /\ ~Before(x, s[i])
    BY <1>2, <1>3, <2>3
  <2> QED
    BY <2>3, <2>4, BeforeIs
<1>11. ASSUME NEW i \in 1..n-1 PROVE Before(s[i], s[i + 1])
  <2>1. i \in 1..n /\ i + 1 \in 1..n
    BY <1>1
  <2>2. /\ s[i] \in T /\ Cardinality(Under(s[i])) = i - 1
        /\ s[i + 1] \in T /\ Cardinality(Under(s[i + 1])) = (i + 1) - 1
    BY <1>7, <2>1
  <2>3. ~Before(s[i + 1], s[i]) /\ s[i + 1] # s[i]
    BY <1>3, <2>1, <2>2
  <2> QED
    BY <2>2, <2>3, BeforeIs
<1> QED
  BY <1>1, <1>8, <1>9, <1>10, <1>11 DEF s

\* An interval with another end.
LEMMA EndIs ==
  ASSUME NEW x \in Cuts, NEW z \in 0..MinPerDay
  PROVE  [x EXCEPT ![3] = z] = <<x[1], x[2], z>> /\ [x EXCEPT ![3] = z] \in Cuts
<1> DEFINE D == Weekdays
           E == 0..MinPerDay - 1
           F == 0..MinPerDay
<1>1. Cuts = D \X E \X F
  BY DEF Cuts
<1> HIDE DEF D, E
<1>2. x \in D \X E \X F /\ z \in F
  BY <1>1
<1> HIDE DEF F
<1>3. [x EXCEPT ![3] = z] = <<x[1], x[2], z>> /\ [x EXCEPT ![3] = z] \in D \X E \X F
  BY <1>2
<1> QED
  BY <1>1, <1>3

\* What an interval adds to those before it: its minutes, and it is the last.
LEMMA ExtendIs ==
  ASSUME NEW q \in Seq(Cuts), NEW c \in Cuts,
         q # <<>> /\ Last(q)[1] = c[1] => Last(q)[2] =< c[2],
         NEW e, e = Extend(q, c)
  PROVE  /\ e \in Seq(Cuts) /\ e # <<>> /\ Last(e)[1] = c[1] /\ Last(e)[2] =< c[2]
         /\ \A d \in Weekdays, n \in 0..MinPerDay - 1 : Held(e, d, n) <=> Held(q, d, n) \/ Lies(c, d, n)
<1> DEFINE l == Len(q)
<1>1. /\ l \in Nat /\ DOMAIN q = 1..l /\ Last(q) = q[l] /\ (q = <<>> <=> l = 0)
      /\ \A k \in 1..l : q[k] \in Cuts
  BY DEF Last
<1>2. \A x \in Cuts : /\ x = <<x[1], x[2], x[3]>> /\ x[1] \in Weekdays /\ x[2] \in 0..MinPerDay - 1
                      /\ x[3] \in 0..MinPerDay
                      /\ x[1] \in Int /\ x[2] \in Int /\ x[3] \in Int
  BY WeekIs DEF Cuts
<1>3. CASE q = <<>> \/ Last(q)[1] # c[1] \/ c[2] > Last(q)[3] + 1
  <2>1. e = Append(q, c)
    BY <1>3 DEF Extend
  <2>2. /\ e \in Seq(Cuts) /\ Len(e) = l + 1 /\ DOMAIN e = 1..l+1 /\ e[l + 1] = c
        /\ \A k \in 1..l : e[k] = q[k]
    BY <2>1
  <2> HIDE DEF l
  <2>3. e # <<>> /\ Last(e) = c
    BY <1>1, <2>2 DEF Last
  <2>4. \A k \in 1..l+1 : k \in 1..l \/ k = l + 1
    BY <1>1
  <2>5. 1..l \subseteq 1..l+1 /\ l + 1 \in 1..l+1
    BY <1>1
  <2>6. \A d, n : Held(e, d, n) <=> Held(q, d, n) \/ Lies(c, d, n)
    BY <1>1, <2>2, <2>4, <2>5 DEF Held
  <2>7. c[2] =< c[2]
    BY <1>2
  <2> QED
    BY <2>2, <2>3, <2>6, <2>7
<1>4. CASE ~(q = <<>> \/ Last(q)[1] # c[1] \/ c[2] > Last(q)[3] + 1)
  <2> DEFINE b == q[l]
             x == [b EXCEPT ![3] = Max({b[3], c[3]})]
             f == Front(q)
  <2>1. /\ l >= 1 /\ b \in Cuts /\ b[1] = c[1] /\ b[2] =< c[2] /\ ~(c[2] > b[3] + 1)
        /\ e = Append(f, x)
    <3>1. l \in 1..l /\ l >= 1
      BY <1>1, <1>4
    <3> QED
      BY <1>1, <1>4, <3>1 DEF Extend
  <2>2. f \in Seq(Cuts) /\ Len(f) = l - 1 /\ \A k \in 1..l-1 : f[k] = q[k]
    BY <1>1, <2>1 DEF Front
  <2> DEFINE z == Max({b[3], c[3]})
  <2>3. z \in 0..MinPerDay /\ z = IF b[3] >= c[3] THEN b[3] ELSE c[3]
    <3>1. b[3] \in 0..MinPerDay /\ c[3] \in 0..MinPerDay /\ b[3] \in Int /\ c[3] \in Int
      BY <1>2, <2>1
    <3> HIDE DEF b
    <3>2. z = IF b[3] >= c[3] THEN b[3] ELSE c[3]
      BY <3>1, LeastOfTwo
    <3> HIDE DEF z
    <3> QED
      BY <3>1, <3>2
  <2> HIDE DEF z
  <2>4. x = <<b[1], b[2], z>> /\ x \in Cuts
    <3>1. x = [b EXCEPT ![3] = z]
      BY DEF z
    <3> HIDE DEF x, b, l
    <3>2. [b EXCEPT ![3] = z] = <<b[1], b[2], z>> /\ [b EXCEPT ![3] = z] \in Cuts
      BY <2>1, <2>3, EndIs
    <3> QED
      BY <3>1, <3>2
  <2> HIDE DEF x, b, f, l
  <2>5. x[1] = c[1] /\ x[2] = b[2] /\ x[3] = z
    BY <2>1, <2>4
  <2>6. /\ e \in Seq(Cuts) /\ Len(e) = l /\ DOMAIN e = 1..l /\ e[l] = x
        /\ \A k \in 1..l-1 : e[k] = q[k]
    BY <1>1, <2>1, <2>2, <2>4
  <2>7. e # <<>> /\ Last(e) = x
    BY <2>1, <2>6 DEF Last
  <2>8. ASSUME NEW d \in Weekdays, NEW n \in 0..MinPerDay - 1
        PROVE  Lies(x, d, n) <=> Lies(b, d, n) \/ Lies(c, d, n)
    <3>1. /\ b[2] \in Int /\ b[3] \in Int /\ c[2] \in Int /\ c[3] \in Int /\ n \in Int
          /\ b[2] =< c[2] /\ c[2] =< b[3] + 1
      BY <1>2, <2>1
    <3>2. b[2] =< n /\ n =< z <=> (b[2] =< n /\ n =< b[3]) \/ (c[2] =< n /\ n =< c[3])
      <4> DEFINE b2 == b[2]
                 b3 == b[3]
                 c2 == c[2]
                 c3 == c[3]
      <4>1. /\ b2 \in Int /\ b3 \in Int /\ c2 \in Int /\ c3 \in Int /\ n \in Int
            /\ b2 =< c2 /\ c2 =< b3 + 1 /\ z = IF b3 >= c3 THEN b3 ELSE c3
        BY <2>3, <3>1
      <4> HIDE DEF b2, b3, c2, c3
      <4>2. b2 =< n /\ n =< z <=> (b2 =< n /\ n =< b3) \/ (c2 =< n /\ n =< c3)
        BY <4>1
      <4> QED
        BY <4>2 DEF b2, b3, c2, c3
    <3> QED
      BY <2>1, <2>5, <3>2 DEF Lies
  <2>9. ASSUME NEW d \in Weekdays, NEW n \in 0..MinPerDay - 1
        PROVE  Held(e, d, n) <=> Held(q, d, n) \/ Lies(c, d, n)
    <3>1. \A k \in 1..l : k \in 1..l-1 \/ k = l
      BY <1>1
    <3>2. 1..l-1 \subseteq 1..l /\ l \in 1..l /\ b = q[l]
      BY <1>1, <2>1 DEF b
    <3>3. Held(q, d, n) <=> (\E k \in 1..l-1 : Lies(q[k], d, n)) \/ Lies(b, d, n)
      BY <1>1, <3>1, <3>2 DEF Held
    <3>4. Held(e, d, n) <=> (\E k \in 1..l-1 : Lies(q[k], d, n)) \/ Lies(x, d, n)
      BY <2>6, <3>1, <3>2 DEF Held
    <3> QED
      BY <2>8, <3>3, <3>4
  <2> QED
    BY <2>1, <2>5, <2>6, <2>7, <2>9
<1> QED
  BY <1>3, <1>4

\* The intervals of a set of ranges.
CutsOf(S) == UNION {Intervals(r) : r \in S}

\* Merging the intervals, in order, loses none of their minutes and adds none.
LEMMA NormalizedIs ==
  ASSUME NEW T \in SUBSET Cuts, IsFiniteSet(T), NEW S, T = CutsOf(S)
  PROVE  \E q \in Seq(Cuts) :
           /\ normalize(S) = {[sd |-> c[1], sm |-> c[2], ed |-> c[1], em |-> c[3]] : c \in ToSet(q)}
           /\ \A d \in Weekdays, n \in 0..MinPerDay - 1 :
                Held(q, d, n) <=> \E c \in T : Lies(c, d, n)
<1> DEFINE s == Sorted(T)
           l == Len(s)
           step == [x \in Seq(Cuts) \X (1..l) |-> Extend(x[1], s[x[2]])]
           Is(g) == g = [i \in 0..l |-> IF i = 0 THEN <<>> ELSE Extend(g[i - 1], s[i])]
           merged == CHOOSE g : Is(g)
<1>1. /\ s \in Seq(Cuts) /\ l \in Nat /\ DOMAIN s = 1..l
      /\ \A i \in 1..l : s[i] \in T /\ s[i] \in Cuts
      /\ \A x \in T : \E i \in 1..l : s[i] = x
      /\ \A i \in 1..l - 1 : Before(s[i], s[i + 1])
  <2>1. s \in Seq(T)
    BY SortedIs
  <2>2. /\ l \in Nat /\ DOMAIN s = 1..l
        /\ \A x \in T : \E i \in 1..l : s[i] = x
        /\ \A i \in 1..l - 1 : Before(s[i], s[i + 1])
    BY SortedIs
  <2> HIDE DEF s
  <2> QED
    BY <2>1, <2>2
<1>2. normalize(S) = {[sd |-> c[1], sm |-> c[2], ed |-> c[1], em |-> c[3]] : c \in ToSet(merged[l])}
  BY DEF normalize, CutsOf
<1> HIDE DEF s, l
<1>3. ASSUME NEW q \in Seq(Cuts), NEW c \in Cuts PROVE Extend(q, c) \in Seq(Cuts)
  <2>1. CASE q = <<>> \/ Last(q)[1] # c[1] \/ c[2] > Last(q)[3] + 1
    BY <2>1 DEF Extend
  <2>2. CASE ~(q = <<>> \/ Last(q)[1] # c[1] \/ c[2] > Last(q)[3] + 1)
    <3> DEFINE b == Last(q)
               z == Max({b[3], c[3]})
    <3>1. b \in Cuts /\ Front(q) \in Seq(Cuts)
      <4>1. Len(q) \in Nat /\ Len(q) >= 1
        BY <2>2
      <4> QED
        BY <4>1 DEF Last, Front
    <3> HIDE DEF b
    <3>2. b[3] \in 0..MinPerDay /\ c[3] \in 0..MinPerDay /\ MinPerDay \in Nat
      BY <3>1, WeekIs DEF Cuts
    <3>3. z \in 0..MinPerDay
      <4>1. b[3] \in Int /\ c[3] \in Int
        BY <3>2
      <4>2. z = IF b[3] >= c[3] THEN b[3] ELSE c[3]
        BY <4>1, LeastOfTwo
      <4> HIDE DEF z
      <4> QED
        BY <3>2, <4>2
    <3>4. Extend(q, c) = Append(Front(q), [b EXCEPT ![3] = z])
      BY <2>2 DEF Extend, b
    <3> HIDE DEF z
    <3>5. [b EXCEPT ![3] = z] \in Cuts
      BY <3>1, <3>3, EndIs
    <3> QED
      BY <3>1, <3>4, <3>5
  <2> QED
    BY <2>1, <2>2
<1>4. StepOn(Seq(Cuts), l, step)
  BY <1>1, <1>3 DEF StepOn
<1>5. ASSUME NEW q \in Seq(Cuts), NEW i \in 1..l PROVE step[<<q, i>>] = Extend(q, s[i])
  OBVIOUS
<1> HIDE DEF step
<1>6. PICK f : Stepwise(Seq(Cuts), l, <<>>, step, f)
  <2>1. <<>> \in Seq(Cuts)
    OBVIOUS
  <2> QED
    BY <1>1, <1>4, <2>1, StepsExist
<1>7. Is(f)
  <2>0. f = [i \in 0..l |-> f[i]] /\ (\A i \in 0..l : f[i] \in Seq(Cuts)) /\ f[0] = <<>>
        /\ \A i \in 1..l : f[i] = step[<<f[i - 1], i>>]
    BY <1>6 DEF Stepwise
  <2>1. ASSUME NEW i \in 0..l PROVE f[i] = IF i = 0 THEN <<>> ELSE Extend(f[i - 1], s[i])
    <3>1. CASE i = 0
      BY <2>0, <3>1
    <3>2. CASE i # 0
      <4>1. i \in 1..l /\ i - 1 \in 0..l
        BY <1>1, <3>2
      <4>2. f[i] = Extend(f[i - 1], s[i])
        BY <1>5, <2>0, <4>1
      <4> QED
        BY <3>2, <4>2
    <3> QED
      BY <3>1, <3>2
  <2> QED
    BY <2>0, <2>1, Zenon
<1>8. Is(merged)
  <2> HIDE DEF Is
  <2> QED
    BY <1>7
<1>9. \A i \in 0..l : merged[i] = IF i = 0 THEN <<>> ELSE Extend(merged[i - 1], s[i])
  <2> HIDE DEF merged
  <2>1. DOMAIN merged = 0..l
    BY <1>8
  <2> QED
    BY <1>8, Zenon
<1> HIDE DEF merged, Is
<1> DEFINE Fits(i) ==
             /\ merged[i] \in Seq(Cuts)
             /\ i # 0 => merged[i] # <<>> /\ Last(merged[i])[1] = s[i][1] /\ Last(merged[i])[2] =< s[i][2]
             /\ \A d \in Weekdays, n \in 0..MinPerDay - 1 :
                  Held(merged[i], d, n) <=> \E k \in 1..i : Lies(s[k], d, n)
           T_ == {i \in 0..l : Fits(i)}
<1>10. 0 \in T_
  <2>1. merged[0] = <<>>
    BY <1>1, <1>9
  <2>2. <<>> \in Seq(Cuts) /\ DOMAIN <<>> = {} /\ 1..0 = {}
    OBVIOUS
  <2>3. \A d, n : ~Held(<<>>, d, n)
    BY <2>2 DEF Held
  <2>4. Fits(0)
    BY <2>1, <2>2, <2>3
  <2> HIDE DEF Fits
  <2> QED
    BY <1>1, <2>4
<1>11. ASSUME NEW i \in 0..l-1, i \in T_ PROVE Fits(i + 1)
  <2> DEFINE b == merged[i]
             e == merged[i + 1]
             c == s[i + 1]
  <2>1. i \in Nat /\ i + 1 \in 0..l /\ i + 1 \in 1..l /\ i + 1 # 0 /\ (i + 1) - 1 = i
    BY <1>1
  <2>2. e = Extend(b, c) /\ c \in Cuts
    BY <1>1, <1>9, <2>1
  <2>3. /\ b \in Seq(Cuts)
        /\ i # 0 => b # <<>> /\ Last(b)[1] = s[i][1] /\ Last(b)[2] =< s[i][2]
        /\ \A d \in Weekdays, n \in 0..MinPerDay - 1 :
             Held(b, d, n) <=> \E k \in 1..i : Lies(s[k], d, n)
    BY <1>11
  <2>4. b # <<>> /\ Last(b)[1] = c[1] => Last(b)[2] =< c[2]
    <3>1. CASE i = 0
      BY <1>1, <1>9, <3>1
    <3>2. CASE i # 0
      <4>1. i \in 1..l-1 /\ i \in 1..l
        BY <1>1, <3>2
      <4>2. Before(s[i], c) /\ s[i] \in Cuts
        BY <1>1, <4>1
      <4>3. s[i][1] = c[1] => s[i][2] =< c[2]
        BY <2>2, <4>2, BeforeIs
      <4>4. b \in Seq(Cuts) /\ b # <<>> => Last(b) \in Cuts
        BY DEF Last
      <4>5. \A x \in Cuts : x[2] \in Int
        BY DEF Cuts
      <4> HIDE DEF b, c
      <4> QED
        BY <2>2, <2>3, <3>2, <4>2, <4>3, <4>4, <4>5
    <3> QED
      BY <3>1, <3>2
  <2> HIDE DEF b, e, T_
  <2>5. /\ e \in Seq(Cuts) /\ e # <<>> /\ Last(e)[1] = c[1] /\ Last(e)[2] =< c[2]
        /\ \A d \in Weekdays, n \in 0..MinPerDay - 1 : Held(e, d, n) <=> Held(b, d, n) \/ Lies(c, d, n)
    <3> HIDE DEF c
    <3> QED
      BY <2>2, <2>3, <2>4, ExtendIs
  <2>6. ASSUME NEW d \in Weekdays, NEW n \in 0..MinPerDay - 1
        PROVE  Held(e, d, n) <=> \E k \in 1..i+1 : Lies(s[k], d, n)
    <3>1. \A k \in 1..i+1 : k \in 1..i \/ k = i + 1
      BY <2>1
    <3>2. 1..i \subseteq 1..i+1 /\ i + 1 \in 1..i+1
      BY <2>1
    <3> QED
      BY <2>3, <2>5, <3>1, <3>2
  <2> QED
    BY <2>5, <2>6 DEF e
<1>12. l \in T_
  <2>1. \A i \in 0..l-1 : i \in T_ => i + 1 \in T_
    <3> HIDE DEF Fits
    <3> QED
      BY <1>1, <1>11
  <2> HIDE DEF T_
  <2>2. 0..l \subseteq T_
    BY <1>1, <1>10, <2>1, CountUp
  <2> QED
    BY <1>1, <2>2
<1>13. Fits(l)
  BY <1>12
<1>14. \A d, n : (\E k \in 1..l : Lies(s[k], d, n)) <=> \E c \in T : Lies(c, d, n)
  BY <1>1
<1> QED
  BY <1>2, <1>13, <1>14

\* Normalized ranges are active in the minutes of the ranges they come from.
LEMMA NormalizeKeeps ==
  ASSUME NEW S \in SUBSET Inputs, IsFiniteSet(S)
  PROVE  Active(normalize(S)) = Active(S)
<1> DEFINE T == CutsOf(S)
<1>1. T \in SUBSET Cuts
  BY IntervalsAre DEF CutsOf
<1>2. IsFiniteSet(T)
  <2> DEFINE f == [r \in S |-> Intervals(r)]
             U == {Intervals(r) : r \in S}
  <2>1. f \in Surjection(S, U)
    BY DEF Surjection
  <2>2. IsFiniteSet(U)
    BY <2>1, FS_Surjection
  <2>3. \A x \in U : IsFiniteSet(x)
    BY IntervalsAre
  <2> HIDE DEF U
  <2>4. IsFiniteSet(UNION U)
    BY <2>2, <2>3, FS_UNION
  <2> QED
    BY <2>4 DEF U, CutsOf
<1> HIDE DEF T
<1>3. PICK q \in Seq(Cuts) :
        /\ normalize(S) = {[sd |-> c[1], sm |-> c[2], ed |-> c[1], em |-> c[3]] : c \in ToSet(q)}
        /\ \A d \in Weekdays, n \in 0..MinPerDay - 1 : Held(q, d, n) <=> \E c \in T : Lies(c, d, n)
  BY <1>1, <1>2, NormalizedIs DEF T
<1>4. ASSUME NEW c \in Cuts, NEW d \in Weekdays, NEW n \in 0..MinPerDay - 1
      PROVE  InRange([sd |-> c[1], sm |-> c[2], ed |-> c[1], em |-> c[3]], d, n) <=> Lies(c, d, n)
  <2>1. c[1] \in Int /\ c[2] \in Int /\ c[3] \in Int /\ d \in Int /\ n \in Int
    BY WeekIs DEF Cuts
  <2> QED
    BY <2>1 DEF InRange, Lies
<1>5. ASSUME NEW d \in Weekdays, NEW n \in 0..MinPerDay - 1
      PROVE  (\E r \in normalize(S) : InRange(r, d, n)) <=> \E r \in S : InRange(r, d, n)
  <2>1. ToSet(q) = {q[k] : k \in DOMAIN q} /\ \A k \in DOMAIN q : q[k] \in Cuts
    BY DEF ToSet
  <2>2. (\E r \in normalize(S) : InRange(r, d, n)) <=> Held(q, d, n)
    <3> DEFINE Piece(c) == [sd |-> c[1], sm |-> c[2], ed |-> c[1], em |-> c[3]]
    <3>1. normalize(S) = {Piece(c) : c \in ToSet(q)}
      BY <1>3
    <3>2. \A c \in Cuts : InRange(Piece(c), d, n) <=> Lies(c, d, n)
      BY <1>4
    <3> HIDE DEF Piece
    <3>3. (\E r \in normalize(S) : InRange(r, d, n)) <=> \E k \in DOMAIN q : InRange(Piece(q[k]), d, n)
      BY <2>1, <3>1
    <3> QED
      BY <2>1, <3>2, <3>3 DEF Held
  <2>3. (\E c \in T : Lies(c, d, n)) <=> \E r \in S : \E c \in Intervals(r) : Lies(c, d, n)
    BY DEF T, CutsOf
  <2>4. \A r \in S : InRange(r, d, n) <=> \E c \in Intervals(r) : Lies(c, d, n)
    BY IntervalsAre
  <2> QED
    BY <1>3, <2>2, <2>3, <2>4
<1> QED
  BY <1>5, MinuteOfDay DEF Active

\* Loaded from the JSON it was saved to, the schedule is the same; and what the
\* normalizer makes of the stored ranges, or of any ranges add_range() was given,
\* is active in the same minutes.
THEOREM ScheduleKept == Spec => []ScheduleSurvives
<1>1. WeeklyInv => ScheduleSurvives
  <2> SUFFICES ASSUME WeeklyInv, subject = "weekly" PROVE JsonRoundTrip /\ NormalizePreservesActivity
    BY DEF ScheduleSurvives
  <2>1. Proper(ranges_) /\ added \subseteq Inputs /\ IsFiniteSet(added)
    BY DEF WeeklyInv
  <2>2. JsonRoundTrip
    BY <2>1, LoadedIs DEF JsonRoundTrip
  <2>3. Active(normalize(added)) = Active(added)
    BY <2>1, NormalizeKeeps
  <2>4. Active(normalize(ToSet(ranges_))) = Active(ToSet(ranges_))
    <3> DEFINE n == Len(ranges_)
    <3>1. n \in Nat /\ DOMAIN ranges_ = 1..n /\ \A i \in 1..n : ranges_[i] \in Stored
      BY <2>1 DEF Proper
    <3>2. ToSet(ranges_) = {ranges_[i] : i \in 1..n}
      BY <3>1 DEF ToSet
    <3> DEFINE f == [i \in 1..n |-> ranges_[i]]
    <3>3. f \in Surjection(1..n, ToSet(ranges_))
      <4> HIDE DEF n
      <4> QED
        BY <3>2 DEF Surjection
    <3>4. IsFiniteSet(1..n)
      <4> HIDE DEF n
      <4>1. 1 \in Int /\ n \in Int
        BY <3>1
      <4> QED
        BY <4>1, FS_Interval
    <3> HIDE DEF n, f
    <3>5. IsFiniteSet(ToSet(ranges_))
      BY <3>3, <3>4, FS_Surjection
    <3>6. ToSet(ranges_) \in SUBSET Inputs
      BY <3>1, <3>2, StoredAreInputs
    <3> QED
      BY <3>5, <3>6, NormalizeKeeps
  <2> QED
    BY <2>2, <2>3, <2>4 DEF NormalizePreservesActivity
<1> QED
  BY <1>1, WeeklyAlways, PTL
=============================================================================
