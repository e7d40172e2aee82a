----------------------------- MODULE TimeProofs -----------------------------
(***************************************************************************)
(* What is proved of the times of a stream.  First the years of its lines  *)
(* (StreamClock): a yearless stamp read near its reference gets the year   *)
(* it was written in (YearResolution), and so every time of a dense stream *)
(* is true, for every grain of the clock, every range of years and every   *)
(* movement of the clock.  Then what peeling undoes and what it may take   *)
(* (Transport).  The calendar that writes a stamp and the calendar that    *)
(* reads it undo each other, for every instant and every grain: days are   *)
(* counted from the March of an era of 400 years, and each lemma undoes    *)
(* one step of that count.  Then a row takes only what it claims, off any  *)
(* line; and the rows of a right declaration take the layers off, one by   *)
(* one.                                                                    *)
(***************************************************************************)
EXTENDS StreamClock, Transport, Induction, FiniteSetTheorems, SequenceTheorems

(* Years are 365 or 366 days long.                                         *)
LEMMA YearLength ==
  ASSUME NEW y \in Nat \ {0}
  PROVE  /\ DaysToYear(y) \in Int
         /\ DaysToYear(y + 1) = DaysToYear(y) + 365 + (IF Leap(y) THEN 1 ELSE 0)
<1>1. y \div 4 = (y - 1) \div 4 + (IF y % 4 = 0 THEN 1 ELSE 0)
  OBVIOUS
<1>2. y \div 100 = (y - 1) \div 100 + (IF y % 100 = 0 THEN 1 ELSE 0)
  OBVIOUS
<1>3. y \div 400 = (y - 1) \div 400 + (IF y % 400 = 0 THEN 1 ELSE 0)
  OBVIOUS
<1>4. (y % 400 = 0 => y % 100 = 0) /\ (y % 100 = 0 => y % 4 = 0)
  OBVIOUS
<1> QED
  BY <1>1, <1>2, <1>3, <1>4 DEF DaysToYear, Leap

(* Years do not overlap: a later one starts 365 days later per year.       *)
LEMMA YearSpacing ==
  ASSUME NEW y \in Nat \ {0}, NEW z \in Nat \ {0}, y < z
  PROVE  DaysToYear(z) - DaysToYear(y) >= 365 * (z - y)
<1> DEFINE q(n) == (n - 1) \div 100
           r(n) == (n - 1) % 100
<1>1. \A n \in Nat \ {0} : /\ q(n) \in Nat /\ r(n) \in 0 .. 99
                           /\ n - 1 = 100 * q(n) + r(n)
                           /\ (n - 1) \div 4 = 25 * q(n) + (r(n) \div 4)
                           /\ r(n) \div 4 \in 0 .. 24
  OBVIOUS
<1>2. (y - 1) \div 400 <= (z - 1) \div 400
  OBVIOUS
<1>3. (y - 1) \div 4 - q(y) <= (z - 1) \div 4 - q(z)
  <2>1. CASE q(y) = q(z)
    <3>1. r(y) <= r(z)
      BY <1>1, <2>1
    <3>2. r(y) \div 4 <= r(z) \div 4
      BY <1>1, <3>1
    <3> QED BY <1>1, <2>1, <3>2
  <2>2. CASE q(y) # q(z)
    <3>1. q(y) < q(z)
      BY <1>1, <2>2
    <3> QED BY <1>1, <3>1
  <2> QED BY <2>1, <2>2
<1> QED
  BY <1>2, <1>3 DEF DaysToYear

LEMMA TimesMonotone ==
  ASSUME NEW a \in Int, NEW b \in Int, a <= b, NEW s \in Nat
  PROVE  a * s <= b * s
<1>1. (b - a) * s >= 0
  OBVIOUS
<1> QED BY <1>1

(* An instant lies in one year only.                                       *)
LEMMA YearUnique ==
  ASSUME NEW t \in Int, NEW y \in Nat \ {0}, NEW z \in Nat \ {0}, Within(t, y), Within(t, z)
  PROVE  y = z
<1>1. ASSUME NEW a \in Nat \ {0}, NEW b \in Nat \ {0}, a < b, Within(t, a), Within(t, b)
      PROVE  FALSE
  <2>1. DaysToYear(a + 1) \in Int /\ DaysToYear(b) \in Int /\ DaysToYear(a + 1) <= DaysToYear(b)
    <3>1. CASE a + 1 = b
      BY <3>1, YearLength
    <3>2. CASE a + 1 < b
      <4>1. a + 1 \in Nat \ {0}
        OBVIOUS
      <4>2. DaysToYear(a + 1) \in Int /\ DaysToYear(b) \in Int
        BY <4>1, YearLength
      <4>3. DaysToYear(b) - DaysToYear(a + 1) >= 365 * (b - (a + 1))
        BY <3>2, <4>1, YearSpacing
      <4> QED BY <3>2, <4>1, <4>2, <4>3
    <3> QED BY <3>1, <3>2, <1>1
  <2>2. DaysToYear(a + 1) * SlotsPerDay <= DaysToYear(b) * SlotsPerDay
    BY <2>1, TimesMonotone, CalendarAssumption
  <2>3. DaysToYear(a + 1) * SlotsPerDay \in Int /\ DaysToYear(b) * SlotsPerDay \in Int
    BY <2>1, CalendarAssumption
  <2>4. t < DaysToYear(a + 1) * SlotsPerDay /\ DaysToYear(b) * SlotsPerDay <= t
    BY <1>1 DEF Within
  <2> QED BY <2>2, <2>3, <2>4
<1> QED BY <1>1

LEMMA YearOfIs ==
  ASSUME NEW t \in Int, NEW y \in MinReprYear - 1 .. MaxReprYear + 1, Within(t, y)
  PROVE  YearOf(t) = y
<1>1. \A z \in MinReprYear - 1 .. MaxReprYear + 1 : z \in Nat \ {0}
  BY CalendarAssumption
<1>2. Within(t, YearOf(t)) /\ YearOf(t) \in MinReprYear - 1 .. MaxReprYear + 1
  BY DEF YearOf
<1> QED BY <1>1, <1>2, YearUnique

LEMMA Months ==
  ASSUME NEW m \in 1 .. 12
  PROVE  /\ kDaysInMonth[m] \in Nat /\ kMonthOffset[m] \in Nat
         /\ kMonthOffset[m] + kDaysInMonth[m] <= 365
         /\ m <= 2 => kMonthOffset[m] + kDaysInMonth[m] <= 59
<1>1. m = 1 \/ m = 2 \/ m = 3 \/ m = 4 \/ m = 5 \/ m = 6
      \/ m = 7 \/ m = 8 \/ m = 9 \/ m = 10 \/ m = 11 \/ m = 12
  OBVIOUS
<1> QED BY <1>1 DEF kDaysInMonth, kMonthOffset

(* The day of the year a stamp names, and what the fields of one are.      *)
StampDay(s, y) == kMonthOffset[s.month] + LeapShift(s.month, y) + s.day - 1

LEMMA StampFields ==
  ASSUME NEW s \in Stamps, NEW y \in Nat \ {0}
  PROVE  /\ s.month \in 1 .. 12 /\ s.day \in 1 .. 31 /\ s.slot \in 0 .. SlotsPerDay - 1
         /\ LeapShift(s.month, y) = (IF s.month > 2 /\ Leap(y) THEN 1 ELSE 0)
         /\ StampDay(s, y) \in Nat
         /\ At(s, y) = (DaysToYear(y) + StampDay(s, y)) * SlotsPerDay + s.slot
         /\ At(s, y) \in Int
<1>1. s.month \in 1 .. 12 /\ s.day \in 1 .. 31 /\ s.slot \in 0 .. SlotsPerDay - 1
  BY DEF Stamps
<1>2. LeapShift(s.month, y) = (IF s.month > 2 /\ Leap(y) THEN 1 ELSE 0)
  BY DEF LeapShift
<1>3. StampDay(s, y) \in Nat /\ kMonthOffset[s.month] \in Nat
  BY <1>1, <1>2, Months DEF StampDay
<1>4. At(s, y) = (DaysToYear(y) + StampDay(s, y)) * SlotsPerDay + s.slot
  <2>1. DaysToYear(y) + kMonthOffset[s.month] + LeapShift(s.month, y) + s.day - 1
        = DaysToYear(y) + StampDay(s, y)
    <3>1. /\ DaysToYear(y) \in Int /\ LeapShift(s.month, y) \in Int
          /\ kMonthOffset[s.month] \in Int /\ s.day \in Int
      BY <1>1, <1>2, <1>3, YearLength
    <3> QED BY <3>1 DEF StampDay
  <2> QED BY <2>1 DEF At
<1>5. At(s, y) \in Int
  BY <1>1, <1>3, <1>4, YearLength, CalendarAssumption
<1> QED BY <1>1, <1>2, <1>3, <1>4, <1>5

(* A stamp lies in the year it is read in.                                 *)
LEMMA StampInYear ==
  ASSUME NEW s \in Stamps, NEW y \in Nat \ {0}, DayExists(s, y)
  PROVE  Within(At(s, y), y)
<1> DEFINE d == DaysToYear(y)
           o == StampDay(s, y)
           e == DaysToYear(y + 1)
<1>1. d \in Int /\ e = d + 365 + (IF Leap(y) THEN 1 ELSE 0) /\ e \in Int
  BY YearLength
<1>2. /\ o \in Nat /\ s.slot \in 0 .. SlotsPerDay - 1
      /\ At(s, y) = (d + o) * SlotsPerDay + s.slot /\ At(s, y) \in Int
  BY StampFields
<1>3. d + o + 1 <= e
  <2>1. /\ s.month \in 1 .. 12 /\ s.day \in 1 .. 31
        /\ LeapShift(s.month, y) = (IF s.month > 2 /\ Leap(y) THEN 1 ELSE 0)
    BY StampFields
  <2>2. /\ kDaysInMonth[s.month] \in Nat /\ kMonthOffset[s.month] \in Nat
        /\ kMonthOffset[s.month] + kDaysInMonth[s.month] <= 365
        /\ s.month <= 2 => kMonthOffset[s.month] + kDaysInMonth[s.month] <= 59
    BY <2>1, Months
  <2>3. s.day <= kDaysInMonth[s.month] + (IF s.month = 2 /\ Leap(y) THEN 1 ELSE 0)
    BY DEF DayExists, LeapDay
  <2>4. o = kMonthOffset[s.month] + LeapShift(s.month, y) + s.day - 1
    BY DEF StampDay
  <2> HIDE DEF o, d, e
  <2> QED BY <1>1, <2>1, <2>2, <2>3, <2>4
<1>4. d * SlotsPerDay <= (d + o) * SlotsPerDay
  <2>1. d + o \in Int /\ d <= d + o
    BY <1>1, <1>2
  <2> QED BY <1>1, <2>1, TimesMonotone, CalendarAssumption
<1>5. (d + o + 1) * SlotsPerDay <= e * SlotsPerDay
  <2>1. d + o + 1 \in Int
    BY <1>1, <1>2
  <2> QED BY <1>1, <1>3, <2>1, TimesMonotone, CalendarAssumption
<1>6. (d + o + 1) * SlotsPerDay = (d + o) * SlotsPerDay + SlotsPerDay
  BY <1>1, <1>2, CalendarAssumption
<1>7. d * SlotsPerDay <= At(s, y) /\ At(s, y) < e * SlotsPerDay
  <2>1. /\ d * SlotsPerDay \in Int /\ (d + o) * SlotsPerDay \in Int
        /\ (d + o + 1) * SlotsPerDay \in Int /\ e * SlotsPerDay \in Int
    BY <1>1, <1>2, CalendarAssumption
  <2> HIDE DEF d, o, e
  <2> QED BY <2>1, <1>2, <1>4, <1>5, <1>6, CalendarAssumption
<1> QED BY <1>7 DEF Within

(* The instants of one stamp in two years are 365 days apart per year.     *)
LEMMA OtherYearsFar ==
  ASSUME NEW s \in Stamps, NEW y \in Nat \ {0}, NEW z \in Nat \ {0}, y < z
  PROVE  At(s, z) - At(s, y) >= 365 * SlotsPerDay
<1> DEFINE a == DaysToYear(y) + StampDay(s, y)
           b == DaysToYear(z) + StampDay(s, z)
<1>1. a \in Int /\ b \in Int
  BY StampFields, YearLength
<1>2. a + 365 <= b
  <2>1. /\ DaysToYear(y) \in Int /\ DaysToYear(z) \in Int
        /\ DaysToYear(y + 1) = DaysToYear(y) + 365 + (IF Leap(y) THEN 1 ELSE 0)
        /\ DaysToYear(z + 1) = DaysToYear(z) + 365 + (IF Leap(z) THEN 1 ELSE 0)
    BY YearLength
  <2>2. DaysToYear(z) - DaysToYear(y) >= 365 * (z - y)
    BY YearSpacing
  <2>3. DaysToYear(z + 1) - DaysToYear(y + 1) >= 365 * ((z + 1) - (y + 1))
    <3>1. y + 1 \in Nat \ {0} /\ z + 1 \in Nat \ {0} /\ y + 1 < z + 1
      OBVIOUS
    <3> QED BY <3>1, YearSpacing
  <2>4. StampDay(s, z) - StampDay(s, y) = LeapShift(s.month, z) - LeapShift(s.month, y)
    <3>1. /\ s.month \in 1 .. 12 /\ s.day \in 1 .. 31
          /\ LeapShift(s.month, y) \in {0, 1} /\ LeapShift(s.month, z) \in {0, 1}
      BY StampFields DEF LeapShift
    <3>2. kMonthOffset[s.month] \in Nat
      BY <3>1, Months
    <3> QED BY <3>1, <3>2 DEF StampDay
  <2>5. /\ LeapShift(s.month, z) = (IF s.month > 2 /\ Leap(z) THEN 1 ELSE 0)
        /\ LeapShift(s.month, y) = (IF s.month > 2 /\ Leap(y) THEN 1 ELSE 0)
        /\ StampDay(s, y) \in Nat /\ StampDay(s, z) \in Nat /\ s.month \in 1 .. 12
    BY StampFields
  <2>6. CASE s.month > 2
    BY <2>1, <2>3, <2>4, <2>5, <2>6
  <2>7. CASE ~ (s.month > 2)
    BY <2>1, <2>2, <2>4, <2>5, <2>7
  <2> QED BY <2>6, <2>7
<1>3. (a + 365) * SlotsPerDay <= b * SlotsPerDay
  <2>1. a + 365 \in Int
    BY <1>1
  <2> QED BY <1>1, <1>2, <2>1, TimesMonotone, CalendarAssumption
<1>4. (a + 365) * SlotsPerDay = a * SlotsPerDay + 365 * SlotsPerDay
  BY <1>1, CalendarAssumption
<1>5. /\ At(s, y) = a * SlotsPerDay + s.slot /\ At(s, z) = b * SlotsPerDay + s.slot
      /\ s.slot \in 0 .. SlotsPerDay - 1
  BY StampFields
<1>6. a * SlotsPerDay \in Int /\ b * SlotsPerDay \in Int
  BY <1>1, CalendarAssumption
<1> HIDE DEF a, b
<1> QED BY <1>3, <1>4, <1>5, <1>6, CalendarAssumption

(* An instant is read back from its stamp in its year.                     *)
LEMMA StampBack ==
  ASSUME NEW t \in Instants
  PROVE  /\ t \in Int /\ YearOf(t) \in ReprYears /\ YearOf(t) \in Nat \ {0}
         /\ Within(t, YearOf(t))
         /\ StampOf(t) \in Stamps /\ DayExists(StampOf(t), YearOf(t))
         /\ At(StampOf(t), YearOf(t)) = t
<1>1. PICK y \in ReprYears, s \in Stamps : DayExists(s, y) /\ t = At(s, y)
  BY DEF Instants
<1>2. y \in MinReprYear - 1 .. MaxReprYear + 1 /\ y \in Nat \ {0}
  BY CalendarAssumption DEF ReprYears
<1>3. t \in Int /\ Within(t, y)
  BY <1>1, <1>2, StampInYear, StampFields
<1>4. YearOf(t) = y
  BY <1>2, <1>3, YearOfIs
<1>5. \E r \in Stamps : At(r, y) = t /\ DayExists(r, y)
  BY <1>1
<1>6. StampOf(t) \in Stamps /\ At(StampOf(t), y) = t /\ DayExists(StampOf(t), y)
  BY <1>4, <1>5 DEF StampOf
<1> QED BY <1>2, <1>3, <1>4, <1>6

(* Read against an instant near it, a yearless stamp gets its own year.    *)
LEMMA ResolveNear ==
  ASSUME NEW t \in Instants, NEW u \in Instants, Near(t, u)
  PROVE  Resolve(StampOf(t), u) = {t}
<1> DEFINE s == StampOf(t)
           y == YearOf(t)
           w == YearOf(u)
           half == 365 * SlotsPerDay
<1>1. /\ t \in Int /\ y \in ReprYears /\ y \in Nat \ {0} /\ Within(t, y)
      /\ s \in Stamps /\ DayExists(s, y) /\ At(s, y) = t
      /\ u \in Int /\ w \in ReprYears /\ w \in Nat \ {0} /\ Within(u, w)
  BY StampBack
<1>2. half \in Nat \ {0}
  BY CalendarAssumption
<1>3. 2 * Distance(t, u) < half \/ 2 * (t - u) = half
  BY DEF Near
<1>4. y \in w - 1 .. w + 1
  <2>1. ASSUME NEW a \in Nat \ {0}, NEW b \in Nat \ {0}, a + 1 < b,
               NEW p \in Int, NEW q \in Int, Within(p, a), Within(q, b)
        PROVE  q - p > half
    <3> DEFINE e == DaysToYear(a + 1)
               f == DaysToYear(b)
    <3>1. a + 1 \in Nat \ {0}
      OBVIOUS
    <3>2. e \in Int /\ f \in Int /\ f - e >= 365 * (b - (a + 1))
      BY <3>1, <2>1, YearLength, YearSpacing
    <3>3. e + 365 <= f
      BY <3>2, <2>1
    <3>4. (e + 365) * SlotsPerDay <= f * SlotsPerDay
      <4>1. e + 365 \in Int
        BY <3>2
      <4> QED BY <3>2, <3>3, <4>1, TimesMonotone, CalendarAssumption
    <3>5. (e + 365) * SlotsPerDay = e * SlotsPerDay + half
      BY <3>2, CalendarAssumption
    <3>6. p < e * SlotsPerDay /\ f * SlotsPerDay <= q
      BY <2>1 DEF Within
    <3>7. e * SlotsPerDay \in Int /\ f * SlotsPerDay \in Int
      BY <3>2, CalendarAssumption
    <3> HIDE DEF e, f, half
    <3> QED BY <3>4, <3>5, <3>6, <3>7, <1>2
  <2>2. ~ (w + 1 < y)
    <3>1. ASSUME w + 1 < y PROVE t - u > half
      BY <3>1, <2>1, <1>1
    <3> HIDE DEF half, w, y
    <3> QED BY <3>1, <1>1, <1>2, <1>3 DEF Distance
  <2>3. ~ (y + 1 < w)
    <3>1. ASSUME y + 1 < w PROVE u - t > half
      BY <3>1, <2>1, <1>1
    <3> HIDE DEF half, w, y
    <3> QED BY <3>1, <1>1, <1>2, <1>3 DEF Distance
  <2> HIDE DEF w, y
  <2> QED BY <2>2, <2>3, <1>1
<1>5. y \in Years(s, u)
  BY <1>1, <1>4 DEF Years
<1>6. ASSUME NEW z \in Years(s, u), z # y
      PROVE  Closer(s, u, y, z) /\ ~ Closer(s, u, z, y)
  <2>1. z \in Nat \ {0}
    BY CalendarAssumption DEF Years, ReprYears
  <2>2. At(s, z) \in Int /\ At(s, y) = t
    BY <1>1, <2>1, StampFields
  <2>3. CASE z < y
    <3>1. t - At(s, z) >= half
      BY <2>1, <2>2, <2>3, <1>1, OtherYearsFar
    <3> HIDE DEF half, s, y
    <3> QED BY <3>1, <2>1, <2>2, <2>3, <1>1, <1>2, <1>3 DEF Closer, Distance
  <2>4. CASE y < z
    <3>1. At(s, z) - t >= half
      BY <2>1, <2>2, <2>4, <1>1, OtherYearsFar
    <3> HIDE DEF half, s, y
    <3> QED BY <3>1, <2>1, <2>2, <2>4, <1>1, <1>2, <1>3 DEF Closer, Distance
  <2> QED BY <2>1, <2>3, <2>4, <1>1, <1>6
<1>7. Closer(s, u, y, y)
  <2>1. t \in Int /\ u \in Int /\ y \in Nat /\ At(s, y) = t
    BY <1>1
  <2> HIDE DEF s, y
  <2> QED BY <2>1 DEF Closer, Distance
<1>8. Nearest(s, u) = y
  <2>1. \A z \in Years(s, u) : Closer(s, u, y, z)
    BY <1>6, <1>7
  <2>2. /\ Nearest(s, u) \in Years(s, u)
        /\ \A z \in Years(s, u) : Closer(s, u, Nearest(s, u), z)
    BY <1>5, <2>1 DEF Nearest
  <2> QED BY <2>2, <1>5, <1>6
<1> QED BY <1>1, <1>5, <1>8 DEF Resolve

----------------------------------------------------------------------------
(* While dense, the reference is the reading of the last timed line; a     *)
(* context that has read no year has no reference.                         *)
ReferenceIsLast == dense => anchored /\ reference = {last}
ReferenceIsRead == ~anchored => reference = Absent
TimeIsRemembered == time = Absent \/ time = reference
AllTimed == dense /\ carried = "yearless" => time = {clock}
AllTrue == dense => time \subseteq {clock}
Bounded ==
  /\ reference = Absent \/ \E t \in Instants : reference = {t}
  /\ carried \in {"none", "instant", "yearless"}
  /\ clock \in Instants /\ last \in Instants
  /\ anchored \in BOOLEAN /\ dense \in BOOLEAN /\ lines \in Nat
IInv ==
  /\ Bounded /\ ReferenceIsLast /\ ReferenceIsRead /\ TimeIsRemembered
  /\ AllTimed /\ AllTrue

(* One of the candidate years is the nearest.                              *)
LEMMA NearestIs ==
  ASSUME NEW s \in Stamps, NEW ref \in Instants, Years(s, ref) # {}
  PROVE  Nearest(s, ref) \in Years(s, ref)
<1> DEFINE C == Years(s, ref)
           w == YearOf(ref)
           D(z) == Distance(At(s, z), ref)
<1>1. ref \in Int /\ w \in Nat \ {0}
  BY StampBack
<1>2. \A z \in C : z \in {w - 1, w, w + 1} /\ z \in Nat \ {0}
  BY <1>1, CalendarAssumption DEF Years, ReprYears
<1>3. \A z \in C : At(s, z) \in Int
  BY <1>2, StampFields
<1>4. \A z \in C : D(z) \in Int
  BY <1>1, <1>3 DEF Distance
<1>5. \A y, z \in C : Closer(s, ref, y, z) <=> D(y) < D(z) \/ (D(y) = D(z) /\ z <= y)
  BY DEF Closer
<1>6. \E y \in C : \A z \in C : D(y) < D(z) \/ (D(y) = D(z) /\ z <= y)
  <2> HIDE DEF C, D, w
  <2> QED BY <1>1, <1>2, <1>4 DEF C
<1>7. \E y \in C : \A z \in C : Closer(s, ref, y, z)
  <2> HIDE DEF C, D
  <2> QED BY <1>5, <1>6
<1> QED BY <1>7 DEF Nearest

(* What a line's stamp resolves to: its reading, no time, or some instant. *)
LEMMA ResolvedIs ==
  ASSUME NEW t \in Instants, NEW k \in {"none", "instant", "yearless"}, NEW R,
         R = Absent \/ \E u \in Instants : R = {u}
  PROVE  LET resolved == ResolveEventTime(Written(t, k), R) IN
         /\ resolved = Absent \/ \E v \in Instants : resolved = {v}
         /\ k = "instant" => resolved = {t}
         /\ k = "none" => resolved = Absent
         /\ k = "yearless" /\ R = Absent => resolved = Absent
         /\ k = "yearless" => \A u \in Instants : R = {u} /\ Near(t, u) => resolved = {t}
<1>1. CASE k = "instant"
  BY <1>1 DEF ResolveEventTime, Written, Instant
<1>2. CASE k = "none"
  BY <1>2 DEF ResolveEventTime, Written, NoStamp, Absent
<1>3. CASE k = "yearless"
  <2>1. ResolveEventTime(Written(t, k), R) = UNION {Resolve(StampOf(t), ref) : ref \in R}
    BY <1>3 DEF ResolveEventTime, Written, Yearless
  <2>2. CASE R = Absent
    <3>1. ResolveEventTime(Written(t, k), R) = Absent
      BY <2>1, <2>2 DEF Absent
    <3>2. \A u \in Instants : R # {u}
      BY <2>2 DEF Absent
    <3> QED BY <3>1, <3>2, <1>3
  <2>3. ASSUME NEW u \in Instants, R = {u}
        PROVE  /\ ResolveEventTime(Written(t, k), R) = Resolve(StampOf(t), u)
               /\ \/ Resolve(StampOf(t), u) = Absent
                  \/ \E v \in Instants : Resolve(StampOf(t), u) = {v}
    <3>1. ResolveEventTime(Written(t, k), R) = Resolve(StampOf(t), u)
      BY <2>1, <2>3
    <3>2. CASE Years(StampOf(t), u) = {}
      BY <3>1, <3>2 DEF Resolve
    <3>3. CASE Years(StampOf(t), u) # {}
      <4>1. StampOf(t) \in Stamps /\ Nearest(StampOf(t), u) \in Years(StampOf(t), u)
        BY <3>3, StampBack, NearestIs
      <4>2. /\ Nearest(StampOf(t), u) \in ReprYears
            /\ DayExists(StampOf(t), Nearest(StampOf(t), u))
        BY <4>1 DEF Years
      <4>3. At(StampOf(t), Nearest(StampOf(t), u)) \in Instants
        BY <4>1, <4>2 DEF Instants
      <4> QED BY <3>1, <3>3, <4>3 DEF Resolve
    <3> QED BY <3>1, <3>2, <3>3
  <2> QED BY <2>2, <2>3, <1>3, ResolveNear DEF Absent
<1> QED BY <1>1, <1>2, <1>3

LEMMA InitInv == InitClock => IInv
<1> SUFFICES ASSUME InitClock PROVE IInv
  OBVIOUS
<1>1. clock \in Instants /\ last \in Instants
  BY ClockAssumption DEF InitClock
<1>2. Bounded
  BY <1>1 DEF InitClock, Bounded
<1> QED BY <1>2 DEF InitClock, IInv, ReferenceIsLast, ReferenceIsRead, TimeIsRemembered, AllTimed, AllTrue

LEMMA NextInv == IInv /\ [NextClock]_clockVars => IInv'
<1> SUFFICES ASSUME IInv, [NextClock]_clockVars PROVE IInv'
  OBVIOUS
<1> USE DEF IInv, Bounded, ReferenceIsLast, ReferenceIsRead, TimeIsRemembered, AllTimed, AllTrue
<1>1. ASSUME NEW t \in Int, NEW k \in {"none", "instant", "yearless"}, ReadLine(t, k)
      PROVE  IInv'
  <2> DEFINE resolved == ResolveEventTime(Written(t, k), reference)
  <2>1. /\ t \in Instants /\ time' = resolved
        /\ reference' = (IF resolved = Absent THEN reference ELSE resolved)
        /\ carried' = k /\ clock' = t
        /\ last' = (IF resolved # Absent THEN t ELSE last)
        /\ anchored' = (anchored \/ k = "instant")
        /\ dense' = (k = "instant" \/ (dense /\ (k = "yearless" => Near(t, last))))
        /\ lines' = lines + 1
    BY <1>1 DEF ReadLine, Remember
  <2>2. /\ resolved = Absent \/ \E v \in Instants : resolved = {v}
        /\ k = "instant" => resolved = {t}
        /\ k = "none" => resolved = Absent
        /\ k = "yearless" /\ reference = Absent => resolved = Absent
        /\ k = "yearless" => \A u \in Instants : reference = {u} /\ Near(t, u) => resolved = {t}
    BY <2>1, ResolvedIs
  <2> HIDE DEF resolved
  <2>3. dense' => /\ k # "none" => resolved = {t}
                  /\ k = "none" => dense /\ resolved = Absent
    BY <2>1, <2>2
  <2>4. Bounded'
    BY <2>1, <2>2
  <2>5. ReferenceIsLast'
    BY <2>1, <2>3 DEF Absent
  <2>6. ReferenceIsRead'
    BY <2>1, <2>2 DEF Absent
  <2>7. TimeIsRemembered'
    BY <2>1
  <2>8. AllTimed' /\ AllTrue'
    BY <2>1, <2>3 DEF Absent
  <2> QED BY <2>4, <2>5, <2>6, <2>7, <2>8
<1>2. CASE DeclareContext
  BY <1>2 DEF DeclareContext, Absent
<1>3. CASE UNCHANGED clockVars
  BY <1>3 DEF clockVars
<1>4. ASSUME NEW move \in Moves PROVE clock + move \in Int
  BY StampBack, ClockAssumption
<1> QED BY <1>1, <1>2, <1>3, <1>4 DEF NextClock

(* Every variable keeps its type: a reference is one instant at most and   *)
(* the last event's time, when it has one, is the reference.               *)
THEOREM TypeCorrect == SpecClock => []TypeOK
<1>1. IInv => TypeOK
  <2> SUFFICES ASSUME IInv PROVE TypeOK
    OBVIOUS
  <2>1. reference \subseteq Instants /\ time \subseteq reference
    BY DEF IInv, Bounded, TimeIsRemembered, Absent
  <2>2. Cardinality(reference) <= 1
    <3>1. CASE reference = Absent
      BY <3>1, FS_EmptySet DEF Absent
    <3>2. ASSUME NEW t \in Instants, reference = {t} PROVE Cardinality(reference) <= 1
      <4>1. Cardinality({t}) = 1
        BY FS_Singleton
      <4> QED BY <3>2, <4>1
    <3> QED BY <3>1, <3>2 DEF IInv, Bounded
  <2> QED BY <2>1, <2>2 DEF IInv, Bounded, TypeOK
<1> QED BY <1>1, InitInv, NextInv, PTL DEF SpecClock

(* However far a stream has come since the last year it read, and across   *)
(* however many New Years, an event's time is the reading its line was     *)
(* written at, while stamped lines stay within half a year of each other.  *)
THEOREM DenseIsTrue == SpecClock => []TrueWhileDense
<1>1. IInv => TrueWhileDense
  BY DEF IInv, AllTrue, TrueWhileDense
<1> QED BY <1>1, InitInv, NextInv, PTL DEF SpecClock

(* In such a stream no stamp is left without a time.                       *)
THEOREM DenseIsTimed == SpecClock => []StampedIsTimed
<1>1. IInv => StampedIsTimed
  BY DEF IInv, AllTimed, StampedIsTimed, Absent
<1> QED BY <1>1, InitInv, NextInv, PTL DEF SpecClock

(* No event has a time in a context whose lines have written no year.      *)
THEOREM YearsAreRead == SpecClock => []NoYearInvented
<1>1. IInv => NoYearInvented
  BY DEF IInv, ReferenceIsRead, TimeIsRemembered, NoYearInvented, Absent
<1> QED BY <1>1, InitInv, NextInv, PTL DEF SpecClock

----------------------------------------------------------------------------
(* What peeling undoes and what it may take (Transport).                   *)

YearOfEra(dayOfEra) ==
  (dayOfEra - dayOfEra \div 1460 + dayOfEra \div 36524 - dayOfEra \div 146096) \div 365
DayOfYear(dayOfEra) ==
  dayOfEra - (365 * YearOfEra(dayOfEra) + YearOfEra(dayOfEra) \div 4 - YearOfEra(dayOfEra) \div 100)

(* A day of an era lies in a year of it; a year from March has a 366th day *)
(* when the February it ends with has a 29th.                              *)
InYear(n) ==
  /\ YearOfEra(n) \in 0 .. 399
  /\ DayOfYear(n) \in 0 .. 365
  /\ DayOfYear(n) = 365 => Leap(YearOfEra(n) + 1)

LEMMA EraYear ==
  ASSUME NEW n \in Int, 0 <= n, n <= 146096
  PROVE  InYear(n)
<1> DEFINE y == YearOfEra(n)
<1>1. y \in Int /\ y = (n - n \div 1460 + n \div 36524 - n \div 146096) \div 365
  BY DEF YearOfEra
<1>2. DayOfYear(n) = n - (365 * y + y \div 4 - y \div 100)
  BY DEF DayOfYear
<1> HIDE DEF y
<1>3. 0 <= y /\ y <= 399
  BY <1>1, SMTT(30)
<1>4. 0 <= DayOfYear(n) /\ DayOfYear(n) <= 365 /\ DayOfYear(n) \in Int
  BY <1>1, <1>2, <1>3, SMTT(30)
<1>5. ASSUME DayOfYear(n) = 365 PROVE Leap(y + 1)
  <2>1. n - (365 * y + y \div 4 - y \div 100) = 365
    BY <1>2, <1>5
  <2>2. (y + 1) % 4 = 0 /\ ((y + 1) % 100 # 0 \/ (y + 1) % 400 = 0)
    BY <1>1, <1>3, <2>1, SMTT(60)
  <2> QED BY <2>2 DEF Leap
<1> QED BY <1>1, <1>3, <1>4, <1>5 DEF y, InYear

(* The days before a year, and before the March of one.                    *)
LeapsThrough(y) == y \div 4 - y \div 100 + y \div 400

Counted(y) ==
  /\ DaysToYear(y) \in Int /\ LeapsThrough(y) \in Int
  /\ DaysToYear(y + 1) = 365 * y + LeapsThrough(y) - 719162
  /\ DaysToYear(y) + (IF Leap(y) THEN 1 ELSE 0) = 365 * y + LeapsThrough(y) - 719527

LEMMA DaysBefore ==
  ASSUME NEW y \in Int
  PROVE  Counted(y)
<1>1. y \div 4 = (y - 1) \div 4 + (IF y % 4 = 0 THEN 1 ELSE 0)
  OBVIOUS
<1>2. y \div 100 = (y - 1) \div 100 + (IF y % 100 = 0 THEN 1 ELSE 0)
  OBVIOUS
<1>3. y \div 400 = (y - 1) \div 400 + (IF y % 400 = 0 THEN 1 ELSE 0)
  OBVIOUS
<1>4. (y % 400 = 0 => y % 100 = 0) /\ (y % 100 = 0 => y % 4 = 0)
  OBVIOUS
<1>5. DaysToYear(y + 1) = 365 * y + y \div 4 - y \div 100 + y \div 400 - 719162
  BY DEF DaysToYear
<1>6. DaysToYear(y) + (IF Leap(y) THEN 1 ELSE 0)
        = 365 * y + y \div 4 - y \div 100 + y \div 400 - 719527
  BY <1>1, <1>2, <1>3, <1>4 DEF DaysToYear, Leap
<1>7. DaysToYear(y) \in Int /\ LeapsThrough(y) \in Int
  BY DEF DaysToYear, LeapsThrough
<1> QED BY <1>5, <1>6, <1>7 DEF Counted, LeapsThrough

(* The months from March, each with the days of the year before it.        *)
March(n) == (5 * n + 2) \div 153
Since(m) == (153 * m + 2) \div 5

InMonth(n, m) ==
  /\ m \in 0 .. 11
  /\ Since(m) \in Int /\ Since(m) <= n
  /\ m < 10 => /\ kMonthOffset[m + 3] = Since(m) + 59
               /\ n - Since(m) < kDaysInMonth[m + 3]
  /\ m >= 10 => /\ kMonthOffset[m - 9] = Since(m) - 306
                /\ n - Since(m) < kDaysInMonth[m - 9] + (IF m = 11 /\ n = 365 THEN 1 ELSE 0)

LEMMA MarchMonth ==
  ASSUME NEW n \in Int, 0 <= n, n <= 365
  PROVE  InMonth(n, March(n))
<1> DEFINE m == March(n)
<1>1. m \in Int
  BY DEF March
<1>2. 0 <= m /\ m <= 11
  BY DEF March
<1>3. 153 * m <= 5 * n + 2 /\ 5 * n + 2 < 153 * m + 153
  BY DEF March
<1> HIDE DEF m
<1>4. \/ m = 0 \/ m = 1 \/ m = 2 \/ m = 3 \/ m = 4 \/ m = 5
      \/ m = 6 \/ m = 7 \/ m = 8 \/ m = 9 \/ m = 10 \/ m = 11
  BY <1>1, <1>2
<1>5. ASSUME m = 0 PROVE InMonth(n, m)
  BY <1>3, <1>5 DEF InMonth, Since, kMonthOffset, kDaysInMonth
<1>6. ASSUME m = 1 PROVE InMonth(n, m)
  BY <1>3, <1>6 DEF InMonth, Since, kMonthOffset, kDaysInMonth
<1>7. ASSUME m = 2 PROVE InMonth(n, m)
  BY <1>3, <1>7 DEF InMonth, Since, kMonthOffset, kDaysInMonth
<1>8. ASSUME m = 3 PROVE InMonth(n, m)
  BY <1>3, <1>8 DEF InMonth, Since, kMonthOffset, kDaysInMonth
<1>9. ASSUME m = 4 PROVE InMonth(n, m)
  BY <1>3, <1>9 DEF InMonth, Since, kMonthOffset, kDaysInMonth
<1>10. ASSUME m = 5 PROVE InMonth(n, m)
  BY <1>3, <1>10 DEF InMonth, Since, kMonthOffset, kDaysInMonth
<1>11. ASSUME m = 6 PROVE InMonth(n, m)
  BY <1>3, <1>11 DEF InMonth, Since, kMonthOffset, kDaysInMonth
<1>12. ASSUME m = 7 PROVE InMonth(n, m)
  BY <1>3, <1>12 DEF InMonth, Since, kMonthOffset, kDaysInMonth
<1>13. ASSUME m = 8 PROVE InMonth(n, m)
  BY <1>3, <1>13 DEF InMonth, Since, kMonthOffset, kDaysInMonth
<1>14. ASSUME m = 9 PROVE InMonth(n, m)
  BY <1>3, <1>14 DEF InMonth, Since, kMonthOffset, kDaysInMonth
<1>15. ASSUME m = 10 PROVE InMonth(n, m)
  BY <1>3, <1>15 DEF InMonth, Since, kMonthOffset, kDaysInMonth
<1>16. ASSUME m = 11 PROVE InMonth(n, m)
  BY <1>3, <1>16 DEF InMonth, Since, kMonthOffset, kDaysInMonth
<1> QED BY <1>4, <1>5, <1>6, <1>7, <1>8, <1>9, <1>10, <1>11, <1>12, <1>13, <1>14, <1>15, <1>16 DEF m

(* civil_from_days inverts the count of days of utc_mktime.                *)
LEMMA CivilIsCalendar ==
  ASSUME NEW d \in Int, NEW c, c = CivilFromDays(d)
  PROVE  /\ c.year \in Int /\ c.month \in 1 .. 12 /\ c.day \in Int /\ c.day >= 1
         /\ c.day <= kDaysInMonth[c.month] + LeapDay(c.month, c.year)
         /\ DaysToYear(c.year) + kMonthOffset[c.month] + LeapShift(c.month, c.year) + c.day - 1 = d
<1> DEFINE era == (d + 719468) \div 146097
           n == (d + 719468) % 146097
           y == YearOfEra(n)
           q == DayOfYear(n)
           m == March(q)
           Y == y + 400 * era
<1>1. c = [year |-> y + era * 400 + (IF (IF m < 10 THEN m + 3 ELSE m - 9) <= 2 THEN 1 ELSE 0),
           month |-> IF m < 10 THEN m + 3 ELSE m - 9,
           day |-> q - Since(m) + 1]
  BY DEF CivilFromDays, YearOfEra, DayOfYear, March, Since
<1>2. era \in Int /\ n \in Int /\ 0 <= n /\ n <= 146096 /\ d + 719468 = 146097 * era + n
  OBVIOUS
<1> HIDE DEF era, n
<1>3. InYear(n)
  BY <1>2, EraYear
<1>4. /\ y \in Int /\ 0 <= y /\ y <= 399
      /\ q \in Int /\ 0 <= q /\ q <= 365
      /\ q = 365 => Leap(y + 1)
  BY <1>3 DEF InYear
<1>5. n = 365 * y + y \div 4 - y \div 100 + q
  BY <1>2, <1>4 DEF DayOfYear
<1>6. InMonth(q, m)
  BY <1>4, MarchMonth
<1> HIDE DEF y, q, m
<1>7. /\ Y \in Int
      /\ Y \div 4 = y \div 4 + 100 * era /\ Y \div 100 = y \div 100 + 4 * era /\ Y \div 400 = era
  BY <1>2, <1>4
<1>8. d = 365 * Y + LeapsThrough(Y) + q - 719468
  BY <1>2, <1>4, <1>5, <1>7 DEF LeapsThrough
<1>9. Leap(Y + 1) = Leap(y + 1)
  <2> DEFINE z == Y + 1
             w == y + 1
  <2>1. w \in Int /\ z = w + 400 * era
    BY <1>2, <1>4
  <2> HIDE DEF z, w
  <2>2. z % 4 = w % 4 /\ z % 100 = w % 100 /\ z % 400 = w % 400
    BY <1>2, <2>1
  <2>3. Leap(z) = Leap(w)
    BY <2>2 DEF Leap
  <2> QED BY <2>3 DEF z, w
<1>10. c.year = (IF m < 10 THEN Y ELSE Y + 1) /\ c.day = q - Since(m) + 1
       /\ c.month = (IF m < 10 THEN m + 3 ELSE m - 9)
  BY <1>1, <1>2, <1>4, <1>6 DEF InMonth
<1> HIDE DEF Y
<1>11. Counted(Y)
  BY <1>7, DaysBefore
<1>12. CASE m < 10
  <2>1. m \in Int /\ m + 3 \in 3 .. 12
    BY <1>6, <1>12 DEF InMonth
  <2>2. c.year = Y /\ c.month = m + 3 /\ c.day = q - Since(m) + 1
    BY <1>10, <1>12
  <2>3. LeapDay(c.month, c.year) = 0 /\ LeapShift(c.month, c.year) = (IF Leap(Y) THEN 1 ELSE 0)
    BY <2>1, <2>2 DEF LeapDay, LeapShift
  <2> DEFINE length == kDaysInMonth[m + 3]
             offset == kMonthOffset[m + 3]
  <2>4. length \in Int
    BY <2>1 DEF kDaysInMonth
  <2>5. Since(m) \in Int /\ Since(m) <= q /\ offset = Since(m) + 59 /\ q - Since(m) < length
    BY <1>6, <1>12 DEF InMonth
  <2>6. length = kDaysInMonth[c.month] /\ offset = kMonthOffset[c.month]
    BY <2>2
  <2> HIDE DEF length, offset
  <2>7. c.day \in Int /\ c.day >= 1 /\ c.day <= length + LeapDay(c.month, c.year)
    BY <1>4, <2>2, <2>3, <2>4, <2>5
  <2>8. DaysToYear(c.year) + offset + LeapShift(c.month, c.year) + c.day - 1 = d
    <3>1. DaysToYear(Y) \in Int /\ LeapsThrough(Y) \in Int
          /\ DaysToYear(Y) + LeapShift(c.month, c.year) = 365 * Y + LeapsThrough(Y) - 719527
      BY <1>11, <2>3 DEF Counted
    <3>2. LeapShift(c.month, c.year) \in Int
      BY <2>3
    <3> QED BY <1>4, <1>7, <1>8, <2>2, <2>5, <3>1, <3>2
  <2> QED BY <1>7, <2>1, <2>2, <2>6, <2>7, <2>8
<1>13. CASE ~(m < 10)
  <2>1. m \in Int /\ m - 9 \in 1 .. 2 /\ m >= 10 /\ (m - 9 = 2) = (m = 11)
    BY <1>6, <1>13 DEF InMonth
  <2>2. c.year = Y + 1 /\ c.month = m - 9 /\ c.day = q - Since(m) + 1
    BY <1>10, <1>13
  <2>3. LeapShift(c.month, c.year) = 0
        /\ LeapDay(c.month, c.year) = (IF m = 11 /\ Leap(y + 1) THEN 1 ELSE 0)
    BY <1>9, <2>1, <2>2 DEF LeapDay, LeapShift
  <2> DEFINE length == kDaysInMonth[m - 9]
             offset == kMonthOffset[m - 9]
  <2>4. length \in Int
    BY <2>1 DEF kDaysInMonth
  <2>5. /\ Since(m) \in Int /\ Since(m) <= q /\ offset = Since(m) - 306
        /\ q - Since(m) < length + (IF m = 11 /\ q = 365 THEN 1 ELSE 0)
    BY <1>6, <2>1 DEF InMonth
  <2>6. length = kDaysInMonth[c.month] /\ offset = kMonthOffset[c.month]
    BY <2>2
  <2> HIDE DEF length, offset
  <2>7. c.day \in Int /\ c.day >= 1 /\ c.day <= length + LeapDay(c.month, c.year)
    BY <1>4, <2>2, <2>3, <2>4, <2>5
  <2>8. DaysToYear(c.year) + offset + LeapShift(c.month, c.year) + c.day - 1 = d
    BY <1>4, <1>7, <1>8, <1>11, <2>2, <2>3, <2>5 DEF Counted
  <2> QED BY <1>7, <2>1, <2>2, <2>6, <2>7, <2>8
<1> QED BY <1>12, <1>13

(* A number is divided by what encloses it.                                *)
LEMMA Quotient ==
  ASSUME NEW a \in Int, NEW b \in Nat \ {0}, NEW q \in Int, b * q <= a, a < b * q + b
  PROVE  a \div b = q
  OBVIOUS

LEMMA Division ==
  ASSUME NEW a \in Int, NEW b \in Nat \ {0}
  PROVE  a \div b \in Int /\ b * (a \div b) <= a /\ a < b * (a \div b) + b
  OBVIOUS

(* The slot of an instant, within its day and from the epoch.              *)
LEMMA SlotOfDay ==
  ASSUME NEW t \in Int, NEW s, s = (t - DayOf(t) * TicksPerDay) \div TicksPerSlot
  PROVE  /\ DayOf(t) \in Int
         /\ s \in 0 .. SlotsPerDay - 1
         /\ t \div TicksPerSlot = DayOf(t) * SlotsPerDay + s
<1> DEFINE r == t - DayOf(t) * TicksPerDay
<1>1. TicksPerSlot \in Nat \ {0} /\ SlotsPerDay \in Nat \ {0}
  BY CalendarAssumption, TransportAssumption
<1>2. TicksPerDay \in Nat \ {0}
  BY <1>1 DEF TicksPerDay
<1>3. DayOf(t) \in Int /\ r \in Int /\ 0 <= r /\ r < TicksPerDay
  BY <1>2, Division DEF DayOf
<1>4. s \in Int /\ TicksPerSlot * s <= r /\ r < TicksPerSlot * s + TicksPerSlot
  BY <1>1, <1>3, Division
<1>5. s >= 0
  BY <1>1, <1>3, <1>4
<1>6. s < SlotsPerDay
  <2>1. TicksPerSlot * s < TicksPerSlot * SlotsPerDay
    BY <1>1, <1>3, <1>4 DEF TicksPerDay
  <2> QED BY <1>1, <1>4, <2>1
<1> DEFINE k == DayOf(t) * SlotsPerDay + s
<1>7. k \in Int /\ TicksPerSlot * k = DayOf(t) * TicksPerDay + TicksPerSlot * s
  BY <1>1, <1>3, <1>4 DEF TicksPerDay
<1>8. TicksPerSlot * k <= t /\ t < TicksPerSlot * k + TicksPerSlot
  BY <1>1, <1>2, <1>3, <1>4, <1>7
<1>9. t \div TicksPerSlot = k
  <2> HIDE DEF k
  <2> QED BY <1>1, <1>7, <1>8, Quotient
<1> QED BY <1>1, <1>3, <1>4, <1>5, <1>6, <1>9

(* "parsing the rendered interior equals the stamp floored to seconds"     *)
(* (canon.transport.cppm:202): for every instant, on either side of 1970,  *)
(* every grain and every range of years the parser represents, the fields  *)
(* that render_transport_prefix writes read back as the instant's slot.    *)
THEOREM RenderingReadsBack == Spec => []RenderedReadsBack
<1>1. ASSUME NEW t \in Int, DateOf(t).year \in ReprYears
      PROVE  Read(DateOf(t)) = {t \div TicksPerSlot}
  <2> DEFINE c == CivilFromDays(DayOf(t))
             s == (t - DayOf(t) * TicksPerDay) \div TicksPerSlot
             date == DateOf(t)
  <2>1. date = [year |-> c.year, month |-> c.month, day |-> c.day, slot |-> s]
    BY DEF DateOf
  <2>2. DayOf(t) \in Int /\ s \in 0 .. SlotsPerDay - 1 /\ t \div TicksPerSlot = DayOf(t) * SlotsPerDay + s
    BY SlotOfDay
  <2>3. /\ c.year \in Int /\ c.month \in 1 .. 12 /\ c.day \in Int /\ c.day >= 1
        /\ c.day <= kDaysInMonth[c.month] + LeapDay(c.month, c.year)
        /\ DaysToYear(c.year) + kMonthOffset[c.month] + LeapShift(c.month, c.year) + c.day - 1 = DayOf(t)
    BY <2>2, CivilIsCalendar
  <2> HIDE DEF c, s
  <2>4. date.year = c.year /\ date.month = c.month /\ date.day = c.day /\ date.slot = s
    BY <2>1
  <2> HIDE DEF date
  <2>5. DayExists(date, date.year)
    BY <2>3, <2>4 DEF DayExists
  <2>6. At(date, date.year) = t \div TicksPerSlot
    BY <2>2, <2>3, <2>4 DEF At
  <2>7. date.slot >= 0 /\ date.slot < SlotsPerDay
    BY <2>2, <2>4, CalendarAssumption
  <2>8. date.year \in ReprYears
    BY <1>1 DEF date
  <2> QED BY <2>3, <2>4, <2>5, <2>6, <2>7, <2>8 DEF Read, date
<1> DEFINE Given == delivery \in Deliveries
<1>2. Given => RenderedReadsBack
  BY <1>1, TransportAssumption DEF RenderedReadsBack
<1>3. Init => Given
  BY DEF Init
<1>4. Given /\ [Next]_vars => Given'
  BY DEF Next, ResolveStack, ApplyRow, vars
<1> HIDE DEF Given
<1> QED BY <1>2, <1>3, <1>4, PTL DEF Spec

----------------------------------------------------------------------------
(* Lines are sequences of cells.                                           *)

\* The positions before the first that is not in P.
Lead(n, P) == {i \in 1 .. n : \A j \in 1 .. i : j \in P}

LEMMA LeadingRun ==
  ASSUME NEW n \in Nat, NEW P
  PROVE  \E k \in 0 .. n : /\ Cardinality(Lead(n, P)) = k
                           /\ \A i \in 1 .. k : i \in P
                           /\ k < n => k + 1 \notin P
<1> DEFINE R == Lead(n, P)
           out == {i \in Nat : i \in 1 .. n + 1 /\ (i = n + 1 \/ i \notin P)}
<1>1. out \in SUBSET Nat /\ n + 1 \in out
  OBVIOUS
<1>2. PICK m \in out : \A i \in out : m <= i
  <2> HIDE DEF out
  <2> QED BY <1>1, Least
<1>3. m - 1 \in 0 .. n /\ (m - 1) + 1 = m /\ m \in 1 .. n + 1
  BY <1>2
<1>4. \A i \in 1 .. m - 1 : i \in P
  BY <1>2
<1>5. R = 1 .. m - 1
  <2>1. \A i \in 1 .. n : m \in 1 .. n /\ i >= m => m \in 1 .. i
    BY <1>3
  <2>2. m \in 1 .. n => m \notin P
    BY <1>2
  <2>3. \A i \in R : i \in 1 .. m - 1
    BY <1>3, <2>1, <2>2 DEF Lead
  <2>4. \A i \in 1 .. m - 1 : i \in R
    BY <1>3, <1>4 DEF Lead
  <2> QED BY <2>3, <2>4
<1>6. Cardinality(1 .. m - 1) = m - 1
  BY <1>3, FS_Interval
<1>7. m - 1 < n => m \notin P
  BY <1>2
<1> QED BY <1>3, <1>4, <1>5, <1>6, <1>7

\* Stripped takes the spaces at the head and stops.
LEMMA StrippedIs ==
  ASSUME NEW line \in Seq(Cells)
  PROVE  \E k \in 0 .. Len(line) : /\ Stripped(line) = SubSeq(line, k + 1, Len(line))
                                   /\ \A i \in 1 .. k : IsSpace(line[i])
                                   /\ k < Len(line) => ~IsSpace(line[k + 1])
<1> DEFINE P == {i \in 1 .. Len(line) : IsSpace(line[i])}
<1>1. PICK k \in 0 .. Len(line) :
        /\ Cardinality(Lead(Len(line), P)) = k
        /\ \A i \in 1 .. k : i \in P
        /\ k < Len(line) => k + 1 \notin P
  <2> HIDE DEF P
  <2>1. Len(line) \in Nat
    OBVIOUS
  <2> QED BY <2>1, LeadingRun
<1>2. {i \in DOMAIN line : \A j \in 1 .. i : IsSpace(line[j])} = Lead(Len(line), P)
  BY DEF Lead
<1>3. Stripped(line) = SubSeq(line, k + 1, Len(line))
  <2>1. Cardinality({i \in DOMAIN line : \A j \in 1 .. i : IsSpace(line[j])}) = k
    BY <1>1, <1>2
  <2>2. 1 + k = k + 1
    OBVIOUS
  <2> QED BY <2>1, <2>2, Zenon DEF Stripped
<1> QED BY <1>1, <1>3

LEMMA DateType ==
  ASSUME NEW t \in Int
  PROVE  DateOf(t) \in Dates
<1> DEFINE s == (t - DayOf(t) * TicksPerDay) \div TicksPerSlot
<1>1. DayOf(t) \in Int /\ s \in Int
  BY SlotOfDay
<1>2. /\ CivilFromDays(DayOf(t)).year \in Int
      /\ CivilFromDays(DayOf(t)).month \in Int
      /\ CivilFromDays(DayOf(t)).day \in Int
  BY <1>1, CivilIsCalendar
<1> HIDE DEF s
<1>3. DateOf(t) = [year |-> CivilFromDays(DayOf(t)).year, month |-> CivilFromDays(DayOf(t)).month,
                   day |-> CivilFromDays(DayOf(t)).day, slot |-> s]
  BY DEF DateOf, s
<1> QED BY <1>1, <1>2, <1>3 DEF Dates

LEMMA PrefixType ==
  ASSUME NEW layer \in Layers, NEW t \in Int
  PROVE  Prefix(layer, t) \in Seq(Cells)
<1>1. DateOf(t) \in Dates
  BY DateType
<1>2. StampCell(24, DateOf(t)) \in Cells /\ StampCell(28, DateOf(t)) \in Cells
  BY <1>1 DEF StampCell, Cells
<1>3. /\ Cell("[") \in Cells /\ Cell("]") \in Cells /\ Cell("space") \in Cells
      /\ Cell("mark") \in Cells
  BY DEF Cell, Cells, NoDate, Dates
<1> QED BY <1>2, <1>3 DEF Prefix, Layers

LEMMA EndingType ==
  ASSUME NEW line \in Seq(Cells)
  PROVE  WithoutLineEnding(line) \in Seq(Cells)
<1> DEFINE R == {i \in DOMAIN line : \A j \in i .. Len(line) : line[j].kind = "cr"}
<1>1. Cardinality(R) \in Nat
  <2>1. R \in SUBSET (1 .. Len(line)) /\ IsFiniteSet(1 .. Len(line))
    BY FS_Interval
  <2> HIDE DEF R
  <2> QED BY <2>1, FS_Subset, FS_CardinalityType
<1>2. WithoutLineEnding(line) = SubSeq(line, 1, Len(line) - Cardinality(R))
  BY DEF WithoutLineEnding
<1> HIDE DEF R
<1> PICK m \in Int : m = Len(line) - Cardinality(R) /\ m <= Len(line)
  BY <1>1
<1>3. SubSeq(line, 1, m) \in Seq(Cells)
  OBVIOUS
<1> QED BY <1>2, <1>3

\* What escapes leave, cell by cell.
LEMMA WithoutEscapesIs ==
  ASSUME NEW line \in Seq(Cells)
  PROVE  /\ WithoutEscapes(line) \in [0 .. Len(line) -> Seq(Cells)]
         /\ WithoutEscapes(line)[0] = <<>>
         /\ \A n \in 1 .. Len(line) :
              WithoutEscapes(line)[n]
                = IF line[n].kind = "esc" THEN WithoutEscapes(line)[n - 1]
                  ELSE Append(WithoutEscapes(line)[n - 1], line[n])
<1> PICK b \in Nat : b = Len(line)
  OBVIOUS
<1> DEFINE T == Seq(Cells)
           after(g, n) == IF line[n].kind = "esc" THEN g ELSE Append(g, line[n])
           step == [n \in 1 .. b |-> [t \in T |-> after(t, n)]]
           Pass(g) == g = [n \in 0 .. b |-> IF n = 0 THEN <<>> ELSE after(g[n - 1], n)]
<1>1. <<>> \in T
  OBVIOUS
<1>2. \A n \in 1 .. b : \A t \in T : step[n][t] = after(t, n) /\ step[n][t] \in T
  OBVIOUS
<1> HIDE DEF T, step, after
<1>3. Steps(b, T, step)
  BY <1>2 DEF Steps
<1>4. PICK h : IsPass(h, b, T, <<>>, step)
  BY <1>1, <1>3, PassExists
<1>5. Pass(h)
  <2>1. ASSUME NEW n \in 1 .. b PROVE h[n] = after(h[n - 1], n)
    <3>1. n - 1 \in 0 .. b
      OBVIOUS
    <3>2. h[n - 1] \in T
      BY <1>4, <3>1 DEF IsPass
    <3> QED BY <1>2, <1>4, <3>2 DEF IsPass
  <2>2. \A n \in 0 .. b : n = 0 \/ n \in 1 .. b
    OBVIOUS
  <2>3. h = [n \in 0 .. b |-> h[n]] /\ h[0] = <<>>
    BY <1>4 DEF IsPass
  <2>4. \A n \in 0 .. b : h[n] = IF n = 0 THEN <<>> ELSE after(h[n - 1], n)
    BY <2>1, <2>2, <2>3
  <2> QED BY <2>3, <2>4
<1> DEFINE f == CHOOSE g : Pass(g)
<1>6. Pass(f)
  <2> HIDE DEF Pass
  <2> QED BY <1>5
<1>7. WithoutEscapes(line) = f
  BY DEF WithoutEscapes, after
<1> HIDE DEF f
<1>8. f = [n \in 0 .. b |-> f[n]] /\ f[0] = <<>> /\ \A n \in 1 .. b : f[n] = after(f[n - 1], n)
  BY <1>6
<1>9. f \in [0 .. b -> T]
  <2>1. \A n \in 1 .. b : f[n - 1] \in T => f[n] = step[n][f[n - 1]]
    BY <1>2, <1>8
  <2> HIDE DEF Pass
  <2>2. Follows(f, b, T, <<>>, step)
    BY <1>8, <2>1 DEF Follows
  <2> QED BY <1>1, <1>3, <2>2, PassType
<1> QED BY <1>7, <1>8, <1>9 DEF after, T

\* The line inside each number of layers.
LEMMA InsideIs ==
  ASSUME NEW d \in Deliveries, NEW line \in Seq(Cells)
  PROVE  /\ Inside(d, line) \in [0 .. Len(d.layers) -> Seq(Cells)]
         /\ Inside(d, line)[0] = line
         /\ \A k \in 1 .. Len(d.layers) :
              Inside(d, line)[k]
                = Prefix(d.layers[Len(d.layers) - k + 1], d.instants[Len(d.layers) - k + 1])
                    \o Inside(d, line)[k - 1]
<1> PICK b \in Nat : b = Len(d.layers)
  BY TransportAssumption
<1> DEFINE T == Seq(Cells)
           put(k) == Prefix(d.layers[b - k + 1], d.instants[b - k + 1])
           step == [k \in 1 .. b |-> [t \in T |-> put(k) \o t]]
           Pass(g) == g = [k \in 0 .. b |-> IF k = 0 THEN line ELSE put(k) \o g[k - 1]]
<1>1. line \in T
  OBVIOUS
<1>2. \A k \in 1 .. b : put(k) \in T
  <2>1. ASSUME NEW k \in 1 .. b PROVE put(k) \in T
    <3>1. b - k + 1 \in 1 .. b
      OBVIOUS
    <3>2. d.layers[b - k + 1] \in Layers /\ d.instants[b - k + 1] \in Int
      BY <3>1, TransportAssumption
    <3> QED BY <3>2, PrefixType
  <2> QED BY <2>1
<1> HIDE DEF put
<1>3. \A k \in 1 .. b : \A t \in T : step[k][t] = put(k) \o t /\ step[k][t] \in T
  BY <1>2
<1> HIDE DEF T, step
<1>4. Steps(b, T, step)
  BY <1>3 DEF Steps
<1>5. PICK h : IsPass(h, b, T, line, step)
  BY <1>1, <1>4, PassExists
<1>6. Pass(h)
  <2>1. ASSUME NEW k \in 1 .. b PROVE h[k] = put(k) \o h[k - 1]
    <3>1. k - 1 \in 0 .. b
      OBVIOUS
    <3>2. h[k - 1] \in T
      BY <1>5, <3>1 DEF IsPass
    <3> QED BY <1>3, <1>5, <3>2 DEF IsPass
  <2>2. \A k \in 0 .. b : k = 0 \/ k \in 1 .. b
    OBVIOUS
  <2>3. h = [k \in 0 .. b |-> h[k]] /\ h[0] = line
    BY <1>5 DEF IsPass
  <2>4. \A k \in 0 .. b : h[k] = IF k = 0 THEN line ELSE put(k) \o h[k - 1]
    BY <2>1, <2>2, <2>3
  <2> QED BY <2>3, <2>4
<1> DEFINE f == CHOOSE g : Pass(g)
<1>7. Pass(f)
  <2> HIDE DEF Pass
  <2> QED BY <1>6
<1>8. Inside(d, line) = f
  BY DEF Inside, put
<1> HIDE DEF f
<1>a. \A k \in 0 .. b : f[k] = IF k = 0 THEN line ELSE put(k) \o f[k - 1]
  BY <1>7
<1>b. f = [k \in 0 .. b |-> f[k]]
  BY <1>7
<1>c. 0 \in 0 .. b /\ \A k \in 1 .. b : k \in 0 .. b /\ k # 0
  OBVIOUS
<1>d. f[0] = line
  BY <1>a, <1>c
<1>9. \A k \in 1 .. b : f[k] = put(k) \o f[k - 1]
  <2> HIDE DEF Pass
  <2> QED BY <1>a, <1>c
<1>10. f \in [0 .. b -> T]
  <2>1. \A k \in 1 .. b : f[k - 1] \in T => f[k] = step[k][f[k - 1]]
    BY <1>3, <1>9
  <2> HIDE DEF Pass
  <2>2. Follows(f, b, T, line, step)
    BY <1>b, <1>d, <2>1 DEF Follows
  <2> QED BY <1>1, <1>4, <2>2, PassType
<1> QED BY <1>8, <1>9, <1>10, <1>d DEF put, T

LEMMA HandedType ==
  ASSUME delivery \in Deliveries
  PROVE  LineOf(delivery) \in Seq(Cells) /\ Handed \in Seq(Cells)
<1>1. ASSUME NEW line \in Seq(Cells) PROVE Normalize(line) \in Seq(Cells)
  <2> PICK ended \in Seq(Cells) : ended = WithoutLineEnding(line)
    BY EndingType
  <2>1. WithoutEscapes(ended)[Len(ended)] \in Seq(Cells)
    BY WithoutEscapesIs
  <2> QED BY <2>1 DEF Normalize
<1>2. Inside(delivery, delivery.payload)[Len(delivery.layers)] \in Seq(Cells)
  <2>1. delivery.payload \in Seq(Cells) /\ Len(delivery.layers) \in Nat
    BY TransportAssumption
  <2> PICK k \in Nat : k = Len(delivery.layers)
    BY <2>1
  <2>2. Inside(delivery, delivery.payload) \in [0 .. k -> Seq(Cells)]
    BY <2>1, InsideIs
  <2> QED BY <2>2
<1>3. LineOf(delivery) \in Seq(Cells)
  <2>1. (IF delivery.colour THEN <<Cell("esc")>> ELSE <<>>) \in Seq(Cells)
    <3>1. Cell("esc") \in Cells
      BY DEF Cell, Cells, NoDate, Dates
    <3> QED BY <3>1
  <2> QED BY <1>2, <2>1 DEF LineOf
<1> QED BY <1>1, <1>3 DEF Handed

----------------------------------------------------------------------------
(* The peel.  What is left is the end of what was handed in, so the cells  *)
(* removed are a prefix of it, and every row adds to that prefix only what *)
(* its grammar claims and the spaces behind it.                            *)

Was(kind, r) == {i \in 1 .. r : Handed[i].kind = kind}
DeclaredOf(name, u) == {i \in 1 .. u : stack[i] = name}

ClaimedUpTo(r, u) ==
  /\ Was("text", r) = {} /\ Was("esc", r) = {} /\ Was("cr", r) = {}
  /\ Cardinality(Was("mark", r)) <= Cardinality(DeclaredOf("bom", u))
  /\ Cardinality(Was("[", r)) <= Cardinality(DeclaredOf("bracket", u))
  /\ \A i \in Was("stamp", r) :
       \/ Handed[i].width = 28
       \/ i > 1 /\ i < r /\ Handed[i - 1].kind = "[" /\ Handed[i + 1].kind = "]"

Innermost(r) == {i \in Was("stamp", r) : \A k \in Was("stamp", r) : k <= i}

IsRest(r) == r \in 0 .. Len(Handed) /\ content = SubSeq(Handed, r + 1, Len(Handed))

HasPeeled(r) ==
  /\ IsRest(r)
  /\ ClaimedUpTo(r, unwound)
  /\ observed = UNION {Read(Handed[i].date) : i \in Innermost(r)}

PeelInv ==
  /\ delivery \in Deliveries /\ stack \in Seq(STRING)
  /\ unwound \in Nat
  /\ phase \in {"declared", "peeling", "terminated"}
  /\ phase = "declared" => unwound = 0 /\ observed = Absent
  /\ phase = "peeling" => \E r \in Nat : HasPeeled(r)

LEMMA RemovedIs ==
  ASSUME delivery \in Deliveries, NEW r \in Nat, IsRest(r)
  PROVE  /\ \A kind : RemovedOf(kind) = Was(kind, r)
         /\ \A i \in 1 .. r : Removed[i] = Handed[i]
         /\ content \in Seq(Cells) /\ Len(content) = Len(Handed) - r
         /\ \A i \in 1 .. Len(content) : content[i] = Handed[r + i]
<1> PICK h \in Seq(Cells) : h = Handed
  BY HandedType
<1>1. content \in Seq(Cells) /\ Len(content) = Len(h) - r
      /\ \A i \in 1 .. Len(content) : content[i] = h[r + i]
  BY DEF IsRest
<1>2. Len(h) - Len(content) = r /\ r \in 0 .. Len(h)
  BY <1>1 DEF IsRest
<1>3. Removed = SubSeq(h, 1, r)
  BY <1>2 DEF Removed
<1>4. Removed \in Seq(Cells) /\ Len(Removed) = r /\ DOMAIN Removed = 1 .. r
      /\ \A i \in 1 .. r : Removed[i] = h[i]
  BY <1>2, <1>3
<1> QED BY <1>1, <1>4 DEF RemovedOf, Was

LEMMA WasType ==
  ASSUME NEW kind, NEW r \in Nat
  PROVE  IsFiniteSet(Was(kind, r)) /\ Cardinality(Was(kind, r)) \in Nat
<1>1. Was(kind, r) \in SUBSET (1 .. r) /\ IsFiniteSet(1 .. r)
  BY FS_Interval DEF Was
<1> QED BY <1>1, FS_Subset, FS_CardinalityType

\* A declared row more, or none of that name.
LEMMA DeclaredGrows ==
  ASSUME NEW u \in Nat, NEW name
  PROVE  /\ IsFiniteSet(DeclaredOf(name, u)) /\ Cardinality(DeclaredOf(name, u)) \in Nat
         /\ Cardinality(DeclaredOf(name, u + 1))
              = Cardinality(DeclaredOf(name, u)) + (IF stack[u + 1] = name THEN 1 ELSE 0)
<1>1. DeclaredOf(name, u) \in SUBSET (1 .. u) /\ IsFiniteSet(1 .. u)
  BY FS_Interval DEF DeclaredOf
<1>2. IsFiniteSet(DeclaredOf(name, u)) /\ Cardinality(DeclaredOf(name, u)) \in Nat
  BY <1>1, FS_Subset, FS_CardinalityType
<1>3. CASE stack[u + 1] = name
  <2>1. DeclaredOf(name, u + 1) = DeclaredOf(name, u) \cup {u + 1} /\ u + 1 \notin DeclaredOf(name, u)
    BY <1>3 DEF DeclaredOf
  <2>2. Cardinality(DeclaredOf(name, u) \cup {u + 1}) = Cardinality(DeclaredOf(name, u)) + 1
    BY <1>2, <2>1, FS_AddElement
  <2> QED BY <1>2, <1>3, <2>1, <2>2
<1>4. CASE stack[u + 1] # name
  <2>1. DeclaredOf(name, u + 1) = DeclaredOf(name, u)
    BY <1>4 DEF DeclaredOf
  <2> QED BY <1>2, <1>4, <2>1
<1> QED BY <1>3, <1>4

\* What a row takes, by its grammar.
LEMMA TakesIs ==
  ASSUME NEW row \in kTransportCatalogRows, NEW line \in Seq(Cells), Takes(row, line) # 0
  PROVE  \/ /\ row.name = "api" /\ row.kind = "stamp" /\ row.strips
            /\ Takes(row, line) = 1 /\ Len(line) >= 1
            /\ line[1].kind = "stamp" /\ line[1].width = 28
         \/ /\ row.name = "bracket" /\ row.kind = "bracketed" /\ row.strips
            /\ Takes(row, line) = 3 /\ Len(line) >= 3
            /\ line[1].kind = "[" /\ line[2].kind = "stamp" /\ line[3].kind = "]"
         \/ /\ row.name = "bom" /\ row.kind = "mark" /\ ~row.strips
            /\ Takes(row, line) = 1 /\ Len(line) >= 1
            /\ line[1].kind = "mark"
<1>1. CASE row = [name |-> "api", kind |-> "stamp", width |-> 28, strips |-> TRUE]
  <2>1. Starts(line, <<"stamp">>) /\ line[1].width = 28 /\ Takes(row, line) = 1
    BY <1>1 DEF Takes
  <2> QED BY <1>1, <2>1 DEF Starts
<1>2. CASE row = [name |-> "bracket", kind |-> "bracketed", width |-> 0, strips |-> TRUE]
  <2>1. Starts(line, <<"[", "stamp", "]">>) /\ Takes(row, line) = 3
    BY <1>2 DEF Takes
  <2>2. Len(line) >= 3 /\ line[1].kind = "[" /\ line[2].kind = "stamp" /\ line[3].kind = "]"
    BY <2>1 DEF Starts
  <2> QED BY <1>2, <2>1, <2>2
<1>3. CASE row = [name |-> "bom", kind |-> "mark", width |-> 0, strips |-> FALSE]
  <2>1. Starts(line, <<"mark">>) /\ Takes(row, line) = 1
    BY <1>3 DEF Takes
  <2> QED BY <1>3, <2>1 DEF Starts
<1> QED BY <1>1, <1>2, <1>3 DEF kTransportCatalogRows

LEMMA RestOfRest ==
  ASSUME NEW line \in Seq(Cells), NEW r \in 0 .. Len(line), NEW rest, rest = SubSeq(line, r + 1, Len(line)),
         NEW m \in 0 .. Len(rest)
  PROVE  /\ SubSeq(rest, m + 1, Len(rest)) \in Seq(Cells)
         /\ SubSeq(rest, m + 1, Len(rest)) = SubSeq(line, (r + m) + 1, Len(line))
         /\ r + m \in 0 .. Len(line) /\ Len(rest) = Len(line) - r
         /\ \A i \in 1 .. Len(rest) : rest[i] = line[r + i]
<1>1. rest \in Seq(Cells) /\ Len(rest) = Len(line) - r
  OBVIOUS
<1>2. r + m \in 0 .. Len(line)
  BY <1>1
<1>3. \A i \in 1 .. Len(rest) : rest[i] = line[r + i]
  BY <1>1
<1> PICK inner : inner = SubSeq(rest, m + 1, Len(rest))
  OBVIOUS
<1> PICK outer : outer = SubSeq(line, (r + m) + 1, Len(line))
  OBVIOUS
<1>4. inner \in Seq(Cells) /\ Len(inner) = Len(rest) - m /\ \A i \in 1 .. Len(inner) : inner[i] = rest[m + i]
  BY <1>1
<1>5. outer \in Seq(Cells) /\ Len(outer) = Len(line) - (r + m)
      /\ \A i \in 1 .. Len(outer) : outer[i] = line[(r + m) + i]
  BY <1>2
<1>6. inner = outer
  <2>1. Len(inner) = Len(outer)
    BY <1>1, <1>4, <1>5
  <2>2. \A i \in 1 .. Len(inner) : inner[i] = outer[i]
    BY <1>1, <1>3, <1>4, <1>5, <2>1
  <2> QED BY <1>4, <1>5, <2>1, <2>2, SeqEqual
<1> QED BY <1>1, <1>2, <1>3, <1>4, <1>6

\* What is left of a line from q on, when all between o and q is space.
EndsAt(line, o, rest, q) ==
  /\ q \in 0 .. Len(line) /\ o <= q
  /\ rest = SubSeq(line, q + 1, Len(line))
  /\ \A i \in o + 1 .. q : line[i].kind = "space"

LEMMA SpacesBehind ==
  ASSUME NEW line \in Seq(Cells), NEW o \in 0 .. Len(line), NEW rest, rest = SubSeq(line, o + 1, Len(line))
  PROVE  \E q \in Nat : EndsAt(line, o, Stripped(rest), q)
<1>1. rest \in Seq(Cells) /\ Len(rest) = Len(line) - o /\ \A i \in 1 .. Len(rest) : rest[i] = line[o + i]
  OBVIOUS
<1>2. PICK k \in 0 .. Len(rest) : /\ Stripped(rest) = SubSeq(rest, k + 1, Len(rest))
                                  /\ \A i \in 1 .. k : IsSpace(rest[i])
  BY <1>1, StrippedIs
<1>3. SubSeq(rest, k + 1, Len(rest)) = SubSeq(line, (o + k) + 1, Len(line)) /\ o + k \in 0 .. Len(line)
  BY <1>1, RestOfRest
<1>4. ASSUME NEW i \in o + 1 .. o + k PROVE line[i].kind = "space"
  <2>1. i - o \in 1 .. k /\ i = o + (i - o) /\ i - o \in 1 .. Len(rest)
    BY <1>1
  <2>2. rest[i - o] = line[i]
    BY <1>1, <2>1
  <2> QED BY <1>2, <2>1, <2>2 DEF IsSpace
<1>5. o <= o + k /\ o + k \in Nat
  BY <1>1
<1> QED BY <1>2, <1>3, <1>4, <1>5 DEF EndsAt

LEMMA Taking ==
  ASSUME NEW line \in Seq(Cells), NEW r \in 0 .. Len(line), NEW c, c = SubSeq(line, r + 1, Len(line)),
         NEW t \in 0 .. Len(c), NEW strips,
         NEW left, left = IF strips THEN Stripped(SubSeq(c, t + 1, Len(c))) ELSE SubSeq(c, t + 1, Len(c))
  PROVE  \E q \in Nat : EndsAt(line, r + t, left, q)
<1> DEFINE rest == SubSeq(c, t + 1, Len(c))
<1>1. rest = SubSeq(line, (r + t) + 1, Len(line)) /\ r + t \in 0 .. Len(line)
  BY RestOfRest
<1> HIDE DEF rest
<1>2. CASE strips
  <2>1. left = Stripped(rest)
    BY <1>2 DEF rest
  <2> PICK o \in 0 .. Len(line) : o = r + t
    BY <1>1
  <2>2. rest = SubSeq(line, o + 1, Len(line))
    BY <1>1
  <2>3. \E q \in Nat : EndsAt(line, o, Stripped(rest), q)
    BY <2>2, SpacesBehind
  <2> QED BY <2>1, <2>3
<1>3. CASE ~strips
  <2>1. left = rest
    BY <1>3 DEF rest
  <2>2. EndsAt(line, r + t, rest, r + t) /\ r + t \in Nat
    BY <1>1 DEF EndsAt
  <2> QED BY <2>1, <2>2
<1> QED BY <1>2, <1>3

\* What a row leaves of the line.
Left(row, line) ==
  LET rest == SubSeq(line, Takes(row, line) + 1, Len(line))
  IN  IF row.strips THEN Stripped(rest) ELSE rest

\* A row takes its cells and the spaces behind them.
LEMMA RowTakes ==
  ASSUME delivery \in Deliveries, NEW r \in Nat, IsRest(r), NEW row \in kTransportCatalogRows,
         Takes(row, content) # 0
  PROVE  \E q \in Nat : EndsAt(Handed, r + Takes(row, content), Left(row, content), q)
<1>1. Handed \in Seq(Cells)
  BY HandedType
<1>2. r \in 0 .. Len(Handed) /\ content = SubSeq(Handed, r + 1, Len(Handed))
  BY DEF IsRest
<1>3. content \in Seq(Cells)
  BY RemovedIs
<1>4. Takes(row, content) \in 0 .. Len(content)
  <2>1. Len(content) \in Nat
    BY <1>3
  <2>2. /\ Takes(row, content) = 1 \/ Takes(row, content) = 3
        /\ Takes(row, content) <= Len(content)
    BY <1>3, TakesIs
  <2> QED BY <2>1, <2>2
<1> QED BY <1>1, <1>2, <1>4, Taking DEF Left

\* The cells of a kind removed up to q: those up to r, and those the row claims.
LEMMA WasGrows ==
  ASSUME NEW r \in Nat, NEW t \in Nat, NEW q \in Nat, NEW rest, EndsAt(Handed, r + t, rest, q),
         NEW kind, kind # "space"
  PROVE  Was(kind, q) = Was(kind, r) \cup {i \in r + 1 .. r + t : Handed[i].kind = kind}
<1>0. r + t <= q /\ \A i \in (r + t) + 1 .. q : Handed[i].kind = "space"
  BY DEF EndsAt
<1>1. \A i \in 1 .. q : i \in 1 .. r \/ i \in r + 1 .. r + t \/ i \in (r + t) + 1 .. q
  OBVIOUS
<1>2. \A i \in 1 .. r : i \in 1 .. q
  BY <1>0
<1>3. \A i \in r + 1 .. r + t : i \in 1 .. q
  BY <1>0
<1> QED BY <1>0, <1>1, <1>2, <1>3 DEF Was

\* One more cell of a kind, or none.
LEMMA WasCounts ==
  ASSUME NEW r \in Nat, NEW q \in Nat, NEW kind
  PROVE  /\ Was(kind, q) = Was(kind, r) => Cardinality(Was(kind, q)) = Cardinality(Was(kind, r))
         /\ \A i : Was(kind, q) = Was(kind, r) \cup {i}
                     => Cardinality(Was(kind, q)) <= Cardinality(Was(kind, r)) + 1
<1>1. IsFiniteSet(Was(kind, r)) /\ Cardinality(Was(kind, r)) \in Nat
  BY WasType
<1>2. ASSUME NEW i PROVE Cardinality(Was(kind, r) \cup {i}) <= Cardinality(Was(kind, r)) + 1
  <2>1. Cardinality(Was(kind, r) \cup {i})
          = IF i \in Was(kind, r) THEN Cardinality(Was(kind, r)) ELSE Cardinality(Was(kind, r)) + 1
    BY <1>1, FS_AddElement
  <2> QED BY <1>1, <2>1
<1> QED BY <1>2

\* The innermost stamp once one more is removed, and while none is.
LEMMA InnermostMoves ==
  ASSUME NEW r \in Nat, NEW q \in Nat
  PROVE  /\ Was("stamp", q) = Was("stamp", r) => Innermost(q) = Innermost(r)
         /\ \A m \in Nat : m > r /\ Was("stamp", q) = Was("stamp", r) \cup {m} => Innermost(q) = {m}
<1>1. Was("stamp", q) = Was("stamp", r) => Innermost(q) = Innermost(r)
  BY DEF Innermost
<1>2. ASSUME NEW m \in Nat, m > r, Was("stamp", q) = Was("stamp", r) \cup {m} PROVE Innermost(q) = {m}
  <2>1. \A i \in Was("stamp", r) : i \in Nat /\ i < m /\ ~(m <= i)
    BY <1>2 DEF Was
  <2>2. m <= m
    OBVIOUS
  <2>3. \A i \in Was("stamp", r) : i <= m
    BY <2>1
  <2> QED BY <1>2, <2>1, <2>2, <2>3 DEF Innermost
<1> QED BY <1>1, <1>2

LEMMA RowClaims ==
  ASSUME delivery \in Deliveries, NEW r \in Nat, IsRest(r), NEW u \in Nat, ClaimedUpTo(r, u),
         NEW row \in kTransportCatalogRows, row.name = stack[u + 1], Takes(row, content) # 0,
         NEW rest, NEW q \in Nat, EndsAt(Handed, r + Takes(row, content), rest, q),
         observed = UNION {Read(Handed[i].date) : i \in Innermost(r)}
  PROVE  /\ ClaimedUpTo(q, u + 1)
         /\ Observed(row, content) = UNION {Read(Handed[i].date) : i \in Innermost(q)}
<1> DEFINE New(kind) == {i \in r + 1 .. r + Takes(row, content) : Handed[i].kind = kind}
<1>1. \A kind : kind # "space" => Was(kind, q) = Was(kind, r) \cup New(kind)
  <2>1. Takes(row, content) \in Nat
    BY RemovedIs, TakesIs
  <2> QED BY <2>1, WasGrows
<1>2. /\ content \in Seq(Cells) /\ Len(content) \in Nat
      /\ \A i \in 1 .. Len(content) : content[i] = Handed[r + i]
  BY RemovedIs
<1>3. /\ Cardinality(DeclaredOf("bom", u)) \in Nat
      /\ Cardinality(DeclaredOf("bracket", u)) \in Nat
      /\ Cardinality(DeclaredOf("bom", u + 1))
           = Cardinality(DeclaredOf("bom", u)) + (IF stack[u + 1] = "bom" THEN 1 ELSE 0)
      /\ Cardinality(DeclaredOf("bracket", u + 1))
           = Cardinality(DeclaredOf("bracket", u)) + (IF stack[u + 1] = "bracket" THEN 1 ELSE 0)
  BY DeclaredGrows
<1>4. /\ Cardinality(Was("mark", r)) \in Nat /\ Cardinality(Was("mark", q)) \in Nat
      /\ Cardinality(Was("[", r)) \in Nat /\ Cardinality(Was("[", q)) \in Nat
  BY WasType
<1>5. r + Takes(row, content) <= q
  BY DEF EndsAt
<1>6. \A i \in Was("stamp", r) : i \in 1 .. r
  BY DEF Was
<1>a. CASE /\ row.name = "api" /\ row.kind = "stamp" /\ Takes(row, content) = 1 /\ Len(content) >= 1
           /\ content[1].kind = "stamp" /\ content[1].width = 28
  <2>1. Handed[r + 1] = content[1] /\ r + 1 .. r + Takes(row, content) = {r + 1}
    BY <1>2, <1>a
  <2>2. /\ New("stamp") = {r + 1} /\ New("text") = {} /\ New("esc") = {} /\ New("cr") = {}
        /\ New("mark") = {} /\ New("[") = {}
    BY <1>a, <2>1
  <2> HIDE DEF New
  <2>3. /\ Was("stamp", q) = Was("stamp", r) \cup {r + 1} /\ Was("text", q) = {} /\ Was("esc", q) = {}
        /\ Was("cr", q) = {} /\ Was("mark", q) = Was("mark", r) /\ Was("[", q) = Was("[", r)
    BY <1>1, <2>2 DEF ClaimedUpTo
  <2>4. ASSUME NEW i \in Was("stamp", q)
        PROVE  Handed[i].width = 28 \/ (i > 1 /\ i < q /\ Handed[i - 1].kind = "[" /\ Handed[i + 1].kind = "]")
    BY <1>5, <1>6, <1>a, <2>1, <2>3 DEF ClaimedUpTo
  <2>5. ClaimedUpTo(q, u + 1)
    BY <1>3, <1>4, <1>a, <2>3, <2>4 DEF ClaimedUpTo
  <2>6. Innermost(q) = {r + 1}
    BY <2>3, InnermostMoves
  <2>7. Observed(row, content) = Read(Handed[r + 1].date)
    BY <1>a, <2>1 DEF Observed
  <2> QED BY <2>5, <2>6, <2>7
<1>b. CASE /\ row.name = "bracket" /\ row.kind = "bracketed" /\ Takes(row, content) = 3 /\ Len(content) >= 3
           /\ content[1].kind = "[" /\ content[2].kind = "stamp" /\ content[3].kind = "]"
  <2>0. r + 1 .. r + 3 = {r + 1, r + 2, r + 3}
    OBVIOUS
  <2>1. /\ Handed[r + 1] = content[1] /\ Handed[r + 2] = content[2] /\ Handed[r + 3] = content[3]
        /\ r + 1 .. r + Takes(row, content) = {r + 1, r + 2, r + 3}
    BY <1>2, <1>b, <2>0
  <2>2. /\ New("stamp") = {r + 2} /\ New("text") = {} /\ New("esc") = {} /\ New("cr") = {}
        /\ New("mark") = {} /\ New("[") = {r + 1}
    BY <1>b, <2>1
  <2> HIDE DEF New
  <2>3. /\ Was("stamp", q) = Was("stamp", r) \cup {r + 2} /\ Was("text", q) = {} /\ Was("esc", q) = {}
        /\ Was("cr", q) = {} /\ Was("mark", q) = Was("mark", r) /\ Was("[", q) = Was("[", r) \cup {r + 1}
    BY <1>1, <2>2 DEF ClaimedUpTo
  <2>4. ASSUME NEW i \in Was("stamp", q)
        PROVE  Handed[i].width = 28 \/ (i > 1 /\ i < q /\ Handed[i - 1].kind = "[" /\ Handed[i + 1].kind = "]")
    <3>1. CASE i \in Was("stamp", r)
      BY <1>5, <1>6, <1>b, <3>1 DEF ClaimedUpTo
    <3>2. CASE i = r + 2
      <4>1. i - 1 = r + 1 /\ i + 1 = r + 3 /\ i > 1 /\ i < q
        BY <1>5, <1>b, <3>2
      <4> QED BY <1>b, <2>1, <4>1
    <3> QED BY <2>3, <3>1, <3>2
  <2>5. Cardinality(Was("[", q)) <= Cardinality(Was("[", r)) + 1
    BY <2>3, WasCounts
  <2>a. /\ Cardinality(DeclaredOf("bom", u + 1)) = Cardinality(DeclaredOf("bom", u))
        /\ Cardinality(DeclaredOf("bracket", u + 1)) = Cardinality(DeclaredOf("bracket", u)) + 1
    BY <1>3, <1>b
  <2>b. /\ Cardinality(Was("mark", r)) <= Cardinality(DeclaredOf("bom", u))
        /\ Cardinality(Was("[", r)) <= Cardinality(DeclaredOf("bracket", u))
    BY DEF ClaimedUpTo
  <2>c. Cardinality(Was("[", q)) <= Cardinality(DeclaredOf("bracket", u + 1))
    BY <1>3, <1>4, <2>5, <2>a, <2>b
  <2>6. ClaimedUpTo(q, u + 1)
    BY <2>3, <2>4, <2>a, <2>b, <2>c DEF ClaimedUpTo
  <2>7. Innermost(q) = {r + 2}
    BY <2>3, InnermostMoves
  <2>8. Observed(row, content) = Read(Handed[r + 2].date)
    BY <1>b, <2>1 DEF Observed
  <2> QED BY <2>6, <2>7, <2>8
<1>c. CASE /\ row.name = "bom" /\ row.kind = "mark" /\ Takes(row, content) = 1 /\ Len(content) >= 1
           /\ content[1].kind = "mark"
  <2>1. Handed[r + 1] = content[1] /\ r + 1 .. r + Takes(row, content) = {r + 1}
    BY <1>2, <1>c
  <2>2. /\ New("stamp") = {} /\ New("text") = {} /\ New("esc") = {} /\ New("cr") = {}
        /\ New("mark") = {r + 1} /\ New("[") = {}
    BY <1>c, <2>1
  <2> HIDE DEF New
  <2>3. /\ Was("stamp", q) = Was("stamp", r) /\ Was("text", q) = {} /\ Was("esc", q) = {}
        /\ Was("cr", q) = {} /\ Was("mark", q) = Was("mark", r) \cup {r + 1} /\ Was("[", q) = Was("[", r)
    BY <1>1, <2>2 DEF ClaimedUpTo
  <2>4. ASSUME NEW i \in Was("stamp", q)
        PROVE  Handed[i].width = 28 \/ (i > 1 /\ i < q /\ Handed[i - 1].kind = "[" /\ Handed[i + 1].kind = "]")
    BY <1>5, <1>6, <1>c, <2>3 DEF ClaimedUpTo
  <2>5. Cardinality(Was("mark", q)) <= Cardinality(Was("mark", r)) + 1
    BY <2>3, WasCounts
  <2>6. ClaimedUpTo(q, u + 1)
    BY <1>3, <1>4, <1>c, <2>3, <2>4, <2>5, SMTT(30) DEF ClaimedUpTo
  <2>7. Innermost(q) = Innermost(r) /\ Observed(row, content) = observed
    BY <1>c, <2>3, InnermostMoves DEF Observed
  <2> QED BY <2>6, <2>7
<1> QED BY <1>2, <1>a, <1>b, <1>c, TakesIs

\* While a line is peeled, what was handed in and declared stays.
Fixed == delivery' = delivery /\ door' = door /\ stack' = stack

LEMMA FixedKeeps ==
  ASSUME Fixed
  PROVE  /\ Handed' = Handed
         /\ \A kind, r : Was(kind, r)' = Was(kind, r)
         /\ \A r : Innermost(r)' = Innermost(r)
         /\ \A r, u : ClaimedUpTo(r, u)' <=> ClaimedUpTo(r, u)
<1>1. Handed' = Handed
  BY DEF Fixed, Handed
<1>2. \A kind, r : Was(kind, r)' = Was(kind, r)
  BY <1>1 DEF Was
<1>3. \A r : Innermost(r)' = Innermost(r)
  BY <1>2 DEF Innermost
<1>4. \A name, u : DeclaredOf(name, u)' = DeclaredOf(name, u)
  BY DEF Fixed, DeclaredOf
<1>5. ASSUME NEW r, NEW u PROVE ClaimedUpTo(r, u)' <=> ClaimedUpTo(r, u)
  BY <1>1, <1>2, <1>4 DEF ClaimedUpTo
<1> QED BY <1>1, <1>2, <1>3, <1>5

LEMMA PeelInit == Init => PeelInv
BY TransportAssumption DEF Init, PeelInv

LEMMA ResolvePeels == PeelInv /\ ResolveStack => PeelInv'
<1> SUFFICES ASSUME PeelInv, ResolveStack PROVE PeelInv'
  OBVIOUS
<1>1. /\ phase = "declared" /\ unwound = 0 /\ observed = {} /\ Fixed
      /\ unwound' = 0 /\ observed' = {} /\ phase' \in {"terminated", "peeling"}
      /\ delivery \in Deliveries /\ stack \in Seq(STRING)
  BY DEF ResolveStack, PeelInv, Fixed, Absent
<1>2. ASSUME phase' = "peeling"
      PROVE  HasPeeled(0)'
  <2>1. content' = Handed
    BY <1>1, <1>2 DEF ResolveStack, Handed
  <2>2. IsRest(0)'
    <3> PICK h \in Seq(Cells) : h = Handed
      BY <1>1, HandedType
    <3>1. h = SubSeq(h, 0 + 1, Len(h)) /\ 0 \in 0 .. Len(h)
      OBVIOUS
    <3> QED BY <1>1, <2>1, <3>1, FixedKeeps DEF IsRest
  <2>3. \A kind : Was(kind, 0) = {}
    BY DEF Was
  <2>4. DeclaredOf("bom", 0) = {} /\ DeclaredOf("bracket", 0) = {} /\ Innermost(0) = {}
    BY <2>3 DEF DeclaredOf, Innermost
  <2>5. ClaimedUpTo(0, 0)
    BY <2>3, <2>4, FS_EmptySet DEF ClaimedUpTo
  <2>6. ClaimedUpTo(0, unwound)'
    <3>1. ClaimedUpTo(0, 0)'
      BY <1>1, <2>5, FixedKeeps
    <3> QED BY <1>1, <3>1 DEF ClaimedUpTo
  <2>7. Innermost(0)' = {}
    BY <1>1, <2>4, FixedKeeps
  <2> QED BY <1>1, <2>2, <2>6, <2>7 DEF HasPeeled
<1> QED BY <1>1, <1>2 DEF PeelInv, Fixed

LEMMA RowPeels == PeelInv /\ ApplyRow => PeelInv'
<1> SUFFICES ASSUME PeelInv, ApplyRow PROVE PeelInv'
  OBVIOUS
<1> PICK u \in Nat : u = unwound
  BY DEF PeelInv
<1>1. /\ phase = "peeling" /\ phase' = "peeling" /\ Fixed /\ unwound' = u + 1
      /\ delivery \in Deliveries /\ stack \in Seq(STRING)
  BY DEF ApplyRow, PeelInv, Fixed
<1>2. PICK r \in Nat : /\ IsRest(r) /\ ClaimedUpTo(r, u)
                       /\ observed = UNION {Read(Handed[i].date) : i \in Innermost(r)}
  BY <1>1 DEF PeelInv, HasPeeled
<1>3. PICK row \in FindTransform(stack[u + 1]) :
        IF Takes(row, content) = 0 THEN UNCHANGED <<content, observed>>
        ELSE content' = Left(row, content) /\ observed' = Observed(row, content)
  BY DEF ApplyRow, Left
<1>4. row \in kTransportCatalogRows /\ row.name = stack[u + 1]
  BY DEF FindTransform
<1> SUFFICES \E q \in Nat :
               /\ q \in 0 .. Len(Handed) /\ content' = SubSeq(Handed, q + 1, Len(Handed))
               /\ ClaimedUpTo(q, u + 1)
               /\ observed' = UNION {Read(Handed[i].date) : i \in Innermost(q)}
  <2>1. PICK q \in Nat :
          /\ q \in 0 .. Len(Handed) /\ content' = SubSeq(Handed, q + 1, Len(Handed))
          /\ ClaimedUpTo(q, u + 1)
          /\ observed' = UNION {Read(Handed[i].date) : i \in Innermost(q)}
    OBVIOUS
  <2>2. Handed' = Handed /\ Innermost(q)' = Innermost(q) /\ ClaimedUpTo(q, u + 1)'
    BY <1>1, <2>1, FixedKeeps
  <2>3. ClaimedUpTo(q, unwound)'
    BY <1>1, <2>2 DEF ClaimedUpTo
  <2>4. IsRest(q)'
    BY <2>1, <2>2 DEF IsRest
  <2>5. observed' = UNION {Read(Handed'[i].date) : i \in Innermost(q)'}
    BY <2>1, <2>2
  <2>6. HasPeeled(q)'
    BY <2>3, <2>4, <2>5 DEF HasPeeled
  <2> QED BY <1>1, <2>6 DEF PeelInv, Fixed
<1>5. CASE Takes(row, content) = 0
  <2>1. ClaimedUpTo(r, u + 1)
    <3>1. /\ Cardinality(DeclaredOf("bom", u)) \in Nat /\ Cardinality(DeclaredOf("bracket", u)) \in Nat
          /\ Cardinality(DeclaredOf("bom", u + 1)) >= Cardinality(DeclaredOf("bom", u))
          /\ Cardinality(DeclaredOf("bracket", u + 1)) >= Cardinality(DeclaredOf("bracket", u))
          /\ Cardinality(DeclaredOf("bom", u + 1)) \in Nat /\ Cardinality(DeclaredOf("bracket", u + 1)) \in Nat
      BY DeclaredGrows
    <3>2. Cardinality(Was("mark", r)) \in Nat /\ Cardinality(Was("[", r)) \in Nat
      BY WasType
    <3> QED BY <1>2, <3>1, <3>2 DEF ClaimedUpTo
  <2>2. r \in 0 .. Len(Handed) /\ content' = SubSeq(Handed, r + 1, Len(Handed))
    BY <1>2, <1>3, <1>5 DEF IsRest
  <2> QED BY <1>2, <1>3, <1>5, <2>1, <2>2
<1>6. CASE Takes(row, content) # 0
  <2>1. PICK q \in Nat : EndsAt(Handed, r + Takes(row, content), Left(row, content), q)
    BY <1>1, <1>2, <1>4, <1>6, RowTakes
  <2>2. ClaimedUpTo(q, u + 1) /\ Observed(row, content) = UNION {Read(Handed[i].date) : i \in Innermost(q)}
    BY <1>1, <1>2, <1>4, <1>6, <2>1, RowClaims
  <2> QED BY <1>3, <1>6, <2>1, <2>2 DEF EndsAt
<1> QED BY <1>5, <1>6

LEMMA NextPeels == PeelInv /\ [Next]_vars => PeelInv'
<1>1. ASSUME PeelInv, UNCHANGED vars PROVE PeelInv'
  <2>1. Fixed /\ phase' = phase /\ unwound' = unwound /\ content' = content /\ observed' = observed
    BY <1>1 DEF vars, Fixed
  <2>2. ASSUME NEW r \in Nat, HasPeeled(r) PROVE HasPeeled(r)'
    <3>1. Handed' = Handed /\ Innermost(r)' = Innermost(r)
      BY <2>1, FixedKeeps
    <3>2. ClaimedUpTo(r, unwound)'
      <4> PICK u : u = unwound
        OBVIOUS
      <4>1. ClaimedUpTo(r, u)'
        BY <2>1, <2>2, FixedKeeps DEF HasPeeled
      <4> QED BY <2>1, <4>1 DEF ClaimedUpTo
    <3> QED BY <2>1, <2>2, <3>1, <3>2 DEF HasPeeled, IsRest
  <2> QED BY <1>1, <2>1, <2>2 DEF PeelInv, Fixed
<1> QED BY <1>1, ResolvePeels, RowPeels DEF Next

LEMMA PeelInvIsEnough == PeelInv => OnlyClaimedIsRemoved /\ TimeOfInnermostStamp
<1> SUFFICES ASSUME PeelInv, phase = "peeling" PROVE OnlyClaimedIsRemoved /\ TimeOfInnermostStamp
  BY DEF OnlyClaimedIsRemoved, TimeOfInnermostStamp
<1>1. PICK r \in Nat : /\ IsRest(r) /\ ClaimedUpTo(r, unwound)
                       /\ observed = UNION {Read(Handed[i].date) : i \in Innermost(r)}
  BY DEF PeelInv, HasPeeled
<1>2. /\ \A kind : RemovedOf(kind) = Was(kind, r)
      /\ \A i \in 1 .. r : Removed[i] = Handed[i]
  BY <1>1, RemovedIs DEF PeelInv
<1>3. \A i \in Was("stamp", r) : i \in 1 .. r
  BY DEF Was
<1>4. ASSUME NEW i \in RemovedOf("stamp")
      PROVE  Removed[i].width = 28 \/ (i > 1 /\ Removed[i - 1].kind = "[" /\ Removed[i + 1].kind = "]")
  <2>1. i \in 1 .. r /\ Removed[i] = Handed[i]
    BY <1>2, <1>3
  <2>2. Handed[i].width = 28 \/ (i > 1 /\ i < r /\ Handed[i - 1].kind = "[" /\ Handed[i + 1].kind = "]")
    BY <1>1, <1>2 DEF ClaimedUpTo
  <2>3. i > 1 /\ i < r => i - 1 \in 1 .. r /\ i + 1 \in 1 .. r
    BY <2>1
  <2> QED BY <1>2, <2>1, <2>2, <2>3
<1>5. OnlyClaimedIsRemoved
  BY <1>1, <1>2, <1>4 DEF OnlyClaimedIsRemoved, ClaimedUpTo, DeclaredOf
<1>6. TimeOfInnermostStamp
  <2>1. {j \in RemovedOf("stamp") : \A k \in RemovedOf("stamp") : k <= j} = Innermost(r)
    BY <1>2 DEF Innermost
  <2>2. \A i \in Innermost(r) : Removed[i] = Handed[i]
    BY <1>2, <1>3 DEF Innermost
  <2>3. UNION {Read(Removed[i].date) : i \in Innermost(r)} = UNION {Read(Handed[i].date) : i \in Innermost(r)}
    BY <2>2
  <2> QED BY <1>1, <2>1, <2>3 DEF TimeOfInnermostStamp
<1> QED BY <1>5, <1>6

(* A declaration takes nothing a row did not claim, right or wrong, in     *)
(* whatever order and however often a row is declared (apply_row): no      *)
(* text, no escape, no more marks and brackets than rows of that name, and *)
(* a stamp only at the declared width or in its brackets.                  *)
THEOREM NothingElseIsTaken == Spec => []OnlyClaimedIsRemoved
BY PeelInit, NextPeels, PeelInvIsEnough, PTL DEF Spec

(* The time a peel leaves is that of the innermost stamp it removed, and   *)
(* none when that one does not parse: a row overwrites what an outer row   *)
(* observed (apply_row).                                                   *)
THEOREM InnermostStampDecides == Spec => []TimeOfInnermostStamp
BY PeelInit, NextPeels, PeelInvIsEnough, PTL DEF Spec

----------------------------------------------------------------------------
(* Unwrapping.  Stage 1 goes through a prefix as if it were not there, and *)
(* a row takes off exactly the prefix its layer wrote.                     *)

LEMMA Cons ==
  ASSUME NEW c \in Cells, NEW x \in Seq(Cells)
  PROVE  /\ <<c>> \o x \in Seq(Cells) /\ Len(<<c>> \o x) = Len(x) + 1
         /\ (<<c>> \o x)[1] = c
         /\ \A i \in 1 .. Len(x) : (<<c>> \o x)[i + 1] = x[i]
<1>1. <<c>> \in Seq(Cells) /\ Len(<<c>>) = 1 /\ <<c>>[1] = c /\ Len(x) \in Nat
  OBVIOUS
<1>2. /\ <<c>> \o x \in Seq(Cells) /\ Len(<<c>> \o x) = 1 + Len(x)
      /\ \A i \in 1 .. 1 + Len(x) : (<<c>> \o x)[i] = IF i <= 1 THEN <<c>>[i] ELSE x[i - 1]
  BY <1>1, ConcatProperties
<1>3. 1 \in 1 .. 1 + Len(x)
  BY <1>1
<1>4. \A i \in 1 .. Len(x) : i + 1 \in 1 .. 1 + Len(x) /\ ~(i + 1 <= 1) /\ (i + 1) - 1 = i
  BY <1>1
<1> QED BY <1>1, <1>2, <1>3, <1>4

LEMMA AppendBehind ==
  ASSUME NEW p \in Seq(Cells), NEW q \in Seq(Cells), NEW e \in Cells
  PROVE  Append(p \o q, e) = p \o Append(q, e)
<1>1. p \o q \in Seq(Cells) /\ Append(q, e) \in Seq(Cells) /\ <<e>> \in Seq(Cells)
  BY ConcatProperties
<1>2. \A s \in Seq(Cells) : Append(s, e) = s \o <<e>>
  OBVIOUS
<1>3. (p \o q) \o <<e>> = p \o (q \o <<e>>)
  BY <1>1, ConcatAssociative
<1>4. Append(p \o q, e) = (p \o q) \o <<e>> /\ Append(q, e) = q \o <<e>>
  BY <1>1, <1>2
<1> QED BY <1>3, <1>4

\* Where the run of CRs at the end starts is the only place with text before and CRs behind.
LEMMA EndingIs ==
  ASSUME NEW line \in Seq(Cells), NEW m \in 0 .. Len(line),
         \A i \in m + 1 .. Len(line) : line[i].kind = "cr",
         m > 0 => line[m].kind # "cr"
  PROVE  WithoutLineEnding(line) = SubSeq(line, 1, m)
<1> DEFINE R == {i \in DOMAIN line : \A j \in i .. Len(line) : line[j].kind = "cr"}
<1>1. \A i \in R : i \in m + 1 .. Len(line)
  <2>1. ASSUME NEW i \in 1 .. Len(line), i <= m PROVE m \in i .. Len(line) /\ m > 0
    BY <2>1
  <2>2. \A i \in 1 .. Len(line) : ~(i <= m) => i \in m + 1 .. Len(line)
    OBVIOUS
  <2> QED BY <2>1, <2>2
<1>2. \A i \in m + 1 .. Len(line) : i \in R
  <2>1. ASSUME NEW i \in m + 1 .. Len(line) PROVE i \in DOMAIN line /\ \A j \in i .. Len(line) : j \in m + 1 .. Len(line)
    OBVIOUS
  <2> QED BY <2>1
<1>3. R = m + 1 .. Len(line)
  BY <1>1, <1>2
<1>4. Cardinality(m + 1 .. Len(line)) = Len(line) - m
  <2>1. m + 1 \in Int /\ Len(line) \in Int
    OBVIOUS
  <2>2. Cardinality(m + 1 .. Len(line)) = IF m + 1 > Len(line) THEN 0 ELSE Len(line) - (m + 1) + 1
    BY <2>1, FS_Interval
  <2> QED BY <2>1, <2>2
<1>5. Len(line) - (Len(line) - m) = m
  OBVIOUS
<1> QED BY <1>3, <1>4, <1>5, Zenon DEF WithoutLineEnding

LEMMA EndingPlace ==
  ASSUME NEW line \in Seq(Cells)
  PROVE  \E m \in 0 .. Len(line) : /\ \A i \in m + 1 .. Len(line) : line[i].kind = "cr"
                                   /\ m > 0 => line[m].kind # "cr"
<1> DEFINE S == {m \in 0 .. Len(line) : m = 0 \/ line[m].kind # "cr"}
<1>1. S \in SUBSET (0 .. Len(line)) /\ 0 \in S /\ Len(line) \in Nat
  OBVIOUS
<1>2. PICK m \in S : \A i \in S : i <= m
  <2> HIDE DEF S
  <2> QED BY <1>1, Greatest
<1>3. \A i \in m + 1 .. Len(line) : i \in 0 .. Len(line) /\ ~(i <= m) /\ i # 0
  OBVIOUS
<1> QED BY <1>2, <1>3

\* A cell that is no CR, put before a line, stays before what its ending leaves.
LEMMA EndingBehind ==
  ASSUME NEW c \in Cells, c.kind # "cr", NEW x \in Seq(Cells)
  PROVE  WithoutLineEnding(<<c>> \o x) = <<c>> \o WithoutLineEnding(x)
<1>1. PICK m \in 0 .. Len(x) : /\ \A i \in m + 1 .. Len(x) : x[i].kind = "cr"
                               /\ m > 0 => x[m].kind # "cr"
  BY EndingPlace
<1>2. WithoutLineEnding(x) = SubSeq(x, 1, m)
  BY <1>1, EndingIs
<1>3. PICK line \in Seq(Cells) : line = <<c>> \o x
  BY Cons
<1>4. Len(line) = Len(x) + 1 /\ line[1] = c /\ \A i \in 2 .. Len(line) : line[i] = x[i - 1]
  BY <1>3, Cons
<1>5. \A i \in (m + 1) + 1 .. Len(line) : line[i].kind = "cr"
  <2>1. \A i \in (m + 1) + 1 .. Len(line) : i \in 2 .. Len(line) /\ i - 1 \in m + 1 .. Len(x)
    BY <1>4
  <2> QED BY <1>1, <1>4, <2>1
<1>6. line[m + 1].kind # "cr"
  <2>1. CASE m = 0
    BY <1>4, <2>1
  <2>2. CASE m > 0
    <3>1. m + 1 \in 2 .. Len(line) /\ (m + 1) - 1 = m
      BY <1>4, <2>2
    <3> QED BY <1>1, <1>4, <2>2, <3>1
  <2> QED BY <2>1, <2>2
<1>7. WithoutLineEnding(line) = SubSeq(line, 1, m + 1)
  <2>1. m + 1 \in 0 .. Len(line)
    BY <1>4
  <2> QED BY <1>5, <1>6, <2>1, EndingIs
<1>8. SubSeq(line, 1, m + 1) = <<c>> \o SubSeq(x, 1, m)
  <2>1. SubSeq(x, 1, m) \in Seq(Cells) /\ Len(SubSeq(x, 1, m)) = m
        /\ \A i \in 1 .. m : SubSeq(x, 1, m)[i] = x[i]
    OBVIOUS
  <2>2. SubSeq(line, 1, m + 1) \in Seq(Cells) /\ Len(SubSeq(line, 1, m + 1)) = m + 1
        /\ \A i \in 1 .. m + 1 : SubSeq(line, 1, m + 1)[i] = line[i]
    BY <1>4
  <2>a. PICK w \in Seq(Cells) : w = SubSeq(x, 1, m) /\ Len(w) = m /\ \A i \in 1 .. m : w[i] = x[i]
    BY <2>1
  <2>b. /\ <<c>> \o w \in Seq(Cells) /\ Len(<<c>> \o w) = Len(w) + 1 /\ (<<c>> \o w)[1] = c
        /\ \A i \in 1 .. Len(w) : (<<c>> \o w)[i + 1] = w[i]
    BY Cons
  <2>3. PICK s \in Seq(Cells) : s = <<c>> \o SubSeq(x, 1, m) /\ Len(s) = m + 1 /\ s[1] = c
                                /\ \A i \in 1 .. m : s[i + 1] = x[i]
    BY <2>a, <2>b
  <2>4. ASSUME NEW i \in 1 .. m + 1 PROVE s[i] = line[i]
    <3>1. CASE i = 1
      BY <1>4, <2>3, <3>1
    <3>2. CASE i # 1
      <4>1. i - 1 \in 1 .. m /\ (i - 1) + 1 = i /\ i \in 2 .. Len(line)
        BY <1>4, <3>2
      <4> QED BY <1>4, <2>3, <4>1
    <3> QED BY <3>1, <3>2
  <2> QED BY <2>2, <2>3, <2>4, SeqEqual
<1> QED BY <1>2, <1>3, <1>7, <1>8

Unescaped(c) == IF c.kind = "esc" THEN <<>> ELSE <<c>>

LEMMA EscapesBehind ==
  ASSUME NEW c \in Cells, NEW x \in Seq(Cells)
  PROVE  WithoutEscapes(<<c>> \o x)[Len(x) + 1] = Unescaped(c) \o WithoutEscapes(x)[Len(x)]
<1>1. PICK line \in Seq(Cells) : line = <<c>> \o x
  BY Cons
<1>2. PICK b \in Nat : b = Len(x)
  OBVIOUS
<1>3. Len(line) = b + 1 /\ line[1] = c /\ \A i \in 1 .. b : line[i + 1] = x[i]
  BY <1>1, <1>2, Cons
<1>4. /\ WithoutEscapes(line)[0] = <<>>
      /\ \A n \in 1 .. b + 1 :
           WithoutEscapes(line)[n] = IF line[n].kind = "esc" THEN WithoutEscapes(line)[n - 1]
                                     ELSE Append(WithoutEscapes(line)[n - 1], line[n])
  BY <1>3, WithoutEscapesIs
<1>5. /\ WithoutEscapes(x) \in [0 .. b -> Seq(Cells)]
      /\ WithoutEscapes(x)[0] = <<>>
      /\ \A n \in 1 .. b :
           WithoutEscapes(x)[n] = IF x[n].kind = "esc" THEN WithoutEscapes(x)[n - 1]
                                  ELSE Append(WithoutEscapes(x)[n - 1], x[n])
  BY <1>2, WithoutEscapesIs
<1> DEFINE S == {n \in 0 .. b : WithoutEscapes(line)[n + 1] = Unescaped(c) \o WithoutEscapes(x)[n]}
<1>6. 0 \in S
  <2>1. WithoutEscapes(line)[1] = Unescaped(c)
    <3>1. 1 \in 1 .. b + 1 /\ 1 - 1 = 0 /\ Append(<<>>, c) = <<c>>
      BY <1>2
    <3> QED BY <1>3, <1>4, <3>1 DEF Unescaped
  <2>2. Unescaped(c) \o <<>> = Unescaped(c)
    <3>1. <<>> \in Seq(Cells) /\ <<c>> \in Seq(Cells)
      OBVIOUS
    <3>2. Unescaped(c) \in Seq(Cells)
      BY <3>1 DEF Unescaped
    <3>3. \A u \in Seq(Cells) : u \o <<>> = u
      BY ConcatEmptySeq
    <3> QED BY <3>2, <3>3
  <2>3. 0 \in 0 .. b /\ 0 + 1 = 1
    OBVIOUS
  <2> QED BY <1>5, <2>1, <2>2, <2>3
<1>7. ASSUME NEW n \in 0 .. b - 1, n \in S PROVE n + 1 \in S
  <2>1. n + 1 \in 1 .. b /\ (n + 1) + 1 \in 1 .. b + 1 /\ ((n + 1) + 1) - 1 = n + 1 /\ (n + 1) - 1 = n
        /\ n + 1 \in 0 .. b /\ n \in 0 .. b
    OBVIOUS
  <2>2. line[(n + 1) + 1] = x[n + 1]
    BY <1>3, <2>1
  <2>3. WithoutEscapes(line)[(n + 1) + 1]
          = IF x[n + 1].kind = "esc" THEN WithoutEscapes(line)[n + 1]
            ELSE Append(WithoutEscapes(line)[n + 1], x[n + 1])
    BY <1>4, <2>1, <2>2
  <2>4. WithoutEscapes(x)[n + 1]
          = IF x[n + 1].kind = "esc" THEN WithoutEscapes(x)[n] ELSE Append(WithoutEscapes(x)[n], x[n + 1])
    BY <1>5, <2>1
  <2>5. WithoutEscapes(line)[n + 1] = Unescaped(c) \o WithoutEscapes(x)[n]
    BY <1>7
  <2>6. Unescaped(c) \in Seq(Cells)
    <3>1. <<>> \in Seq(Cells) /\ <<c>> \in Seq(Cells)
      OBVIOUS
    <3> QED BY <3>1 DEF Unescaped
  <2>7. WithoutEscapes(x)[n] \in Seq(Cells) /\ x[n + 1] \in Cells
    <3>1. n + 1 \in 1 .. Len(x)
      BY <1>2, <2>1
    <3>2. x[n + 1] \in Cells
      BY <3>1, ElementOfSeq
    <3> QED BY <1>5, <2>1, <3>2
  <2>a. Append(Unescaped(c) \o WithoutEscapes(x)[n], x[n + 1])
          = Unescaped(c) \o Append(WithoutEscapes(x)[n], x[n + 1])
    BY <2>6, <2>7, AppendBehind
  <2>8. WithoutEscapes(line)[(n + 1) + 1] = Unescaped(c) \o WithoutEscapes(x)[n + 1]
    BY <2>3, <2>4, <2>5, <2>a
  <2> QED BY <2>1, <2>8
<1>8. b \in S
  <2>1. \A n \in 0 .. b - 1 : n \in S => n + 1 \in S
    BY <1>7
  <2> HIDE DEF S
  <2> QED BY <1>2, <1>6, <2>1, InductUpTo
<1> QED BY <1>1, <1>2, <1>8

\* Normalize goes through a cell that is neither a CR nor an escape, and takes an escape.
LEMMA NormalizeBehind ==
  ASSUME NEW c \in Cells, c.kind # "cr", NEW x \in Seq(Cells)
  PROVE  Normalize(<<c>> \o x) = Unescaped(c) \o Normalize(x)
<1>1. PICK y \in Seq(Cells) : y = WithoutLineEnding(x)
  BY EndingType
<1>2. WithoutLineEnding(<<c>> \o x) = <<c>> \o y
  BY <1>1, EndingBehind
<1>3. Len(<<c>> \o y) = Len(y) + 1
  BY Cons
<1>4. WithoutEscapes(<<c>> \o y)[Len(y) + 1] = Unescaped(c) \o WithoutEscapes(y)[Len(y)]
  BY EscapesBehind
<1> QED BY <1>1, <1>2, <1>3, <1>4 DEF Normalize

LEMMA NormalizeType ==
  ASSUME NEW line \in Seq(Cells)
  PROVE  Normalize(line) \in Seq(Cells)
<1>1. PICK ended \in Seq(Cells) : ended = WithoutLineEnding(line)
  BY EndingType
<1>2. WithoutEscapes(ended) \in [0 .. Len(ended) -> Seq(Cells)] /\ Len(ended) \in 0 .. Len(ended)
  BY WithoutEscapesIs
<1>3. WithoutEscapes(ended)[Len(ended)] \in Seq(Cells)
  BY <1>2
<1> QED BY <1>1, <1>3 DEF Normalize

LEMMA NormalizeThrough ==
  ASSUME NEW c \in Cells, c.kind \notin {"cr", "esc"}, NEW x \in Seq(Cells)
  PROVE  Normalize(<<c>> \o x) = <<c>> \o Normalize(x)
BY NormalizeBehind DEF Unescaped

LEMMA TwoCells ==
  ASSUME NEW a \in Cells, NEW b \in Cells
  PROVE  \E t \in Seq(Cells) : t = <<a, b>> /\ Len(t) = 2 /\ t[1] = a /\ t[2] = b
<1>1. <<a, b>> \in Seq(Cells)
  OBVIOUS
<1>2. Len(<<a, b>>) = 2 /\ <<a, b>>[1] = a /\ <<a, b>>[2] = b
  OBVIOUS
<1> QED BY <1>1, <1>2

LEMMA PairCons ==
  ASSUME NEW a \in Cells, NEW b \in Cells, NEW x \in Seq(Cells)
  PROVE  <<a, b>> \o x = <<a>> \o (<<b>> \o x)
<1>1. PICK p \in Seq(Cells) : p = <<a>> /\ Len(p) = 1 /\ p[1] = a
  <2>1. <<a>> \in Seq(Cells)
    OBVIOUS
  <2>2. Len(<<a>>) = 1 /\ <<a>>[1] = a
    OBVIOUS
  <2> QED BY <2>1, <2>2
<1>2. PICK q \in Seq(Cells) : q = <<b>> /\ Len(q) = 1 /\ q[1] = b
  <2>1. <<b>> \in Seq(Cells)
    OBVIOUS
  <2>2. Len(<<b>>) = 1 /\ <<b>>[1] = b
    OBVIOUS
  <2> QED BY <2>1, <2>2
<1>3. PICK t \in Seq(Cells) : t = <<a, b>> /\ Len(t) = 2 /\ t[1] = a /\ t[2] = b
  BY TwoCells
<1>4. /\ p \o q \in Seq(Cells) /\ Len(p \o q) = 2
      /\ \A i \in 1 .. 2 : (p \o q)[i] = IF i <= 1 THEN p[i] ELSE q[i - 1]
  <2>1. /\ p \o q \in Seq(Cells) /\ Len(p \o q) = Len(p) + Len(q)
        /\ \A i \in 1 .. Len(p) + Len(q) : (p \o q)[i] = IF i <= Len(p) THEN p[i] ELSE q[i - Len(p)]
    BY ConcatProperties
  <2> QED BY <1>1, <1>2, <2>1
<1>5. \A i \in 1 .. Len(t) : t[i] = (p \o q)[i]
  BY <1>1, <1>2, <1>3, <1>4
<1>6. t = p \o q
  BY <1>3, <1>4, <1>5, SeqEqual
<1>7. t \o x = p \o (q \o x)
  BY <1>6, ConcatAssociative
<1> QED BY <1>1, <1>2, <1>3, <1>7

\* The prefixes of the three layers, cell by cell.
LEMMA PrefixCells ==
  ASSUME NEW t \in Int, NEW x \in Seq(Cells)
  PROVE  /\ Cell("[") \in Cells /\ Cell("]") \in Cells /\ Cell("space") \in Cells /\ Cell("mark") \in Cells
         /\ StampCell(24, DateOf(t)) \in Cells /\ StampCell(28, DateOf(t)) \in Cells
         /\ Prefix("bom", t) \o x = <<Cell("mark")>> \o x
         /\ Prefix("api", t) \o x = <<StampCell(28, DateOf(t))>> \o (<<Cell("space")>> \o x)
         /\ Prefix("bracket", t) \o x
              = <<Cell("[")>> \o (<<StampCell(24, DateOf(t))>> \o (<<Cell("]")>> \o (<<Cell("space")>> \o x)))
<1>1. DateOf(t) \in Dates
  BY DateType
<1>2. /\ Cell("[") \in Cells /\ Cell("]") \in Cells /\ Cell("space") \in Cells /\ Cell("mark") \in Cells
      /\ StampCell(24, DateOf(t)) \in Cells /\ StampCell(28, DateOf(t)) \in Cells
  BY <1>1 DEF Cell, StampCell, Cells, NoDate, Dates
<1>3. ASSUME NEW a \in Cells, NEW b \in Cells PROVE <<a, b>> \o x = <<a>> \o (<<b>> \o x)
  BY PairCons
<1>5. /\ Prefix("bom", t) = <<Cell("mark")>>
      /\ Prefix("api", t) = <<StampCell(28, DateOf(t)), Cell("space")>>
      /\ Prefix("bracket", t) = <<Cell("["), StampCell(24, DateOf(t)), Cell("]"), Cell("space")>>
  BY DEF Prefix
<1>6. Prefix("api", t) \o x = <<StampCell(28, DateOf(t))>> \o (<<Cell("space")>> \o x)
  BY <1>2, <1>3, <1>5
<1>7. Prefix("bracket", t) \o x
        = <<Cell("[")>> \o (<<StampCell(24, DateOf(t))>> \o (<<Cell("]")>> \o (<<Cell("space")>> \o x)))
  <2>1. PICK p \in Cells, q \in Cells, r \in Cells, sp \in Cells :
          p = Cell("[") /\ q = StampCell(24, DateOf(t)) /\ r = Cell("]") /\ sp = Cell("space")
    BY <1>2
  <2>2. Prefix("bracket", t) = <<p, q, r, sp>>
    BY <1>5, <2>1
  <2>3. Prefix("bracket", t) \o x = <<p>> \o (<<q>> \o (<<r>> \o (<<sp>> \o x)))
    <3>1. PICK front \in Seq(Cells) : front = <<p, q>> /\ Len(front) = 2 /\ front[1] = p /\ front[2] = q
      BY TwoCells
    <3>2. PICK back \in Seq(Cells) : back = <<r, sp>> /\ Len(back) = 2 /\ back[1] = r /\ back[2] = sp
      BY TwoCells
    <3>3. PICK all \in Seq(Cells) : /\ all = <<p, q, r, sp>> /\ Len(all) = 4
                                    /\ all[1] = p /\ all[2] = q /\ all[3] = r /\ all[4] = sp
      <4>1. <<p, q, r, sp>> \in Seq(Cells)
        OBVIOUS
      <4>2. Len(<<p, q, r, sp>>) = 4
        OBVIOUS
      <4>3. /\ <<p, q, r, sp>>[1] = p /\ <<p, q, r, sp>>[2] = q
            /\ <<p, q, r, sp>>[3] = r /\ <<p, q, r, sp>>[4] = sp
        OBVIOUS
      <4> QED BY <4>1, <4>2, <4>3
    <3>4. front \o back = all
      <4>1. /\ front \o back \in Seq(Cells) /\ Len(front \o back) = Len(front) + Len(back)
            /\ \A i \in 1 .. Len(front) + Len(back) :
                 (front \o back)[i] = IF i <= Len(front) THEN front[i] ELSE back[i - Len(front)]
        BY ConcatProperties
      <4>2. /\ Len(front \o back) = 4
            /\ (front \o back)[1] = p /\ (front \o back)[2] = q
            /\ (front \o back)[3] = r /\ (front \o back)[4] = sp
        BY <3>1, <3>2, <4>1
      <4>3. \A i \in 1 .. 4 : i = 1 \/ i = 2 \/ i = 3 \/ i = 4
        OBVIOUS
      <4>4. \A i \in 1 .. Len(front \o back) : (front \o back)[i] = all[i]
        BY <3>3, <4>2, <4>3
      <4> QED BY <3>3, <4>1, <4>2, <4>4, SeqEqual
    <3>5. all \o x = front \o (back \o x)
      <4>1. (front \o back) \o x = front \o (back \o x)
        BY ConcatAssociative
      <4> QED BY <3>4, <4>1, Zenon
    <3>6. PICK y \in Seq(Cells) : y = <<r>> \o (<<sp>> \o x)
      BY Cons
    <3>7. back \o x = y
      BY <3>2, <3>6, PairCons
    <3>8. front \o y = <<p>> \o (<<q>> \o y)
      BY <3>1, PairCons
    <3> QED BY <2>2, <3>3, <3>5, <3>6, <3>7, <3>8
  <2> QED BY <2>1, <2>3, Zenon
<1> QED BY <1>2, <1>5, <1>6, <1>7

LEMMA NormalizeThroughPrefix ==
  ASSUME NEW layer \in Layers, NEW t \in Int, NEW x \in Seq(Cells)
  PROVE  Normalize(Prefix(layer, t) \o x) = Prefix(layer, t) \o Normalize(x)
<1>1. PICK o, c, s, m, d, e \in Cells : /\ o = Cell("[") /\ c = Cell("]") /\ s = Cell("space") /\ m = Cell("mark")
                                       /\ d = StampCell(24, DateOf(t)) /\ e = StampCell(28, DateOf(t))
  BY PrefixCells
<1> DEFINE Known == {o, c, s, m, d, e}
<1>2. \A k \in Known : k \in Cells /\ k.kind \notin {"cr", "esc"}
  BY <1>1 DEF Cell, StampCell
<1> DEFINE Through(z) == \A k \in Known : <<k>> \o z \in Seq(Cells) /\ Normalize(<<k>> \o z) = <<k>> \o Normalize(z)
<1>3. \A z \in Seq(Cells) : Through(z)
  BY <1>2, Cons, NormalizeThrough
<1>4. /\ \A z \in Seq(Cells) : Prefix("bom", t) \o z = <<m>> \o z
      /\ \A z \in Seq(Cells) : Prefix("api", t) \o z = <<e>> \o (<<s>> \o z)
      /\ \A z \in Seq(Cells) : Prefix("bracket", t) \o z = <<o>> \o (<<d>> \o (<<c>> \o (<<s>> \o z)))
  BY <1>1, PrefixCells, Zenon
<1> PICK y \in Seq(Cells) : y = Normalize(x)
  BY NormalizeType
<1>5. PICK u \in Seq(Cells) : u = <<s>> \o x /\ Normalize(u) = <<s>> \o y
  BY <1>3
<1>6. CASE layer = "bom"
  <2>1. Normalize(<<m>> \o x) = <<m>> \o y
    BY <1>3
  <2> QED BY <1>4, <1>6, <2>1
<1>7. CASE layer = "api"
  <2>1. Normalize(<<e>> \o u) = <<e>> \o (<<s>> \o y)
    BY <1>3, <1>5
  <2> QED BY <1>4, <1>5, <1>7, <2>1, Zenon
<1>8. CASE layer = "bracket"
  <2>1. PICK v \in Seq(Cells) : v = <<c>> \o u /\ Normalize(v) = <<c>> \o (<<s>> \o y)
    <3>1. <<c>> \o u \in Seq(Cells) /\ Normalize(<<c>> \o u) = <<c>> \o Normalize(u)
      BY <1>3, Zenon
    <3> QED BY <1>5, <3>1, Zenon
  <2>2. PICK w \in Seq(Cells) : w = <<d>> \o v /\ Normalize(w) = <<d>> \o (<<c>> \o (<<s>> \o y))
    <3>1. <<d>> \o v \in Seq(Cells) /\ Normalize(<<d>> \o v) = <<d>> \o Normalize(v)
      BY <1>3, Zenon
    <3> QED BY <2>1, <3>1, Zenon
  <2>3. Normalize(<<o>> \o w) = <<o>> \o (<<d>> \o (<<c>> \o (<<s>> \o y)))
    <3>1. Normalize(<<o>> \o w) = <<o>> \o Normalize(w)
      BY <1>3, Zenon
    <3> QED BY <2>2, <3>1, Zenon
  <2>4. Prefix(layer, t) \o x = <<o>> \o w
    BY <1>4, <1>5, <1>8, <2>1, <2>2, Zenon
  <2> QED BY <1>4, <1>8, <2>3, <2>4, Zenon
<1> QED BY <1>6, <1>7, <1>8 DEF Layers

LEMMA NormalizeInside ==
  ASSUME NEW d \in Deliveries, NEW line \in Seq(Cells)
  PROVE  Normalize(Inside(d, line)[Len(d.layers)]) = Inside(d, Normalize(line))[Len(d.layers)]
<1>1. PICK b \in Nat : b = Len(d.layers)
  BY TransportAssumption
<1>2. PICK shown \in Seq(Cells) : shown = Normalize(line)
  BY NormalizeType
<1>3. PICK f \in [0 .. b -> Seq(Cells)] :
        /\ f = Inside(d, line) /\ f[0] = line
        /\ \A k \in 1 .. b : f[k] = Prefix(d.layers[b - k + 1], d.instants[b - k + 1]) \o f[k - 1]
  BY <1>1, InsideIs
<1>4. PICK g \in [0 .. b -> Seq(Cells)] :
        /\ g = Inside(d, shown) /\ g[0] = shown
        /\ \A k \in 1 .. b : g[k] = Prefix(d.layers[b - k + 1], d.instants[b - k + 1]) \o g[k - 1]
  BY <1>1, InsideIs
<1> DEFINE S == {k \in 0 .. b : Normalize(f[k]) = g[k]}
<1>5. 0 \in S
  BY <1>2, <1>3, <1>4
<1>6. ASSUME NEW k \in 0 .. b - 1, k \in S PROVE k + 1 \in S
  <2>1. k + 1 \in 1 .. b /\ k \in 0 .. b /\ k + 1 \in 0 .. b /\ (k + 1) - 1 = k /\ b - (k + 1) + 1 \in 1 .. b
    OBVIOUS
  <2>2. PICK layer \in Layers, t \in Int : layer = d.layers[b - (k + 1) + 1] /\ t = d.instants[b - (k + 1) + 1]
    <3>1. d.layers[b - (k + 1) + 1] \in Layers /\ d.instants[b - (k + 1) + 1] \in Int
      <4>1. PICK i \in 1 .. b : i = b - (k + 1) + 1
        BY <2>1
      <4>2. d.layers \in Seq(Layers) /\ d.instants \in Seq(Int) /\ i \in 1 .. Len(d.layers)
            /\ i \in 1 .. Len(d.instants)
        BY <1>1, TransportAssumption
      <4>3. d.layers[i] \in Layers
        BY <4>2, ElementOfSeq
      <4>4. d.instants[i] \in Int
        BY <4>2, ElementOfSeq
      <4> QED BY <4>1, <4>3, <4>4
    <3> QED BY <3>1
  <2>3. f[k + 1] = Prefix(layer, t) \o f[k] /\ g[k + 1] = Prefix(layer, t) \o g[k] /\ f[k] \in Seq(Cells)
    BY <1>3, <1>4, <2>1, <2>2
  <2>4. Normalize(Prefix(layer, t) \o f[k]) = Prefix(layer, t) \o Normalize(f[k])
    BY <2>3, NormalizeThroughPrefix
  <2> QED BY <1>6, <2>1, <2>3, <2>4
<1>7. b \in S
  <2> HIDE DEF S
  <2> QED BY <1>5, <1>6, InductUpTo
<1> QED BY <1>1, <1>2, <1>3, <1>4, <1>7

\* The line that arrives inside the layers.
Arrived == IF door = "normalized" THEN Normalize(delivery.payload) ELSE delivery.payload

LEMMA HandedIs ==
  ASSUME delivery \in Deliveries, delivery.colour => door = "normalized"
  PROVE  Arrived \in Seq(Cells) /\ Handed = Inside(delivery, Arrived)[Len(delivery.layers)]
<1>1. PICK payload \in Seq(Cells) : payload = delivery.payload
  BY TransportAssumption
<1>2. PICK wrapped \in Seq(Cells) : wrapped = Inside(delivery, payload)[Len(delivery.layers)]
  <2>1. PICK b \in Nat : b = Len(delivery.layers)
    BY TransportAssumption
  <2>2. Inside(delivery, payload) \in [0 .. b -> Seq(Cells)]
    BY <2>1, InsideIs
  <2> QED BY <2>1, <2>2
<1>3. Normalize(wrapped) = Inside(delivery, Normalize(payload))[Len(delivery.layers)]
  BY <1>2, NormalizeInside
<1>4. <<>> \o wrapped = wrapped
  BY ConcatEmptySeq
<1>5. Normalize(payload) \in Seq(Cells) /\ Normalize(wrapped) \in Seq(Cells)
  BY NormalizeType
<1>6. Normalize(<<Cell("esc")>> \o wrapped) = Normalize(wrapped)
  <2>1. Cell("esc") \in Cells /\ Cell("esc").kind = "esc"
    BY DEF Cell, Cells, NoDate, Dates
  <2>2. Normalize(<<Cell("esc")>> \o wrapped) = Unescaped(Cell("esc")) \o Normalize(wrapped)
    BY <2>1, NormalizeBehind
  <2>3. Unescaped(Cell("esc")) = <<>>
    BY <2>1 DEF Unescaped
  <2>4. <<>> \o Normalize(wrapped) = Normalize(wrapped)
    BY <1>5, ConcatEmptySeq
  <2> QED BY <2>2, <2>3, <2>4
<1>7. delivery.colour \in BOOLEAN
  BY TransportAssumption
<1>8. Arrived \in Seq(Cells)
  BY <1>1, <1>5 DEF Arrived
<1>9. LineOf(delivery) = IF delivery.colour THEN <<Cell("esc")>> \o wrapped ELSE <<>> \o wrapped
  BY <1>1, <1>2, <1>7 DEF LineOf
<1>10. CASE door = "normalized"
  <2>1. Handed = Normalize(wrapped)
    BY <1>4, <1>6, <1>9, <1>10 DEF Handed
  <2> QED BY <1>1, <1>3, <1>8, <1>10, <2>1 DEF Arrived
<1>11. CASE door # "normalized"
  <2>1. Handed = wrapped
    BY <1>4, <1>9, <1>11 DEF Handed
  <2> QED BY <1>1, <1>2, <1>8, <1>11, <2>1 DEF Arrived
<1> QED BY <1>10, <1>11

\* Where the spaces at the head end is the only place with spaces before and none at it.
LEMMA StrippedExactly ==
  ASSUME NEW line \in Seq(Cells), NEW m \in 0 .. Len(line),
         \A i \in 1 .. m : IsSpace(line[i]),
         m < Len(line) => ~IsSpace(line[m + 1])
  PROVE  Stripped(line) = SubSeq(line, m + 1, Len(line))
<1>1. PICK k \in 0 .. Len(line) : /\ Stripped(line) = SubSeq(line, k + 1, Len(line))
                                  /\ \A i \in 1 .. k : IsSpace(line[i])
                                  /\ k < Len(line) => ~IsSpace(line[k + 1])
  BY StrippedIs
<1>2. ~(k < m)
  <2>1. k < m => k + 1 \in 1 .. m /\ k < Len(line)
    OBVIOUS
  <2> QED BY <1>1, <2>1
<1>3. ~(m < k)
  <2>1. m < k => m + 1 \in 1 .. k /\ m < Len(line)
    OBVIOUS
  <2> QED BY <1>1, <2>1
<1>4. k = m
  BY <1>2, <1>3
<1> QED BY <1>1, <1>4

LEMMA CutBehind ==
  ASSUME NEW c \in Cells, NEW x \in Seq(Cells), NEW m \in 0 .. Len(x)
  PROVE  SubSeq(<<c>> \o x, m + 2, Len(<<c>> \o x)) = SubSeq(x, m + 1, Len(x))
<1>1. PICK line \in Seq(Cells) : /\ line = <<c>> \o x /\ Len(line) = Len(x) + 1
                                 /\ \A i \in 1 .. Len(x) : line[i + 1] = x[i]
  BY Cons
<1>2. PICK b \in Nat : b = Len(x)
  OBVIOUS
<1>3. /\ SubSeq(x, m + 1, b) \in Seq(Cells) /\ Len(SubSeq(x, m + 1, b)) = b - m
      /\ \A i \in 1 .. b - m : SubSeq(x, m + 1, b)[i] = x[m + i]
  BY <1>2
<1>4. /\ SubSeq(line, m + 2, b + 1) \in Seq(Cells) /\ Len(SubSeq(line, m + 2, b + 1)) = b - m
      /\ \A i \in 1 .. b - m : SubSeq(line, m + 2, b + 1)[i] = line[(m + i) + 1]
  BY <1>1, <1>2
<1>5. \A i \in 1 .. b - m : m + i \in 1 .. b
  BY <1>2
<1>6. \A i \in 1 .. b - m : line[(m + i) + 1] = x[m + i]
  BY <1>1, <1>2, <1>5
<1>7. \A i \in 1 .. Len(SubSeq(line, m + 2, b + 1)) : SubSeq(line, m + 2, b + 1)[i] = SubSeq(x, m + 1, b)[i]
  BY <1>3, <1>4, <1>6
<1>8. SubSeq(line, m + 2, b + 1) = SubSeq(x, m + 1, b)
  BY <1>3, <1>4, <1>7, SeqEqual
<1> QED BY <1>1, <1>2, <1>8

LEMMA StrippedBehindSpace ==
  ASSUME NEW c \in Cells, c.kind = "space", NEW x \in Seq(Cells)
  PROVE  Stripped(<<c>> \o x) = Stripped(x)
<1>1. PICK k \in 0 .. Len(x) : /\ Stripped(x) = SubSeq(x, k + 1, Len(x))
                               /\ \A i \in 1 .. k : IsSpace(x[i])
                               /\ k < Len(x) => ~IsSpace(x[k + 1])
  BY StrippedIs
<1>2. PICK line \in Seq(Cells) : /\ line = <<c>> \o x /\ Len(line) = Len(x) + 1 /\ line[1] = c
                                 /\ \A i \in 1 .. Len(x) : line[i + 1] = x[i]
  BY Cons
<1>3. k + 1 \in 0 .. Len(line)
  BY <1>2
<1>4. ASSUME NEW i \in 1 .. k + 1 PROVE IsSpace(line[i])
  <2>1. CASE i = 1
    BY <1>2, <2>1 DEF IsSpace
  <2>2. CASE i # 1
    <3>1. i - 1 \in 1 .. k /\ i - 1 \in 1 .. Len(x) /\ (i - 1) + 1 = i
      BY <2>2
    <3> QED BY <1>1, <1>2, <3>1
  <2> QED BY <2>1, <2>2
<1>5. k + 1 < Len(line) => ~IsSpace(line[(k + 1) + 1])
  <2>1. k + 1 < Len(line) => k < Len(x) /\ k + 1 \in 1 .. Len(x)
    BY <1>2
  <2> QED BY <1>1, <1>2, <2>1
<1>6. Stripped(line) = SubSeq(line, (k + 1) + 1, Len(line))
  BY <1>3, <1>4, <1>5, StrippedExactly
<1>7. SubSeq(line, k + 2, Len(line)) = SubSeq(x, k + 1, Len(x))
  BY <1>2, CutBehind
<1>8. (k + 1) + 1 = k + 2
  OBVIOUS
<1> QED BY <1>1, <1>2, <1>6, <1>7, <1>8

LEMMA StrippedBehindText ==
  ASSUME NEW c \in Cells, c.kind # "space", NEW x \in Seq(Cells)
  PROVE  Stripped(<<c>> \o x) = <<c>> \o x
<1>1. PICK line \in Seq(Cells) : line = <<c>> \o x /\ Len(line) = Len(x) + 1 /\ line[1] = c
  BY Cons
<1>2. ~IsSpace(line[0 + 1]) /\ 0 \in 0 .. Len(line) /\ \A i \in 1 .. 0 : IsSpace(line[i])
  BY <1>1 DEF IsSpace
<1>3. Stripped(line) = SubSeq(line, 0 + 1, Len(line))
  BY <1>2, StrippedExactly
<1>4. SubSeq(line, 0 + 1, Len(line)) = line
  OBVIOUS
<1> QED BY <1>1, <1>3, <1>4

Unwraps(row, line, layer, x) ==
  /\ Takes(row, line) # 0
  /\ Left(row, line) = IF layer = "bom" THEN x ELSE Stripped(x)

\* A row takes off the prefix of its layer, and the spaces behind a stamp.
LEMMA RowUnwraps ==
  ASSUME NEW layer \in Layers, NEW t \in Int, NEW x \in Seq(Cells), NEW row \in FindTransform(layer)
  PROVE  Unwraps(row, Prefix(layer, t) \o x, layer, x)
<1>0. PICK line : line = Prefix(layer, t) \o x
  OBVIOUS
<1>1. /\ Cell("[") \in Cells /\ Cell("]") \in Cells /\ Cell("space") \in Cells /\ Cell("mark") \in Cells
      /\ StampCell(24, DateOf(t)) \in Cells /\ StampCell(28, DateOf(t)) \in Cells
  BY PrefixCells
<1>2. /\ Cell("[").kind = "[" /\ Cell("]").kind = "]" /\ Cell("space").kind = "space"
      /\ Cell("mark").kind = "mark" /\ \A w, d : StampCell(w, d).kind = "stamp" /\ StampCell(w, d).width = w
  BY DEF Cell, StampCell
<1>3. /\ row.name = layer
      /\ \/ row = [name |-> "api", kind |-> "stamp", width |-> 28, strips |-> TRUE]
         \/ row = [name |-> "bracket", kind |-> "bracketed", width |-> 0, strips |-> TRUE]
         \/ row = [name |-> "bom", kind |-> "mark", width |-> 0, strips |-> FALSE]
  BY DEF FindTransform, kTransportCatalogRows
<1>4. PICK u \in Seq(Cells) : u = <<Cell("space")>> \o x /\ Stripped(u) = Stripped(x)
  <2>1. PICK sp \in Cells : sp = Cell("space") /\ sp.kind = "space"
    BY <1>1, <1>2
  <2>2. Stripped(<<sp>> \o x) = Stripped(x)
    BY <2>1, StrippedBehindSpace
  <2>3. <<sp>> \o x \in Seq(Cells)
    BY Cons
  <2> QED BY <2>1, <2>2, <2>3
<1>5. CASE layer = "bom"
  <2>1. PICK c \in Cells : c = Cell("mark")
    BY <1>1
  <2>2. line = <<c>> \o x
    BY <1>0, <1>5, <2>1, PrefixCells
  <2>3. Len(line) = Len(x) + 1 /\ line[1] = c /\ line \in Seq(Cells)
    BY <2>2, Cons
  <2>4. Starts(line, <<"mark">>)
    BY <1>2, <2>1, <2>3 DEF Starts
  <2>5. row.kind = "mark" /\ ~row.strips
    BY <1>3, <1>5
  <2>6. Takes(row, line) = 1
    BY <2>4, <2>5 DEF Takes
  <2>7. SubSeq(line, 2, Len(line)) = x
    <3>1. SubSeq(line, 0 + 2, Len(line)) = SubSeq(x, 0 + 1, Len(x)) /\ SubSeq(x, 0 + 1, Len(x)) = x
      BY <2>2, CutBehind
    <3> QED BY <3>1
  <2> QED BY <1>0, <1>5, <2>5, <2>6, <2>7 DEF Left, Unwraps
<1>6. CASE layer = "api"
  <2>1. PICK c \in Cells : c = StampCell(28, DateOf(t))
    BY <1>1
  <2>2. line = <<c>> \o u
    BY <1>0, <1>4, <1>6, <2>1, PrefixCells
  <2>3. Len(line) = Len(u) + 1 /\ line[1] = c /\ line \in Seq(Cells)
    BY <2>2, Cons
  <2>4. Starts(line, <<"stamp">>) /\ line[1].width = 28
    BY <1>2, <2>1, <2>3 DEF Starts
  <2>5. row.kind = "stamp" /\ row.width = 28 /\ row.strips
    BY <1>3, <1>6
  <2>6. Takes(row, line) = 1
    BY <2>4, <2>5 DEF Takes
  <2>7. SubSeq(line, 2, Len(line)) = u
    <3>1. SubSeq(line, 0 + 2, Len(line)) = SubSeq(u, 0 + 1, Len(u)) /\ SubSeq(u, 0 + 1, Len(u)) = u
      BY <2>2, CutBehind
    <3> QED BY <3>1
  <2>8. Left(row, line) = Stripped(u)
    <3>1. SubSeq(line, Takes(row, line) + 1, Len(line)) = u
      BY <2>6, <2>7
    <3> QED BY <2>5, <3>1, Zenon DEF Left
  <2>9. layer # "bom"
    BY <1>6
  <2> QED BY <1>0, <1>4, <2>6, <2>8, <2>9 DEF Unwraps
<1>7. CASE layer = "bracket"
  <2>1. PICK c \in Cells, s \in Cells, e \in Cells :
          c = Cell("[") /\ s = StampCell(24, DateOf(t)) /\ e = Cell("]")
    BY <1>1
  <2>2. PICK v \in Seq(Cells) : v = <<e>> \o u /\ Len(v) = Len(u) + 1 /\ v[1] = e
    BY Cons
  <2>3. PICK w \in Seq(Cells) : /\ w = <<s>> \o v /\ Len(w) = Len(v) + 1 /\ w[1] = s
                                /\ \A i \in 1 .. Len(v) : w[i + 1] = v[i]
    BY Cons, ZenonT(30)
  <2>4. line = <<c>> \o w
    BY <1>0, <1>4, <1>7, <2>1, <2>2, <2>3, PrefixCells
  <2>5. /\ Len(line) = Len(w) + 1 /\ line[1] = c /\ line \in Seq(Cells)
        /\ \A i \in 1 .. Len(w) : line[i + 1] = w[i]
    BY <2>4, Cons
  <2>6. Len(line) = Len(u) + 3 /\ Len(u) \in Nat /\ line[2] = s /\ line[3] = e
    <3>1. 1 \in 1 .. Len(v) /\ 1 \in 1 .. Len(w) /\ 2 \in 1 .. Len(w) /\ 1 + 1 = 2 /\ 2 + 1 = 3
      BY <2>2, <2>3
    <3>2. w[2] = e /\ line[2] = s /\ line[3] = w[2]
      BY <2>2, <2>3, <2>5, <3>1
    <3> QED BY <2>2, <2>3, <2>5, <3>2
  <2>7. Starts(line, <<"[", "stamp", "]">>)
    <3>1. line[1].kind = "[" /\ line[2].kind = "stamp" /\ line[3].kind = "]" /\ 3 <= Len(line)
      BY <1>2, <2>1, <2>5, <2>6
    <3>2. Len(<<"[", "stamp", "]">>) = 3 /\ DOMAIN <<"[", "stamp", "]">> = {1, 2, 3}
      OBVIOUS
    <3> QED BY <3>1, <3>2 DEF Starts
  <2>8. row.kind = "bracketed" /\ row.strips
    BY <1>3, <1>7
  <2>9. Takes(row, line) = 3
    BY <2>7, <2>8 DEF Takes
  <2>10. SubSeq(line, 4, Len(line)) = u
    <3>1. SubSeq(v, 0 + 2, Len(v)) = SubSeq(u, 0 + 1, Len(u)) /\ SubSeq(u, 0 + 1, Len(u)) = u
      BY <2>2, CutBehind
    <3>2. SubSeq(v, 2, Len(v)) = u /\ SubSeq(w, 3, Len(w)) = SubSeq(v, 2, Len(v))
      <4>1. SubSeq(w, 1 + 2, Len(w)) = SubSeq(v, 1 + 1, Len(v))
        BY <2>2, <2>3, CutBehind
      <4> QED BY <3>1, <4>1
    <3>3. SubSeq(line, 4, Len(line)) = SubSeq(w, 3, Len(w))
      <4>1. 2 \in 0 .. Len(w)
        BY <2>2, <2>3, <2>6
      <4>2. PICK m \in 0 .. Len(w) : m = 2
        BY <4>1
      <4>3. SubSeq(line, m + 2, Len(line)) = SubSeq(w, m + 1, Len(w))
        BY <2>4, CutBehind
      <4>4. m + 2 = 4 /\ m + 1 = 3
        BY <4>2
      <4> QED BY <4>3, <4>4
    <3> QED BY <3>2, <3>3, Zenon
  <2>11. Left(row, line) = Stripped(u)
    <3>1. SubSeq(line, Takes(row, line) + 1, Len(line)) = u
      BY <2>9, <2>10
    <3> QED BY <2>8, <3>1, Zenon DEF Left
  <2>12. layer # "bom"
    BY <1>7
  <2> QED BY <1>0, <1>4, <2>9, <2>11, <2>12 DEF Unwraps
<1> QED BY <1>5, <1>6, <1>7 DEF Layers

\* Nothing is stripped off a line that still has a layer on.
LEMMA PrefixStays ==
  ASSUME NEW layer \in Layers, NEW t \in Int, NEW x \in Seq(Cells)
  PROVE  Stripped(Prefix(layer, t) \o x) = Prefix(layer, t) \o x
<1>1. /\ Cell("[") \in Cells /\ Cell("]") \in Cells /\ Cell("space") \in Cells /\ Cell("mark") \in Cells
      /\ StampCell(24, DateOf(t)) \in Cells /\ StampCell(28, DateOf(t)) \in Cells
  BY PrefixCells
<1>2. /\ Cell("[").kind = "[" /\ Cell("mark").kind = "mark" /\ \A w, d : StampCell(w, d).kind = "stamp"
  BY DEF Cell, StampCell
<1>3. \E c \in Cells, y \in Seq(Cells) : c.kind # "space" /\ Prefix(layer, t) \o x = <<c>> \o y
  <2>1. CASE layer = "bom"
    BY <1>1, <1>2, <2>1, PrefixCells
  <2>2. CASE layer = "api"
    <3>1. <<Cell("space")>> \o x \in Seq(Cells)
      BY <1>1, Cons
    <3> QED BY <1>1, <1>2, <2>2, <3>1, PrefixCells
  <2>3. CASE layer = "bracket"
    <3>1. PICK u \in Seq(Cells) : u = <<Cell("]")>> \o (<<Cell("space")>> \o x)
      BY <1>1, Cons
    <3>2. PICK v \in Seq(Cells) : v = <<StampCell(24, DateOf(t))>> \o u
      BY <1>1, Cons
    <3>3. Prefix(layer, t) \o x = <<Cell("[")>> \o v
      BY <2>3, <3>1, <3>2, PrefixCells
    <3> QED BY <1>1, <1>2, <3>3
  <2> QED BY <2>1, <2>2, <2>3 DEF Layers
<1> QED BY <1>3, StrippedBehindText

\* What is left of the line once u layers are off.
Unwrapped(u) ==
  LET layers == delivery.layers
  IN  IF u = Len(layers) /\ u > 0 /\ layers[u] # "bom" THEN Stripped(Arrived)
      ELSE Inside(delivery, Arrived)[Len(layers) - u]

UnwrapInv ==
  phase = "peeling" /\ RightlyDeclared =>
    unwound \in 0 .. Len(stack) /\ content = Unwrapped(unwound)

\* One layer more.
LEMMA LayerOff ==
  ASSUME delivery \in Deliveries, Arrived \in Seq(Cells), NEW u \in Nat, u < Len(delivery.layers),
         NEW row \in FindTransform(delivery.layers[u + 1])
  PROVE  Takes(row, Unwrapped(u)) # 0 /\ Left(row, Unwrapped(u)) = Unwrapped(u + 1)
<1>1. PICK b \in Nat : b = Len(delivery.layers)
  BY TransportAssumption
<1>2. PICK f \in [0 .. b -> Seq(Cells)] :
        /\ f = Inside(delivery, Arrived) /\ f[0] = Arrived
        /\ \A k \in 1 .. b :
             f[k] = Prefix(delivery.layers[b - k + 1], delivery.instants[b - k + 1]) \o f[k - 1]
  BY <1>1, InsideIs
<1>3. \A i \in 1 .. b : delivery.layers[i] \in Layers /\ delivery.instants[i] \in Int
  <2>1. /\ delivery.layers \in Seq(Layers) /\ delivery.instants \in Seq(Int)
        /\ Len(delivery.instants) = b
    BY <1>1, TransportAssumption
  <2> QED BY <1>1, <2>1, ElementOfSeq
<1>4. u + 1 \in 1 .. b /\ u + 1 > 0 /\ u # b
  BY <1>1
<1>5. PICK layer \in Layers, t \in Int : layer = delivery.layers[u + 1] /\ t = delivery.instants[u + 1]
  BY <1>3, <1>4
<1>6. PICK k \in 1 .. b : k = b - u
  BY <1>4
<1>7. PICK x \in Seq(Cells) : x = f[k - 1]
  <2>1. k - 1 \in 0 .. b
    OBVIOUS
  <2> QED BY <2>1
<1>8. f[k] = Prefix(layer, t) \o x
  <2>1. b - k + 1 = u + 1
    BY <1>6
  <2> QED BY <1>2, <1>5, <1>7, <2>1
<1>9. Unwrapped(u) = f[k]
  BY <1>1, <1>2, <1>4, <1>6 DEF Unwrapped
<1>10. Takes(row, f[k]) # 0 /\ Left(row, f[k]) = IF layer = "bom" THEN x ELSE Stripped(x)
  <2>1. row \in FindTransform(layer)
    BY <1>5
  <2>2. Unwraps(row, Prefix(layer, t) \o x, layer, x)
    BY <2>1, RowUnwraps
  <2> QED BY <1>8, <2>2 DEF Unwraps
<1>11. CASE k = 1
  <2>1. u + 1 = b /\ x = Arrived /\ b - (u + 1) = 0
    BY <1>2, <1>6, <1>7, <1>11
  <2>2. Unwrapped(u + 1) = IF layer # "bom" THEN Stripped(x) ELSE x
    BY <1>1, <1>2, <1>4, <1>5, <2>1 DEF Unwrapped
  <2> QED BY <1>9, <1>10, <2>2
<1>12. CASE k # 1
  <2>1. u + 1 # b /\ b - (u + 1) = k - 1 /\ k - 1 \in 1 .. b
    BY <1>6, <1>12
  <2>2. Unwrapped(u + 1) = x
    BY <1>1, <1>2, <1>7, <2>1 DEF Unwrapped
  <2>3. Stripped(x) = x
    <3>1. PICK i \in 1 .. b : i = b - (k - 1) + 1
      BY <2>1
    <3>2. x = Prefix(delivery.layers[i], delivery.instants[i]) \o f[(k - 1) - 1]
      BY <1>2, <1>7, <2>1, <3>1
    <3>3. (k - 1) - 1 \in 0 .. b
      BY <2>1
    <3>4. f[(k - 1) - 1] \in Seq(Cells)
      BY <3>3
    <3>5. delivery.layers[i] \in Layers /\ delivery.instants[i] \in Int
      BY <1>3
    <3> QED BY <3>2, <3>4, <3>5, PrefixStays
  <2> QED BY <1>9, <1>10, <2>2, <2>3
<1> QED BY <1>11, <1>12

LEMMA UnwrapInit == Init => UnwrapInv
BY DEF Init, UnwrapInv

LEMMA Declared ==
  ASSUME PeelInv, RightlyDeclared
  PROVE  /\ delivery \in Deliveries /\ Arrived \in Seq(Cells)
         /\ Handed = Inside(delivery, Arrived)[Len(delivery.layers)]
         /\ stack = delivery.layers /\ Len(stack) \in Nat
BY HandedIs DEF PeelInv, RightlyDeclared

LEMMA ResolveUnwraps == PeelInv /\ UnwrapInv /\ ResolveStack => UnwrapInv'
<1> SUFFICES ASSUME PeelInv, ResolveStack, phase' = "peeling", RightlyDeclared'
             PROVE  unwound' \in 0 .. Len(stack') /\ content' = Unwrapped(unwound)'
  BY DEF UnwrapInv
<1>1. /\ delivery' = delivery /\ door' = door /\ stack' = stack /\ unwound = 0 /\ unwound' = 0
      /\ content' = Handed
  BY DEF ResolveStack, PeelInv, Handed
<1>2. RightlyDeclared
  BY <1>1 DEF RightlyDeclared
<1>3. Len(stack) \in Nat /\ stack = delivery.layers /\ Handed = Inside(delivery, Arrived)[Len(delivery.layers)]
  BY <1>2, Declared
<1>4. Arrived' = Arrived
  BY <1>1 DEF Arrived
<1>5. Unwrapped(unwound)' = Inside(delivery, Arrived)[Len(delivery.layers)]
  <2>1. Len(delivery.layers) - 0 = Len(delivery.layers)
    BY <1>3
  <2> QED BY <1>1, <1>4, <2>1 DEF Unwrapped
<1> QED BY <1>1, <1>3, <1>5

LEMMA RowUnwrapsOne == PeelInv /\ UnwrapInv /\ ApplyRow => UnwrapInv'
<1> SUFFICES ASSUME PeelInv, UnwrapInv, ApplyRow, RightlyDeclared'
             PROVE  unwound' \in 0 .. Len(stack') /\ content' = Unwrapped(unwound)'
  BY DEF UnwrapInv
<1>1. /\ delivery' = delivery /\ door' = door /\ stack' = stack /\ phase = "peeling"
      /\ unwound' = unwound + 1 /\ unwound < Len(stack) /\ unwound \in Nat
  BY DEF ApplyRow, PeelInv
<1>2. RightlyDeclared
  BY <1>1 DEF RightlyDeclared
<1>3. content = Unwrapped(unwound)
  BY <1>1, <1>2 DEF UnwrapInv
<1>4. Len(stack) \in Nat /\ stack = delivery.layers /\ delivery \in Deliveries /\ Arrived \in Seq(Cells)
  BY <1>2, Declared
<1>5. PICK row \in FindTransform(stack[unwound + 1]) :
        Takes(row, content) # 0 => content' = Left(row, content)
  BY DEF ApplyRow, Left
<1>6. Takes(row, Unwrapped(unwound)) # 0 /\ Left(row, Unwrapped(unwound)) = Unwrapped(unwound + 1)
  BY <1>1, <1>4, LayerOff
<1>7. content' = Unwrapped(unwound + 1)
  BY <1>3, <1>5, <1>6
<1>8. Arrived' = Arrived
  BY <1>1 DEF Arrived
<1>9. Unwrapped(unwound)' = Unwrapped(unwound + 1)
  BY <1>1, <1>8 DEF Unwrapped
<1> QED BY <1>1, <1>4, <1>7, <1>9

LEMMA NextUnwraps == PeelInv /\ UnwrapInv /\ [Next]_vars => UnwrapInv'
<1>1. ASSUME UnwrapInv, UNCHANGED vars PROVE UnwrapInv'
  BY <1>1 DEF UnwrapInv, vars, RightlyDeclared, Unwrapped, Arrived
<1> QED BY <1>1, ResolveUnwraps, RowUnwrapsOne DEF Next

LEMMA UnwrapInvIsEnough == PeelInv /\ UnwrapInv => PeelUnwraps
<1> SUFFICES ASSUME PeelInv, UnwrapInv, Peeled, RightlyDeclared
             PROVE  content = IF stack # <<>> /\ stack[Len(stack)] # "bom" THEN Stripped(Arrived) ELSE Arrived
  BY DEF PeelUnwraps, Arrived
<1>1. content = Unwrapped(Len(stack))
  BY DEF UnwrapInv, Peeled
<1>2. /\ delivery \in Deliveries /\ Arrived \in Seq(Cells) /\ stack = delivery.layers
      /\ Len(stack) \in Nat /\ stack \in Seq(STRING)
  BY Declared DEF PeelInv
<1>3. stack # <<>> <=> Len(stack) > 0
  BY <1>2
<1>4. Inside(delivery, Arrived)[Len(stack) - Len(stack)] = Arrived
  <2>1. Len(stack) - Len(stack) = 0
    BY <1>2
  <2>2. PICK d \in Deliveries, line \in Seq(Cells) : d = delivery /\ line = Arrived
    BY <1>2
  <2>3. Inside(d, line)[0] = line
    BY InsideIs
  <2> QED BY <2>1, <2>2, <2>3
<1> QED BY <1>1, <1>2, <1>3, <1>4 DEF Unwrapped

(* A stack declared as the line was delivered gives the line back: each    *)
(* row takes the prefix its layer wrote and no more (apply_row,            *)
(* render_transport_prefix), through stage 1 or past it, and the spaces    *)
(* the innermost stamp leaves at the head go with it.                      *)
THEOREM DeclarationUnwraps == Spec => []PeelUnwraps
BY PeelInit, NextPeels, UnwrapInit, NextUnwraps, UnwrapInvIsEnough, PTL DEF Spec
=============================================================================
