------------------------------ MODULE Calendar ------------------------------
(***************************************************************************)
(* The UTC calendar (utc_mktime, core/src/utils/time_utils.cpp).  An       *)
(* instant is a count of slots since 1970-01-01T00:00Z, a slot being the   *)
(* finest grain a stamp is read at.  An optional instant is the set that   *)
(* holds it, empty when it is absent.                                      *)
(***************************************************************************)
EXTENDS Integers, Sequences, FiniteSets

CONSTANTS
  SlotsPerDay,               \* grain of the clock
  MinReprYear, MaxReprYear   \* kMinReprYear, kMaxReprYear

ASSUME CalendarAssumption ==
  /\ SlotsPerDay \in Nat \ {0}
  /\ MinReprYear \in Nat \ {0, 1}
  /\ MaxReprYear \in Nat
  /\ MinReprYear <= MaxReprYear

ReprYears == MinReprYear .. MaxReprYear
Absent == {}

Leap(y) == (y % 4 = 0 /\ y % 100 # 0) \/ y % 400 = 0

kDaysInMonth == <<31, 28, 31, 30, 31, 30, 31, 31, 30, 31, 30, 31>>
kMonthOffset == <<0, 31, 59, 90, 120, 151, 181, 212, 243, 273, 304, 334>>

\* The day February gains in a leap year, as its length and as what follows it.
LeapDay(month, y) == IF month = 2 /\ Leap(y) THEN 1 ELSE 0
LeapShift(month, y) == IF month > 2 /\ Leap(y) THEN 1 ELSE 0

DaysToYear(y) ==
  365 * (y - 1970) + ((y - 1) \div 4 - 492) - ((y - 1) \div 100 - 19) + ((y - 1) \div 400 - 4)

(* utc_mktime: the instant of a stamp in a year that has its day.          *)
DayExists(s, y) == s.day <= kDaysInMonth[s.month] + LeapDay(s.month, y)

At(s, y) ==
  (DaysToYear(y) + kMonthOffset[s.month] + LeapShift(s.month, y) + s.day - 1) * SlotsPerDay + s.slot
=============================================================================
