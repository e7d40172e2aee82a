--------------------------- MODULE YearResolution ---------------------------
(***************************************************************************)
(* The year of a stamp that writes none (core/src/utils/time_utils.cpp).   *)
(***************************************************************************)
EXTENDS Calendar

(* make_yearless: a day that exists in some year.                          *)
Stamps ==
  {s \in [month : 1 .. 12, day : 1 .. 31, slot : 0 .. SlotsPerDay - 1] :
     s.day <= kDaysInMonth[s.month] + (IF s.month = 2 THEN 1 ELSE 0)}

(* year_month_day of an instant.                                           *)
Within(t, y) == DaysToYear(y) * SlotsPerDay <= t /\ t < DaysToYear(y + 1) * SlotsPerDay
YearOf(t) == CHOOSE y \in MinReprYear - 1 .. MaxReprYear + 1 : Within(t, y)

Instants == UNION {{At(s, y) : s \in {r \in Stamps : DayExists(r, y)}} : y \in ReprYears}

Distance(t, u) == IF t >= u THEN t - u ELSE u - t

\* yearless_in: the candidate years around the reference.
Years(s, ref) ==
  {y \in YearOf(ref) - 1 .. YearOf(ref) + 1 : y \in ReprYears /\ DayExists(s, y)}

\* Fault: the earlier year wins a tie.
CloserEarlier(s, ref, y, z) ==
  \/ Distance(At(s, y), ref) < Distance(At(s, z), ref)
  \/ Distance(At(s, y), ref) = Distance(At(s, z), ref) /\ y <= z

Closer(s, ref, y, z) ==
  \/ Distance(At(s, y), ref) < Distance(At(s, z), ref)
  \/ Distance(At(s, y), ref) = Distance(At(s, z), ref) /\ z <= y

(* resolve_yearless: the nearest candidate, the later of two equally near. *)
Nearest(s, ref) == CHOOSE y \in Years(s, ref) : \A z \in Years(s, ref) : Closer(s, ref, y, z)

Resolve(s, ref) == IF Years(s, ref) = {} THEN Absent ELSE {At(s, Nearest(s, ref))}

----------------------------------------------------------------------------
(* EventTime (canon.spi.cppm): what a strategy reads off a line.           *)

NoStamp == [kind |-> "none"]
Instant(t) == [kind |-> "instant", at |-> t]
Yearless(s) == [kind |-> "yearless", stamp |-> s]

(* resolve_event_time, against the stream's reference or its absence.      *)
ResolveEventTime(time, reference) ==
  CASE time.kind = "instant" -> {time.at}
    [] time.kind = "yearless" -> UNION {Resolve(time.stamp, ref) : ref \in reference}
    [] time.kind = "none" -> Absent
=============================================================================
