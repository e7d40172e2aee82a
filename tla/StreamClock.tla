---------------------------- MODULE StreamClock ----------------------------
(***************************************************************************)
(* The event times of one stream (tokenizer_engine.cpp:76-91) against the  *)
(* clock they were written from.  Each line is written at some reading of  *)
(* a clock that moves either way between lines, and carries the reading    *)
(* with its year, without it, or not at all.                               *)
(***************************************************************************)
EXTENDS YearResolution

CONSTANTS
  Start,    \* the readings a stream may open at
  Moves,    \* how far the clock moves from one line to the next
  MaxLines  \* bound on the lines of a run

VARIABLES
  reference,  \* year_reference
  time,       \* the last event's timestamp
  carried,    \* the stamp the last line carried
  clock,      \* ghost: the reading the last line was written at
  last,       \* ghost: the reading at the reference's line
  anchored,   \* ghost: has the context seen a year?
  dense,      \* ghost: since then, was every stamped line within half a year of the one before?
  lines       \* lines read

clockVars == <<reference, time, carried, clock, last, anchored, dense, lines>>

ASSUME ClockAssumption ==
  /\ Start \subseteq Instants
  /\ Moves \subseteq Int
  /\ MaxLines \in Nat

(* Less than half a year apart, or half a year later to the slot: a year   *)
(* is the shortest distance between two years' instants of one stamp.      *)
Near(t, u) ==
  \/ 2 * Distance(t, u) < 365 * SlotsPerDay
  \/ 2 * (t - u) = 365 * SlotsPerDay

TypeOK ==
  /\ reference \subseteq Instants /\ Cardinality(reference) <= 1
  /\ time \subseteq reference
  /\ carried \in {"none", "instant", "yearless"}
  /\ clock \in Instants
  /\ last \in Instants
  /\ anchored \in BOOLEAN
  /\ dense \in BOOLEAN
  /\ lines \in Nat

InitClock ==
  /\ reference = Absent
  /\ time = Absent
  /\ carried = "none"
  /\ clock \in Start
  /\ last = clock
  /\ anchored = FALSE
  /\ dense = FALSE
  /\ lines = 0

(* The stamp of an instant: the inverse of At.                             *)
StampOf(t) == LET y == YearOf(t) IN CHOOSE s \in Stamps : At(s, y) = t /\ DayExists(s, y)

Written(t, k) ==
  CASE k = "instant" -> Instant(t)
    [] k = "yearless" -> Yearless(StampOf(t))
    [] OTHER -> NoStamp

Remember(resolved) == reference' = IF resolved = Absent THEN reference ELSE resolved

(* A line written at reading t with stamp k becomes an event.              *)
ReadLine(t, k) ==
  LET resolved == ResolveEventTime(Written(t, k), reference)
  IN  /\ lines < MaxLines
      /\ t \in Instants
      /\ time' = resolved
      /\ Remember(resolved)
      /\ carried' = k
      /\ clock' = t
      /\ last' = IF resolved # Absent THEN t ELSE last
      /\ anchored' = (anchored \/ k = "instant")
      /\ dense' = (k = "instant" \/ (dense /\ (k = "yearless" => Near(t, last))))
      /\ lines' = lines + 1

(* declare_context: the stream's reference is forgotten.                   *)
DeclareContext ==
  /\ reference' = Absent
  /\ anchored' = FALSE
  /\ dense' = FALSE
  /\ time' = Absent
  /\ carried' = "none"
  /\ UNCHANGED <<clock, last, lines>>

NextClock ==
  \/ \E move \in Moves, k \in {"none", "instant", "yearless"} : ReadLine(clock + move, k)
  \/ DeclareContext

SpecClock == InitClock /\ [][NextClock]_clockVars

----------------------------------------------------------------------------
(* "a chain crosses New Year with no new anchor" (formats.md:96): after    *)
(* one year has been read, every event time is the reading its line was    *)
(* written at, as long as consecutive stamped lines lie within half a year   *)
(* of each other, in either order, however far the stream has come.        *)
TrueWhileDense == dense => time \subseteq {clock}

(* While dense, every stamped line does get a time, a Feb 29 included.     *)
StampedIsTimed == dense /\ carried = "yearless" => time # Absent

(* "canon never writes a year it did not read": without a year read in     *)
(* this context no event has a time, whatever the context before it read.  *)
NoYearInvented == ~anchored => time = Absent /\ reference = Absent
=============================================================================
