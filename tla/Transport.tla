------------------------------ MODULE Transport ------------------------------
(***************************************************************************)
(* Declared transport (core/src/transport/transport.cpp): the prefixes     *)
(* that delivery layers put before a line, peeled off by the stack a       *)
(* stream declares, and the one prefix canon writes itself.  A line is a   *)
(* sequence of cells; a stamp is one cell, whatever bytes it has.          *)
(***************************************************************************)
EXTENDS Calendar

CONSTANTS
  TicksPerSlot,  \* grain of Timestamp, in the slots that a stamp is read at
  Stacks,        \* the sequences of names that are declared
  Deliveries     \* [layers, instants, colour, payload]: what is on a line, outermost layer first

(* Cells.  A stamp has its width in bytes and the fields it writes.        *)
Dates == [year : Int, month : Int, day : Int, slot : Int]
Cells == [kind : {"text", "space", "esc", "cr", "mark", "[", "]", "stamp"}, width : Nat, date : Dates]

Layers == {"api", "bracket", "bom"}

ASSUME TransportAssumption ==
  /\ TicksPerSlot \in Nat \ {0}
  /\ \A s \in Stacks : s \in Seq(STRING)
  /\ \A d \in Deliveries :
       /\ d.layers \in Seq(Layers)
       /\ d.instants \in Seq(Int) /\ Len(d.instants) = Len(d.layers)
       /\ d.colour \in BOOLEAN
       /\ d.payload \in Seq(Cells)

(* kTransportCatalogRows: a name, its algorithm and its parameters.        *)
kTransportCatalogRows == {
  [name |-> "api", kind |-> "stamp", width |-> 28, strips |-> TRUE],
  [name |-> "bracket", kind |-> "bracketed", width |-> 0, strips |-> TRUE],
  [name |-> "bom", kind |-> "mark", width |-> 0, strips |-> FALSE]}

FindTransform(name) == {r \in kTransportCatalogRows : r.name = name}

VARIABLES
  delivery,   \* the line's own history
  door,       \* "normalized" (peel) or "raw" (peel_raw)
  stack,      \* the declared names
  phase,      \* "declared", "peeling" or "terminated"
  unwound,    \* rows applied so far
  content, observed   \* RawPeeledLine

vars == <<delivery, door, stack, phase, unwound, content, observed>>

----------------------------------------------------------------------------
NoDate == [year |-> 0, month |-> 0, day |-> 0, slot |-> 0]
Cell(kind) == [kind |-> kind, width |-> 1, date |-> NoDate]
StampCell(width, date) == [kind |-> "stamp", width |-> width, date |-> date]

(* parse_iso8601: the grammar of a stamp does not know the calendar, its   *)
(* reading does, and reads whole slots.                                    *)
Read(date) ==
  IF /\ date.year \in ReprYears
     /\ date.month \in 1 .. 12 /\ date.day >= 1 /\ DayExists(date, date.year)
     /\ date.slot >= 0 /\ date.slot < SlotsPerDay
  THEN {At(date, date.year)}
  ELSE Absent

(* normalize: the run of CRs that ends the raw line, then every escape.    *)
WithoutLineEnding(line) ==
  SubSeq(line, 1, Len(line) - Cardinality({i \in DOMAIN line : \A j \in i .. Len(line) : line[j].kind = "cr"}))

\* What is left of each length of the line.
WithoutEscapes(line) ==
  LET kept[n \in 0 .. Len(line)] ==
        IF n = 0 THEN <<>>
        ELSE IF line[n].kind = "esc" THEN kept[n - 1] ELSE Append(kept[n - 1], line[n])
  IN  kept

Normalize(line) ==
  LET ended == WithoutLineEnding(line) IN WithoutEscapes(ended)[Len(ended)]

----------------------------------------------------------------------------
(* The writer's side.                                                      *)

TicksPerDay == SlotsPerDay * TicksPerSlot

\* Fault: division truncates, and nothing corrects it before 1970.
DayTruncated(t) == IF t >= 0 THEN t \div TicksPerDay ELSE -((-t) \div TicksPerDay)

DayOf(t) == t \div TicksPerDay

CivilFromDays(days) ==
  LET shifted == days + 719468
      dayOfEra == shifted % 146097
      yearOfEra == (dayOfEra - dayOfEra \div 1460 + dayOfEra \div 36524 - dayOfEra \div 146096) \div 365
      dayOfYear == dayOfEra - (365 * yearOfEra + yearOfEra \div 4 - yearOfEra \div 100)
      marchMonth == (5 * dayOfYear + 2) \div 153
      month == IF marchMonth < 10 THEN marchMonth + 3 ELSE marchMonth - 9
  IN  [year |-> yearOfEra + (shifted \div 146097) * 400 + (IF month <= 2 THEN 1 ELSE 0),
       month |-> month,
       day |-> dayOfYear - (153 * marchMonth + 2) \div 5 + 1]

\* The fields that name an instant; the ticks a stamp also writes are never read.
DateOf(t) ==
  LET date == CivilFromDays(DayOf(t))
  IN  [year |-> date.year, month |-> date.month, day |-> date.day,
       slot |-> (t - DayOf(t) * TicksPerDay) \div TicksPerSlot]

(* render_transport_prefix, and the platform's stamp, which has no writer  *)
(* in canon: both are followed by a space.                                 *)
Prefix(layer, t) ==
  CASE layer = "bracket" -> <<Cell("["), StampCell(24, DateOf(t)), Cell("]"), Cell("space")>>
    [] layer = "api" -> <<StampCell(28, DateOf(t)), Cell("space")>>
    [] layer = "bom" -> <<Cell("mark")>>

\* The line inside each number of d's layers, counted from the innermost.
Inside(d, line) ==
  LET inside[k \in 0 .. Len(d.layers)] ==
        IF k = 0 THEN line
        ELSE LET i == Len(d.layers) - k + 1
             IN  Prefix(d.layers[i], d.instants[i]) \o inside[k - 1]
  IN  inside

LineOf(d) ==
  (IF d.colour THEN <<Cell("esc")>> ELSE <<>>) \o Inside(d, d.payload)[Len(d.layers)]

----------------------------------------------------------------------------
(* The reader's side.                                                      *)

IsSpace(cell) == cell.kind = "space"

\* What follows the spaces at the head.
Stripped(line) ==
  SubSeq(line, 1 + Cardinality({i \in DOMAIN line : \A j \in 1 .. i : IsSpace(line[j])}), Len(line))

Starts(line, kinds) == Len(kinds) <= Len(line) /\ \A i \in DOMAIN kinds : line[i].kind = kinds[i]

\* Fault: the width that is declared is trusted.
TakesAnyWidth(row, line) ==
  CASE row.kind = "stamp" -> IF Starts(line, <<"stamp">>) THEN 1 ELSE 0
    [] row.kind = "bracketed" -> IF Starts(line, <<"[", "stamp", "]">>) THEN 3 ELSE 0
    [] row.kind = "mark" -> IF Starts(line, <<"mark">>) THEN 1 ELSE 0

\* Fault: every mark at the head goes.
TakesEveryMark(row, line) ==
  CASE row.kind = "stamp" -> IF Starts(line, <<"stamp">>) /\ line[1].width = row.width THEN 1 ELSE 0
    [] row.kind = "bracketed" -> IF Starts(line, <<"[", "stamp", "]">>) THEN 3 ELSE 0
    [] row.kind = "mark" -> Cardinality({i \in DOMAIN line : \A j \in 1 .. i : line[j].kind = "mark"})

\* The cells a row takes off the head: its declaration is a claim, checked on every line.
Takes(row, line) ==
  CASE row.kind = "stamp" -> IF Starts(line, <<"stamp">>) /\ line[1].width = row.width THEN 1 ELSE 0
    [] row.kind = "bracketed" -> IF Starts(line, <<"[", "stamp", "]">>) THEN 3 ELSE 0
    [] row.kind = "mark" -> IF Starts(line, <<"mark">>) THEN 1 ELSE 0

\* Fault: a stamp that cannot be read leaves the time of the stamp before it.
ObservedIfRead(row, line) ==
  LET stamp == IF row.kind = "stamp" THEN line[1] ELSE line[2]
  IN  IF row.kind = "mark" \/ Read(stamp.date) = Absent THEN observed ELSE Read(stamp.date)

Observed(row, line) ==
  LET stamp == IF row.kind = "stamp" THEN line[1] ELSE line[2]
  IN  IF row.kind = "mark" THEN observed ELSE Read(stamp.date)

Init ==
  /\ delivery \in Deliveries
  /\ door \in {"normalized", "raw"}
  /\ stack \in Stacks
  /\ phase = "declared"
  /\ unwound = 0
  /\ content = <<>> /\ observed = Absent

(* resolve_transport_stack, once per stream, before the first line.        *)
ResolveStack ==
  /\ phase = "declared"
  /\ IF \E i \in DOMAIN stack : FindTransform(stack[i]) = {}
     THEN phase' = "terminated" /\ UNCHANGED content
     ELSE /\ phase' = "peeling"
          /\ content' = IF door = "normalized" THEN Normalize(LineOf(delivery)) ELSE LineOf(delivery)
  /\ UNCHANGED <<delivery, door, stack, unwound, observed>>

(* apply_row, outside in, in declaration order.                            *)
ApplyRow ==
  /\ phase = "peeling"
  /\ unwound < Len(stack)
  /\ unwound' = unwound + 1
  /\ \E row \in FindTransform(stack[unwound + 1]) :
       LET taken == Takes(row, content)
           rest == SubSeq(content, taken + 1, Len(content))
       IN  IF taken = 0
           THEN UNCHANGED <<content, observed>>
           ELSE /\ content' = IF row.strips THEN Stripped(rest) ELSE rest
                /\ observed' = Observed(row, content)
  /\ UNCHANGED <<delivery, door, stack, phase>>

Next == ResolveStack \/ ApplyRow

Spec == Init /\ [][Next]_vars

----------------------------------------------------------------------------
Peeled == phase = "peeling" /\ unwound = Len(stack)

Handed == IF door = "normalized" THEN Normalize(LineOf(delivery)) ELSE LineOf(delivery)
Removed == SubSeq(Handed, 1, Len(Handed) - Len(content))
RemovedOf(kind) == {i \in DOMAIN Removed : Removed[i].kind = kind}

\* The declaration tells how the line was delivered, and stage 1 has run where it must.
RightlyDeclared == stack = delivery.layers /\ (delivery.colour => door = "normalized")

(* "peeling the rendered prefix off a line returns that line whitespace-   *)
(* stripped" (canon.transport.cppm:204), for a whole stack: a declaration  *)
(* in the order of the layers gives back what was delivered, and its       *)
(* spaces are stripped exactly when the innermost layer is a stamp.        *)
PeelUnwraps ==
  Peeled /\ RightlyDeclared =>
    LET payload == IF door = "normalized" THEN Normalize(delivery.payload) ELSE delivery.payload
    IN  content = IF stack # <<>> /\ stack[Len(stack)] # "bom" THEN Stripped(payload) ELSE payload

(* A wrong declaration takes nothing a row did not claim: no text, one     *)
(* mark a mark row ("removed once and never in a loop, a second mark is    *)
(* content", transport.cpp:93), a bare stamp only at the declared width,   *)
(* no bracket but around a stamp.                                          *)
OnlyClaimedIsRemoved ==
  phase = "peeling" =>
    LET declaredOf(name) == {i \in 1 .. unwound : stack[i] = name}
    IN  /\ RemovedOf("text") = {} /\ RemovedOf("esc") = {} /\ RemovedOf("cr") = {}
        /\ Cardinality(RemovedOf("mark")) <= Cardinality(declaredOf("bom"))
        /\ Cardinality(RemovedOf("[")) <= Cardinality(declaredOf("bracket"))
        /\ \A i \in RemovedOf("stamp") :
             Removed[i].width = 28 \/ (i > 1 /\ Removed[i - 1].kind = "[" /\ Removed[i + 1].kind = "]")

(* The observation time is that of the last stamp removed, "present only   *)
(* when ... the line actually carried a parseable stamp" (canon.transport. *)
(* cppm:275): an inner stamp that does not parse leaves none behind.       *)
TimeOfInnermostStamp ==
  phase = "peeling" =>
    observed = UNION {Read(Removed[i].date) : i \in {j \in RemovedOf("stamp") :
                                                       \A k \in RemovedOf("stamp") : k <= j}}

(* "parsing the rendered interior equals the stamp floored to seconds"     *)
(* (canon.transport.cppm:202), in every year the parser represents: two    *)
(* calendars written apart, one from days to fields and one from fields to *)
(* days, undo each other on both sides of 1970.                            *)
RenderedReadsBack ==
  \A i \in DOMAIN delivery.instants :
    LET t == delivery.instants[i]
    IN  DateOf(t).year \in ReprYears => Read(DateOf(t)) = {t \div TicksPerSlot}
=============================================================================
