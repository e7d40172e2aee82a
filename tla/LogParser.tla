----------------------------- MODULE LogParser -----------------------------
(***************************************************************************)
(* LogParser (core/src/parse/log_parser.cpp): one stream's lines, routed   *)
(* to a strategy through the sticky cache, parsed, lifted, demoted when    *)
(* echoed, and counted.  Both doors are modelled: parse_line performs      *)
(* stage 1 (normalize) and copies the line into the arena; parse_stable    *)
(* does neither.  parse_batch is a run of parse_line.                      *)
(***************************************************************************)
EXTENDS FormatDetector

CONSTANTS
  Normalize,  \* what stage 1 makes of each class of line
  Parses,     \* the strategies whose parse() succeeds on each class
  Lifts,      \* those whose content carries a declared level row
  Echoed,     \* the classes a provenance hook claims
  Formats,    \* the arguments of set_format that are tried
  MaxLines    \* bound on the lines read

IsEmpty(l) == "empty" \in Shape[l]
NoLine == "no line"
Doors == {"line", "stable"}

ASSUME ParserAssumption ==
  /\ Normalize \in [Lines -> Lines]
  /\ \A l \in Lines : IsEmpty(l) => IsEmpty(Normalize[l])
  /\ Parses \in [Lines -> SUBSET Strategies]
  /\ Lifts \in [Lines -> SUBSET Strategies]
  /\ Echoed \subseteq Lines
  /\ NoLine \notin Lines
  /\ {"auto", "latch"} \cap Strategies = {}
  /\ MaxLines \in Nat

VARIABLES
  active, sticky, autoDetect,  \* active_strategy_, sticky_strategy_, auto_detect_
  lastFormat,                  \* last_format_
  parsed, failed, skipped,     \* the counters
  stored,                      \* lines copied into the arena
  outcome                      \* what the last line came to

vars == <<active, sticky, autoDetect, lastFormat, parsed, failed, skipped, stored, outcome>>
routing == <<active, sticky, autoDetect>>

\* What the caller has declared: detection, detection of the first line only,
\* or one strategy.
Mode ==
  IF autoDetect THEN "auto" ELSE IF active = None THEN "latch" ELSE active

TypeOK ==
  /\ active \in Strategies \cup {None}
  /\ sticky \in Strategies \cup {None}
  /\ autoDetect \in BOOLEAN
  /\ parsed \in Nat /\ failed \in Nat /\ skipped \in Nat /\ stored \in Nat
  /\ outcome \in [line : Lines \cup {NoLine}, strategy : Strategies \cup {None},
                  mode : {"auto", "latch"} \cup Strategies,
                  counted : {"nothing", "parsed", "failed", "skipped"},
                  level : {"absent", "strategy", "lifted"}, echoed : BOOLEAN]

NoEvent(l, s, counted) ==
  [line |-> l, strategy |-> s, mode |-> Mode, counted |-> counted,
   level |-> "absent", echoed |-> FALSE]

Init ==
  /\ active = None /\ sticky = None /\ autoDetect = TRUE
  /\ lastFormat = "Unknown"
  /\ parsed = 0 /\ failed = 0 /\ skipped = 0 /\ stored = 0
  /\ outcome = [line |-> NoLine, strategy |-> None, mode |-> "auto", counted |-> "nothing",
                level |-> "absent", echoed |-> FALSE]

----------------------------------------------------------------------------
(* Routing.                                                                *)

\* Fault: the sticky strategy is not asked again.
StickyHoldsAlways(l) == autoDetect /\ sticky # None

StickyHolds(l) == autoDetect /\ sticky # None /\ Confidence[l][sticky] > 0

SelectStrategy(l) == IF StickyHolds(l) THEN sticky ELSE Detect[l]

StrategyFor(l) == IF autoDetect \/ active = None THEN SelectStrategy(l) ELSE active

\* A strategy found by detection is kept; a pinned or sticky one keeps itself.
Keep(s) ==
  /\ sticky' = IF autoDetect /\ s # None THEN s ELSE sticky
  /\ active' = IF autoDetect \/ s = None THEN active ELSE s
  /\ UNCHANGED autoDetect

----------------------------------------------------------------------------
(* The caller's declarations.                                              *)

SetFormat(f) ==
  /\ active' = FirstOf(f)
  /\ sticky' = None
  /\ autoDetect' = (FirstOf(f) = None)
  /\ UNCHANGED <<lastFormat, parsed, failed, skipped, stored, outcome>>

SetAutoDetect(enabled) ==
  /\ autoDetect' = enabled
  /\ active' = IF enabled THEN None ELSE active
  /\ sticky' = IF enabled THEN None ELSE sticky
  /\ UNCHANGED <<lastFormat, parsed, failed, skipped, stored, outcome>>

----------------------------------------------------------------------------
(* A line.                                                                 *)

Bytes(door, l) == IF door = "line" THEN Normalize[l] ELSE l

\* parse_line copies a line into the arena once a strategy is known.
Copy(door, s) == stored' = stored + (IF door = "line" /\ s # None THEN 1 ELSE 0)

\* An empty line, or one that was all escape bytes.
SkipEmpty(door, l) ==
  /\ IsEmpty(Bytes(door, l))
  /\ skipped' = skipped + 1
  /\ outcome' = NoEvent(Bytes(door, l), None, "skipped")
  /\ UNCHANGED <<routing, lastFormat, parsed, failed, stored>>

\* Fault: a line no strategy is offered for counts as a failure.
SkipBlankAsFailure(door, l) ==
  LET b == Bytes(door, l)
  IN  /\ ~IsEmpty(b)
      /\ StrategyFor(b) = None
      /\ Keep(None)
      /\ Copy(door, None)
      /\ failed' = failed + 1
      /\ outcome' = NoEvent(b, None, "failed")
      /\ UNCHANGED <<lastFormat, parsed, skipped>>

\* No strategy: the line is blank.
SkipBlank(door, l) ==
  LET b == Bytes(door, l)
  IN  /\ ~IsEmpty(b)
      /\ StrategyFor(b) = None
      /\ Keep(None)
      /\ Copy(door, None)
      /\ skipped' = skipped + 1
      /\ outcome' = NoEvent(b, None, "skipped")
      /\ UNCHANGED <<lastFormat, parsed, failed>>

\* apply_level_lift, then the demotion of a line echoed by the run's own script.
\* The hooks read the bytes stage 1 has not touched.
Level(l, b, s) ==
  IF l \in Echoed THEN "absent" ELSE IF s \in Lifts[b] THEN "lifted" ELSE "strategy"

Succeed(door, l) ==
  LET b == Bytes(door, l)
      s == StrategyFor(b)
  IN  /\ ~IsEmpty(b)
      /\ s # None
      /\ s \in Parses[b]
      /\ Keep(s)
      /\ Copy(door, s)
      /\ parsed' = parsed + 1
      /\ lastFormat' = FormatOf(s)
      /\ outcome' = [line |-> b, strategy |-> s, mode |-> Mode, counted |-> "parsed",
                     level |-> Level(l, b, s), echoed |-> l \in Echoed]
      /\ UNCHANGED <<failed, skipped>>

Decline(door, l) ==
  LET b == Bytes(door, l)
      s == StrategyFor(b)
  IN  /\ ~IsEmpty(b)
      /\ s # None
      /\ s \notin Parses[b]
      /\ Keep(s)
      /\ Copy(door, s)
      /\ failed' = failed + 1
      /\ outcome' = NoEvent(b, s, "failed")
      /\ UNCHANGED <<lastFormat, parsed, skipped>>

ReadLine(door, l) ==
  /\ parsed + failed + skipped < MaxLines
  /\ \/ SkipEmpty(door, l)
     \/ SkipBlank(door, l)
     \/ Succeed(door, l)
     \/ Decline(door, l)

Next ==
  \/ \E f \in Formats : SetFormat(f)
  \/ \E enabled \in BOOLEAN : SetAutoDetect(enabled)
  \/ \E door \in Doors, l \in Lines : ReadLine(door, l)

Spec == Init /\ [][Next]_vars

----------------------------------------------------------------------------
(* The sticky cache is invisible: what the parser does with its lines is   *)
(* what LineRouting does, line by line and without memory ("a template is  *)
(* a pure function of one line's own tokens", masking.md:13).  It takes    *)
(* claims that exclude one another, the "DISJOINT" of                      *)
(* canon.detail.strategy.cppm:280: a strategy scores only on lines that    *)
(* detection would give it.                                                *)
ExclusiveClaims ==
  \A l \in Lines, s \in Strategies : Confidence[l][s] > 0 => Detect[l] = s

PerLine == INSTANCE LineRouting WITH
  Empty <- {l \in Lines : IsEmpty(l)},
  mode <- Mode, routed <- [line |-> outcome.line, strategy |-> outcome.strategy]

RoutesPerLine == PerLine!Spec

(* Under detection, exactly the lines that carry no event (empty, only     *)
(* escapes, blank) are counted as skipped; none of them dilutes the        *)
(* failure rate (log_parser.cpp:135-141).                                  *)
SkipsExactlyNoEvents ==
  outcome.mode = "auto" /\ outcome.line # NoLine =>
    (outcome.counted = "skipped" <=> IsNoEvent(outcome.line))

(* The fallback gets only lines that nothing else claims: latched as       *)
(* sticky, it never captures a structured line (raw_text.cpp:41-50).       *)
FallbackOnlyUnclaimed ==
  outcome.mode = "auto" /\ outcome.strategy = Fallback =>
    \A e \in Evaluated(outcome.line) : Score(outcome.line, e) = 0

(* Under detection no pinned strategy survives: detected_format() is       *)
(* Unknown (canon.detail.parse.cppm:132), and a later set_auto_detect(false)*)
(* does not bring an old pin back.                                         *)
DetectionForgetsThePin == autoDetect => active = None

(* The demotion of an echoed line outranks the declared level lift         *)
(* (log_parser.cpp:42): a failure word in echoed script alerts nobody.     *)
EchoOutranksLift == outcome.echoed => outcome.level = "absent"

(* A line that no strategy takes costs the arena nothing                   *)
(* (log_parser.cpp:149), whatever mix of doors is used.                    *)
OnlyRoutedLinesAreStored == stored <= parsed + failed

(* routed_format() moves only with a parsed line, to the format of the     *)
(* strategy that parsed it: CanonicalEvent.format never names a strategy   *)
(* that declined an earlier line.                                          *)
RoutedFormatNeedsAnEvent ==
  [][lastFormat' # lastFormat =>
       outcome'.counted = "parsed" /\ lastFormat' = FormatOf(outcome'.strategy)]_vars

(* README.md:37 as a state predicate: under detection a line goes where it *)
(* would go were it the stream's first.                                    *)
RoutedAsIfFirst ==
  outcome.mode = "auto" /\ outcome.line # NoLine /\ ~IsEmpty(outcome.line) =>
    outcome.strategy = Detect[outcome.line]
============================================================================
