-------------------------- MODULE FormatDetector --------------------------
(***************************************************************************)
(* Choosing the strategy that reads a line                                 *)
(* (core/src/parse/format_detector.cpp).  A line is known by what the      *)
(* detector can tell of it: the shapes candidates_for tests and the score  *)
(* each strategy gives it, in hundredths.                                  *)
(***************************************************************************)
EXTENDS Naturals, Sequences, FiniteSets

CONSTANTS
  Lines,         \* classes of line bytes, the line's ending removed
  Shape,         \* the shapes of each class
  Custom,        \* the packages' strategies, in registration order
  CustomFormat,  \* and the format of each
  Confidence,    \* the score of each class under each strategy
  MaxScore       \* bounds the scores

\* A built-in strategy is known by its format.
Builtin == {"JSON", "Syslog", "Rfc3339Text", "CLF", "KeyValue", "HealthApp", "BGL",
            "AndroidLogcat", "Proxifier", "ApacheError", "WindowsCBS", "SparkHDFS",
            "Log4j", "HPC", "NginxError", "CloudWatch", "IISW3C", "RFC5424",
            "SystemdJournal"}
Fallback == "RawText"
None == "none"
Customs == {Custom[k] : k \in DOMAIN Custom}
Strategies == Builtin \cup Customs \cup {Fallback}

ASSUME DetectorAssumption ==
  /\ Custom \in Seq(Customs)
  /\ Customs \cap (Builtin \cup {Fallback, None}) = {}
  /\ DOMAIN CustomFormat = Customs
  /\ MaxScore \in Nat
  /\ Confidence \in [Lines -> [Strategies -> 0 .. MaxScore]]

IsNoEvent(l) == Shape[l] \cap {"empty", "blank"} # {}

\* RawTextStrategy's score is a constant zero; a strategy looks for a byte that
\* is no blank before it scores.
ASSUME ScoreAssumption ==
  /\ \A l \in Lines : Confidence[l][Fallback] = 0
  /\ \A l \in Lines, s \in Strategies : IsNoEvent(l) => Confidence[l][s] = 0

FormatOf(s) == IF s \in Customs THEN CustomFormat[s] ELSE s

\* What candidates_for offers, in the order it offers it.
Offers == <<
  [shape |-> "brace",       format |-> "SystemdJournal"],
  [shape |-> "brace",       format |-> "CloudWatch"],
  [shape |-> "brace",       format |-> "JSON"],
  [shape |-> "angle",       format |-> "RFC5424"],
  [shape |-> "dashOrUpper", format |-> "BGL"],
  [shape |-> "bracketWord", format |-> "ApacheError"],
  [shape |-> "bracketDate", format |-> "Proxifier"],
  [shape |-> "month",       format |-> "Syslog"],
  [shape |-> "slashDate",   format |-> "NginxError"],
  [shape |-> "shortDate",   format |-> "SparkHDFS"],
  [shape |-> "compactDate", format |-> "HealthApp"],
  [shape |-> "monthDay",    format |-> "AndroidLogcat"],
  [shape |-> "isoT",        format |-> "Syslog"],
  [shape |-> "isoT",        format |-> "Rfc3339Text"],
  [shape |-> "isoDate",     format |-> "WindowsCBS"],
  [shape |-> "isoDate",     format |-> "IISW3C"],
  [shape |-> "isoDate",     format |-> "Log4j"],
  [shape |-> "log4jStamp",  format |-> "Log4j"],
  [shape |-> "clf",         format |-> "CLF"],
  [shape |-> "hpc",         format |-> "HPC"],
  [shape |-> "kvMarker",    format |-> "KeyValue"] >>

kMaxCandidates == 8

\* A line with nothing but blanks is offered nothing and an opening brace settles the matter.
Seen(l) ==
  CASE IsNoEvent(l) -> {}
    [] "brace" \in Shape[l] -> {"brace"}
    [] OTHER -> Shape[l]

Offered(l) == {i \in DOMAIN Offers : Offers[i].shape \in Seen(l)}

\* CandidateList::add: no format twice, and nothing past the array's end.
Fresh(l) ==
  {i \in Offered(l) : \A j \in Offered(l) : j < i => Offers[j].format # Offers[i].format}
\* Fault: the list is full too early.
EarlyCandidates(l) == {i \in Fresh(l) : Cardinality({j \in Fresh(l) : j < i}) < 2}
Candidates(l) == {i \in Fresh(l) : Cardinality({j \in Fresh(l) : j < i}) < kMaxCandidates}

\* by_format_: of several strategies of one format, the one registered last.
ByFormat(f) ==
  LET same == {k \in DOMAIN Custom : CustomFormat[Custom[k]] = f}
  IN  IF same = {} THEN f ELSE Custom[CHOOSE k \in same : \A j \in same : j <= k]

\* What detect() scores, each with its turn: the candidates, then every custom
\* strategy that was not among them.
Evaluated(l) ==
  LET offered == {[turn |-> i, strategy |-> ByFormat(Offers[i].format)] : i \in Candidates(l)}
      custom == {[turn |-> Len(Offers) + k, strategy |-> Custom[k]] : k \in DOMAIN Custom}
  IN  offered \cup {c \in custom : \A o \in offered : o.strategy # c.strategy}

Score(l, e) == Confidence[l][e.strategy]

Beats(l, e, f) ==
  \/ Score(l, e) > Score(l, f)
  \/ Score(l, e) = Score(l, f) /\ e.turn <= f.turn

\* The best score wins, the earlier turn on a tie.
Winner(l) == CHOOSE e \in Evaluated(l) : \A f \in Evaluated(l) : Beats(l, e, f)

\* detect(): a line nothing claims goes to the fallback, unless it is blank.
Detect == [l \in Lines |->
  IF \E e \in Evaluated(l) : Score(l, e) > 0 THEN Winner(l).strategy
  ELSE IF IsNoEvent(l) THEN None
  ELSE Fallback]

\* What LogParser::set_format finds: the first strategy of the format.
FirstOf(f) ==
  LET same == {k \in DOMAIN Custom : CustomFormat[Custom[k]] = f}
  IN  IF f \in Builtin THEN f
      ELSE IF same = {} THEN None
      ELSE Custom[CHOOSE k \in same : \A j \in same : k <= j]
============================================================================
