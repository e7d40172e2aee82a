------------------------------ MODULE Detection ------------------------------
(***************************************************************************)
(* One line through the format detector and the strategy it chooses: the   *)
(* shapes that candidates_for tests, the score of every built-in strategy  *)
(* and what the chosen one makes of the line.  No package's strategy is    *)
(* registered.                                                             *)
(***************************************************************************)
EXTENDS Strategies

----------------------------------------------------------------------------
(* Lines that open a brace.  What a member is called is all they tell.     *)

Members == DOMAIN MemberWidth
OpensBrace(line) == FirstIs(Skip(line), {"{"})

\* is_otel_span_document: the first key decides.
IsSpanDocument(line) == FirstIs(Skip(Tail(Skip(line))), {"spans"})

\* scan_flat_json stops at the brace that closes the object; simdjson reads the
\* whole line.
FlatObject(line) ==
  LET body == TakeUntil(Tail(Skip(line)), "}")
  IN  Has(line, {"}"}) /\ Over(body.tok, {"member", "journal", "cloud", ",", "sp"})
StructuredObject(line) ==
  LET used == {i \in DOMAIN line : line[i] # "sp"}
      last == CHOOSE i \in used : \A k \in used : k <= i
  IN  Count(line, Len(line), "\"") % 2 = 0 /\ line[last] = "}"

BraceRecord == [Fields EXCEPT !.content = <<"member">>]
JSONParse(line) ==
  When(OpensBrace(line) /\ ~IsSpanDocument(line) /\ (FlatObject(line) \/ StructuredObject(line)), BraceRecord)
CloudWatchParse(line) ==
  When(OpensBrace(line) /\ Has(line, {"cloud"}) /\ (FlatObject(line) \/ StructuredObject(line)), BraceRecord)
SystemdJournalParse(line) ==
  When(OpensBrace(line) /\ Has(line, {"journal"}) /\ StructuredObject(line), BraceRecord)

JSONConfidence(line) == IF OpensBrace(line) THEN 100 ELSE 0
CloudWatchConfidence(line) == Score(Size(line), 15, OpensBrace(line) /\ Has(line, {"cloud"}), 105)
SystemdJournalConfidence(line) == Score(Size(line), 20, OpensBrace(line) /\ Has(line, {"journal"}), 106)

----------------------------------------------------------------------------
(* The detector's tests, on the line without its leading blanks.           *)

IsoDateLed(line) == Leads(line, DateLead("-"))
IsoTimeLed(line) == Leads(line, WholeDate("-") \o <<{"T"}>>)

LooksLikeMonth(line) == Len(line) > 1 /\ line[1] \in Words /\ Width(line[1]) = 3 /\ line[2] = "sp"
LooksLikeCLF(line) ==
  /\ \A cell \in {"[", "]", "\""} : Has(line, {cell})
  /\ \E i \in DOMAIN line : StartsAt(line, i, <<"HTTP", "/">>)
LooksLikeHPC(line) ==
  /\ Leads(line, <<DigitRun, {"sp"}>>)
  /\ \E i \in DOMAIN line : StartsAt(line, i, <<"sp", "node", "-">>) \/ StartsAt(line, i, <<"sp", "unix", ".">>)
ContainsKvMarker(line) == \E i \in First(line, "=") : i > 1 /\ line[i - 1] \in KeyCell
kMinCompactTimestampLength == 18

ShapesOf(raw_line) ==
  LET line == Skip(raw_line)
      compact == Size(line) >= kMinCompactTimestampLength
      shape(name, holds) == IF holds THEN {name} ELSE {}
  IN  IF line = <<>> THEN {IF raw_line = <<>> THEN "empty" ELSE "blank"}
      ELSE shape("brace", line[1] = "{")
        \cup shape("angle", line[1] = "<")
        \cup shape("dashOrUpper", line[1] \in {"-"} \cup UpperFirst)
        \cup shape("bracketWord", Leads(line, <<{"["}, Words>>))
        \cup shape("bracketDate", Leads(line, <<{"["}, DigitRun>>) /\ Size(line) > 3 /\ Has(line, {"."}))
        \cup shape("month", LooksLikeMonth(line))
        \cup shape("slashDate", Leads(line, DateLead("/")))
        \cup shape("shortDate", Leads(line, <<{"d2"}, {"/"}, {"d2"}, {"/"}, Wider(2)>>))
        \cup shape("compactDate", compact /\ Leads(line, <<{"d8"}, {"-"}>>))
        \cup shape("monthDay", compact /\ Leads(line, <<{"d2"}, {"-"}, {"d2"}, {"sp"}>>))
        \cup shape("isoT", IsoTimeLed(line))
        \cup shape("isoDate", IsoDateLed(line) /\ ~IsoTimeLed(line))
        \cup shape("log4jStamp", ~IsoDateLed(line) /\ FindLog4jStamp(line) # {})
        \cup shape("clf", LooksLikeCLF(line))
        \cup shape("hpc", LooksLikeHPC(line))
        \cup shape("kvMarker", ContainsKvMarker(line))

----------------------------------------------------------------------------
(* The strategies, by format.                                              *)

ConfidenceOf(line) ==
  [JSON |-> JSONConfidence(line), CloudWatch |-> CloudWatchConfidence(line),
   SystemdJournal |-> SystemdJournalConfidence(line), Syslog |-> SyslogConfidence(line),
   Rfc3339Text |-> Rfc3339TextConfidence(line), CLF |-> CLFConfidence(line),
   KeyValue |-> KVConfidence(line), HealthApp |-> HealthAppConfidence(line), BGL |-> BGLConfidence(line),
   AndroidLogcat |-> AndroidLogcatConfidence(line), Proxifier |-> ProxifierConfidence(line),
   ApacheError |-> ApacheErrorConfidence(line), WindowsCBS |-> WindowsCBSConfidence(line),
   SparkHDFS |-> SparkHDFSConfidence(line), Log4j |-> Log4jConfidence(line), HPC |-> HPCConfidence(line),
   NginxError |-> NginxErrorConfidence(line), IISW3C |-> IISW3CConfidence(line),
   RFC5424 |-> RFC5424Confidence(line), RawText |-> 0]

ParseOf(format, line) ==
  CASE format = "JSON" -> JSONParse(line)
    [] format = "CloudWatch" -> CloudWatchParse(line)
    [] format = "SystemdJournal" -> SystemdJournalParse(line)
    [] format = "Syslog" -> SyslogParse(line)
    [] format = "Rfc3339Text" -> Rfc3339TextParse(line)
    [] format = "CLF" -> CLFParse(line)
    [] format = "KeyValue" -> KVParse(line)
    [] format = "HealthApp" -> HealthAppParse(line)
    [] format = "BGL" -> BGLParse(line)
    [] format = "AndroidLogcat" -> AndroidLogcatParse(line)
    [] format = "Proxifier" -> ProxifierParse(line)
    [] format = "ApacheError" -> ApacheErrorParse(line)
    [] format = "WindowsCBS" -> WindowsCBSParse(line)
    [] format = "SparkHDFS" -> SparkHDFSParse(line)
    [] format = "Log4j" -> Log4jParse(line)
    [] format = "HPC" -> HPCParse(line)
    [] format = "NginxError" -> NginxErrorParse(line)
    [] format = "IISW3C" -> IISW3CParse(line)
    [] format = "RFC5424" -> RFC5424Parse(line)
    [] format = "RawText" -> RawTextParse(line)

\* Where the trims of the syslog stamp leave the line, the memory behind it is read as the header.
ConfidencePast(line, behind) ==
  IF TrimsInLine(line) THEN ConfidenceOf(line)
  ELSE [ConfidenceOf(line) EXCEPT !.Syslog = IF HeaderIn(behind) = {} THEN 0 ELSE 85]
ParsePast(format, line, behind) ==
  IF format = "Syslog" /\ ~TrimsInLine(line) THEN SyslogRecords(HeaderIn(behind)) ELSE ParseOf(format, line)

Detector(line, shape, score) ==
  INSTANCE FormatDetector WITH
    Lines <- {line}, Shape <- [l \in {line} |-> shape], Confidence <- [l \in {line} |-> score],
    Custom <- <<>>, CustomFormat <- <<>>, MaxScore <- 106
DetectedFormat(line, score) == LET shape == ShapesOf(line) IN Detector(line, shape, score)!Detect[line]
=============================================================================
