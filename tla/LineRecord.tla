----------------------------- MODULE LineRecord -----------------------------
(***************************************************************************)
(* The record of one line: the detector chooses the strategy               *)
(* (core/src/parse/format_detector.cpp) and the strategy reads the record  *)
(* (core/src/strategy).  A JSON object is read by its members, and an      *)
(* export of spans is unpacked first.  A line may also be the name of an   *)
(* intent, of which the identity is taken (Intent).                        *)
(***************************************************************************)
EXTENDS Intent

CONSTANTS
  TextLines,                          \* lines of the text formats
  Memories,                           \* what may stand in memory behind a line
  Objects,                            \* JSON objects
  Exports,                            \* the members of documents of spans
  Stamps, LevelNames, Nanos,          \* what the texts of their members are
  IntentNames, Introducers, RunSets   \* names of intents, and what they declare

VARIABLES
  line,     \* a line of cells, an object, an export, or none
  scores,   \* what each strategy gives it
  format,   \* the strategy detected
  record    \* what it made of the line: one record, or none; a record for each span of an export

D == INSTANCE Detection
J == INSTANCE JsonRecord
U == INSTANCE SpanUnpack

IsSequence(t) == t \in Seq({t[i] : i \in DOMAIN t})

\* An object is a sequence of members, and a string is its text and whether its bytes hold an escape.
IsObject(o) ==
  /\ IsSequence(o)
  /\ \A i \in DOMAIN o :
       /\ o[i] = J!Member(o[i].key, o[i].value) /\ IsSequence(o[i].key)
       /\ o[i].value.kind = "string" => o[i].value = [kind |-> "string", text |-> o[i].value.text, escaped |-> o[i].value.escaped]
ASSUME TextLinesAssumption == \A t \in TextLines : IsSequence(t)
ASSUME MemoriesAssumption == Memories # {} /\ \A m \in Memories : IsSequence(m)
ASSUME ObjectsAssumption == \A o \in Objects : IsObject(o)

\* A name is a text, and so are an introducer and the markers and the value of a declared run.
ASSUME NamesAssumption ==
  /\ \A n \in IntentNames \cup Introducers : IsSequence(n)
  /\ \A declared \in RunSets : \A run \in declared :
       IsSequence(run.markers) /\ \A k \in DOMAIN run.markers : IsSequence(run.markers[k])

recordVars == <<line, scores, format, record>>

NoLine == [kind |-> "none"]
NoScores == <<>>
Undetected == "undetected"
Unread == {NoLine}

LinesRead ==
  {[kind |-> "text", text |-> t] : t \in TextLines}
  \cup {[kind |-> "object", members |-> o] : o \in Objects}
  \cup {[kind |-> "export", members |-> e] : e \in Exports}
  \cup {[kind |-> "name", text |-> n] : n \in IntentNames}

InitUnread == scores = NoScores /\ format = Undetected /\ record = Unread
InitRecord == line \in LinesRead /\ InitUnread

\* A line is scored in its caller's buffer or in that of its cleaned copy, and parsed in the arena: where
\* a strategy reads past the line, each finds a memory of its own.
DetectText ==
  /\ line.kind = "text" /\ format = Undetected
  /\ \E behind \in Memories : scores' = D!ConfidencePast(line.text, behind)
  /\ format' = D!DetectedFormat(line.text, scores')
  /\ UNCHANGED <<line, record>>

ParseText ==
  /\ line.kind = "text" /\ format \notin {Undetected, "none"} /\ record = Unread
  /\ \E behind \in Memories : record' = D!ParsePast(format, line.text, behind)
  /\ UNCHANGED <<line, scores, format>>

ReadObject ==
  /\ line.kind = "object" /\ format = Undetected
  /\ format' = J!ObjectFormat(line.members)
  /\ record' = J!ObjectRecord(line.members)
  /\ UNCHANGED <<line, scores>>

\* A host that holds the whole document unpacks it, and gives the tokenizer one span after another.
ReadExport ==
  /\ line.kind = "export" /\ format = Undetected /\ J!Quotes(line.members, "resourceSpans")
  /\ format' = "export"
  /\ record' = UNION {J!ObjectRecord(span) : span \in ToSet(U!UnpackOtelSpans(line.members))}
  /\ UNCHANGED <<line, scores>>

ReadRecord == DetectText \/ ParseText \/ ReadObject \/ ReadExport

SpecRecord == InitRecord /\ [][ReadRecord]_recordVars

----------------------------------------------------------------------------
(* The claims.  Everything is said of a line that has just been scored.    *)

Scored == line.kind = "text" /\ format # Undetected /\ record = Unread
Claims(f) == scores[f] > 0
Claimed == {f \in DOMAIN scores : Claims(f)}

\* Claims that the gates of candidates_for do not let through; they read the line without its leading blanks.
NeverOffered(text) ==
  LET led == D!Skip(text)
      gate(f, holds) == IF holds THEN {} ELSE {f}
  IN  gate("SparkHDFS", D!IsSparkPrefix(led)) \cup gate("HPC", D!LooksLikeHPC(led)) \cup gate("CLF", D!LooksLikeCLF(led))
        \cup gate("Syslog", D!IsBsdSyslogPrefix(led) => D!LooksLikeMonth(led)) \cup gate("Log4j", ~D!IsoTimeLed(led))

(* The shortlist costs nothing: whatever shapes a line has together, eight *)
(* candidates are enough, and the strategy detected is one of the best of  *)
(* all those that claim the line, the claims that no gate lets through     *)
(* aside; only a line that none of them claims is raw text.                *)
ShortlistLosesNothing ==
  Scored =>
    \A f \in Claimed \ NeverOffered(line.text) : format # "none" /\ scores[f] <= scores[format]

\* The strategies whose claim and whose parse make one promise of a line.
Committed == {"Syslog", "Rfc3339Text", "CLF", "HealthApp", "BGL", "Proxifier", "ApacheError", "SparkHDFS",
              "HPC", "NginxError", "RFC5424"}

(* A claim is a commitment: a strategy that scores a line, and is asked    *)
(* for it, reads a record, whatever part of the line the claim looks at    *)
(* and whatever part the parse.  The syslog claim is left out where the    *)
(* trims of its stamp leave the line (TrimsInRange): it is read off the    *)
(* memory behind the line then, and the parse finds another memory there.  *)
ClaimIsCommitment ==
  Scored =>
    \A f \in Committed \cap Claimed :
      (f = "Syslog" => D!TrimsInLine(line.text)) => D!ParseOf(f, line.text) # {}

(* "the prefix predicate already proved the walk lands a full time field   *)
(* inside the line", "so the two trims below are in range by construction" *)
(* (core/src/strategy/syslog.cpp:46): no line is claimed for syslog on a   *)
(* header that stands behind it.                                           *)
TrimsInRange == Scored /\ Claims("Syslog") => D!TrimsInLine(line.text)

(* "non-zero only if parse() is structurally committed to succeeding on    *)
(* that line" (core/api/canon.spi.cppm, IFormatStrategy::confidence).      *)
EveryClaimParses == Scored => \A f \in Claimed : D!ParseOf(f, line.text) # {}

\* The line with eight more words behind it, more than any layout has seats.
Extra == [k \in 1 .. 16 |-> IF k % 2 = 1 THEN "sp" ELSE "unix"]

ContentEndsWith(text, cell, claims) ==
  \A f \in DOMAIN claims \ {"CLF", "KeyValue", "JSON", "CloudWatch", "SystemdJournal"} :
    claims[f] > 0 => \A r \in D!ParseOf(f, text) : r.content # <<>> /\ r.content[Len(r.content)] = cell

(* A content is a total projection: whatever header a strategy recognises, *)
(* the words behind it reach the content, never a field that takes the     *)
(* rest of the line for want of its terminator.                            *)
MessageReachesContent ==
  Scored => ContentEndsWith(line.text \o Extra, "unix", D!ConfidenceOf(line.text \o Extra))

----------------------------------------------------------------------------
(* The objects.                                                            *)

ObjectRead == line.kind = "object" /\ record # Unread

(* Which of the two readers a line takes is invisible: an escape in the    *)
(* bytes of any member moves no role, ordinal, identity or time.  Said of  *)
(* texts that are no name a probe of the raw bytes looks for.              *)
ReaderIsInvisible ==
  ObjectRead => \A o \in J!EscapedForms(line.members) : J!ObjectRecord(o) = record

(* A dotted key and a nested one are two spellings of one document: they   *)
(* are read alike, and neither is read past one level.  Said of plain      *)
(* values, under no name that only the OTEL readers look an object up by.  *)
SpellingIsInvisible ==
  ObjectRead => \A o \in J!NestedForms(line.members) : J!ObjectRecord(o) = record

----------------------------------------------------------------------------
(* The exports.                                                            *)

ExportRead == line.kind = "export" /\ format # Undetected

\* The objects in the arrays of this name.
Held(members, name) == UNION {ToSet(J!ObjectsIn(a)) : a \in J!Get(members, name, "array")}
Exported ==
  UNION {{[span |-> s.members, resource |-> r.members] : s \in UNION {Held(scope.members, "spans") : scope \in Held(r.members, "scopeSpans")}} :
           r \in Held(line.members, "resourceSpans")}

IsFailed(span) ==
  \E status \in J!Get(span, "status", "object") : \E i \in DOMAIN status.members :
    status.members[i].key = <<"code">> /\ (status.members[i].value = J!Num("2") \/ J!Texts(status.members, "code") \cap J!ErrorCodes # {})

\* Its own name for its service, or else the first that its resource gives.
ServiceOf(e) ==
  LET backward == UNION {{J!Pair("attributes", J!Arr(Reverse(a.items))) : a \in J!Get(r.members, "attributes", "array")} :
                           r \in J!Get(e.resource, "resource", "object")}
      given == UNION {J!ServiceNames(<<m>>) : m \in backward}
  IN  J!OneOf((IF J!ServiceNames(e.span) = {} THEN given ELSE J!ServiceNames(e.span)) \ {""}, J!NoText)

\* A span read as a line of its own, but for what only its export knows.
ToldOf(e) ==
  LET orEmpty(name) == IF J!Has(e.span, name) THEN J!OneOf(J!Texts(e.span, name), J!NoText) ELSE ""
  IN  {[r EXCEPT !.component = ServiceOf(e), !.level = IF IsFailed(e.span) THEN "Error" ELSE "Info",
                 !.traceId = orEmpty("traceId"), !.spanId = orEmpty("spanId")] : r \in J!ParseOtelSpan(e.span)}

(* A document of spans tells what its spans tell as lines of their own: no *)
(* span is lost between the resources and scopes, and none loses its links *)
(* its parent, its times or its own service; the service of its resource   *)
(* and a numbered status are read besides.  Said of spans with a start.    *)
ExportTellsTheSpans ==
  ExportRead => UNION {ToldOf(e) : e \in Exported} \subseteq record /\ Cardinality(record) = Cardinality(Exported)
----------------------------------------------------------------------------
(* The intents.                                                            *)

\* What is known of every name, for each introducer and each set of declared runs (Intent).
Identities ==
  [introducer \in Introducers |->
    [declared \in RunSets |-> {IdentityOf(name, introducer, declared) : name \in IntentNames}]]

(* "(class, envelope) separates two names whose spans occupy the same      *)
(* class positions" (intent_identity.cpp:195): two names of one class that *)
(* are masked in the same place and have one discriminant are one name,    *)
(* but for the declared values that the discriminant leaves out.           *)
IdentitySeparates ==
  line.kind = "name" =>
    \A introducer \in Introducers, declared \in RunSets :
      \A one \in {i \in Identities[introducer][declared] : i.name = line.text}, other \in Identities[introducer][declared] :
        one.class = other.class /\ one.around = other.around /\ one.hidden = other.hidden => one.within = other.within
==============================================================================
