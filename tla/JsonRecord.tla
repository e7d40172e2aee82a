------------------------------ MODULE JsonRecord ------------------------------
(***************************************************************************)
(* What the three JSON strategies make of one well-formed object           *)
(* (core/src/strategy: json.cpp, cloudwatch.cpp, systemd_journal.cpp and   *)
(* the two readers of simdjson_scratch.hpp).  A key is the sequence of its *)
(* dotted names.  A text is known by what the parsers behind the roles     *)
(* make of it.  No object names a member twice.                            *)
(***************************************************************************)
EXTENDS Naturals, Sequences, FiniteSets

LOCAL INSTANCE SequencesExt

CONSTANTS
  Stamps,      \* the texts that are a time stamp
  LevelNames,  \* the texts that are a level
  Nanos        \* the texts that are a count of nanoseconds, with the count

Str(text) == [kind |-> "string", text |-> text, escaped |-> FALSE]
Num(text) == [kind |-> "number", text |-> text]
Obj(members) == [kind |-> "object", members |-> members]
Arr(items) == [kind |-> "array", items |-> items]
Member(key, value) == [key |-> key, value |-> value]
Pair(name, value) == Member(<<name>>, value)

\* The value of a name, if it is of this kind (find_field_unordered and a typed get).
Get(members, name, kind) ==
  {members[i].value : i \in {k \in DOMAIN members : members[k].key = <<name>> /\ members[k].value.kind = kind}}
Texts(members, name) == {v.text : v \in Get(members, name, "string")}
Has(members, name) == \E i \in DOMAIN members : members[i].key = <<name>>

\* The objects of an array; what else stands in it is passed over.
ObjectsIn(array) == SelectSeq(array.items, LAMBDA item : item.kind = "object")

\* One of these texts, or the other.
OneOf(texts, other) == IF texts = {} THEN other ELSE CHOOSE t \in texts : TRUE

NoText == "none"
WholeLine == "line"
NoRecord == [time |-> NoText, declared |-> FALSE, level |-> NoText, component |-> NoText, content |-> WholeLine,
             ordinals |-> {}, traceId |-> NoText, spanId |-> NoText, parentSpanId |-> NoText,
             isSpan |-> FALSE, links |-> <<>>, marked |-> FALSE]

----------------------------------------------------------------------------
(* The one rule that gives a record its roles.                             *)

Vocabulary == [
  timestamp |-> <<"timestamp", "ts", "@timestamp", "time", "datetime">>,
  level |-> <<"level", "severity", "loglevel", "log_level">>,
  component |-> <<"component", "source", "logger", "service", "module">>,
  message |-> <<"message", "msg", "log", "text", "body">>]
Roles == DOMAIN Vocabulary

kExactTier == 0
kCompoundTier == 1
kTierStride == 8

kOtelFieldCatalog == {"traceId", "spanId", "parentSpanId", "severityNumber"}
\* Fault: what only the OTEL readers know is read by the fast one too.
IsNoOtelMember(key) == FALSE
IsOtelMember(key) == \E name \in kOtelFieldCatalog \cup {"timeUnixNano", "startTimeUnixNano"} : key = <<name>>

\* Fault: the last segment, however many there are.
LastSegment(key) == {key[Len(key)]}
\* compound_key_name: one dot and no more.
CompoundKeyName(key) == IF Len(key) > 2 THEN {} ELSE {key[Len(key)]}

\* A name offered for a role: its rank, its place in the document, its text.
Offers(role, name, tier, at, text) ==
  {[rank |-> tier * kTierStride + p - 1, at |-> at, text |-> text] : p \in {q \in DOMAIN Vocabulary[role] : Vocabulary[role][q] = name}}

OffersOf(role, members, i) ==
  LET member == members[i]
      tier == IF Len(member.key) = 1 THEN kExactTier ELSE kCompoundTier
      sub == IF member.value.kind = "object" THEN member.value.members ELSE <<>>
      bare == {j \in DOMAIN sub : sub[j].value.kind = "string" /\ Len(sub[j].key) = 1}
  IN  IF member.value.kind = "string" /\ ~IsOtelMember(member.key)
      THEN UNION {Offers(role, name, tier, <<i, 0>>, member.value.text) : name \in CompoundKeyName(member.key)}
      ELSE UNION {Offers(role, sub[j].key[1], kCompoundTier, <<i, j>>, sub[j].value.text) : j \in bare}

\* JsonRoleChoice: the lowest rank, the first of its rank.
Chosen(role, members) ==
  LET offers == UNION {OffersOf(role, members, i) : i \in DOMAIN members}
      before(o, p) == o.rank < p.rank \/ (o.rank = p.rank /\ (o.at[1] < p.at[1] \/ (o.at[1] = p.at[1] /\ o.at[2] <= p.at[2])))
  IN  {o.text : o \in {p \in offers : \A q \in offers : before(p, q)}}

Ordinals == {"latency_ms", "span_duration_ns"}

\* JsonRecordSink::apply: the roles a text could be read for, and the ordinals.
Applied(members) ==
  [NoRecord EXCEPT
     !.time = OneOf(Chosen("timestamp", members) \cap Stamps, NoText),
     !.level = OneOf(Chosen("level", members) \cap LevelNames, NoText),
     !.component = OneOf(Chosen("component", members), NoText),
     !.content = OneOf(Chosen("message", members), WholeLine),
     !.ordinals = UNION {{[name |-> name, value |-> v.text] : v \in Get(members, name, "number")} : name \in Ordinals}]

Marked(record, members) ==
  [record EXCEPT !.marked = /\ record.time = NoText /\ record.level = NoText
                            /\ record.component = NoText /\ Chosen("message", members) = {}]

----------------------------------------------------------------------------
(* The readers.                                                            *)

\* scan_flat_json: no escape, nothing nested, no member the sink declines.
ScanFlatJson(members) ==
  \A i \in DOMAIN members :
    LET v == members[i].value
    IN  /\ v.kind \in {"string", "number", "literal"} /\ (v.kind = "string" => ~v.escaped)
        /\ ~IsOtelMember(members[i].key)

\* The texts and names of an object, at every depth that the strategies read.
Nested(v) == IF v.kind = "object" THEN {v.members} ELSE IF v.kind = "array" THEN {item.members : item \in ToSet(ObjectsIn(v))} ELSE {}
Levels(members) ==
  LET first == UNION {Nested(members[i].value) : i \in DOMAIN members}
      below == UNION {UNION {Nested(inner[i].value) : i \in DOMAIN inner} : inner \in first}
  IN  {members} \cup first \cup below
\* The probes read raw bytes: an escape hides a name from them.
InText(members, names) ==
  \E inner \in Levels(members) : \E i \in DOMAIN inner :
    LET v == inner[i].value IN v.kind = "string" /\ ~v.escaped /\ v.text \in names
\* These bytes, within their quotes or anywhere.
Quotes(members, name) == InText(members, {name}) \/ \E inner \in Levels(members) : \E i \in DOMAIN inner : inner[i].key = <<name>>
Mentions(members, names) ==
  InText(members, names) \/ \E inner \in Levels(members) : \E i \in DOMAIN inner : \E k \in DOMAIN inner[i].key : inner[i].key[k] \in names

----------------------------------------------------------------------------
(* JsonStrategy::parse.                                                    *)

IsSpanDocument(members) == members # <<>> /\ members[1].key = <<"resourceSpans">>
IsOtelSpanLine(members) == Quotes(members, "startTimeUnixNano")

Time(text) == IF text \in DOMAIN Nanos THEN text ELSE NoText
Count(text) == IF text \in DOMAIN Nanos THEN Nanos[text] ELSE 0

\* read_service_name: the last attribute of that name.
ServiceNames(members) ==
  LET named(attr) == IF "service.name" \in Texts(attr.members, "key")
                     THEN UNION {Texts(v.members, "stringValue") : v \in Get(attr.members, "value", "object")} ELSE {}
      read(attributes) == SelectSeq(ObjectsIn(attributes), LAMBDA attr : named(attr) # {})
  IN  UNION {named(read(a)[Len(read(a))]) : a \in {b \in Get(members, "attributes", "array") : read(b) # <<>>}}

LinkSpanIds(members) ==
  LET ids(links) == FlattenSeq([i \in DOMAIN ObjectsIn(links) |-> SetToSeq(Texts(ObjectsIn(links)[i].members, "spanId"))])
  IN  OneOf({ids(links) : links \in Get(members, "links", "array")}, <<>>)

Trace(record, members) ==
  [record EXCEPT !.traceId = OneOf(Texts(members, "traceId"), NoText),
                 !.spanId = OneOf(Texts(members, "spanId"), NoText),
                 !.parentSpanId = OneOf(Texts(members, "parentSpanId"), NoText)]

\* The codes that hold the word.
ErrorCodes == {"ERROR", "STATUS_CODE_ERROR"}

\* parse_otel_span, which declines a line whose start is not at its first level.
ParseOtelSpan(members) ==
  LET start == Texts(members, "startTimeUnixNano") \ {""}
      end == Count(OneOf(Texts(members, "endTimeUnixNano"), NoText))
      name == Texts(members, "name") \ {""}
      failed == \E s \in Get(members, "status", "object") : Texts(s.members, "code") \cap ErrorCodes # {}
      span(from) ==
        [NoRecord EXCEPT
           !.time = Time(from), !.declared = Time(from) # NoText,
           !.level = IF failed THEN "Error" ELSE "Info",
           !.component = OneOf(ServiceNames(members) \ {""}, NoText),
           !.content = OneOf(name, WholeLine),
           !.ordinals = {[name |-> "span_duration_ns", value |-> IF end > Count(from) THEN end - Count(from) ELSE 0]},
           !.links = LinkSpanIds(members), !.isSpan = TRUE]
  IN  {Trace(span(from), members) : from \in start}

\* extract_otel_fields runs after the roles: what it declares overrides them.
IsOtel(members) ==
  \/ Texts(members, "timeUnixNano") \cap DOMAIN Nanos # {}
  \/ Get(members, "severityNumber", "number") # {} \/ Texts(members, "traceId") # {}
OtelFields(record, members) ==
  LET stamp == Texts(members, "timeUnixNano") \cap DOMAIN Nanos
      severity == {v.text : v \in Get(members, "severityNumber", "number")}
      body == UNION {Texts(b.members, "stringValue") : b \in Get(members, "body", "object")}
  IN  Trace([record EXCEPT !.time = OneOf(stamp, @), !.declared = stamp # {}, !.level = OneOf(severity, @),
                           !.content = OneOf(body, WholeLine)], members)

\* The reader that copies the line: a nominated span first, then the roles.
SlowRecord(members) ==
  IF IsOtelSpanLine(members) /\ ParseOtelSpan(members) # {} THEN ParseOtelSpan(members)
  ELSE IF IsOtel(members) THEN {OtelFields(Applied(members), members)}
  ELSE {Marked(Trace(Applied(members), members), members)}

JsonParse(members) ==
  IF IsSpanDocument(members) THEN {}
  ELSE IF ScanFlatJson(members) THEN {Marked(Applied(members), members)}
  ELSE SlowRecord(members)

----------------------------------------------------------------------------
(* CloudWatchStrategy::parse and SystemdJournalStrategy::parse.            *)

CloudWatchKeys == {"logGroup", "logStream", "logEvents"}
JournalKeys == {"__REALTIME_TIMESTAMP", "_SYSTEMD_UNIT", "SYSLOG_IDENTIFIER"}

\* Only top-level members, and a number for the time.
CloudWatchParse(members) ==
  LET group == Texts(members, "logGroup")
      stamp == {v.text : v \in Get(members, "timestamp", "number")} \cap DOMAIN Nanos
  IN  IF ~Mentions(members, CloudWatchKeys) THEN {}
      ELSE {[NoRecord EXCEPT
               !.time = OneOf(stamp, NoText),
               !.level = OneOf(Texts(members, "level") \cap LevelNames, NoText),
               !.component = OneOf(IF group = {} THEN Texts(members, "logStream") ELSE group, NoText),
               !.content = OneOf(Texts(members, "message"), WholeLine)]}

\* The first of these names that has a text.
FirstText(members, names) ==
  LET held == {i \in DOMAIN names : Texts(members, names[i]) # {}}
  IN  IF held = {} THEN NoText ELSE OneOf(Texts(members, names[CHOOSE i \in held : \A k \in held : i <= k]), NoText)

SystemdJournalParse(members) ==
  IF ~Mentions(members, JournalKeys) THEN {}
  ELSE {[NoRecord EXCEPT
           !.time = Time(FirstText(members, <<"__REALTIME_TIMESTAMP">>)),
           !.level = FirstText(members, <<"PRIORITY">>),
           !.component = FirstText(members, <<"_COMM", "SYSLOG_IDENTIFIER", "_SYSTEMD_UNIT">>),
           !.content = OneOf(Texts(members, "MESSAGE"), WholeLine)]}

\* The scores: the detector's ties are settled by them alone.
ObjectFormat(members) ==
  IF Mentions(members, JournalKeys) THEN "SystemdJournal"
  ELSE IF Mentions(members, CloudWatchKeys) THEN "CloudWatch" ELSE "JSON"
ObjectRecord(members) ==
  CASE ObjectFormat(members) = "SystemdJournal" -> SystemdJournalParse(members)
    [] ObjectFormat(members) = "CloudWatch" -> CloudWatchParse(members)
    [] ObjectFormat(members) = "JSON" -> JsonParse(members)

----------------------------------------------------------------------------
(* The same object, written another way.                                   *)

\* The names that a probe of the raw bytes looks for.
Probed == {"startTimeUnixNano", "resourceSpans"} \cup CloudWatchKeys \cup JournalKeys

\* One member's bytes hold an escape, and its text is no name that a probe looks for.
Escape(members, i) == [members EXCEPT ![i].value.escaped = TRUE]
IsPlainText(v) == v.kind = "string" /\ v.text \notin Probed
EscapedForms(members) == {Escape(members, i) : i \in {k \in DOMAIN members : IsPlainText(members[k].value)}}

\* The names of the objects that only the readers of spans and of OTEL lines know.
OtelObjects == {"body", "status", "resourceSpans"}
\* A dotted key of one plain value as the member of an object.
Nest(members, i) ==
  [members EXCEPT ![i] = Pair(@.key[1], Obj(<<Member(Tail(@.key), @.value)>>))]
IsDotted(member) == Len(member.key) > 1 /\ member.key[1] \notin OtelObjects /\ member.value.kind \notin {"object", "array"}
NestedForms(members) == {Nest(members, i) : i \in {k \in DOMAIN members : IsDotted(members[k])}}
==============================================================================
