------------------------------ MODULE SpanUnpack ------------------------------
(***************************************************************************)
(* The walk of an OTLP export into flat spans, one canonical line each     *)
(* (core/src/strategy/span_unpack.cpp).  The export is well-formed, no     *)
(* array has blanks for its only content, and a service is named without   *)
(* escapes.                                                                *)
(***************************************************************************)
EXTENDS JsonRecord

LOCAL INSTANCE SequencesExt

\* The objects in an array of this name.
Elements(members, name) == OneOf({ObjectsIn(a) : a \in Get(members, name, "array")}, <<>>)

\* read_raw_json_or_keep: whatever the member's value is.
Raw(members, name, default) ==
  OneOf({members[i].value : i \in {k \in DOMAIN members : members[k].key = <<name>>}}, default)

SpanKindName ==
  [code \in {"2", "3", "4", "5"} |->
     CASE code = "2" -> "SPAN_KIND_SERVER" [] code = "3" -> "SPAN_KIND_CLIENT"
       [] code = "4" -> "SPAN_KIND_PRODUCER" [] code = "5" -> "SPAN_KIND_CONSUMER"]
StatusCodeName == [code \in {"2"} |-> "STATUS_CODE_ERROR"]

\* read_enum: a name as it is, a number by its name; both tables give the default for any other number.
ReadEnum(value, names, default) ==
  IF value.kind = "string" THEN value.text
  ELSE IF value.kind = "number" /\ value.text \in DOMAIN names THEN names[value.text] ELSE default

ReadStatusCode(span) ==
  LET unset == Str("STATUS_CODE_UNSET")
      codes == {Raw(status.members, "code", unset) : status \in Get(span, "status", "object")}
  IN  ReadEnum(OneOf(codes, unset), StatusCodeName, unset.text)

ServiceAttribute(service) == Obj(<<Pair("key", Str("service.name")), Pair("value", Obj(<<Pair("stringValue", Str(service))>>))>>)

\* resource_service_name: the first readable one.
ResourceServiceName(resource) ==
  LET names(attr) == IF "service.name" \in Texts(attr.members, "key")
                     THEN UNION {Texts(v.members, "stringValue") : v \in Get(attr.members, "value", "object")} ELSE {}
      named == SelectSeq(Elements(resource, "attributes"), LAMBDA attr : names(attr) # {})
  IN  IF named = <<>> THEN "" ELSE OneOf(names(named[1]), "")

\* The members that a span may lack.
OrNothing(members, name) ==
  SelectSeq(members, LAMBDA m : m.key = <<name>>)
\* Fault: links are no member of the flat span.
NoLinks(span) == <<>>
SpanLinks(span) ==
  SelectSeq(span, LAMBDA m : m.key = <<"links">> /\ m.value.kind = "array" /\ m.value.items # <<>>)
OwnAttributes(span) == LET held == Raw(span, "attributes", Arr(<<>>)) IN IF held.kind = "array" THEN held.items ELSE <<>>

\* append_canonical_span: the flat span, the service before the span's own attributes.
CanonicalSpan(span, service) ==
  <<Pair("traceId", Raw(span, "traceId", Str(""))), Pair("spanId", Raw(span, "spanId", Str("")))>>
    \o OrNothing(span, "parentSpanId") \o SpanLinks(span)
    \o <<Pair("name", Raw(span, "name", Str(""))),
         Pair("kind", Str(ReadEnum(Raw(span, "kind", Str("SPAN_KIND_INTERNAL")), SpanKindName, "SPAN_KIND_INTERNAL"))),
         Pair("startTimeUnixNano", Raw(span, "startTimeUnixNano", Str("0"))),
         Pair("endTimeUnixNano", Raw(span, "endTimeUnixNano", Str("0"))),
         Pair("status", Obj(<<Pair("code", Str(ReadStatusCode(span)))>>)),
         Pair("attributes", Arr(<<ServiceAttribute(service)>> \o OwnAttributes(span)))>>

----------------------------------------------------------------------------
(* unpack_otel_spans: every span of every scope of every resource.         *)

\* The spans of an export, each with the service of its resource.
ResourceSpans(resource) ==
  LET service == OneOf({ResourceServiceName(r.members) : r \in Get(resource.members, "resource", "object")}, "")
      scopes == Elements(resource.members, "scopeSpans")
      spans == FlattenSeq([k \in DOMAIN scopes |-> Elements(scopes[k].members, "spans")])
  IN  [k \in DOMAIN spans |-> [span |-> spans[k].members, service |-> service]]

SpansOf(document) ==
  LET resources == Elements(document, "resourceSpans")
  IN  FlattenSeq([k \in DOMAIN resources |-> ResourceSpans(resources[k])])

\* The broad probe, and then the walk.
UnpackOtelSpans(document) ==
  IF ~Quotes(document, "resourceSpans") THEN <<>>
  ELSE [k \in DOMAIN SpansOf(document) |-> CanonicalSpan(SpansOf(document)[k].span, SpansOf(document)[k].service)]
===============================================================================
