---------------------------- MODULE MCTokenizer ----------------------------
(* A JSON stream around New Year: stamped and yearless lines, a body kept  *)
(* empty, a refused line, documents of two spans and of none.              *)
EXTENDS Tokenizer

\* class, shapes, the strategy that claims it, its stamp
MCClasses == {
  <<"json", {"brace"}, "JSON", Instant(At([month |-> 12, day |-> 31, slot |-> 0], 2024))>>,
  <<"syslog", {"month"}, "Syslog", Yearless([month |-> 1, day |-> 1, slot |-> 0])>>,
  <<"logcat", {"monthDay"}, "AndroidLogcat", Yearless([month |-> 7, day |-> 2, slot |-> 0])>>,
  <<"bare", {"month"}, "Syslog", NoStamp>>,
  <<"blank", {"blank"}, "RawText", NoStamp>>,
  <<"empty", {"empty"}, "RawText", NoStamp>>,
  <<"broken", {"isoT"}, "Rfc3339Text", Instant(At([month |-> 6, day |-> 1, slot |-> 0], 2025))>>,
  <<"span", {"brace"}, "JSON", Instant(At([month |-> 1, day |-> 2, slot |-> 0], 2025))>>,
  <<"document", {"brace"}, "JSON", NoStamp>>,
  <<"cut", {"brace"}, "JSON", NoStamp>>,
  <<"wrapped", {}, "RawText", NoStamp>> }

MCLines == {c[1] : c \in MCClasses}
MCClass(l) == CHOOSE c \in MCClasses : c[1] = l
MCShape == [l \in MCLines |-> MCClass(l)[2]]
MCCustom == <<>>
MCCustomFormat == <<>>
MCStrategies == Builtin \cup {"RawText"}
MCConfidence == [l \in MCLines |-> [s \in MCStrategies |->
  IF s = MCClass(l)[3] /\ s # "RawText" THEN 80 ELSE 0]]
\* A document wrapped in escapes is a document once stage 1 has run, too late to be unpacked.
MCNormalize == [l \in MCLines |-> IF l = "wrapped" THEN "document" ELSE l]
MCParses == [l \in MCLines |->
  IF l \in {"broken", "document", "cut"} THEN {"RawText"} ELSE {MCClass(l)[3], "RawText"}]
MCLifts == [l \in MCLines |-> {}]
MCEchoed == {}
MCFormats == {}

MCTimeOf == [l \in MCLines |-> MCClass(l)[4]]
MCBodiless == {"bare", "broken"}
MCDocuments == {"document", "cut"}
MCUnpacks == [d \in MCDocuments |-> IF d = "document" THEN <<"span", "logcat">> ELSE <<>>]
MCBatches == {<<"document", "syslog">>, <<"json", "document">>, <<"cut", "broken", "logcat">>, <<"json", "wrapped">>}

ASSUME MCExclusive == ExclusiveClaims
============================================================================
