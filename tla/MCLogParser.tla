---------------------------- MODULE MCLogParser ----------------------------
(* The shipped scores on lines whose claimants exclude one another, with a *)
(* package strategy (GitLab's) registered.                                 *)
EXTENDS LogParser

\* class, shapes, score of the strategy that claims it
MCClasses == {
  <<"empty", {"empty"}, "RawText", 0>>,
  <<"escapes", {}, "RawText", 0>>,
  <<"blank", {"blank"}, "RawText", 0>>,
  <<"prose", {}, "RawText", 0>>,
  <<"script", {}, "RawText", 0>>,
  <<"json", {"brace"}, "JSON", 100>>,
  <<"brokenJson", {"brace"}, "JSON", 100>>,
  <<"syslog", {"month", "dashOrUpper"}, "Syslog", 85>>,
  <<"stamped", {"isoT"}, "Rfc3339Text", 80>>,
  <<"section", {}, "gitlab", 92>> }

MCLines == {c[1] : c \in MCClasses}
MCClass(l) == CHOOSE c \in MCClasses : c[1] = l
MCShape == [l \in MCLines |-> MCClass(l)[2]]
MCCustom == <<"gitlab">>
MCCustomFormat == [s \in {"gitlab"} |-> "GitLab"]
MCStrategies == Builtin \cup {"gitlab", "RawText"}
MCConfidence ==
  [l \in MCLines |-> [s \in MCStrategies |-> IF s = MCClass(l)[3] THEN MCClass(l)[4] ELSE 0]]
\* A line of SGR-wrapped script becomes prose, one of escapes only nothing.
MCNormalize ==
  [l \in MCLines |-> CASE l = "script" -> "prose" [] l = "escapes" -> "empty" [] OTHER -> l]
MCParses == [l \in MCLines |->
  ({MCClass(l)[3]} \cup {"RawText"}) \ (IF l = "brokenJson" THEN {"JSON"} ELSE {})]
MCLifts == [l \in MCLines |-> IF l = "prose" THEN {"RawText"} ELSE {}]
MCEchoed == {"script"}
MCFormats == {"JSON", "GitLab", "RawText"}

ASSUME MCExclusive == ExclusiveClaims
============================================================================
