--------------------------- MODULE MCMixedStream ---------------------------
(* The shipped scores on lines that several strategies claim: a CloudWatch *)
(* or journald record is also a JSON object, a line stamped by a GitLab    *)
(* runner also leads with an RFC 3339 time.                                *)
EXTENDS LogParser

\* class, shapes, scores, strategies that decline it after scoring
MCClasses == {
  <<"json", {"brace"}, [JSON |-> 100], {}>>,
  <<"cloudwatch", {"brace"}, [JSON |-> 100, CloudWatch |-> 105], {}>>,
  <<"journal", {"brace"}, [JSON |-> 100, SystemdJournal |-> 106], {}>>,
  <<"stamped", {"isoT"}, [Rfc3339Text |-> 80], {}>>,
  <<"runner", {"isoT"}, [Rfc3339Text |-> 80, gitlab |-> 92], {}>>,
  <<"runnerBlank", {"isoT"}, [Rfc3339Text |-> 80, gitlab |-> 92], {"gitlab"}>> }

MCLines == {c[1] : c \in MCClasses}
MCClass(l) == CHOOSE c \in MCClasses : c[1] = l
MCShape == [l \in MCLines |-> MCClass(l)[2]]
MCCustom == <<"gitlab">>
MCCustomFormat == [s \in {"gitlab"} |-> "GitLab"]
MCStrategies == Builtin \cup {"gitlab", "RawText"}
MCConfidence == [l \in MCLines |-> [s \in MCStrategies |->
  IF s \in DOMAIN MCClass(l)[3] THEN MCClass(l)[3][s] ELSE 0]]
MCNormalize == [l \in MCLines |-> l]
MCParses ==
  [l \in MCLines |-> (DOMAIN MCClass(l)[3] \cup {"RawText"}) \ MCClass(l)[4]]
MCLifts == [l \in MCLines |-> {}]
MCEchoed == {}
MCFormats == {}
============================================================================
