---------------------------- MODULE MCRunOutcome ----------------------------
(* Two platforms and tool packages over the bytes 1 and 2, with a package  *)
(* that collides with each of them, one of the same name, and one unnamed; *)
(* and two platforms whose verdict vocabularies overlap in one word with   *)
(* two meanings, with a tool package any stream sees.  1 and 2 are bytes   *)
(* of a verdict word, 3 is not.                                            *)
EXTENDS RunOutcome

Row(table, key, gate, pos) ==
  [table |-> table, match |-> "prefix", part |-> "Names", key |-> key, gate |-> gate,
   channel |-> kAny, pos |-> pos, shape |-> "prefix", outcome |-> "None"]
Part(row, part) == [row EXCEPT !.part = part]
Shape(row) == [row EXCEPT !.match = "shape"]
On(row, declared) == [row EXCEPT !.channel = declared]
Verdict(table, key, gate, shape, outcome) ==
  [Row(table, key, gate, 1) EXCEPT !.shape = shape, !.outcome = outcome]

gitlab == [name |-> 1, channels |-> {7, 8}, rows |-> {
  Row("role", <<1, 2>>, 1, 1), Row("marker", <<1>>, 1, 1), On(Row("marker", <<1, 2>>, 1, 2), 7),
  Part(Row("marker", <<2>>, 1, 3), "Opens"), Row("lift", <<1, 1>>, 1, 1), Row("lift", <<1>>, 1, 2)}]
github == [name |-> 2, channels |-> {}, rows |-> {
  Row("role", <<1, 2>>, 2, 1), Row("marker", <<1>>, 2, 1), Part(Row("marker", <<2, 2>>, 2, 2), "Closes"),
  Row("lift", <<2>>, 2, 1), Row("value", <<1>>, 2, 1)}]
tools == [name |-> 3, channels |-> {}, rows |-> {
  Row("role", <<1>>, kAny, 1), Shape(Row("role", <<2, 2, 2>>, kAny, 2)), Row("lift", <<1, 2>>, kAny, 1)}]
runners == [name |-> 4, channels |-> {}, rows |-> {
  Shape(Row("role", <<2, 1, 2>>, kAny, 1)), Row("lift", <<1, 2, 2>>, kAny, 1), Row("outcome", <<1>>, kAny, 1)}]
clashing == [name |-> 5, channels |-> {}, rows |-> {Row("marker", <<1>>, kAny, 1), Row("class", <<1>>, kAny, 1)}]
twice == [name |-> 1, channels |-> {}, rows |-> {Row("lift", <<2, 2>>, 1, 1), Row("class", <<1>>, kAny, 1)}]
unnamed == [name |-> kAny, channels |-> {}, rows |-> {}]
broken == [name |-> 6, channels |-> {}, rows |-> {Row("role", <<>>, kAny, 1)}]

jenkinsVerdicts == [name |-> 1, channels |-> {}, rows |-> {
  Verdict("outcome", <<3>>, 1, "remainder", "None"),
  Verdict("token", <<1>>, 1, "word", "Success"), Verdict("token", <<2>>, 1, "word", "Failure"),
  Verdict("token", <<1, 2>>, 1, "word", "Unknown")}]
gitlabVerdicts == [name |-> 2, channels |-> {}, rows |-> {
  Verdict("outcome", <<3, 1>>, 2, "prefix", "Success"), Verdict("outcome", <<3, 2>>, 2, "prefix", "Failure"),
  Verdict("token", <<1>>, 2, "word", "Failure")}]
toolVerdicts == [name |-> 3, channels |-> {}, rows |-> {
  Verdict("outcome", <<2, 3>>, kAny, "remainder", "None"), Verdict("outcome", <<2>>, kAny, "prefix", "Aborted"),
  Verdict("token", <<2, 2>>, kAny, "word", "Aborted")}]

MCManifests == {gitlab, github, tools, runners, clashing, twice, unnamed, broken}
MCScanned == {<<jenkinsVerdicts, gitlabVerdicts, toolVerdicts>>, <<gitlabVerdicts, toolVerdicts>>}
MCArguments == MCScanned \cup UNION {[1 .. n -> MCManifests] : n \in 0 .. 3}
MCMalformed == {Row("role", <<>>, kAny, 1)}
MCLines == UNION {[1 .. n -> {1, 2}] : n \in 1 .. 3}
MCShapeHits == {<<<<2, 2, 2>>, <<2, 1>>>>, <<<<2, 1, 2>>, <<2, 1>>>>, <<<<2, 1, 2>>, <<1, 2>>>>}
MCDeclines == {<<<<1, 2>>, <<1, 2>>>>}
MCLogLines == {<<<<1>>>>, <<<<3>>>>, <<<<3, 1>>>>, <<<<3, 2>>>>, <<<<3, 1, 2>>>>, <<<<3, 2, 1>>>>,
               <<<<3, 3>>>>, <<<<2, 3, 3>>>>, <<<<2, 3, 2, 2>>>>,
               <<<<1>>, <<3, 2>>>>, <<<<3, 2>>, <<3, 1>>>>, <<<<2, 1>>, <<2, 3, 1>>>>}
MCSideInputs == {[token |-> t, vocabulary |-> v] : t \in {<<1>>, <<2>>, <<1, 2>>, <<2, 2>>, <<3>>},
                                                   v \in {0, 1, 2, 9}}
=============================================================================
