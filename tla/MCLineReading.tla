---------------------------- MODULE MCLineReading ----------------------------
(* Lines of every built-in layout with one cell cut, added or replaced;    *)
(* JSON objects of two members, and of more where they interact; tokens    *)
(* put together from leads, cores and tails, alone and behind a keyword;   *)
(* JSON values of two levels; exports of two or three spans; names of intents of two words.               *)
EXTENDS LineReading

LOCAL INSTANCE TLC

MCDigit == {"0", "1"}
MCHex == {"f"}
MCWord == {"exit", "k", "id", "src", "T", "Z", "PR", "file", "tmp", "var", "folders", "conan2", "p", "b",
           "nix", "store", "private", "AppData", "Local", "Temp", "v", "N"}
MCInstant == <<"digit", "-", "digit", "T", "digit", "digit", "Z">>
MCRfc3339 == <<"digit", "-", "digit", "T", "digit", ":", "digit", "Z">>
MCUuidDashes == {2, 4}

Cat(A, B) == {a \o b : a \in A, b \in B}
Plain(texts) == {[kind |-> "text", text |-> t] : t \in texts}

One == <<"1">>
Long == <<"0", "1">>
Hash == <<"f", "0", "1", "f">>
Uuid == <<"f", "0", "-", "1", "-", "0">>
Instant == <<"1", "-", "0", "T", "1", "1", "Z">>
Stamp == <<"1", "-", "0", "T", "1", ":", "1", "Z">>
Address == <<"1", ".", "0", ".", "1", ".", "0">>
Root1 == <<"/", "tmp", "/", "k">>
Root2 == <<"/", "nix", "/", "store", "/", "v", "1", "/", "src">>
Root3 == <<"\\", "\\", "AppData", "\\", "Local", "\\", "\\", "Temp", "\\", "k">>
Drive == <<"T", ":">> \o Root3
Root4 == <<"/", "src", "/", ".", "conan2", "/", "p", "/", "b", "/", "k", "/", "src", ".", "k">>
Root5 == <<"/", "private", "/", "var", "/", "folders", "/", "1">>
Deep == <<"/", "src", "/", "tmp", "/", "k">>

Cores == {One, Long, Hash, Uuid, Instant, Address, <<"k">>, <<"-", "1">>, <<"#", "1">>, <<"$", "1">>, <<"$", "1", ".", "0">>,
          <<"v", "1">>, <<"1", ",", "0">>, <<"1", "k">>, Stamp, <<"src", "/", "1">>, <<"PR", "-", "1", "0">>}
Heads == {<<>>, <<"(">>, <<"[">>, <<"\"">>, <<"k", "=">>, <<"(", "k", "=">>, <<"exit", "=">>, <<"k", "=", "v", ";", "exit", "=">>,
          <<"k", "=", "1", ";", "exit", "=">>, <<"k", ";", "exit", "=">>, <<"exit", ":">>, <<"src", ".", "k", ":">>, <<"id", "=", "v", ";", "k", "=">>, <<"k", "=", "$">>,
          <<"=", "=">>, <<"src", "[">>, <<"src", "-">>, <<"PR", "-">>, <<"file", "/">>}
Tails == {<<>>, <<")">>, <<"]">>, <<"\"", ",">>, <<")", ":">>, <<")", ",", ",", ",">>, <<",">>, <<"]", "[", "k", "]">>, <<":", "1">>,
          <<";", "k", "=", "1">>, <<"=", "=", "k">>, <<"cr">>, <<"<", "*", ">">>, <<"/", "exit", ":", "1">>}

Paths == Cat({Root1, Root2, Root3, Drive, Root4, Root5, Deep}, {<<>>, <<"/">>, <<"\\">>, <<"/", "src", ":", "1">>, <<":", "1", ":", "0">>, <<"\\", "1", ":", "1">>, <<"\"">>})
         \cup {<<"/", "tmp">>, <<"/", "tmp", "/", "/", "k">>, <<"src", "\\", "1", ":", "1">>, <<"src", "/", "exit", "/", "1", ":", "1">>,
               <<"file", ":", "/", "/">> \o Root1, <<"k", "=">> \o Root1, <<"(", "k", "=", "\"">> \o Root2, <<"src", ":", "1", "/", "AppData", "/", "Local", "/", "Temp", "\\", "k", "\\", "1">>}

\* An address whose port is as long as a hash is a composite's.
Ported == Address \o <<":", "0", "1", "0", "1">>

Alone == Cat(Cat(Heads, Cores), Tails) \cup Paths \cup {Ported, kMaskWildcard, <<"<", "*", ">", "1">>}
Behind == Cat({<<"exit", " ">>, <<"k", " ", " ">>}, Cat(Cat({<<>>, <<"(">>, <<"[">>, <<"{">>, <<"exit", "=">>}, {One, Long, Address, <<"#", "1">>}),
              {<<>>, <<")">>, <<"]">>, <<"}", ",">>, <<"}", ":", ".">>, <<")", ",", ",", ",">>}))

----------------------------------------------------------------------------
Number == Scalar(<<"1">>)
Blank == <<" ">>
MCCode == [c \in {"a", "b", "\\u0061", "high", "low", "\\u1f600", "exit"} |->
             CASE c = "a" -> 97 [] c = "b" -> 98 [] c = "\\u0061" -> 97 [] c = "high" -> 55357 [] c = "low" -> 56832
               [] c = "\\u1f600" -> 128512 [] c = "exit" -> 101]
Names == {<<"a">>, <<"b">>, <<"\\u0061">>, <<"high", "low">>, <<"\\u1f600">>, <<"high">>, <<"exit">>, <<"a", "b">>}
Pair(n, m, v, w, sep) == Object(<<Member(n, v), Member(m, w)>>, <<sep, Blank>>)
Inner == {Pair(<<"b">>, <<"a">>, Number, Number, <<",">>), Pair(<<"a">>, <<"\\u0061">>, Number, Number, <<",", " ">>),
          Object(<<>>, <<>>), Array(<<Number, Scalar(<<"k">>)>>, <<<<",", " ">>, <<>>>>)}
Values2 ==
  {Pair(n, m, Number, w, sep) : n \in Names, m \in Names, w \in Inner \cup {Scalar(<<"k">>)}, sep \in {<<",">>, <<" ", ",">>}}
  \cup {Object(<<Member(n, i), Member(<<"exit">>, Number), Member(m, Number)>>, <<<<",", " ">>, <<",">>, <<>>>>) :
          n \in Names, m \in Names, i \in Inner}
  \cup {Array(<<i, j>>, <<<<",">>, <<>>>>) : i \in Inner, j \in Inner}
  \cup {Array(<<Array(<<Pair(<<"b">>, <<"a">>, Number, i, <<",">>)>>, <<<<>>>>)>>, <<<<>>>>) : i \in Inner}

----------------------------------------------------------------------------
Clk == <<"d2", ":", "d2", ":", "d2">>
Iso == <<"d4", "-", "d2", "-", "d2">>
Slash == <<"d4", "/", "d2", "/", "d2">>
Sp == <<"sp">>

MCLayouts == {
  \* syslog: with and without a process id, and behind an ISO stamp
  <<"Mon", "sp", "d2", "sp">> \o Clk \o <<"sp", "node", "sp", "word", "[", "d3", "]", ":", "sp", "word">>,
  <<"Mon", "sp", "sp", "d1", "sp">> \o Clk \o <<"sp", "node", "sp", "word", ":", "sp", "word">>,
  Iso \o <<"T">> \o Clk \o <<".", "d3", "sp", "node", "sp", "word", ":", "sp", "word">>,
  Iso \o <<"T">> \o Clk \o <<"sp", "word", "=", "d3">>,
  Iso \o <<"T">> \o Clk \o Sp \o Iso \o Sp \o Clk \o <<",", "d3", "sp", "d4", "sp", "LEVEL", "sp", "word">>,
  <<"<", "d2", ">", "d1", "sp">> \o Iso \o <<"T">> \o Clk \o <<"sp", "node", "sp", "word", "sp", "d3", "sp", "-", "sp", "-", "sp", "word">>,
  <<"<", "d2", ">", "d1", "sp">> \o Iso \o <<"T">> \o Clk \o <<"sp", "node", "sp", "-", "sp", "-", "sp", "-", "sp", "[", "word", "]", "sp", "word">>,
  \* supercomputers
  <<"-", "sp", "d10", "sp", "d4", ".", "d2", ".", "d2", "sp", "node", "sp", "word", "sp", "node", "sp", "RAS", "sp", "UPPER", "sp", "LEVEL", "sp", "word">>,
  <<"UPPER", "sp", "d10", "sp", "d4", ".", "d2", ".", "d2", "sp", "node", "sp", "word", "sp", "RAS", "sp", "UPPER", "sp", "LEVEL", "sp", "word">>,
  <<"-", "sp", "d10", "sp", "d4", ".", "d2", ".", "d2", "sp", "node", "sp", "Mon", "sp", "d2", "sp">> \o Clk \o <<"sp", "node", "sp", "word", ":", "sp", "word">>,
  <<"d6", "sp", "node", "-", "d2", "sp", "unix", ".", "word", "sp", "word", "sp", "d10", "sp", "d1", "sp", "word">>,
  <<"d6", "sp", "word", "sp", "word", "sp", "word", "sp", "d10", "sp", "d1", "sp", "word">>,
  \* servers
  <<"[", "Mon", "sp", "Mon", "sp", "d2", "sp">> \o Clk \o <<"sp", "d4", "]", "sp", "[", "word", ":", "LEVEL", "]", "sp", "[", "word", "]", "sp", "word">>,
  <<"[", "Mon", "sp", "Mon", "sp", "d2", "sp">> \o Clk \o <<"]", "sp", "[", "LEVEL", "]", "sp", "word">>,
  Slash \o Sp \o Clk \o <<"sp", "[", "LEVEL", "]", "sp", "d3", "#", "d1", ":", "sp", "word">>,
  <<"node", "sp", "-", "sp", "-", "sp", "[", "d2", "/", "Mon", "/", "d4", ":">> \o Clk \o <<"]", "sp", "\"", "GET", "sp", "/", "sp", "HTTP", "/", "d1", "\"", "sp", "d3", "sp", "d4">>,
  <<"node", "sp", "-", "sp", "-", "sp", "[", "d2", "/", "Mon", "/", "d4", ":">> \o Clk \o <<"]", "sp", "\"", "GET", "sp", "/", "\"", "sp", "d3">>,
  Iso \o Sp \o Clk \o <<"sp", "GET", "sp", "/", "sp", "d3">>,
  Iso \o Sp \o Clk \o <<"sp", "word", "sp", "node", "sp", "GET", "sp", "/", "sp", "d3">>,
  Iso \o Sp \o Clk \o <<",", "sp", "LEVEL", "sp", "UPPER", "sp", "word">>,
  \* applications
  <<"d8", "-", "d2", ":", "d2", ":", "d2", ":", "d3", "|", "word", "|", "d8", "|", "word">>,
  <<"[", "d2", ".", "d2", "sp">> \o Clk \o <<"]", "sp", "word", ".", "word", "sp", "-", "sp", "word">>,
  <<"d2", "/", "d2", "/", "d2", "sp">> \o Clk \o <<"sp", "LEVEL", "sp", "word", ".", "word", ":", "sp", "word">>,
  <<"d6", "sp", "d6", "sp", "d3", "sp", "LEVEL", "sp", "word", ":", "sp", "word">>,
  Iso \o Sp \o Clk \o <<",", "d3", "sp", "LEVEL", "sp", "[", "word", "[", "d1", "]", "]", "sp", "word", ":", "sp", "word">>,
  Iso \o Sp \o Clk \o <<",", "d3", "sp", "-", "sp", "LEVEL", "sp", "[", "word", "]", "sp", "-", "sp", "word">>,
  <<"word", ".", "word", "sp">> \o Iso \o Sp \o Clk \o <<".", "d3", "sp", "d4", "sp", "LEVEL", "sp", "word", "sp", "[", "-", "]", "sp", "word">>,
  <<"d2", "-", "d2", "sp">> \o Clk \o <<".", "d3", "sp", "d4", "sp", "d4", "sp", "I", "sp", "word", ":", "sp", "word">>,
  \* pairs, and text
  <<"ts", "=">> \o Iso \o <<"T">> \o Clk \o <<"sp", "level", "=", "LEVEL", "sp", "msg", "=", "\"", "word", "sp", "word", "\"", "sp", "source", "=", "word">>,
  <<"word", "=", "d3", "sp", "word", "=", "\"", "\"">>,
  <<"word", "sp", "word", "=", "d3", "=", "word">>,
  <<"word", ":", "sp", "word">>,
  \* objects
  <<"{", "member", ",", "member", "}">>, <<"{", "cloud", ",", "member", "}">>, <<"{", "journal", "}">>,
  <<"{", "journal", ",", "cloud", "}">>, <<"{", "spans", "}">>, <<"{", "escaped", ",", "cloud", "}">> }

Added == {"sp", "word", "[", ":", "\"", "="}
Stray == {"sp", "word", "-", "d1", "d3", "|", "]", "{"}

\* Plain messages behind a date, of no layout but theirs.
MCDatedLayouts == {Iso \o Sp \o Clk \o Words : Words \in {<<"sp", "word">>, <<"sp", "word", "sp", "word">>, <<"sp", "word", "sp", "LEVEL", ":", "sp", "word">>}}
Nothing == {}

Insert(text, i, cell) == Upto(text, i - 1) \o <<cell>> \o From(text, i)
Cut(text, i) == Upto(text, i - 1) \o From(text, i + 1)

\* Where cells of one run meet they are one run: a day glued to its clock, say.
RunOf(width) == {d \in D!DigitRun : D!DigitWidth[d] = width}
Met(last, cell) ==
  IF {last, cell} \subseteq D!DigitRun THEN RunOf(D!DigitWidth[last] + D!DigitWidth[cell])
  ELSE IF {last, cell} \subseteq D!Words THEN {"word"} ELSE {}
Join(read, cell) ==
  IF read = <<>> \/ Met(Last(read), cell) = {} THEN Append(read, cell)
  ELSE Front(read) \o <<CHOOSE met \in Met(Last(read), cell) : TRUE>>
Joined(text) == FoldLeft(Join, <<>>, text)

Variants(text) ==
  {Joined(t) : t \in {Upto(text, n) : n \in 0 .. Len(text)} \cup {Cut(text, i) : i \in DOMAIN text}
         \cup {Insert(text, i, c) : i \in DOMAIN text, c \in Added}
         \cup {[text EXCEPT ![i] = c] : i \in DOMAIN text, c \in Stray}}

\* A day glued to its clock, and what follows: nothing of the line is left behind the trims, or less.
MCGluedLines == {<<"Mon", "sp">> \o day \o <<":", "d2", ":">> \o seconds : day \in {<<"d4">>, <<"sp", "d4">>},
                   seconds \in {<<"d2">>, <<"d3">>, <<"d2", "I">>, <<"d2", "sp">>, <<"d2", "sp", "sp">>, <<"d5">>, <<"d2", "word", ":">>}}
MCMemories == {<<"sp", "node", "sp", "word", ":", "sp", "word">>, <<"word">>}
MCTextLines == UNION {Variants(l) : l \in MCLayouts} \cup MCGluedLines

MCSpelling ==
  [c \in D!DigitRun |-> [i \in 1 .. D!DigitWidth[c] |-> "1"]]
  @@ [c \in D!Words |-> IF c \in {"T"} THEN <<c>> ELSE IF c = "LEVEL" THEN <<"exit">> ELSE <<"k">>]
  @@ [c \in D!Members |-> <<"k">>]
  @@ [sp |-> <<" ">>, esc |-> <<"\\">>, httpd |-> <<"k">>, nginx |-> <<"k">>]
  @@ [c \in {"[", "]", ":", "-", "\"", "=", "|", ".", "{", "}", ",", "/", "#", "<", ">"} |-> <<c>>]

----------------------------------------------------------------------------
ObjectMembers == {
  J!Pair("message", J!Str("word")), J!Pair("text", J!Str("other")), J!Pair("body", J!Obj(<<J!Pair("stringValue", J!Str("word"))>>)),
  J!Pair("level", J!Str("error")), J!Member(<<"a", "severity">>, J!Str("warn")), J!Member(<<"a", "b", "loglevel">>, J!Str("warn")),
  J!Pair("a", J!Obj(<<J!Pair("log_level", J!Str("word")), J!Pair("source", J!Str("other"))>>)),
  J!Pair("service", J!Str("word")), J!Member(<<"a", "module">>, J!Str("word")),
  J!Pair("time", J!Str("stamp")), J!Member(<<"b", "ts">>, J!Str("word")), J!Pair("timestamp", J!Num("n1")),
  J!Pair("timeUnixNano", J!Str("n2")), J!Pair("severityNumber", J!Num("error")), J!Pair("traceId", J!Str("word")),
  J!Pair("spanId", J!Str("word")), J!Pair("latency_ms", J!Num("n1")), J!Pair("k", [kind |-> "literal"]),
  J!Pair("startTimeUnixNano", J!Str("n1")), J!Pair("endTimeUnixNano", J!Str("n2")), J!Pair("name", J!Str("startTimeUnixNano")),
  J!Pair("logGroup", J!Str("word")), J!Pair("logStream", J!Str("other")), J!Pair("resourceSpans", J!Arr(<<>>)),
  J!Member(<<"a", "logGroup">>, J!Str("word")),
  J!Pair("_SYSTEMD_UNIT", J!Str("word")), J!Pair("_COMM", J!Str("other")), J!Pair("PRIORITY", J!Str("error")), J!Pair("MESSAGE", J!Str("word"))}
SpanObject ==
  <<J!Pair("startTimeUnixNano", J!Str("n1")), J!Pair("endTimeUnixNano", J!Str("n2")), J!Pair("name", J!Str("word")),
    J!Pair("parentSpanId", J!Str("other")),
    J!Pair("status", J!Obj(<<J!Pair("code", J!Str("ERROR"))>>)),
    J!Pair("attributes", J!Arr(<<J!Obj(<<J!Pair("key", J!Str("service.name")), J!Pair("value", J!Obj(<<J!Pair("stringValue", J!Str("word"))>>))>>),
                                 J!Obj(<<J!Pair("key", J!Str("word"))>>)>>)),
    J!Pair("links", J!Arr(<<J!Obj(<<J!Pair("spanId", J!Str("word"))>>), J!Obj(<<J!Pair("spanId", J!Str("other"))>>)>>))>>
MCObjects ==
  {<<m, n>> : m \in ObjectMembers, n \in ObjectMembers} \cup {<<>>}
  \cup {<<m, n>> \o SpanObject : m \in {J!Pair("k", J!Num("n1")), J!Pair("traceId", J!Str("word"))}, n \in ObjectMembers}
MCDistinct == {o \in MCObjects : \A i, j \in DOMAIN o : i # j => o[i].key # o[j].key}
MCStamps == {"stamp"}
MCLevels == {"error", "warn"}
MCNanos == "0" :> 0 @@ [n1 |-> 1, n2 |-> 2]

\* Exports: a span with something of its own, and one or two others, under resources of several kinds.
NamedAttribute(value) == J!Obj(<<J!Pair("key", J!Str("service.name")), J!Pair("value", J!Obj(<<J!Pair("stringValue", J!Str(value))>>))>>)
OtherAttribute == J!Obj(<<J!Pair("key", J!Str("k")), J!Pair("value", J!Obj(<<J!Pair("stringValue", J!Str("v"))>>))>>)
ValuelessName == J!Obj(<<J!Pair("key", J!Str("service.name")), J!Pair("value", J!Num("n1"))>>)
Link(id) == J!Obj(<<J!Pair("traceId", J!Str("far")), J!Pair("spanId", J!Str(id))>>)
Status(code) == J!Pair("status", J!Obj(<<J!Pair("code", code)>>))

Own == {
  <<>>, <<J!Pair("parentSpanId", J!Str("p"))>>, <<J!Pair("traceId", J!Num("n1"))>>, <<J!Pair("name", J!Str("word"))>>, <<J!Pair("name", J!Num("n1"))>>,
  <<J!Pair("endTimeUnixNano", J!Str("n2"))>>, <<J!Pair("endTimeUnixNano", J!Num("n2"))>>, <<J!Pair("kind", J!Num("2"))>>, <<J!Pair("kind", J!Str("SPAN_KIND_CLIENT"))>>,
  <<Status(J!Num("2"))>>, <<Status(J!Num("1"))>>, <<Status(J!Obj(<<>>))>>, <<Status(J!Str("STATUS_CODE_ERROR"))>>, <<J!Pair("status", J!Obj(<<>>))>>, <<J!Pair("status", J!Num("2"))>>,
  <<J!Pair("links", J!Arr(<<>>))>>, <<J!Pair("links", J!Arr(<<Link("far1"), Link("far2")>>))>>, <<J!Pair("links", Link("far1"))>>,
  <<J!Pair("attributes", J!Arr(<<>>))>>, <<J!Pair("attributes", J!Arr(<<OtherAttribute, NamedAttribute("own")>>))>>,
  <<J!Pair("attributes", J!Arr(<<NamedAttribute("own"), NamedAttribute("other")>>))>>, <<J!Pair("attributes", NamedAttribute("own"))>>}
SpanOf(id, own) == J!Obj(<<J!Pair("spanId", J!Str(id)), J!Pair("startTimeUnixNano", J!Str("n1"))>> \o own)

Resources == {
  <<>>, <<J!Pair("resource", J!Obj(<<>>))>>,
  <<J!Pair("resource", J!Obj(<<J!Pair("attributes", J!Arr(<<OtherAttribute, ValuelessName, NamedAttribute("first"), NamedAttribute("last")>>))>>))>>}
Scope(spans) == J!Obj(<<J!Pair("spans", J!Arr(spans))>>)
Resource(resource, scopes) == J!Obj(resource \o <<J!Pair("scopeSpans", J!Arr(scopes))>>)
Export(resources) == <<J!Pair("resourceSpans", J!Arr(resources))>>
MCExports ==
  {Export(<<Resource(r, <<Scope(<<SpanOf("s1", own), J!Num("n1"), SpanOf("s2", <<>>)>>)>>)>>) : r \in Resources, own \in Own}
  \cup {Export(<<Resource(r, <<Scope(<<SpanOf("s1", <<>>)>>), J!Num("n1"), Scope(<<SpanOf("s2", own)>>)>>), Resource(q, <<Scope(<<SpanOf("s3", <<>>)>>)>>)>>) :
          r \in Resources, q \in Resources, own \in Own}
  \cup {<<J!Pair("k", J!Str("word"))>> \o Export(<<J!Num("n1"), J!Obj(<<>>), Resource(<<>>, <<>>), Resource(<<>>, <<J!Obj(<<>>), Scope(<<SpanOf("s1", own)>>)>>)>>) : own \in Own}
  \cup {<<J!Pair("resourceSpans", J!Str("word"))>>, <<J!Pair("message", J!Str("resourceSpans"))>>, Export(<<>>)}

----------------------------------------------------------------------------
IntentWords == {<<"k">>, <<"N">>, <<"1">>, <<"1", "0">>, <<"v", "1">>, <<"v", "1", ".", "0">>, <<"1", "0", "k">>, <<"(", "k", ")">>, <<"PR", "-", "1", "0">>, <<"PR", "-", "0", "1">>}
\* Two names of one class, masked from one place, whose last spans do not stand in one place.
LateSpan == {<<"v", "1", ".", "1", "0", ".", "N", ".", "1", "k">>, <<"v", "1", ".", "1", "0", ".", "1", "k">>}
MCIntentNames == IntentWords \cup Cat(Cat(IntentWords, {<<" ">>, <<"-">>}), IntentWords) \cup LateSpan
MCIntroducers == {<<>>, <<"-">>}
MCContents == Plain(Alone \cup Behind \cup MCIntentNames) \cup {[kind |-> "json", value |-> v] : v \in Values2}
MCDeclared == {{}, {[markers |-> <<<<"PR", "-">>, <<"v">>>>, value |-> <<"1">>]}}
==============================================================================
