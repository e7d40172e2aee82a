----------------------------- MODULE Strategies -----------------------------
(***************************************************************************)
(* The built-in strategies that read a text layout (core/src/strategy):    *)
(* the score each gives a line, in hundredths, and what its parse makes of *)
(* a line it scored: one record of fields, or none when it refuses.  The   *)
(* time stamp is read elsewhere.  A level is the text of its seat; where   *)
(* the code infers the level from the message, the seat is empty.          *)
(***************************************************************************)
EXTENDS Shapes
LOCAL INSTANCE SequencesExt

Fields == [level |-> <<>>, component |-> <<>>, host |-> <<>>, content |-> <<>>]
When(holds, fields) == IF holds THEN {fields} ELSE {}
Score(size, least, holds, score) == IF size >= least /\ holds THEN score ELSE 0

DropOpening(text, cells) == IF FirstIs(text, cells) THEN TakeToken(text).rest ELSE text
PastByte(text, n) == From(text, CHOOSE i \in DOMAIN text : Size(Upto(text, i - 1)) = n)

----------------------------------------------------------------------------
(* The syslog family.                                                      *)

\* The header behind the stamp: a host that is no level word, and a bounded tag.
HeaderIn(rest) ==
  LET host == TakeToken(rest)
      hosted == host.tok # <<>> /\ ~Has(host.tok, {"[", ":"}) /\ \A word \in LevelWord : host.tok # <<word>>
  IN  {[tag |-> tag.tok, body |-> tag.rest] : tag \in IF hosted THEN TakeTag(host.rest) ELSE {}}

\* scan_syslog_header walks the stamp that the predicate accepted a second time, over all the digits of
\* the day, and takes the bytes of a clock from there: behind a day glued to its clock only a part of the
\* clock is left, and the trims take what follows it along, or leave the line.
kBsdTimeLen == 8
Walked(line) == Skip(Tail(Skip(Tail(line))))
TrimsInLine(line) == IsBsdSyslogPrefix(line) => Size(Walked(line)) >= kBsdTimeLen
AfterStamp(line) ==
  IF Leads(Walked(line), Clock) THEN AfterClock(Walked(line)) ELSE DropBytes(Walked(line), kBsdTimeLen)

\* The header that the line itself holds.
SyslogHeader(line) ==
  LET bsd == IsBsdSyslogPrefix(line)
      stamped == IF bsd THEN TrimsInLine(line) ELSE IsRfc3339Prefix(line)
  IN  IF stamped THEN HeaderIn(IF bsd THEN AfterStamp(line) ELSE TakeToken(line).rest) ELSE {}

SyslogRecords(headers) ==
  {[Fields EXCEPT !.component = header.tag, !.content = header.body] : header \in headers}
SyslogParse(line) == SyslogRecords(SyslogHeader(line))
SyslogConfidence(line) ==
  IF SyslogHeader(line) = {} THEN 0 ELSE IF IsBsdSyslogPrefix(line) THEN 85 ELSE 80

\* The stamp is read and never removed.
Rfc3339TextParse(line) ==
  When(IsRfc3339Prefix(line) /\ SyslogHeader(line) = {}, [Fields EXCEPT !.content = line])
Rfc3339TextConfidence(line) ==
  IF IsRfc3339Prefix(line) /\ SyslogHeader(line) = {} THEN 80 ELSE 0

\* The structured data goes, the absent dash or a bracketed element.
WithoutStructuredData(text) ==
  LET ends == {i \in 1 .. Len(text) - 1 : text[i] = "]" /\ text[i + 1] = "sp"}
  IN  IF StartsAt(text, 1, <<"-", "sp">>) THEN From(text, 3)
      ELSE IF FirstIs(text, {"["}) /\ ends # {}
           THEN From(text, (CHOOSE i \in ends : \A k \in ends : i <= k) + 2)
           ELSE text

RFC5424Parse(line) ==
  LET pri == TakeUntil(Tail(line), ">")
      hostname == TakeToken(AfterTokens(pri.rest, 2))
      appname == TakeToken(hostname.rest)
  IN  When(IsRfc5424Prefix(line),
           [Fields EXCEPT !.level = pri.tok,
                          !.component = IF appname.tok = <<"-">> THEN hostname.tok ELSE appname.tok,
                          !.content = WithoutStructuredData(AfterTokens(appname.rest, 2))])
RFC5424Confidence(line) == Score(Size(line), 20, IsRfc5424Prefix(line), 92)

----------------------------------------------------------------------------
(* The supercomputers' layouts.                                            *)

StartsWithFacility(text) == TakeToken(text).tok = <<"RAS">>

\* The repeated node is looked for first, and only then its absence.
RasRecord(node, rest) ==
  LET tail == TakeToken(rest).rest
      without_node2 == TakeToken(tail).rest
      fields == TakeToken(IF StartsWithFacility(without_node2) THEN without_node2 ELSE tail).rest
      subsystem == TakeToken(fields)
      level == TakeToken(subsystem.rest)
  IN  When(/\ StartsWithFacility(without_node2) \/ StartsWithFacility(tail)
           /\ IsIdentifier(subsystem.tok)
           /\ \E word \in LevelWord : level.tok = <<word>>,
           [level |-> level.tok, component |-> subsystem.tok, host |-> node, content |-> level.rest])

ThunderbirdRecord(node, rest) ==
  LET host == TakeToken(AfterTokens(rest, 3))
      daemon == IF TakeTag(host.rest) = {} THEN [tok |-> <<>>, rest |-> host.rest]
                ELSE CHOOSE tag \in TakeTag(host.rest) : TRUE
  IN  When(IsBsdSyslogPrefix(rest) /\ host.tok # <<>>,
           [Fields EXCEPT !.component = daemon.tok, !.host = node, !.content = daemon.rest])

\* scan_bgl_record, which is the claim and the parse.
BGLParse(line) ==
  LET node == TakeToken(AfterTokens(line, 3))
      fields == node.rest
  IN  IF ~IsBglLabelledPrefix(line) \/ node.tok = <<>> \/ fields = <<>> THEN {}
      ELSE IF FirstIs(fields, DigitRun) THEN RasRecord(node.tok, fields)
      ELSE ThunderbirdRecord(node.tok, fields)
\* Fault: the prefix is claimed, whatever stands behind it.
BGLPrefixConfidence(line) == Score(Size(line), 20, IsBglLabelledPrefix(line), 90)
BGLConfidence(line) == Score(Size(line), 20, BGLParse(line) # {}, 90)

HPCParse(line) ==
  LET facility == TakeToken(AfterTokens(line, 2))
      event_type == TakeToken(facility.rest)
  IN  When(IsHpcPrefix(line),
           [Fields EXCEPT !.component = facility.tok \o <<".">> \o event_type.tok,
                          !.content = AfterTokens(event_type.rest, 2)])
HPCConfidence(line) == Score(Size(line), 30, IsHpcPrefix(line), 80)

----------------------------------------------------------------------------
(* The servers' layouts.                                                   *)

\* A seat with a colon splits at its last one.
SplitLevelSeat(seat) ==
  LET colons == {i \in DOMAIN seat : seat[i] = ":"} \cup {0}
      last == CHOOSE i \in colons : \A k \in colons : k <= i
      word == From(seat, last + 1)
  IN  [module |-> Upto(seat, last - 1),
       level |-> Upto(word, After(word, 1, Words \cup DigitRun \cup {"_"}) - 1)]

\* Every closed section goes, up to the first that does not close.
AfterSections(text) ==
  LET after[k \in 0 .. Len(text)] ==
        IF k = 0 THEN text ELSE Skip(TakeBracketedOrNone(after[k - 1]).rest)
  IN  after[Count(text, Len(text), "[")]

ApacheErrorParse(line) ==
  LET bracket == TakeBracketedOrNone(Skip(TakeBracketedOrNone(line).rest))
      seat == SplitLevelSeat(bracket.tok)
  IN  When(IsApacheErrorPrefix(line),
           [Fields EXCEPT !.level = seat.level,
                          !.component = IF seat.module = <<>> THEN <<"httpd">> ELSE seat.module,
                          !.content = AfterSections(Skip(bracket.rest))])
ApacheErrorConfidence(line) == Score(Size(line), 27, IsApacheErrorPrefix(line), 88)

NginxErrorParse(line) ==
  LET level == TakeBracketedOrNone(Skip(From(line, 12)))
  IN  When(IsNginxErrorPrefix(line),
           [Fields EXCEPT !.level = level.tok, !.component = <<"nginx">>, !.content = TakeToken(level.rest).rest])
NginxErrorConfidence(line) == Score(Size(line), 25, IsNginxErrorPrefix(line), 89)

\* The request line and the status make the content, joined by blanks.
CLFParse(line) ==
  LET quoted == Skip(TakeUntil(AfterTokens(line, 3), "]").rest)
      close == CHOOSE i \in QuotedClose(quoted) : TRUE
      method == TakeToken(SubSeq(quoted, 2, close - 1))
      status == TakeToken(From(quoted, close + 1))
  IN  When(IsClfRecordPrefix(line),
           [Fields EXCEPT !.level = status.tok, !.host = TakeToken(line).tok,
                          !.content = method.tok \o <<"sp">> \o TakeToken(method.rest).tok \o <<"sp">> \o status.tok])
CLFConfidence(line) == IF IsClfRecordPrefix(line) THEN 95 ELSE 0

\* The short field order opens with the method, the full one has it third.
IISW3CParse(line) ==
  LET first == TakeToken(PastByte(line, 19))
      server == TakeToken(first.rest)
      method == TakeToken(server.rest)
      record(component, verb, uri) ==
        [Fields EXCEPT !.level = uri.rest, !.component = component,
                       !.content = verb \o <<"sp">> \o uri.tok \o (IF uri.rest = <<>> THEN <<>> ELSE <<"sp">> \o uri.rest)]
  IN  IF FirstIs(line, {"#"}) \/ Size(line) < 20 THEN {}
      ELSE IF first.tok = <<"GET">> THEN {record(<<"IIS">>, first.tok, server)}
      ELSE When(method.tok = <<"GET">> /\ TakeToken(method.rest).tok # <<>>,
                record(server.tok, method.tok, TakeToken(method.rest)))
IISW3CConfidence(line) ==
  Score(Size(line), 22, IsIsoDatetimeSpacePrefix(line, FALSE) /\ AtByte(line, 19, "sp"), 87)

WindowsCBSParse(line) ==
  LET level == TakeToken(PastByte(line, 20))
      component == TakeToken(level.rest)
  IN  IF ~(AtByte(line, 19, ",") /\ AtByte(line, 20, "sp")) THEN {}
      ELSE When(level.tok # <<>> /\ component.tok # <<>>,
                [Fields EXCEPT !.level = level.tok, !.component = component.tok, !.content = component.rest])
WindowsCBSConfidence(line) ==
  Score(Size(line), 25,
        IsIsoDatetimeSpacePrefix(line, FALSE) /\ AtByte(line, 19, ",") /\ AtByte(line, 20, "sp"), 88)

----------------------------------------------------------------------------
(* The applications' layouts.                                              *)

HealthAppParse(line) ==
  LET component == TakeUntil(TakeUntil(line, "|").rest, "|")
  IN  When(IsHealthAppPrefix(line),
           [Fields EXCEPT !.component = component.tok, !.content = TakeUntil(component.rest, "|").rest])
HealthAppConfidence(line) == Score(Size(line), 19, IsHealthAppPrefix(line), 92)

ProxifierParse(line) ==
  LET process == TakeToken(TakeBracketedOrNone(line).rest)
  IN  When(IsProxifierPrefix(line),
           [Fields EXCEPT !.component = process.tok, !.content = DropOpening(process.rest, {"-", "*"})])
ProxifierConfidence(line) == Score(Size(line), 18, IsProxifierPrefix(line), 90)

\* is_spark_prefix first, the HDFS stamp only after it.
SparkHDFSParse(line) ==
  LET level == TakeToken(IF IsSparkPrefix(line) THEN AfterClock(From(line, 7))
                         ELSE TakeToken(DropDigits(From(line, 3), 6)).rest)
      component == TakeUntilOrNone(level.rest, ":")
  IN  When(IsSparkPrefix(line) \/ IsHdfsPrefix(line),
           [Fields EXCEPT !.level = level.tok, !.component = component.tok, !.content = Skip(component.rest)])
SparkHDFSConfidence(line) ==
  Score(Size(line), 17, IsSparkPrefix(line) \/ IsHdfsPrefix(line), 85)

\* Three layouts behind one stamp: Python's dashes, OpenStack's process id,
\* and the standard one.
Log4jDash(rest) ==
  LET level == TakeToken(TakeToken(rest).rest)
      thread == TakeBalancedOrNone(level.rest)
  IN  [Fields EXCEPT !.level = level.tok, !.component = thread.tok, !.content = DropOpening(Skip(thread.rest), {"-"})]
Log4jPrefixed(rest) ==
  LET level == TakeToken(TakeToken(rest).rest)
      component == TakeToken(level.rest)
  IN  [Fields EXCEPT !.level = level.tok, !.component = component.tok, !.content = TakeBracketedOrNone(component.rest).rest]
Log4jStandard(rest) ==
  LET level == TakeToken(rest)
      component == TakeUntilOrNone(Skip(TakeBalancedOrNone(level.rest).rest), ":")
  IN  [Fields EXCEPT !.level = level.tok, !.component = component.tok, !.content = DropOpening(Skip(component.rest), {"-"})]

Log4jParse(line) ==
  LET read(stamp, rest) ==
        IF rest = <<>> THEN {}
        ELSE IF TakeToken(rest).tok = <<"-">> THEN {Log4jDash(rest)}
        ELSE IF stamp.prefixed THEN {Log4jPrefixed(rest)}
        ELSE {Log4jStandard(rest)}
  IN  UNION {read(stamp, Skip(From(line, stamp.end))) : stamp \in FindLog4jStamp(line)}
Log4jConfidence(line) == Score(Size(line), 23, FindLog4jStamp(line) # {}, 82)

HasLogcatPrefix(line) ==
  Size(line) >= 30 /\ Leads(line, <<{"d2"}, {"-"}, {"d2"}, {"sp"}>> \o WholeClock \o <<{"."}, Wider(3)>>)

\* parse_fast: two numbers and a level letter stand before the tag.
LogcatTagAndMessage(line) ==
  LET pid == Skip(DropDigits(From(line, 11), 3))
      tid == Skip(Tail(pid))
      level == Skip(Tail(tid))
      numbered == FirstIs(pid, DigitRun) /\ FirstIs(tid, DigitRun)
  IN  IF numbered /\ Leads(level, <<LogcatLevel, {"sp"}>>) /\ Has(level, {":"})
      THEN {TakeUntil(From(level, 3), ":")} ELSE {}

AndroidLogcatParse(line) ==
  LET padless(tag) == Upto(tag, CHOOSE n \in 0 .. Len(tag) : /\ n = 0 \/ tag[n] # "sp"
                                                             /\ \A i \in n + 1 .. Len(tag) : tag[i] = "sp")
      named == {part \in IF HasLogcatPrefix(line) THEN LogcatTagAndMessage(line) ELSE {} : padless(part.tok) # <<>>}
  IN  {[Fields EXCEPT !.level = <<"I">>, !.component = padless(part.tok),
                      !.content = IF FirstIs(part.rest, {"sp"}) THEN Tail(part.rest) ELSE part.rest] : part \in named}
AndroidLogcatConfidence(line) == IF HasLogcatPrefix(line) THEN 90 ELSE 0

----------------------------------------------------------------------------
(* Pairs of key and value, and text.                                       *)

KeyStart == Words \cup DigitRun \cup {"_"}
Separator == {"sp", ",", ";"}

\* extract_pairs: a pair without a value is skipped.
ExtractPairs(line) ==
  LET pairs[i \in 1 .. Len(line) + 1] ==
        LET equals == After(line, i, KeyCell)
            quoted == StartsAt(line, equals + 1, <<"\"">>)
            start == IF quoted THEN equals + 2 ELSE equals + 1
            end == After(line, start, Other(line, IF quoted THEN {"\""} ELSE Separator))
            pair == [key |-> SubSeq(line, i, equals - 1), value |-> SubSeq(line, start, end - 1)]
        IN  IF i > Len(line) THEN <<>>
            ELSE IF line[i] \notin KeyStart THEN pairs[i + 1]
            ELSE IF ~StartsAt(line, equals, <<"=">>) THEN pairs[equals]
            ELSE (IF end = start THEN <<>> ELSE <<pair>>) \o pairs[IF quoted /\ end <= Len(line) THEN end + 1 ELSE end]
  IN  pairs[1]

\* One pair read: a role takes its first value it can use, a message counts only
\* before any other content, and any other pair is content.
ReadPair(read, pair) ==
  LET is(key) == pair.key = <<key>>
      joined == IF read.content = <<>> THEN <<>> ELSE read.content \o <<"sp">>
  IN  CASE is("ts") /\ ~read.stamped -> [read EXCEPT !.stamped = IsRfc3339Prefix(pair.value)]
        [] is("level") /\ (\A w \in LevelWord : read.level # <<w>>) -> [read EXCEPT !.level = pair.value]
        [] is("source") /\ read.component = <<>> -> [read EXCEPT !.component = pair.value]
        [] is("msg") -> IF read.content = <<>> THEN [read EXCEPT !.content = pair.value] ELSE read
        [] OTHER -> [read EXCEPT !.content = joined \o pair.key \o <<"=">> \o pair.value]

KVParse(line) ==
  LET pairs == ExtractPairs(line)
      read == FoldLeft(ReadPair, [stamped |-> FALSE, level |-> <<>>, component |-> <<>>, content |-> <<>>], pairs)
  IN  When(pairs # <<>>,
           [Fields EXCEPT !.level = read.level, !.component = read.component,
                          !.content = IF read.content = <<>> THEN line ELSE read.content])

LeadsWithKvPair(line) ==
  LET text == Skip(line)
      equals == After(text, 1, KeyCell)
  IN  /\ FirstIs(text, KeyStart)
      /\ equals < Len(text) /\ text[equals] = "=" /\ text[equals + 1] \notin Separator \cup {"="}
KVConfidence(line) ==
  LET count == PairSignatures(line)
  IN  IF ~LeadsWithKvPair(line) \/ count = 0 THEN 0
      ELSE IF count >= 3 THEN 90 ELSE IF count = 2 THEN 70 ELSE 30

RawTextParse(line) == {[Fields EXCEPT !.content = Skip(line)]}
=============================================================================
