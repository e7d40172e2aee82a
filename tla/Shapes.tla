------------------------------- MODULE Shapes -------------------------------
(***************************************************************************)
(* The prefixes and fields that the built-in strategies read               *)
(* (core/src/scan/canon.detail.scan.cppm).  A line is a text of cells: a   *)
(* whole run of digits, a word, or one byte.  A cell has the width of its  *)
(* bytes, for the lengths and the fixed offsets that the code tests.       *)
(***************************************************************************)
EXTENDS Texts

DigitWidth == [d1 |-> 1, d2 |-> 2, d3 |-> 3, d4 |-> 4, d5 |-> 5, d6 |-> 6, d7 |-> 7, d8 |-> 8, d9 |-> 9, d10 |-> 10]
WordWidth == [Mon |-> 3, LEVEL |-> 4, UPPER |-> 6, RAS |-> 3, GET |-> 3, HTTP |-> 4, I |-> 1, T |-> 1,
              word |-> 5, node |-> 4, unix |-> 4, ts |-> 2, level |-> 5, source |-> 6, msg |-> 3]
\* A JSON object is read member by member elsewhere; here a member is one cell.
MemberWidth == [member |-> 11, escaped |-> 13, journal |-> 30, cloud |-> 14, spans |-> 18]

DigitRun == DOMAIN DigitWidth
Words == DOMAIN WordWidth
AllUpper == {"LEVEL", "UPPER", "RAS", "GET", "HTTP", "I", "T"}
UpperFirst == AllUpper \cup {"Mon"}
LevelWord == {"LEVEL"}     \* what parse_log_level knows
LogcatLevel == {"I"}       \* what is_level_char knows

Width(cell) ==
  IF cell \in DigitRun THEN DigitWidth[cell]
  ELSE IF cell \in Words THEN WordWidth[cell]
  ELSE IF cell \in DOMAIN MemberWidth THEN MemberWidth[cell]
  ELSE 1
Size(text) ==
  LET upto[n \in 0 .. Len(text)] == IF n = 0 THEN 0 ELSE upto[n - 1] + Width(text[n])
  IN  upto[Len(text)]

Wider(n) == {d \in DigitRun : DigitWidth[d] >= n}
Narrower(n) == {d \in DigitRun : DigitWidth[d] <= n}

----------------------------------------------------------------------------
(* Walking a text: what is taken, and the rest.                            *)

Other(text, cells) == {text[i] : i \in DOMAIN text} \ cells
Skip(text) == From(text, After(text, 1, {"sp"}))
FirstIs(text, cells) == text # <<>> /\ text[1] \in cells
Leads(text, pattern) == Len(text) >= Len(pattern) /\ \A k \in DOMAIN pattern : text[k] \in pattern[k]
AtByte(text, n, cell) == \E i \in DOMAIN text : text[i] = cell /\ Size(Upto(text, i - 1)) = n

\* The text without the first n bytes of the run it opens with, or without the run if it is shorter.
DropDigits(text, n) ==
  IF DigitWidth[text[1]] <= n THEN Tail(text)
  ELSE <<CHOOSE d \in DigitRun : DigitWidth[d] = DigitWidth[text[1]] - n>> \o Tail(text)

\* The text without its first n bytes.  What is left of a word that is cut is a word, taken for no level.
DropBytes(text, n) ==
  LET whole == Cardinality({i \in DOMAIN text : Size(Upto(text, i)) <= n})
      rest == From(text, whole + 1)
      short == n - Size(Upto(text, whole))
  IN  IF short = 0 THEN rest
      ELSE IF FirstIs(rest, DigitRun) THEN DropDigits(rest, short) ELSE <<"word">> \o Tail(rest)

Split(body, end) == [tok |-> Upto(body, end - 1), rest |-> Skip(From(body, end))]
OpeningToken(body) == Split(body, After(body, 1, Other(body, {"sp"})))
TakeToken(text) == OpeningToken(Skip(text))

\* The text after so many tokens.
AfterTokens(text, n) ==
  LET after[k \in 0 .. n] == IF k = 0 THEN text ELSE TakeToken(after[k - 1]).rest
  IN  after[n]

TakeUntil(text, delim) ==
  IF First(text, delim) = {} THEN [tok |-> text, rest |-> <<>>]
  ELSE LET at == CHOOSE i \in First(text, delim) : TRUE
       IN  [tok |-> Upto(text, at - 1), rest |-> From(text, at + 1)]

\* Without its terminator a field is not named, and its bytes stay.
TakeUntilOrNone(text, delim) ==
  IF Has(text, {delim}) THEN TakeUntil(text, delim) ELSE [tok |-> <<>>, rest |-> text]

TakeBracketedOrNone(text) ==
  IF FirstIs(text, {"["}) /\ Has(text, {"]"})
  THEN [TakeUntil(text, "]") EXCEPT !.tok = Tail(@)]
  ELSE [tok |-> <<>>, rest |-> text]

Count(text, i, cell) == Cardinality({k \in 1 .. i : text[k] = cell})

TakeBalancedOrNone(text) ==
  LET closes == {i \in DOMAIN text : text[i] = "]" /\ Count(text, i, "[") = Count(text, i, "]")
                                      /\ \A k \in 1 .. i - 1 : Count(text, k, "[") > Count(text, k, "]")}
  IN  IF FirstIs(text, {"["}) /\ closes # {}
      THEN LET at == CHOOSE i \in closes : TRUE
           IN  [tok |-> SubSeq(text, 2, at - 1), rest |-> From(text, at + 1)]
      ELSE [tok |-> <<>>, rest |-> text]

\* clf_quoted_close_index: an escape takes the byte behind it along.
QuotedClose(text) ==
  LET escaped[i \in 1 .. Len(text)] == i > 2 /\ text[i - 1] = "esc" /\ ~escaped[i - 1]
      closes == {i \in 2 .. Len(text) : text[i] = "\"" /\ ~escaped[i]}
  IN  IF FirstIs(text, {"\""}) THEN {i \in closes : \A k \in closes : i <= k} ELSE {}

\* take_bounded_syslog_tag: a tag is one token that ends in a colon, with or
\* without a bracketed process id inside that token.
TakeTag(text) ==
  LET stops == {i \in DOMAIN text : text[i] \in {"[", ":", "sp"} /\ \A k \in 1 .. i - 1 : text[k] \notin {"[", ":", "sp"}}
      body(i) ==
        IF text[i] = ":" THEN {i + 1}
        ELSE {c + 2 : c \in {k \in i + 1 .. Len(text) - 1 : /\ text[k] = "]" /\ text[k + 1] = ":"
                                                            /\ \A m \in i + 1 .. k - 1 : text[m] \notin {"]", "sp"}}}
  IN  {[tok |-> Upto(text, i - 1), rest |-> Skip(From(text, b))] :
         i \in {s \in stops : s > 1 /\ text[s] # "sp"}, b \in UNION {body(s) : s \in {s \in stops : s > 1 /\ text[s] # "sp"}}}

----------------------------------------------------------------------------
(* Dates and clocks.  A run that nothing more is asked of may be longer.   *)

Date(sep) == <<{"d4"}, {sep}, {"d2"}, {sep}>>
DateLead(sep) == Date(sep) \o <<Wider(2)>>
WholeDate(sep) == Date(sep) \o <<{"d2"}>>
ShortDate == <<{"d2"}, {"/"}, {"d2"}, {"/"}, {"d2"}>>
Minutes == <<{"d2"}, {":"}, {"d2"}, {":"}>>
Clock == Minutes \o <<Wider(2)>>
WholeClock == Minutes \o <<{"d2"}>>

\* The text after the bytes of a clock, which are eight.
AfterClock(text) == DropDigits(From(text, 5), 2)

\* At most two digits are the day's, and a blank behind them is not asked for: a run of four may be a
\* day and the hour of the clock that is glued to it.
kBsdMinLen == 15
IsBsdSyslogPrefix(text) ==
  /\ Size(text) >= kBsdMinLen
  /\ FirstIs(text, {"Mon"})
  /\ LET day == Skip(From(text, 2))
     IN  FirstIs(day, DigitRun) /\ Leads(Skip(DropDigits(day, 2)), Clock)

IsRfc3339Prefix(text) == Leads(text, WholeDate("-") \o <<{"T"}>> \o Clock)

IsIsoDatetimeSpacePrefix(text, fraction) ==
  /\ Leads(text, WholeDate("-") \o <<{"sp"}>>)
  /\ Leads(Skip(From(text, 6)), IF fraction THEN WholeClock \o <<{".", ","}>> ELSE Clock)

\* log4j_stamp_end: the fraction's digits whole.
Log4jStampEnd(text, start) ==
  LET clock == After(text, start + 5, {"sp"})
  IN  After(text, clock + 6, DigitRun)

kIsoTimestampMinLen == 20
kLog4jPrefixScanLimit == 96

\* The stamp that opens the line, or the first one behind a blank, if a process
\* id follows it.
FindLog4jStamp(text) ==
  LET first == After(text, 1, {"sp"})
      stamped(i) == IsIsoDatetimeSpacePrefix(From(text, i), TRUE)
      within(i) ==
        Size(Upto(text, i - 1)) + kIsoTimestampMinLen
          <= (IF Size(text) < kLog4jPrefixScanLimit THEN Size(text) ELSE kLog4jPrefixScanLimit)
      later == {i \in first + 1 .. Len(text) : text[i - 1] = "sp" /\ within(i) /\ stamped(i)}
      hasPid(i) == Leads(Skip(From(text, Log4jStampEnd(text, i))), <<DigitRun, {"sp"}>>)
  IN  IF stamped(first) THEN {[start |-> first, end |-> Log4jStampEnd(text, first), prefixed |-> FALSE]}
      ELSE {[start |-> i, end |-> Log4jStampEnd(text, i), prefixed |-> TRUE] :
              i \in {k \in later : (\A n \in later : k <= n) /\ hasPid(k)}}

IsNginxErrorPrefix(text) ==
  /\ Size(text) >= 22
  /\ Leads(text, WholeDate("/") \o <<{"sp"}>> \o WholeClock)
  /\ LET level == Skip(From(text, 12)) IN TakeBracketedOrNone(level).tok # <<>>

IsSparkPrefix(text) == Size(text) >= 17 /\ Leads(text, ShortDate \o <<{"sp"}>> \o Clock)
IsHdfsPrefix(text) == Size(text) >= 16 /\ Leads(text, <<{"d6"}, {"sp"}, {"d6"}, {"sp"}, DigitRun>>)
IsProxifierPrefix(text) ==
  Size(text) >= 17 /\ Leads(text, <<{"["}, {"d2"}, {"."}, {"d2"}, {"sp"}>> \o WholeClock \o <<{"]"}>>)

IsRfc5424Prefix(text) ==
  /\ Size(text) >= 6
  /\ Leads(text, <<{"<"}, Narrower(3), {">"}, {"d1"}, {"sp"}>>)
  /\ Leads(Skip(From(text, 5)), DateLead("-"))

IsApacheErrorPrefix(text) ==
  /\ Size(text) >= 22
  /\ Leads(text, <<{"["}, {"Mon"}, {"sp"}, {"Mon"}>>)
  /\ LET day == Skip(From(text, 5))
         clock == Skip(DropDigits(day, 2))
     IN  FirstIs(day, Wider(2)) /\ Leads(clock, Clock) /\ Has(AfterClock(clock), {"]"})

kBglLabelMaxLen == 16
IsIdentifier(token) == FirstIs(token, AllUpper) /\ Over(token, AllUpper \cup DigitRun)
IsBglLabelledPrefix(text) ==
  LET label == Upto(text, After(text, 1, Other(text, {"sp"})) - 1)
      epoch == Skip(From(text, Len(label) + 1))
  IN  /\ Size(text) >= 14
      /\ label = <<"-">> \/ (IsIdentifier(label) /\ Size(label) <= kBglLabelMaxLen)
      /\ FirstIs(epoch, DigitRun) /\ Leads(Skip(Tail(epoch)), DateLead("."))

IsHealthAppPrefix(text) ==
  LET field == <<Narrower(2), {":"}>>
      pattern == <<{"d8"}, {"-"}>> \o field \o field \o field \o <<Narrower(3), {"|"}>>
  IN  Size(text) >= 18 /\ Leads(text, pattern) /\ Count(text, Len(text), "|") >= 3

IsHpcPrefix(text) ==
  LET fields == Skip(Tail(text))
      epoch == AfterTokens(fields, 3)
  IN  /\ FirstIs(text, DigitRun)
      /\ AfterTokens(fields, 2) # <<>>
      /\ FirstIs(epoch, Wider(10)) /\ Leads(Skip(Tail(epoch)), <<DigitRun, {"sp"}>>)

IsClfStamp(text) == Leads(text, <<{"["}, {"d2"}, {"/"}, {"Mon"}, {"/"}, {"d4"}, {":"}>> \o Clock)
IsClfRecordPrefix(text) ==
  LET stamp == AfterTokens(text, 3)
      quoted == Skip(TakeUntil(stamp, "]").rest)
      status == Skip(From(quoted, (CHOOSE i \in QuotedClose(quoted) : TRUE) + 1))
  IN  /\ IsClfStamp(stamp) /\ Has(stamp, {"]"})
      /\ QuotedClose(quoted) # {}
      /\ FirstIs(status, {"d3"}) /\ (Len(status) = 1 \/ status[2] = "sp")

\* The "=" signs that look like a pair's.
KeyCell == Words \cup DigitRun \cup {"_", ".", "-"}
PairSignatures(text) ==
  Cardinality({i \in 2 .. Len(text) - 1 : text[i] = "=" /\ text[i - 1] \in KeyCell /\ text[i + 1] \notin {"sp", "="}})
=============================================================================
