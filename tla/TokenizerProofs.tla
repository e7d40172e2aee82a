-------------------------- MODULE TokenizerProofs --------------------------
(***************************************************************************)
(* For every set of lines, strategies, contexts and documents.  Of the     *)
(* detector: it is well defined (among what it scores there is one winner, *)
(* and it answers None on blank lines only).  Of the parser: what its      *)
(* routing keeps, and that the sticky cache is invisible when claims       *)
(* exclude one another.  Of the tokenizer: ids are dense and count the     *)
(* events, through every door, only an event moves a stream's clock, an    *)
(* event is a function of its own stream, and a batch answers for its      *)
(* records in order.                                                       *)
(***************************************************************************)
EXTENDS Tokenizer, Induction, SequenceTheorems

----------------------------------------------------------------------------
(* The detector.                                                           *)

LEMMA OffersBuiltin ==
  /\ DOMAIN Offers = 1 .. 21
  /\ \A i \in DOMAIN Offers : Offers[i].format \in Builtin
  /\ Len(Offers) = 21
BY DEF Offers, Builtin

LEMMA CustomTyped ==
  /\ DOMAIN Custom = 1 .. Len(Custom)
  /\ Len(Custom) \in Nat
  /\ \A k \in DOMAIN Custom : Custom[k] \in Customs
BY DetectorAssumption DEF Customs

LEMMA ByFormatTyped ==
  ASSUME NEW f \in Builtin
  PROVE  ByFormat(f) \in Builtin \cup Customs
<1> DEFINE same == {k \in DOMAIN Custom : CustomFormat[Custom[k]] = f}
<1>1. CASE same = {}
  BY <1>1 DEF ByFormat
<1>2. CASE same # {}
  <2>1. same \in SUBSET (0 .. Len(Custom))
    BY CustomTyped
  <2>2. \E k \in same : \A j \in same : j <= k
    <3> HIDE DEF same
    <3> QED BY <1>2, <2>1, CustomTyped, Greatest
  <2>3. (CHOOSE k \in same : \A j \in same : j <= k) \in same
    <3> HIDE DEF same
    <3> QED BY <2>2, Zenon
  <2>4. ByFormat(f) = Custom[CHOOSE k \in same : \A j \in same : j <= k]
    BY <1>2 DEF ByFormat
  <2> QED
    BY <2>3, <2>4, CustomTyped
<1> QED
  BY <1>1, <1>2

LEMMA FirstOfTyped ==
  ASSUME NEW f
  PROVE  FirstOf(f) \in Builtin \cup Customs \cup {None}
<1> DEFINE same == {k \in DOMAIN Custom : CustomFormat[Custom[k]] = f}
<1>1. CASE f \in Builtin \/ same = {}
  BY <1>1 DEF FirstOf
<1>2. CASE f \notin Builtin /\ same # {}
  <2>1. same \in SUBSET Nat
    BY CustomTyped
  <2>2. \E k \in same : \A j \in same : k <= j
    <3> HIDE DEF same
    <3> QED BY <1>2, <2>1, Least
  <2>3. (CHOOSE k \in same : \A j \in same : k <= j) \in same
    <3> HIDE DEF same
    <3> QED BY <2>2, Zenon
  <2>4. FirstOf(f) = Custom[CHOOSE k \in same : \A j \in same : k <= j]
    BY <1>2 DEF FirstOf
  <2> QED
    BY <2>3, <2>4, CustomTyped
<1> QED
  BY <1>1, <1>2

LEMMA EvaluatedTyped ==
  ASSUME NEW l \in Lines, NEW e \in Evaluated(l)
  PROVE  /\ e.turn \in Nat
         /\ e.strategy \in Builtin \cup Customs
         /\ Score(l, e) \in 0 .. MaxScore
<1>1. \A i \in Candidates(l) : i \in DOMAIN Offers
  BY DEF Candidates, Fresh, Offered
<1>2. e.turn \in Nat /\ e.strategy \in Builtin \cup Customs
  <2>1. \/ \E i \in Candidates(l) :
             e = [turn |-> i, strategy |-> ByFormat(Offers[i].format)]
        \/ \E k \in DOMAIN Custom : e = [turn |-> Len(Offers) + k, strategy |-> Custom[k]]
    BY DEF Evaluated
  <2>2. CASE \E i \in Candidates(l) :
               e = [turn |-> i, strategy |-> ByFormat(Offers[i].format)]
    <3>1. PICK i \in Candidates(l) : e = [turn |-> i, strategy |-> ByFormat(Offers[i].format)]
      BY <2>2
    <3>2. i \in Nat /\ Offers[i].format \in Builtin
      BY <1>1, OffersBuiltin
    <3> QED BY <3>1, <3>2, ByFormatTyped
  <2>3. CASE \E k \in DOMAIN Custom :
               e = [turn |-> Len(Offers) + k, strategy |-> Custom[k]]
    <3>1. PICK k \in DOMAIN Custom : e = [turn |-> Len(Offers) + k, strategy |-> Custom[k]]
      BY <2>3
    <3>2. k \in Nat /\ Len(Offers) \in Nat /\ Custom[k] \in Customs
      BY OffersBuiltin, CustomTyped
    <3> QED BY <3>1, <3>2
  <2> QED BY <2>1, <2>2, <2>3
<1>3. e.strategy \in Strategies
  BY <1>2 DEF Strategies
<1> QED
  BY <1>2, <1>3, DetectorAssumption DEF Score

(* Whatever the scores, one strategy beats all that were scored: ties fall  *)
(* to the earlier turn (format_detector.cpp:292, :315).                     *)
THEOREM WinnerBeatsAll ==
  ASSUME NEW l \in Lines, Evaluated(l) # {}
  PROVE  /\ Winner(l) \in Evaluated(l)
         /\ \A f \in Evaluated(l) : Beats(l, Winner(l), f)
<1> DEFINE scores == {Score(l, e) : e \in Evaluated(l)}
<1>1. scores \in SUBSET (0 .. MaxScore) /\ scores # {}
  BY EvaluatedTyped
<1>2. PICK top \in scores : \A n \in scores : n <= top
  <2> HIDE DEF scores
  <2> QED BY <1>1, DetectorAssumption, Greatest
<1> DEFINE turns == {e.turn : e \in {f \in Evaluated(l) : Score(l, f) = top}}
<1>3. turns \in SUBSET Nat /\ turns # {}
  BY EvaluatedTyped
<1>4. PICK first \in turns : \A n \in turns : first <= n
  <2> HIDE DEF turns
  <2> QED BY <1>3, Least
<1>5. PICK e \in Evaluated(l) : Score(l, e) = top /\ e.turn = first
  OBVIOUS
<1>6. ASSUME NEW f \in Evaluated(l) PROVE Beats(l, e, f)
  <2>1. Score(l, f) \in scores
    OBVIOUS
  <2>2. Score(l, f) <= top
    BY <1>2, <2>1
  <2>3. Score(l, f) \in Nat /\ top \in Nat
    BY EvaluatedTyped, <1>5
  <2>4. CASE Score(l, f) = top
    <3>1. f.turn \in turns
      BY <2>4
    <3> QED BY <1>4, <1>5, <2>4, <3>1 DEF Beats
  <2>5. CASE Score(l, f) # top
    BY <1>5, <2>2, <2>3, <2>5 DEF Beats
  <2> QED BY <2>4, <2>5
<1>7. \E w \in Evaluated(l) : \A f \in Evaluated(l) : Beats(l, w, f)
  BY <1>6
<1> QED
  BY <1>7, Zenon DEF Winner

(* detect() yields a strategy on every line but the blank ones             *)
(* (canon.detail.parse.cppm:27), and the fallback only where nothing that  *)
(* was scored claims the line.                                             *)
THEOREM NoneOnBlanksOnly ==
  ASSUME NEW l \in Lines
  PROVE  /\ Detect[l] \in Strategies \cup {None}
         /\ Detect[l] = None <=> IsNoEvent(l)
         /\ Detect[l] = Fallback => \A e \in Evaluated(l) : Score(l, e) = 0
<1>1. \A s \in Builtin \cup Customs : s # None /\ s # Fallback /\ s \in Strategies
  BY DetectorAssumption DEF Builtin, None, Fallback, Strategies
<1>2. CASE \E e \in Evaluated(l) : Score(l, e) > 0
  <2>1. Winner(l) \in Evaluated(l)
    BY <1>2, WinnerBeatsAll
  <2>2. Winner(l).strategy \in Builtin \cup Customs
    BY <2>1, EvaluatedTyped
  <2>3. ~IsNoEvent(l)
    <3>1. PICK e \in Evaluated(l) : Score(l, e) > 0
      BY <1>2
    <3>2. e.strategy \in Strategies
      BY EvaluatedTyped, <1>1
    <3> QED BY <3>1, <3>2, ScoreAssumption DEF Score
  <2>4. Detect[l] = Winner(l).strategy
    BY <1>2 DEF Detect
  <2> QED BY <1>1, <2>2, <2>3, <2>4
<1>3. CASE ~\E e \in Evaluated(l) : Score(l, e) > 0
  <2>1. \A e \in Evaluated(l) : Score(l, e) = 0
    BY <1>3, EvaluatedTyped, DetectorAssumption
  <2>2. Detect[l] = IF IsNoEvent(l) THEN None ELSE Fallback
    BY <1>3 DEF Detect
  <2>3. None # Fallback /\ Fallback \in Strategies
    BY DEF None, Fallback, Strategies
  <2> QED BY <2>1, <2>2, <2>3
<1> QED
  BY <1>2, <1>3

----------------------------------------------------------------------------
(* The parser.                                                             *)

IInv ==
  /\ TypeOK
  /\ SkipsExactlyNoEvents
  /\ FallbackOnlyUnclaimed
  /\ DetectionForgetsThePin
  /\ EchoOutranksLift
  /\ OnlyRoutedLinesAreStored

LEMMA ModeTyped ==
  ASSUME TypeOK
  PROVE  Mode \in {"auto", "latch"} \cup Strategies
BY DEF Mode, TypeOK

LEMMA ModeIsAuto ==
  ASSUME TypeOK
  PROVE  Mode = "auto" <=> autoDetect
BY ParserAssumption DEF Mode, TypeOK

LEMMA NamesDiffer ==
  /\ None \notin Strategies
  /\ Fallback \in Strategies
  /\ None \notin {"auto", "latch"}
BY DetectorAssumption DEF Strategies, Builtin, None, Fallback

LEMMA BytesTyped ==
  ASSUME NEW door \in Doors, NEW l \in Lines
  PROVE  Bytes(door, l) \in Lines
BY ParserAssumption DEF Bytes

LEMMA StrategyTyped ==
  ASSUME TypeOK, NEW b \in Lines
  PROVE  StrategyFor(b) \in Strategies \cup {None}
BY NoneOnBlanksOnly DEF StrategyFor, SelectStrategy, StickyHolds, TypeOK

(* Under detection, who gets a line: nobody on blank lines only, and the    *)
(* fallback only what no scored strategy claims.                            *)
LEMMA AutoRouting ==
  ASSUME TypeOK, autoDetect, NEW b \in Lines
  PROVE  /\ StrategyFor(b) = None <=> IsNoEvent(b)
         /\ StrategyFor(b) = Fallback => \A e \in Evaluated(b) : Score(b, e) = 0
<1>1. CASE StickyHolds(b)
  <2>1. sticky \in Strategies /\ Confidence[b][sticky] > 0 /\ StrategyFor(b) = sticky
    BY <1>1 DEF StickyHolds, StrategyFor, SelectStrategy, TypeOK
  <2>2. Confidence[b][sticky] # 0
    BY <2>1, DetectorAssumption
  <2>3. ~IsNoEvent(b) /\ sticky # Fallback
    BY <2>1, <2>2, ScoreAssumption
  <2> QED BY <2>1, <2>3, NamesDiffer
<1>2. CASE ~StickyHolds(b)
  <2>1. StrategyFor(b) = Detect[b]
    BY <1>2 DEF StrategyFor, SelectStrategy
  <2> QED BY <2>1, NoneOnBlanksOnly
<1> QED
  BY <1>1, <1>2

LEMMA KeepTyped ==
  ASSUME TypeOK, NEW s \in Strategies \cup {None}, Keep(s)
  PROVE  /\ active' \in Strategies \cup {None}
         /\ sticky' \in Strategies \cup {None}
         /\ autoDetect' \in BOOLEAN
         /\ DetectionForgetsThePin => DetectionForgetsThePin'
BY DEF Keep, TypeOK, DetectionForgetsThePin

LEMMA CopyBounded ==
  ASSUME TypeOK, NEW door \in Doors, NEW s, Copy(door, s)
  PROVE  /\ stored' \in Nat
         /\ stored' <= stored + 1
         /\ s = None => stored' = stored
BY DEF Copy, TypeOK

LEMMA InitIInv == Init => IInv
<1> SUFFICES ASSUME Init PROVE IInv
  OBVIOUS
<1> USE DEF Init
<1>1. TypeOK
  BY DEF TypeOK
<1>2. SkipsExactlyNoEvents /\ OnlyRoutedLinesAreStored /\ EchoOutranksLift
  BY DEF SkipsExactlyNoEvents, OnlyRoutedLinesAreStored, EchoOutranksLift
<1>3. FallbackOnlyUnclaimed
  BY NamesDiffer DEF FallbackOnlyUnclaimed
<1>4. DetectionForgetsThePin
  BY DEF DetectionForgetsThePin
<1> QED
  BY <1>1, <1>2, <1>3, <1>4 DEF IInv

LEMMA DeclarationsKeepIInv ==
  ASSUME IInv, (\E f \in Formats : SetFormat(f)) \/ (\E enabled \in BOOLEAN : SetAutoDetect(enabled))
  PROVE  IInv'
<1> USE DEF IInv
<1>1. /\ active' \in Strategies \cup {None}
      /\ sticky' \in Strategies \cup {None}
      /\ autoDetect' \in BOOLEAN
      /\ autoDetect' => active' = None
      /\ UNCHANGED <<lastFormat, parsed, failed, skipped, stored, outcome>>
  <2>1. CASE \E f \in Formats : SetFormat(f)
    <3>1. PICK f \in Formats : SetFormat(f)
      BY <2>1
    <3>2. FirstOf(f) \in Strategies \cup {None}
      BY FirstOfTyped DEF Strategies
    <3> QED BY <3>1, <3>2 DEF SetFormat
  <2>2. CASE \E enabled \in BOOLEAN : SetAutoDetect(enabled)
    BY <2>2 DEF SetAutoDetect, TypeOK
  <2> QED BY <2>1, <2>2
<1>2. TypeOK'
  BY <1>1 DEF TypeOK
<1>3. DetectionForgetsThePin'
  BY <1>1 DEF DetectionForgetsThePin
<1>4. SkipsExactlyNoEvents' /\ FallbackOnlyUnclaimed' /\ EchoOutranksLift' /\ OnlyRoutedLinesAreStored'
  BY <1>1 DEF SkipsExactlyNoEvents, FallbackOnlyUnclaimed, EchoOutranksLift, OnlyRoutedLinesAreStored
<1> QED
  BY <1>2, <1>3, <1>4

LEMMA SkipEmptyKeepsIInv ==
  ASSUME IInv, NEW door \in Doors, NEW l \in Lines, SkipEmpty(door, l)
  PROVE  IInv'
<1> USE DEF IInv
<1> DEFINE b == Bytes(door, l)
<1>1. b \in Lines /\ IsNoEvent(b)
  BY BytesTyped DEF SkipEmpty, IsEmpty, IsNoEvent
<1>2. /\ skipped' = skipped + 1
      /\ outcome' = NoEvent(b, None, "skipped")
      /\ UNCHANGED <<routing, lastFormat, parsed, failed, stored>>
  BY DEF SkipEmpty
<1> HIDE DEF b
<1>3. TypeOK'
  BY <1>1, <1>2, ModeTyped DEF TypeOK, NoEvent, routing
<1>4. SkipsExactlyNoEvents'
  BY <1>1, <1>2 DEF SkipsExactlyNoEvents, NoEvent
<1>5. FallbackOnlyUnclaimed' /\ EchoOutranksLift'
  BY <1>2, NamesDiffer DEF FallbackOnlyUnclaimed, EchoOutranksLift, NoEvent
<1>6. DetectionForgetsThePin' /\ OnlyRoutedLinesAreStored'
  BY <1>2 DEF DetectionForgetsThePin, OnlyRoutedLinesAreStored, routing
<1> QED
  BY <1>3, <1>4, <1>5, <1>6

LEMMA SkipBlankKeepsIInv ==
  ASSUME IInv, NEW door \in Doors, NEW l \in Lines, SkipBlank(door, l)
  PROVE  IInv'
<1> USE DEF IInv
<1> DEFINE b == Bytes(door, l)
<1>1. b \in Lines
  BY BytesTyped
<1>2. /\ StrategyFor(b) = None
      /\ Keep(None)
      /\ Copy(door, None)
      /\ skipped' = skipped + 1
      /\ outcome' = NoEvent(b, None, "skipped")
      /\ UNCHANGED <<lastFormat, parsed, failed>>
  BY DEF SkipBlank
<1> HIDE DEF b
<1>3. TypeOK'
  BY <1>1, <1>2, ModeTyped, KeepTyped, CopyBounded DEF TypeOK, NoEvent
<1>4. SkipsExactlyNoEvents'
  BY <1>1, <1>2, ModeIsAuto, AutoRouting DEF SkipsExactlyNoEvents, NoEvent
<1>5. FallbackOnlyUnclaimed' /\ EchoOutranksLift'
  BY <1>2, NamesDiffer DEF FallbackOnlyUnclaimed, EchoOutranksLift, NoEvent
<1>6. DetectionForgetsThePin' /\ OnlyRoutedLinesAreStored'
  BY <1>2, KeepTyped, CopyBounded DEF OnlyRoutedLinesAreStored
<1> QED
  BY <1>3, <1>4, <1>5, <1>6

LEMMA SucceedKeepsIInv ==
  ASSUME IInv, NEW door \in Doors, NEW l \in Lines, Succeed(door, l)
  PROVE  IInv'
<1> USE DEF IInv
<1> DEFINE b == Bytes(door, l)
           s == StrategyFor(b)
<1>1. b \in Lines /\ s \in Strategies /\ s # None
  BY BytesTyped, StrategyTyped DEF Succeed
<1>2. /\ Keep(s)
      /\ Copy(door, s)
      /\ parsed' = parsed + 1
      /\ outcome' = [line |-> b, strategy |-> s, mode |-> Mode, counted |-> "parsed",
                     level |-> Level(l, b, s), echoed |-> l \in Echoed]
      /\ UNCHANGED <<failed, skipped>>
  BY DEF Succeed
<1>3. autoDetect => /\ ~IsNoEvent(b)
                    /\ s = Fallback => \A e \in Evaluated(b) : Score(b, e) = 0
  BY <1>1, AutoRouting
<1> HIDE DEF b, s
<1>4. Level(l, b, s) \in {"absent", "strategy", "lifted"}
  BY DEF Level
<1>5. TypeOK'
  BY <1>1, <1>2, <1>4, ModeTyped, KeepTyped, CopyBounded DEF TypeOK
<1>6. SkipsExactlyNoEvents'
  BY <1>2, <1>3, ModeIsAuto DEF SkipsExactlyNoEvents
<1>7. FallbackOnlyUnclaimed'
  BY <1>2, <1>3, ModeIsAuto DEF FallbackOnlyUnclaimed
<1>8. EchoOutranksLift'
  BY <1>2 DEF EchoOutranksLift, Level
<1>9. DetectionForgetsThePin' /\ OnlyRoutedLinesAreStored'
  BY <1>1, <1>2, KeepTyped, CopyBounded DEF OnlyRoutedLinesAreStored, TypeOK
<1> QED
  BY <1>5, <1>6, <1>7, <1>8, <1>9

LEMMA DeclineKeepsIInv ==
  ASSUME IInv, NEW door \in Doors, NEW l \in Lines, Decline(door, l)
  PROVE  IInv'
<1> USE DEF IInv
<1> DEFINE b == Bytes(door, l)
           s == StrategyFor(b)
<1>1. b \in Lines /\ s \in Strategies /\ s # None
  BY BytesTyped, StrategyTyped DEF Decline
<1>2. /\ Keep(s)
      /\ Copy(door, s)
      /\ failed' = failed + 1
      /\ outcome' = NoEvent(b, s, "failed")
      /\ UNCHANGED <<lastFormat, parsed, skipped>>
  BY DEF Decline
<1>3. autoDetect => /\ ~IsNoEvent(b)
                    /\ s = Fallback => \A e \in Evaluated(b) : Score(b, e) = 0
  BY <1>1, AutoRouting
<1> HIDE DEF b, s
<1>4. TypeOK'
  BY <1>1, <1>2, ModeTyped, KeepTyped, CopyBounded DEF TypeOK, NoEvent
<1>5. SkipsExactlyNoEvents'
  BY <1>2, <1>3, ModeIsAuto DEF SkipsExactlyNoEvents, NoEvent
<1>6. FallbackOnlyUnclaimed'
  BY <1>2, <1>3, ModeIsAuto DEF FallbackOnlyUnclaimed, NoEvent
<1>7. EchoOutranksLift'
  BY <1>2 DEF EchoOutranksLift, NoEvent
<1>8. DetectionForgetsThePin' /\ OnlyRoutedLinesAreStored'
  BY <1>1, <1>2, KeepTyped, CopyBounded DEF OnlyRoutedLinesAreStored, TypeOK
<1> QED
  BY <1>4, <1>5, <1>6, <1>7, <1>8

LEMMA NextKeepsIInv == IInv /\ [Next]_vars => IInv'
<1> SUFFICES ASSUME IInv, [Next]_vars PROVE IInv'
  OBVIOUS
<1>1. CASE (\E f \in Formats : SetFormat(f)) \/ (\E enabled \in BOOLEAN : SetAutoDetect(enabled))
  BY <1>1, DeclarationsKeepIInv
<1>2. CASE \E door \in Doors, l \in Lines : ReadLine(door, l)
  BY <1>2, SkipEmptyKeepsIInv, SkipBlankKeepsIInv, SucceedKeepsIInv, DeclineKeepsIInv
  DEF ReadLine
<1>3. CASE UNCHANGED vars
  BY <1>3 DEF IInv, vars, TypeOK, SkipsExactlyNoEvents, FallbackOnlyUnclaimed,
              DetectionForgetsThePin, EchoOutranksLift, OnlyRoutedLinesAreStored
<1> QED
  BY <1>1, <1>2, <1>3 DEF Next

THEOREM Invariance == Spec => []IInv
BY InitIInv, NextKeepsIInv, PTL DEF Spec

(* The parser's state keeps its types, routing stays within the strategies. *)
THEOREM TypeCorrect == Spec => []TypeOK
BY Invariance, PTL DEF IInv

(* Under detection exactly the lines without an event count as skipped.     *)
THEOREM SkipsAreExact == Spec => []SkipsExactlyNoEvents
BY Invariance, PTL DEF IInv

(* Sticky or not, the fallback captures no line that something claims.      *)
THEOREM FallbackIsLast == Spec => []FallbackOnlyUnclaimed
BY Invariance, PTL DEF IInv

(* No pinned strategy survives under detection.                             *)
THEOREM PinForgotten == Spec => []DetectionForgetsThePin
BY Invariance, PTL DEF IInv

(* The echoed-source demotion outranks the level lift.                      *)
THEOREM EchoWins == Spec => []EchoOutranksLift
BY Invariance, PTL DEF IInv

(* Lines no strategy takes leave no copy in the arena.                      *)
THEOREM StoredOnlyIfRouted == Spec => []OnlyRoutedLinesAreStored
BY Invariance, PTL DEF IInv

(* routed_format() moves with parsed lines only.                            *)
THEOREM RoutedFormat == Spec => RoutedFormatNeedsAnEvent
<1>1. ASSUME [Next]_vars
      PROVE  [lastFormat' # lastFormat =>
                outcome'.counted = "parsed" /\ lastFormat' = FormatOf(outcome'.strategy)]_vars
  BY <1>1 DEF Next, SetFormat, SetAutoDetect, ReadLine, SkipEmpty, SkipBlank, Succeed,
              Decline, vars
<1> QED
  BY <1>1, PTL DEF Spec, RoutedFormatNeedsAnEvent

----------------------------------------------------------------------------
(* The parser implements LineRouting.                                      *)

LEMMA CacheAgrees ==
  ASSUME ExclusiveClaims, TypeOK, NEW b \in Lines, ~IsEmpty(b)
  PROVE  StrategyFor(b) = PerLine!Route(Mode, b)
<1>1. StickyHolds(b) => sticky = Detect[b]
  BY DEF StickyHolds, ExclusiveClaims, TypeOK
<1>2. SelectStrategy(b) = Detect[b]
  BY <1>1 DEF SelectStrategy
<1>3. CASE autoDetect \/ active = None
  BY <1>2, <1>3 DEF StrategyFor, Mode, PerLine!Route
<1>4. CASE ~autoDetect /\ active # None
  <2>1. active \in Strategies /\ Mode = active
    BY <1>4 DEF Mode, TypeOK
  <2>2. active \notin {"auto", "latch"}
    BY <2>1, ParserAssumption
  <2> QED BY <1>4, <2>1, <2>2 DEF StrategyFor, PerLine!Route
<1> QED
  BY <1>3, <1>4

\* What the caller has declared after a line: a latch closes on what was found.
LEMMA ModeAfterKeep ==
  ASSUME TypeOK, NEW s \in Strategies \cup {None}, Keep(s),
         ~autoDetect /\ active # None => s = active
  PROVE  Mode' = IF Mode = "latch" /\ s # None THEN s ELSE Mode
<1>1. "latch" # "auto" /\ (active \in Strategies => active # "latch")
  BY ParserAssumption
<1>2. CASE autoDetect
  BY <1>1, <1>2 DEF Keep, Mode
<1>3. CASE ~autoDetect
  BY <1>1, <1>3 DEF Keep, Mode, TypeOK
<1> QED
  BY <1>2, <1>3

LEMMA DeclarationRefines ==
  ASSUME TypeOK, TypeOK', UNCHANGED outcome
  PROVE  PerLine!Declare
<1>1. Mode' \in {"auto", "latch"} \cup Strategies
  BY DEF Mode, TypeOK
<1> QED
  BY <1>1 DEF PerLine!Declare

LEMMA EmptyRefines ==
  ASSUME TypeOK, NEW door \in Doors, NEW l \in Lines, SkipEmpty(door, l)
  PROVE  PerLine!Read(Bytes(door, l))
<1>1. PerLine!Route(Mode, Bytes(door, l)) = None
  BY BytesTyped DEF SkipEmpty, PerLine!Route
<1>2. Mode' = Mode /\ outcome' = NoEvent(Bytes(door, l), None, "skipped")
  BY DEF SkipEmpty, routing, Mode
<1> QED
  BY <1>1, <1>2 DEF NoEvent, PerLine!Read

LEMMA RoutedLineRefines ==
  ASSUME ExclusiveClaims, TypeOK, NEW b \in Lines, ~IsEmpty(b), Keep(StrategyFor(b)),
         outcome'.line = b, outcome'.strategy = StrategyFor(b)
  PROVE  PerLine!Read(b)
<1>1. StrategyFor(b) = PerLine!Route(Mode, b)
  BY CacheAgrees
<1>2. StrategyFor(b) \in Strategies \cup {None}
  BY StrategyTyped
<1>3. ~autoDetect /\ active # None => StrategyFor(b) = active
  BY DEF StrategyFor
<1>4. Mode' = IF Mode = "latch" /\ StrategyFor(b) # None THEN StrategyFor(b) ELSE Mode
  BY <1>2, <1>3, ModeAfterKeep
<1> QED
  BY <1>1, <1>4 DEF PerLine!Read

LEMMA LineRefines ==
  ASSUME ExclusiveClaims, TypeOK, NEW door \in Doors, NEW l \in Lines, ReadLine(door, l)
  PROVE  \E b \in Lines : PerLine!Read(b)
<1>1. Bytes(door, l) \in Lines
  BY BytesTyped
<1>2. CASE SkipEmpty(door, l)
  BY <1>1, <1>2, EmptyRefines
<1>3. CASE SkipBlank(door, l) \/ Succeed(door, l) \/ Decline(door, l)
  <2>1. /\ ~IsEmpty(Bytes(door, l))
        /\ Keep(StrategyFor(Bytes(door, l)))
        /\ outcome'.line = Bytes(door, l)
        /\ outcome'.strategy = StrategyFor(Bytes(door, l))
    BY <1>3 DEF SkipBlank, Succeed, Decline, NoEvent
  <2> QED BY <1>1, <2>1, RoutedLineRefines
<1> QED
  BY <1>2, <1>3 DEF ReadLine

(* The sticky cache changes no routing decision when a strategy scores only *)
(* on lines detection would give it: for every table of shapes and scores,  *)
(* and every sequence of lines, doors and declarations.                     *)
THEOREM StickyIsInvisible == ExclusiveClaims => (Spec => RoutesPerLine)
<1> SUFFICES ASSUME ExclusiveClaims PROVE Spec => RoutesPerLine
  OBVIOUS
<1>1. Init => PerLine!Init
  BY DEF Init, PerLine!Init, Mode
<1>2. ASSUME TypeOK, TypeOK', [Next]_vars
      PROVE  [PerLine!Next]_<<Mode, [line |-> outcome.line, strategy |-> outcome.strategy]>>
  <2>1. CASE \E f \in Formats : SetFormat(f)
    BY <1>2, <2>1, DeclarationRefines DEF SetFormat, PerLine!Next
  <2>2. CASE \E enabled \in BOOLEAN : SetAutoDetect(enabled)
    BY <1>2, <2>2, DeclarationRefines DEF SetAutoDetect, PerLine!Next
  <2>3. CASE \E door \in Doors, l \in Lines : ReadLine(door, l)
    BY <1>2, <2>3, LineRefines DEF PerLine!Next
  <2>4. CASE UNCHANGED vars
    BY <2>4 DEF vars, Mode
  <2> QED BY <1>2, <2>1, <2>2, <2>3, <2>4 DEF Next
<1> QED
  BY <1>1, <1>2, TypeCorrect, PTL DEF Spec, RoutesPerLine, PerLine!Spec

----------------------------------------------------------------------------
(* The tokenizer.                                                          *)

Counting == parsed \in Nat /\ nextId \in Nat /\ IdsAreDense

(* The parser counts a line as parsed exactly when it says so.             *)
LEMMA CountedIsParsed ==
  ASSUME NEW door \in Doors, NEW l \in Lines, ReadLine(door, l)
  PROVE  parsed' = IF outcome'.counted = "parsed" THEN parsed + 1 ELSE parsed
<1>1. CASE SkipEmpty(door, l)
  BY <1>1 DEF SkipEmpty, NoEvent
<1>2. CASE SkipBlank(door, l)
  BY <1>2 DEF SkipBlank, NoEvent
<1>3. CASE Succeed(door, l)
  BY <1>3 DEF Succeed
<1>4. CASE Decline(door, l)
  BY <1>4 DEF Decline, NoEvent
<1> QED BY <1>1, <1>2, <1>3, <1>4 DEF ReadLine

LEMMA TokenizeCounts ==
  ASSUME Counting, NEW door \in Doors, NEW l \in Lines, Tokenize(door, l)
  PROVE  Counting'
<1>1. parsed' = IF outcome'.counted = "parsed" THEN parsed + 1 ELSE parsed
  BY CountedIsParsed DEF Tokenize
<1>2. CASE outcome'.counted = "parsed"
  BY <1>1, <1>2 DEF Tokenize, MakeEvent, IdOfEvent, Counting, IdsAreDense
<1>3. CASE outcome'.counted # "parsed"
  BY <1>1, <1>3 DEF Tokenize, MakeEvent, IdOfEvent, Counting, IdsAreDense
<1> QED BY <1>2, <1>3

(* A step parses one line, or leaves the counters and the event alone.     *)
LEMMA StepTokenizes ==
  ASSUME [NextTokenizer]_allVars, batch \in Seq(Lines), records \in Seq(Lines)
  PROVE  \/ \E door \in Doors, l \in Lines : Tokenize(door, l)
         \/ UNCHANGED <<parsed, nextId, produced, event, reference>>
         \/ /\ UNCHANGED <<parsed, nextId, produced, event>>
            /\ reference' = Absent /\ stream' = Empty
<1> USE DEF Doors, vars, tokenizer, call
<1>1. ASSUME NEW l \in Lines, ProcessLine(l) \/ ProcessStableLine(l)
      PROVE  \E door \in Doors, k \in Lines : Tokenize(door, k)
  BY <1>1 DEF ProcessLine, ProcessStableLine
<1>2. CASE BatchRecord
  <2>1. Head(records) \in Lines
    BY <1>2 DEF BatchRecord, Empty
  <2> QED BY <1>2, <2>1 DEF BatchRecord
<1>3. CASE BatchLine
  <2>1. Head(batch) \in Lines
    BY <1>3 DEF BatchLine, Empty
  <2> QED BY <1>3, <2>1 DEF BatchLine
<1>4. ASSUME NEW lines \in Batches, ProcessBatch(lines)
      PROVE  UNCHANGED <<parsed, nextId, produced, event, reference>>
  BY <1>4 DEF ProcessBatch
<1>5. CASE Unpack
  BY <1>5 DEF Unpack
<1>6. ASSUME NEW c \in Contexts, DeclareContext(c)
      PROVE  /\ UNCHANGED <<parsed, nextId, produced, event>>
             /\ reference' = Absent /\ stream' = Empty
  BY <1>6 DEF DeclareContext
<1>7. CASE UNCHANGED allVars
  BY <1>7 DEF allVars
<1> QED BY <1>1, <1>2, <1>3, <1>4, <1>5, <1>6, <1>7 DEF NextTokenizer

Queued == batch \in Seq(Lines) /\ records \in Seq(Lines)

LEMMA QueuedInv == Queued /\ [NextTokenizer]_allVars => Queued'
<1> SUFFICES ASSUME Queued, [NextTokenizer]_allVars PROVE Queued'
  OBVIOUS
<1> USE DEF Queued, call
<1>1. ASSUME NEW l \in Lines, ProcessLine(l) \/ ProcessStableLine(l) PROVE Queued'
  BY <1>1 DEF ProcessLine, ProcessStableLine
<1>2. CASE BatchRecord
  BY <1>2 DEF BatchRecord, Empty
<1>3. CASE BatchLine
  BY <1>3 DEF BatchLine, Empty
<1>4. ASSUME NEW lines \in Batches, ProcessBatch(lines) PROVE Queued'
  BY <1>4, TokenizerAssumption DEF ProcessBatch
<1>5. CASE Unpack
  <2>1. Unpacks[Head(batch)] \in Seq(Lines)
    BY <1>5, TokenizerAssumption DEF Unpack
  <2> QED BY <1>5, <2>1 DEF Unpack, Empty
<1>6. ASSUME NEW c \in Contexts, DeclareContext(c) PROVE Queued'
  BY <1>6 DEF DeclareContext
<1>7. CASE UNCHANGED allVars
  BY <1>7 DEF allVars
<1> QED BY <1>1, <1>2, <1>3, <1>4, <1>5, <1>6, <1>7 DEF NextTokenizer

LEMMA InitCounts == InitTokenizer => Counting /\ Queued
  BY DEF InitTokenizer, Init, Counting, IdsAreDense, Queued, NoEventYet, Empty

LEMMA NextCounts == Counting /\ Queued /\ [NextTokenizer]_allVars => Counting'
<1> SUFFICES ASSUME Counting, Queued, [NextTokenizer]_allVars PROVE Counting'
  OBVIOUS
<1>1. CASE \E door \in Doors, l \in Lines : Tokenize(door, l)
  BY <1>1, TokenizeCounts
<1>2. CASE UNCHANGED <<parsed, nextId, produced, event>>
  BY <1>2 DEF Counting, IdsAreDense
<1> QED BY <1>1, <1>2, StepTokenizes DEF Queued

(* The last event's id is one less than the number of events, which is the *)
(* number of lines the parser counts as parsed, whatever documents were    *)
(* unpacked and lines refused on the way.                                  *)
THEOREM DenseIds == SpecTokenizer => []IdsAreDense
<1>1. Counting => IdsAreDense
  BY DEF Counting
<1> QED BY <1>1, InitCounts, NextCounts, QueuedInv, PTL DEF SpecTokenizer

(* The year reference changes with an event or with a declared context,    *)
(* and with nothing else.                                                  *)
THEOREM ClockMovesWithEvents == SpecTokenizer => OnlyEventsMoveTheClock
<1>1. Queued /\ [NextTokenizer]_allVars =>
        [reference' # reference => produced' = produced + 1 \/ stream' = Empty]_allVars
  <2> SUFFICES ASSUME Queued, [NextTokenizer]_allVars, reference' # reference
               PROVE  produced' = produced + 1 \/ stream' = Empty
    OBVIOUS
  <2>1. ASSUME NEW door \in Doors, NEW l \in Lines, Tokenize(door, l)
        PROVE  produced' = produced + 1
    BY <2>1 DEF Tokenize, MakeEvent, Clock
  <2> QED BY <2>1, StepTokenizes DEF Queued
<1> QED BY <1>1, InitCounts, QueuedInv, PTL DEF SpecTokenizer, OnlyEventsMoveTheClock

----------------------------------------------------------------------------
(* A tokenizer drives one parser, in detection.                            *)

LEMMA StepReads ==
  ASSUME [NextTokenizer]_allVars, Queued
  PROVE  \/ \E door \in Doors, l \in Lines : ReadLine(door, l)
         \/ UNCHANGED vars
<1> USE DEF Doors, Tokenize
<1>1. ASSUME NEW l \in Lines, ProcessLine(l) \/ ProcessStableLine(l)
      PROVE  \E door \in Doors, k \in Lines : ReadLine(door, k)
  BY <1>1 DEF ProcessLine, ProcessStableLine
<1>2. CASE BatchRecord
  <2>1. Head(records) \in Lines
    BY <1>2 DEF BatchRecord, Empty, Queued
  <2> QED BY <1>2, <2>1 DEF BatchRecord
<1>3. CASE BatchLine
  <2>1. Head(batch) \in Lines
    BY <1>3 DEF BatchLine, Empty, Queued
  <2> QED BY <1>3, <2>1 DEF BatchLine
<1>4. ASSUME NEW lines \in Batches, ProcessBatch(lines) PROVE UNCHANGED vars
  BY <1>4 DEF ProcessBatch
<1>5. CASE Unpack
  BY <1>5 DEF Unpack
<1>6. ASSUME NEW c \in Contexts, DeclareContext(c) PROVE UNCHANGED vars
  BY <1>6 DEF DeclareContext
<1>7. CASE UNCHANGED allVars
  BY <1>7 DEF allVars
<1> QED BY <1>1, <1>2, <1>3, <1>4, <1>5, <1>6, <1>7 DEF NextTokenizer

(* What a tokenizer does to its parser is what the parser's callers may do *)
(* (parse_line, parse_stable), so all that holds of a parser holds of it.  *)
THEOREM TokenizerImplementsParser == SpecTokenizer => Spec
<1>1. InitTokenizer => Init
  BY DEF InitTokenizer
<1>2. Queued /\ [NextTokenizer]_allVars => [Next]_vars
  BY StepReads DEF Next
<1> QED BY <1>1, <1>2, InitCounts, QueuedInv, PTL DEF SpecTokenizer, Spec

Detecting == autoDetect = TRUE

LEMMA DetectionStays ==
  /\ InitTokenizer => Detecting
  /\ Detecting /\ Queued /\ [NextTokenizer]_allVars => Detecting'
<1>1. ASSUME Detecting, NEW door \in Doors, NEW l \in Lines, ReadLine(door, l) PROVE Detecting'
  BY <1>1 DEF ReadLine, SkipEmpty, SkipBlank, Succeed, Decline, Keep, routing, Detecting
<1> QED BY <1>1, StepReads DEF InitTokenizer, Init, Detecting, vars

----------------------------------------------------------------------------
(* The clock of a stream, line by line.                                    *)

Moved(ref, l) ==
  LET time == ResolveEventTime(TimeOf[l], ref) IN IF time = Absent THEN ref ELSE time

LEMMA ReferenceIs ==
  ASSUME NEW lines \in Seq(Lines)
  PROVE  /\ ReferenceAfter(lines)[0] = Absent
         /\ \A n \in 1 .. Len(lines) :
              ReferenceAfter(lines)[n] = Moved(ReferenceAfter(lines)[n - 1], lines[n])
<1>0. PICK b \in Nat : b = Len(lines)
  OBVIOUS
<1> DEFINE Pass(g) == g = [n \in 0 .. b |-> IF n = 0 THEN Absent ELSE Moved(g[n - 1], lines[n])]
           Meets(m, g) == g[0] = Absent /\ \A n \in 1 .. m : g[n] = Moved(g[n - 1], lines[n])
           S == {m \in 0 .. b : \E g : Meets(m, g)}
<1>1. 0 \in S
  <2> DEFINE g == [n \in {0} |-> Absent]
  <2>1. g[0] = Absent
    OBVIOUS
  <2>2. 1 .. 0 = {}
    OBVIOUS
  <2> HIDE DEF g
  <2> QED BY <2>1, <2>2
<1>2. ASSUME NEW m \in 0 .. b - 1, m \in S PROVE m + 1 \in S
  <2>1. PICK g : Meets(m, g)
    BY <1>2
  <2> DEFINE next == Moved(g[m], lines[m + 1])
             h == [n \in 0 .. m + 1 |-> IF n = m + 1 THEN next ELSE g[n]]
  <2> HIDE DEF next
  <2>2. m + 1 \in 0 .. m + 1 /\ m + 1 \in 0 .. b /\ m # m + 1 /\ (m + 1) - 1 = m
    OBVIOUS
  <2>3. h[m + 1] = next /\ \A n \in 0 .. m : h[n] = g[n]
    BY <2>2
  <2> HIDE DEF h
  <2>4. ASSUME NEW n \in 1 .. m + 1 PROVE h[n] = Moved(h[n - 1], lines[n])
    <3>1. CASE n = m + 1
      <4>1. m \in 0 .. m
        OBVIOUS
      <4> QED BY <2>2, <2>3, <3>1, <4>1 DEF next
    <3>2. CASE n # m + 1
      <4>1. n \in 1 .. m /\ n \in 0 .. m /\ n - 1 \in 0 .. m
        BY <3>2
      <4> QED BY <2>1, <2>3, <4>1
    <3> QED BY <3>1, <3>2
  <2>5. h[0] = Absent
    <3>1. 0 \in 0 .. m
      OBVIOUS
    <3> QED BY <2>1, <2>3, <3>1
  <2> QED BY <2>2, <2>4, <2>5
<1>3. PICK g : Meets(b, g)
  <2>1. b \in S
    <3>1. \A n \in 0 .. b - 1 : n \in S => n + 1 \in S
      BY <1>2
    <3> HIDE DEF S
    <3> QED BY <1>1, <3>1, InductUpTo
  <2> QED BY <2>1
<1> DEFINE whole == [n \in 0 .. b |-> g[n]]
<1>4. Pass(whole)
  <2>1. ASSUME NEW n \in 0 .. b PROVE g[n] = IF n = 0 THEN Absent ELSE Moved(whole[n - 1], lines[n])
    <3>1. CASE n = 0
      BY <1>3, <3>1
    <3>2. CASE n # 0
      <4>1. n \in 1 .. b /\ n - 1 \in 0 .. b
        BY <3>2
      <4>2. whole[n - 1] = g[n - 1]
        BY <4>1
      <4> QED BY <1>3, <3>2, <4>1, <4>2
    <3> QED BY <3>1, <3>2
  <2> QED BY <2>1
<1> HIDE DEF whole
<1> DEFINE f == CHOOSE h : Pass(h)
<1>5. Pass(f)
  <2> HIDE DEF Pass
  <2> QED BY <1>4
<1>6. ReferenceAfter(lines) = f
  BY <1>0 DEF ReferenceAfter, Moved
<1> HIDE DEF f
<1>7. \A n \in 0 .. b : f[n] = IF n = 0 THEN Absent ELSE Moved(f[n - 1], lines[n])
  BY <1>5
<1>8. 0 \in 0 .. b /\ \A n \in 1 .. b : n \in 0 .. b /\ n # 0
  OBVIOUS
<1> QED BY <1>0, <1>6, <1>7, <1>8

\* A line more leaves the clock at the lines before it where it was.
LEMMA ReferenceBehind ==
  ASSUME NEW lines \in Seq(Lines), NEW l \in Lines
  PROVE  /\ ReferenceAfter(Append(lines, l))[Len(lines)] = ReferenceAfter(lines)[Len(lines)]
         /\ ReferenceAfter(Append(lines, l))[Len(lines) + 1] = Moved(ReferenceAfter(lines)[Len(lines)], l)
<1>1. PICK b \in Nat : b = Len(lines)
  OBVIOUS
<1>2. PICK longer \in Seq(Lines) : /\ longer = Append(lines, l) /\ Len(longer) = b + 1
                                   /\ longer[b + 1] = l /\ \A n \in 1 .. b : longer[n] = lines[n]
  <2>1. Append(lines, l) \in Seq(Lines) /\ Len(Append(lines, l)) = b + 1
    BY <1>1
  <2>2. Append(lines, l)[b + 1] = l
    BY <1>1
  <2>3. \A n \in 1 .. b : Append(lines, l)[n] = lines[n]
    BY <1>1
  <2> QED BY <2>1, <2>2, <2>3
<1>3. PICK f : f = ReferenceAfter(lines) /\ f[0] = Absent /\ \A n \in 1 .. b : f[n] = Moved(f[n - 1], lines[n])
  BY <1>1, ReferenceIs
<1>4. PICK g : g = ReferenceAfter(longer) /\ g[0] = Absent /\ \A n \in 1 .. b + 1 : g[n] = Moved(g[n - 1], longer[n])
  BY <1>2, ReferenceIs, ZenonT(30)
<1> DEFINE S == {n \in 0 .. b : g[n] = f[n]}
<1>5. 0 \in S
  BY <1>3, <1>4
<1>6. ASSUME NEW n \in 0 .. b - 1, n \in S PROVE n + 1 \in S
  <2>1. n + 1 \in 1 .. b /\ n + 1 \in 1 .. b + 1 /\ n + 1 \in 0 .. b /\ (n + 1) - 1 = n
    OBVIOUS
  <2> QED BY <1>2, <1>3, <1>4, <1>6, <2>1
<1>7. b \in S
  <2>1. \A n \in 0 .. b - 1 : n \in S => n + 1 \in S
    BY <1>6
  <2> HIDE DEF S
  <2> QED BY <1>5, <2>1, InductUpTo
<1>8. g[b + 1] = Moved(f[b], l)
  <2>1. b + 1 \in 1 .. b + 1 /\ (b + 1) - 1 = b
    OBVIOUS
  <2> QED BY <1>2, <1>4, <1>7, <2>1
<1> QED BY <1>1, <1>2, <1>3, <1>4, <1>7, <1>8

OnItsStream ==
  /\ stream \in Seq(Lines)
  /\ reference = ReferenceAfter(stream)[Len(stream)]
  /\ EventOfItsStream

LEMMA InitOnStream == InitTokenizer => OnItsStream
<1>1. <<>> \in Seq(Lines) /\ Len(<<>>) = 0
  OBVIOUS
<1>2. ReferenceAfter(<<>>)[0] = Absent
  BY <1>1, ReferenceIs
<1> QED BY <1>1, <1>2 DEF InitTokenizer, OnItsStream, EventOfItsStream, Empty

\* A line that becomes an event goes where detection sends its bytes.
LEMMA ParsedAsDetected ==
  ASSUME ExclusiveClaims, TypeOK, Detecting, NEW door \in Doors, NEW l \in Lines, ReadLine(door, l),
         outcome'.counted = "parsed"
  PROVE  outcome'.line \in Lines /\ outcome'.strategy = Detect[outcome'.line]
<1>1. Succeed(door, l)
  BY DEF ReadLine, SkipEmpty, SkipBlank, Decline, NoEvent
<1>2. PICK b \in Lines : b = Bytes(door, l)
  BY BytesTyped
<1>3. outcome'.line = b /\ outcome'.strategy = StrategyFor(b)
  BY <1>1, <1>2 DEF Succeed
<1>4. StickyHolds(b) => sticky = Detect[b]
  BY DEF StickyHolds, ExclusiveClaims, TypeOK
<1>5. StrategyFor(b) = Detect[b]
  BY <1>4 DEF StrategyFor, SelectStrategy, Detecting
<1> QED BY <1>3, <1>5

LEMMA TokenizeOnStream ==
  ASSUME ExclusiveClaims, TypeOK, Detecting, OnItsStream, NEW door \in Doors, NEW l \in Lines,
         Tokenize(door, l)
  PROVE  OnItsStream'
<1>1. context' = context
  BY DEF Tokenize, MakeEvent
<1>2. CASE outcome'.counted # "parsed"
  <2>1. event' = event /\ stream' = stream /\ reference' = reference
    BY <1>2 DEF Tokenize, MakeEvent, Clock
  <2> QED BY <1>1, <2>1 DEF OnItsStream, EventOfItsStream
<1>3. CASE outcome'.counted = "parsed"
  <2>1. PICK b \in Lines : b = outcome'.line /\ outcome'.strategy = Detect[b]
    BY <1>3, ParsedAsDetected DEF Tokenize
  <2>2. /\ event'.line = b /\ event'.strategy = Detect[b] /\ event'.context = context'
        /\ event'.time = ResolveEventTime(TimeOf[b], reference)
        /\ stream' = Append(stream, b) /\ reference' = Moved(reference, b)
    BY <1>1, <1>3, <2>1 DEF Tokenize, MakeEvent, Clock, Moved
  <2>3. PICK n \in Nat : n = Len(stream) /\ Len(stream') = n + 1 /\ stream'[n + 1] = b
    <3>1. stream \in Seq(Lines)
      BY DEF OnItsStream
    <3>2. Len(Append(stream, b)) = Len(stream) + 1 /\ Append(stream, b)[Len(stream) + 1] = b /\ Len(stream) \in Nat
      BY <3>1
    <3> QED BY <2>2, <3>2
  <2>4. stream' \in Seq(Lines)
    BY <2>2 DEF OnItsStream
  <2>5. /\ ReferenceAfter(stream')[n] = reference
        /\ ReferenceAfter(stream')[n + 1] = Moved(reference, b)
    <3>1. /\ ReferenceAfter(Append(stream, b))[Len(stream)] = ReferenceAfter(stream)[Len(stream)]
          /\ ReferenceAfter(Append(stream, b))[Len(stream) + 1] = Moved(ReferenceAfter(stream)[Len(stream)], b)
      BY ReferenceBehind DEF OnItsStream
    <3> QED BY <2>2, <2>3, <3>1 DEF OnItsStream
  <2>6. Len(stream') - 1 = n
    BY <2>3
  <2>7. EventOfItsStream'
    <3>1. event'.time = ResolveEventTime(TimeOf[event'.line], ReferenceAfter(stream')[Len(stream') - 1])
      BY <2>2, <2>5, <2>6
    <3>2. ReferenceAfter(stream)' = ReferenceAfter(stream')
      BY DEF ReferenceAfter
    <3> QED BY <2>2, <2>3, <3>1, <3>2 DEF EventOfItsStream
  <2>8. (ReferenceAfter(stream)[Len(stream)])' = reference'
    <3>1. ReferenceAfter(stream)' = ReferenceAfter(stream')
      BY DEF ReferenceAfter
    <3> QED BY <2>2, <2>3, <2>5, <3>1
  <2> QED BY <2>4, <2>7, <2>8 DEF OnItsStream
<1> QED BY <1>2, <1>3

LEMMA NextOnStream ==
  ASSUME ExclusiveClaims, TypeOK, Detecting, Queued, OnItsStream, [NextTokenizer]_allVars
  PROVE  OnItsStream'
<1>1. CASE \E door \in Doors, l \in Lines : Tokenize(door, l)
  BY <1>1, TokenizeOnStream
<1>2. CASE UNCHANGED <<context, event, stream, reference>>
  BY <1>2 DEF OnItsStream, EventOfItsStream
<1>3. CASE stream' = Empty /\ reference' = Absent
  <2>1. <<>> \in Seq(Lines) /\ Len(<<>>) = 0
    OBVIOUS
  <2>2. ReferenceAfter(<<>>)[0] = Absent
    BY <2>1, ReferenceIs
  <2> QED BY <1>3, <2>1, <2>2 DEF OnItsStream, EventOfItsStream, Empty
<1>4. \/ \E door \in Doors, l \in Lines : Tokenize(door, l)
      \/ UNCHANGED <<context, event, stream, reference>>
      \/ stream' = Empty /\ reference' = Absent
  <2>1. \/ \E door \in Doors, l \in Lines : Tokenize(door, l)
        \/ \E lines \in Batches : ProcessBatch(lines)
        \/ Unpack
        \/ \E c \in Contexts : DeclareContext(c)
        \/ UNCHANGED allVars
    <3>1. CASE BatchRecord
      <4>1. Head(records) \in Lines /\ "line" \in Doors
        BY <3>1 DEF BatchRecord, Empty, Queued, Doors
      <4> QED BY <3>1, <4>1 DEF BatchRecord
    <3>2. CASE BatchLine
      <4>1. Head(batch) \in Lines /\ "line" \in Doors
        BY <3>2 DEF BatchLine, Empty, Queued, Doors
      <4> QED BY <3>2, <4>1 DEF BatchLine
    <3> QED BY <3>1, <3>2 DEF NextTokenizer, ProcessLine, ProcessStableLine, Doors
  <2> QED BY <2>1 DEF ProcessBatch, Unpack, DeclareContext, tokenizer, call, allVars
<1> QED BY <1>1, <1>2, <1>3, <1>4

(* An event is the one its stream's lines and its context make, whatever   *)
(* the tokenizer read before that context and through whichever door: its  *)
(* strategy is that of its bytes, its time that of a clock replayed from   *)
(* no reference (make_event, resolve_event_time, declare).                 *)
THEOREM EventsAreOfTheirStream == ExclusiveClaims => (SpecTokenizer => []EventOfItsStream)
<1> SUFFICES ASSUME ExclusiveClaims PROVE SpecTokenizer => []EventOfItsStream
  OBVIOUS
<1>1. TypeOK /\ Detecting /\ Queued /\ OnItsStream /\ [NextTokenizer]_allVars => OnItsStream'
  BY NextOnStream
<1>2. OnItsStream => EventOfItsStream
  BY DEF OnItsStream
<1> QED BY <1>1, <1>2, InitOnStream, InitCounts, QueuedInv, DetectionStays, TokenizerImplementsParser,
           TypeCorrect, PTL DEF SpecTokenizer

----------------------------------------------------------------------------
(* A batch, record by record.                                              *)

RecordsOf(l) == IF l \in Documents THEN Unpacks[l] ELSE <<l>>

LEMMA RecordsType == ASSUME NEW l \in Lines PROVE RecordsOf(l) \in Seq(Lines)
<1>1. <<l>> \in Seq(Lines)
  OBVIOUS
<1> QED BY <1>1, TokenizerAssumption DEF RecordsOf

LEMMA SplicedIs ==
  ASSUME NEW lines \in Seq(Lines)
  PROVE  /\ SplicedLast(lines) \in [0 .. Len(lines) -> Seq(Lines)]
         /\ SplicedLast(lines)[0] = <<>>
         /\ \A n \in 1 .. Len(lines) :
              SplicedLast(lines)[n] = RecordsOf(lines[Len(lines) - n + 1]) \o SplicedLast(lines)[n - 1]
<1> PICK b \in Nat : b = Len(lines)
  OBVIOUS
<1> DEFINE T == Seq(Lines)
           records_of(n) == RecordsOf(lines[b - n + 1])
           step == [n \in 1 .. b |-> [t \in T |-> records_of(n) \o t]]
           Pass(g) == g = [n \in 0 .. b |-> IF n = 0 THEN <<>> ELSE records_of(n) \o g[n - 1]]
<1>1. <<>> \in T
  OBVIOUS
<1>2. \A n \in 1 .. b : records_of(n) \in T
  <2>1. ASSUME NEW n \in 1 .. b PROVE records_of(n) \in T
    <3>1. PICK i \in 1 .. Len(lines) : i = b - n + 1
      OBVIOUS
    <3>2. lines[i] \in Lines
      BY ElementOfSeq
    <3> QED BY <3>1, <3>2, RecordsType
  <2> QED BY <2>1
<1> HIDE DEF records_of
<1>3. \A n \in 1 .. b : \A t \in T : step[n][t] = records_of(n) \o t /\ step[n][t] \in T
  BY <1>2
<1> HIDE DEF T, step
<1>4. Steps(b, T, step)
  BY <1>3 DEF Steps
<1>5. PICK h : IsPass(h, b, T, <<>>, step)
  BY <1>1, <1>4, PassExists
<1>6. Pass(h)
  <2>1. ASSUME NEW n \in 1 .. b PROVE h[n] = records_of(n) \o h[n - 1]
    <3>1. n - 1 \in 0 .. b
      OBVIOUS
    <3>2. h[n - 1] \in T
      BY <1>5, <3>1 DEF IsPass
    <3> QED BY <1>3, <1>5, <3>2 DEF IsPass
  <2>2. \A n \in 0 .. b : n = 0 \/ n \in 1 .. b
    OBVIOUS
  <2>3. h = [n \in 0 .. b |-> h[n]] /\ h[0] = <<>>
    BY <1>5 DEF IsPass
  <2>4. \A n \in 0 .. b : h[n] = IF n = 0 THEN <<>> ELSE records_of(n) \o h[n - 1]
    BY <2>1, <2>2, <2>3
  <2> QED BY <2>3, <2>4
<1> DEFINE f == CHOOSE g : Pass(g)
<1>7. Pass(f)
  <2> HIDE DEF Pass
  <2> QED BY <1>6
<1>8. SplicedLast(lines) = f
  BY DEF SplicedLast, RecordsOf, records_of
<1> HIDE DEF f
<1>a. \A n \in 0 .. b : f[n] = IF n = 0 THEN <<>> ELSE records_of(n) \o f[n - 1]
  BY <1>7
<1>b. f = [n \in 0 .. b |-> f[n]]
  BY <1>7
<1>c. 0 \in 0 .. b /\ \A n \in 1 .. b : n \in 0 .. b /\ n # 0
  OBVIOUS
<1>d. f[0] = <<>>
  BY <1>a, <1>c
<1>9. \A n \in 1 .. b : f[n] = records_of(n) \o f[n - 1]
  <2> HIDE DEF Pass
  <2> QED BY <1>a, <1>c
<1>10. f \in [0 .. b -> T]
  <2>1. \A n \in 1 .. b : f[n - 1] \in T => f[n] = step[n][f[n - 1]]
    BY <1>3, <1>9
  <2> HIDE DEF Pass
  <2>2. Follows(f, b, T, <<>>, step)
    BY <1>b, <1>d, <2>1 DEF Follows
  <2> QED BY <1>1, <1>4, <2>2, PassType
<1> QED BY <1>8, <1>9, <1>10, <1>d DEF records_of, T

LEMMA SplicedType ==
  ASSUME NEW lines \in Seq(Lines)
  PROVE  /\ Spliced(lines) \in Seq(Lines)
         /\ \A n \in 0 .. Len(lines) : SplicedLast(lines)[n] \in Seq(Lines)
<1>1. SplicedLast(lines) \in [0 .. Len(lines) -> Seq(Lines)]
  BY SplicedIs
<1>2. \A n \in 0 .. Len(lines) : SplicedLast(lines)[n] \in Seq(Lines)
  BY <1>1
<1>3. Len(lines) \in 0 .. Len(lines)
  OBVIOUS
<1> QED BY <1>2, <1>3 DEF Spliced

Results == Lines \X {"event", "error"}

\* The results so far answer the first of the records, and what is to come is the rest.
Answers(results, all, rest) ==
  /\ Len(results) <= Len(all)
  /\ \A i \in 1 .. Len(results) : results[i][1] = Normalize[all[i]]
  /\ rest = SubSeq(all, Len(results) + 1, Len(all))

\* The lines to come are the last of the batch.
IsEndOf(rest, whole) ==
  /\ Len(rest) <= Len(whole)
  /\ \A i \in 1 .. Len(rest) : rest[i] = whole[Len(whole) - Len(rest) + i]

FansOut ==
  /\ request \in Seq(Lines) /\ batch \in Seq(Lines) /\ records \in Seq(Lines)
  /\ out \in Seq(Results)
  /\ IsEndOf(batch, request)
  /\ Answers(out, Spliced(request), records \o SplicedLast(request)[Len(batch)])

LEMMA EndOfEnd ==
  ASSUME NEW whole \in Seq(Lines), NEW rest \in Seq(Lines), IsEndOf(rest, whole), rest # <<>>
  PROVE  /\ Len(rest) \in 1 .. Len(whole) /\ Head(rest) \in Lines
         /\ Head(rest) = whole[Len(whole) - Len(rest) + 1]
         /\ Tail(rest) \in Seq(Lines) /\ Len(Tail(rest)) = Len(rest) - 1
         /\ IsEndOf(Tail(rest), whole)
<1>1. Len(rest) \in Nat \ {0} /\ Len(whole) \in Nat
  BY EmptySeq
<1>2. Head(rest) \in Lines /\ Tail(rest) \in Seq(Lines) /\ Len(Tail(rest)) = Len(rest) - 1
      /\ \A i \in 1 .. Len(Tail(rest)) : Tail(rest)[i] = rest[i + 1]
  BY HeadTailProperties
<1>3. Head(rest) = rest[1] /\ 1 \in 1 .. Len(rest)
  BY <1>1
<1>4. \A i \in 1 .. Len(Tail(rest)) : Tail(rest)[i] = whole[Len(whole) - Len(Tail(rest)) + i]
  <2>1. ASSUME NEW i \in 1 .. Len(Tail(rest)) PROVE Tail(rest)[i] = whole[Len(whole) - Len(Tail(rest)) + i]
    <3>1. i + 1 \in 1 .. Len(rest) /\ Len(whole) - Len(rest) + (i + 1) = Len(whole) - Len(Tail(rest)) + i
      BY <1>1, <1>2
    <3>2. rest[i + 1] = whole[Len(whole) - Len(rest) + (i + 1)]
      BY <3>1 DEF IsEndOf
    <3> QED BY <1>2, <3>1, <3>2
  <2> QED BY <2>1
<1> QED BY <1>1, <1>2, <1>3, <1>4 DEF IsEndOf

LEMMA HeadFirst ==
  ASSUME NEW s \in Seq(Lines), s # <<>>
  PROVE  Head(s) \in Lines /\ Tail(s) \in Seq(Lines) /\ s = <<Head(s)>> \o Tail(s)
<1>1. /\ Head(s) \in Lines /\ Tail(s) \in Seq(Lines) /\ Len(Tail(s)) = Len(s) - 1
      /\ \A i \in 1 .. Len(Tail(s)) : Tail(s)[i] = s[i + 1]
  BY HeadTailProperties
<1>2. Len(s) \in Nat \ {0}
  BY EmptySeq
<1>3. PICK h \in Seq(Lines), t \in Seq(Lines) : /\ h = <<Head(s)>> /\ Len(h) = 1 /\ h[1] = s[1]
                                                /\ t = Tail(s)
  <2>1. <<Head(s)>> \in Seq(Lines) /\ Len(<<Head(s)>>) = 1 /\ <<Head(s)>>[1] = Head(s) /\ Head(s) = s[1]
    BY <1>1
  <2> QED BY <1>1, <2>1
<1>4. /\ h \o t \in Seq(Lines) /\ Len(h \o t) = Len(h) + Len(t)
      /\ \A i \in 1 .. Len(h) + Len(t) : (h \o t)[i] = IF i <= Len(h) THEN h[i] ELSE t[i - Len(h)]
  BY ConcatProperties
<1>5. ASSUME NEW i \in 1 .. Len(s) PROVE s[i] = (h \o t)[i]
  <2>1. CASE i = 1
    BY <1>1, <1>2, <1>3, <1>4, <2>1
  <2>2. CASE i # 1
    <3>1. i \in 1 .. Len(h) + Len(t) /\ ~(i <= Len(h)) /\ i - Len(h) = i - 1 /\ i - 1 \in 1 .. Len(t)
          /\ (i - 1) + 1 = i
      BY <1>1, <1>2, <1>3, <2>2
    <3> QED BY <1>1, <1>3, <1>4, <3>1
  <2> QED BY <2>1, <2>2
<1>6. Len(s) = Len(h \o t)
  BY <1>1, <1>2, <1>3, <1>4
<1>7. s = h \o t
  BY <1>4, <1>5, <1>6, SeqEqual
<1> QED BY <1>1, <1>3, <1>7

LEMMA OneMore ==
  ASSUME NEW all \in Seq(Lines), NEW results \in Seq(Results), NEW l \in Lines, NEW rest \in Seq(Lines),
         Answers(results, all, <<l>> \o rest), NEW r \in Results, r[1] = Normalize[l]
  PROVE  Append(results, r) \in Seq(Results) /\ Answers(Append(results, r), all, rest)
<1>1. PICK k \in Nat, b \in Nat : k = Len(results) /\ b = Len(all)
  OBVIOUS
<1>2. PICK left \in Seq(Lines) : /\ left = <<l>> \o rest /\ left = SubSeq(all, k + 1, b)
                                 /\ Len(left) = Len(rest) + 1 /\ left[1] = l
                                 /\ \A i \in 1 .. Len(rest) : left[i + 1] = rest[i]
  <2>1. PICK one \in Seq(Lines) : one = <<l>> /\ Len(one) = 1 /\ one[1] = l
    <3>1. <<l>> \in Seq(Lines) /\ Len(<<l>>) = 1 /\ <<l>>[1] = l
      OBVIOUS
    <3> QED BY <3>1
  <2>2. /\ one \o rest \in Seq(Lines) /\ Len(one \o rest) = Len(one) + Len(rest)
        /\ \A i \in 1 .. Len(one) + Len(rest) : (one \o rest)[i] = IF i <= Len(one) THEN one[i] ELSE rest[i - Len(one)]
    BY ConcatProperties
  <2>3. (one \o rest)[1] = l /\ Len(one \o rest) = Len(rest) + 1
    BY <2>1, <2>2
  <2>4. ASSUME NEW i \in 1 .. Len(rest) PROVE (one \o rest)[i + 1] = rest[i]
    <3>1. i + 1 \in 1 .. Len(one) + Len(rest) /\ ~(i + 1 <= Len(one)) /\ (i + 1) - Len(one) = i
      BY <2>1
    <3> QED BY <2>2, <3>1
  <2> QED BY <1>1, <2>1, <2>2, <2>3, <2>4 DEF Answers
<1>3. k <= b /\ \A i \in 1 .. k : results[i][1] = Normalize[all[i]]
  BY <1>1 DEF Answers
<1>4. Len(SubSeq(all, k + 1, b)) = b - k /\ \A i \in 1 .. b - k : SubSeq(all, k + 1, b)[i] = all[k + i]
  BY <1>1, <1>3
<1>5. k + 1 <= b /\ all[k + 1] = l /\ Len(rest) = b - (k + 1)
  <2>1. Len(rest) + 1 = b - k /\ Len(rest) \in Nat
    BY <1>2, <1>4
  <2>2. 1 \in 1 .. b - k
    BY <2>1
  <2> QED BY <1>2, <1>4, <2>1, <2>2
<1>6. rest = SubSeq(all, (k + 1) + 1, b)
  <2>1. /\ SubSeq(all, (k + 1) + 1, b) \in Seq(Lines) /\ Len(SubSeq(all, (k + 1) + 1, b)) = b - (k + 1)
        /\ \A i \in 1 .. b - (k + 1) : SubSeq(all, (k + 1) + 1, b)[i] = all[(k + 1) + i]
    BY <1>1, <1>5
  <2>2. ASSUME NEW i \in 1 .. Len(rest) PROVE rest[i] = SubSeq(all, (k + 1) + 1, b)[i]
    <3>1. i + 1 \in 1 .. b - k /\ k + (i + 1) = (k + 1) + i /\ i \in 1 .. b - (k + 1)
      BY <1>5
    <3>2. left[i + 1] = all[k + (i + 1)]
      BY <1>2, <1>4, <3>1
    <3> QED BY <1>2, <2>1, <3>1, <3>2
  <2> QED BY <1>5, <2>1, <2>2, SeqEqual
<1>7. /\ Append(results, r) \in Seq(Results) /\ Len(Append(results, r)) = k + 1
      /\ Append(results, r)[k + 1] = r /\ \A i \in 1 .. k : Append(results, r)[i] = results[i]
  <2>1. Append(results, r) \in Seq(Results) /\ Len(Append(results, r)) = k + 1
    BY <1>1
  <2>2. Append(results, r)[k + 1] = r
    BY <1>1
  <2>3. \A i \in 1 .. k : Append(results, r)[i] = results[i]
    BY <1>1
  <2> QED BY <2>1, <2>2, <2>3
<1>8. ASSUME NEW i \in 1 .. k + 1 PROVE Append(results, r)[i][1] = Normalize[all[i]]
  <2>1. CASE i = k + 1
    BY <1>5, <1>7, <2>1
  <2>2. CASE i # k + 1
    <3>1. i \in 1 .. k
      BY <2>2
    <3> QED BY <1>3, <1>7, <3>1
  <2> QED BY <2>1, <2>2
<1> QED BY <1>1, <1>5, <1>6, <1>7, <1>8 DEF Answers

LEMMA InitFansOut == InitTokenizer => FansOut
<1> SUFFICES ASSUME InitTokenizer PROVE FansOut
  OBVIOUS
<1>1. batch = <<>> /\ records = <<>> /\ out = <<>> /\ request = <<>>
  BY DEF InitTokenizer, Empty
<1>2. <<>> \in Seq(Lines) /\ Len(<<>>) = 0 /\ <<>> \in Seq(Results)
  OBVIOUS
<1>3. SplicedLast(<<>>)[0] = <<>>
  BY <1>2, SplicedIs
<1>4. <<>> \o <<>> = <<>> /\ SubSeq(<<>>, 0 + 1, 0) = <<>>
  <2>1. <<>> \o <<>> = <<>>
    BY <1>2, ConcatEmptySeq
  <2> QED BY <2>1, SubSeqEmpty
<1>5. IsEndOf(<<>>, <<>>) /\ Answers(<<>>, <<>>, <<>>)
  BY <1>2, <1>4 DEF IsEndOf, Answers
<1> QED BY <1>1, <1>2, <1>3, <1>4, <1>5 DEF FansOut, Spliced

\* Each line read comes to a result for its bytes.
LEMMA ResultOfLine ==
  ASSUME NEW l \in Lines, ReadLine("line", l)
  PROVE  Result \in Results /\ Result[1] = Normalize[l]
<1>1. outcome'.line = Normalize[l]
  BY DEF ReadLine, SkipEmpty, SkipBlank, Succeed, Decline, NoEvent, Bytes
<1>2. Normalize[l] \in Lines
  BY ParserAssumption
<1> QED BY <1>1, <1>2 DEF Result, Results

LEMMA CallFansOut ==
  ASSUME FansOut, NEW lines \in Batches, ProcessBatch(lines)
  PROVE  FansOut'
<1>1. /\ records = <<>> /\ records' = <<>> /\ batch' = lines /\ request' = lines /\ out' = <<>>
  BY DEF ProcessBatch, InCall, Empty
<1>2. PICK asked \in Seq(Lines) : asked = lines
  BY TokenizerAssumption
<1>3. PICK b \in Nat : b = Len(asked)
  OBVIOUS
<1>4. PICK all \in Seq(Lines) : all = SplicedLast(asked)[b]
  BY <1>3, SplicedType DEF Spliced
<1>5. <<>> \o all = all /\ SubSeq(all, 1, Len(all)) = all /\ <<>> \in Seq(Results) /\ Len(<<>>) = 0
  BY ConcatEmptySeq
<1>6. Answers(<<>>, all, <<>> \o all)
  BY <1>5 DEF Answers
<1>7. IsEndOf(asked, asked)
  BY DEF IsEndOf
<1>8. <<>> \in Seq(Lines)
  OBVIOUS
<1>9. /\ Spliced(request)' = all /\ (SplicedLast(request)[Len(batch)])' = all
  <2>1. request' = asked /\ batch' = asked
    BY <1>1, <1>2
  <2>2. SplicedLast(request)' = SplicedLast(asked)
    BY <2>1 DEF SplicedLast
  <2> QED BY <1>3, <1>4, <2>1, <2>2 DEF Spliced
<1>10. Answers(out, Spliced(request), records \o SplicedLast(request)[Len(batch)])'
  BY <1>1, <1>6, <1>9 DEF Answers
<1> QED BY <1>1, <1>2, <1>5, <1>7, <1>8, <1>10 DEF FansOut, IsEndOf

\* The front line of what is left, taken off.
LEMMA FrontLine ==
  ASSUME FansOut, batch # <<>>
  PROVE  /\ Head(batch) \in Lines /\ Tail(batch) \in Seq(Lines) /\ IsEndOf(Tail(batch), request)
         /\ SplicedLast(request)[Len(Tail(batch))] \in Seq(Lines)
         /\ SplicedLast(request)[Len(batch)]
              = RecordsOf(Head(batch)) \o SplicedLast(request)[Len(Tail(batch))]
<1>1. PICK whole \in Seq(Lines), rest \in Seq(Lines) : whole = request /\ rest = batch /\ IsEndOf(rest, whole)
  BY DEF FansOut
<1>2. /\ Len(rest) \in 1 .. Len(whole) /\ Head(rest) \in Lines
      /\ Head(rest) = whole[Len(whole) - Len(rest) + 1]
      /\ Tail(rest) \in Seq(Lines) /\ Len(Tail(rest)) = Len(rest) - 1
      /\ IsEndOf(Tail(rest), whole)
  BY <1>1, EndOfEnd
<1>3. PICK b \in Nat, n \in Nat : b = Len(whole) /\ n = Len(rest)
  OBVIOUS
<1>4. PICK f \in [0 .. b -> Seq(Lines)] :
        /\ f = SplicedLast(whole)
        /\ \A k \in 1 .. b : f[k] = RecordsOf(whole[b - k + 1]) \o f[k - 1]
  BY <1>3, SplicedIs
<1>5. n \in 1 .. b /\ n - 1 \in 0 .. b /\ Len(Tail(rest)) = n - 1
  BY <1>2, <1>3
<1>6. f[n] = RecordsOf(Head(rest)) \o f[n - 1] /\ f[n - 1] \in Seq(Lines)
  BY <1>2, <1>3, <1>4, <1>5
<1> QED BY <1>1, <1>2, <1>3, <1>4, <1>5, <1>6

LEMMA UnpackFansOut ==
  ASSUME FansOut, Unpack
  PROVE  FansOut'
<1>1. /\ records = <<>> /\ batch # <<>> /\ Head(batch) \in Documents
      /\ records' = Unpacks[Head(batch)] /\ batch' = Tail(batch) /\ out' = out /\ request' = request
  BY DEF Unpack, Empty
<1>2. PICK behind \in Seq(Lines) : behind = SplicedLast(request)[Len(Tail(batch))]
  BY <1>1, FrontLine
<1>3. PICK front \in Seq(Lines) : front = Unpacks[Head(batch)] /\ front = RecordsOf(Head(batch))
  BY <1>1, TokenizerAssumption DEF RecordsOf
<1>4. SplicedLast(request)[Len(batch)] = front \o behind
  BY <1>1, <1>2, <1>3, FrontLine
<1>5. <<>> \o (front \o behind) = front \o behind
  BY ConcatProperties, ConcatEmptySeq
<1>6. Answers(out, Spliced(request), front \o behind)
  BY <1>1, <1>4, <1>5 DEF FansOut
<1>7. Answers(out, Spliced(request), records \o SplicedLast(request)[Len(batch)])'
  <2>1. /\ Spliced(request)' = Spliced(request)
        /\ (SplicedLast(request)[Len(batch)])' = behind /\ records' = front
    BY <1>1, <1>2, <1>3 DEF Spliced, SplicedLast
  <2> QED BY <1>1, <1>6, <2>1 DEF Answers
<1>8. IsEndOf(batch, request)' /\ batch' \in Seq(Lines)
  <2>1. IsEndOf(Tail(batch), request) /\ Tail(batch) \in Seq(Lines)
    BY <1>1, FrontLine
  <2> QED BY <1>1, <2>1 DEF IsEndOf
<1> QED BY <1>1, <1>3, <1>7, <1>8 DEF FansOut

LEMMA RecordFansOut ==
  ASSUME FansOut, BatchRecord
  PROVE  FansOut'
<1>1. /\ records # <<>> /\ records' = Tail(records) /\ out' = Append(out, Result)
      /\ batch' = batch /\ request' = request /\ ReadLine("line", Head(records))
  BY DEF BatchRecord, Empty, Tokenize
<1>2. PICK l \in Lines, rest \in Seq(Lines) : l = Head(records) /\ rest = Tail(records) /\ records = <<l>> \o rest
  BY <1>1, HeadFirst DEF FansOut
<1>3. PICK r \in Results : r = Result /\ r[1] = Normalize[l]
  BY <1>1, <1>2, ResultOfLine
<1>4. PICK b \in Nat, whole \in Seq(Lines) : b = Len(whole) /\ whole = request /\ Len(batch) \in 0 .. b
  BY DEF FansOut, IsEndOf
<1>5. Spliced(whole) \in Seq(Lines) /\ SplicedLast(whole)[Len(batch)] \in Seq(Lines)
  BY <1>4, SplicedType
<1>6. PICK all \in Seq(Lines), behind \in Seq(Lines) :
        all = Spliced(request) /\ behind = SplicedLast(request)[Len(batch)]
  BY <1>4, <1>5
<1>7. Answers(out, all, <<l>> \o (rest \o behind)) /\ rest \o behind \in Seq(Lines)
  <2>1. <<l>> \in Seq(Lines)
    OBVIOUS
  <2>2. (<<l>> \o rest) \o behind = <<l>> \o (rest \o behind) /\ rest \o behind \in Seq(Lines)
    BY <2>1, ConcatAssociative, ConcatProperties
  <2> QED BY <1>2, <1>6, <2>2 DEF FansOut
<1>8. Append(out, r) \in Seq(Results) /\ Answers(Append(out, r), all, rest \o behind)
  BY <1>3, <1>7, OneMore DEF FansOut
<1>9. Answers(out, Spliced(request), records \o SplicedLast(request)[Len(batch)])'
  <2>1. /\ Spliced(request)' = all /\ (SplicedLast(request)[Len(batch)])' = behind
    BY <1>1, <1>6 DEF Spliced, SplicedLast
  <2> QED BY <1>1, <1>2, <1>3, <1>8, <2>1 DEF Answers
<1> QED BY <1>1, <1>2, <1>3, <1>8, <1>9 DEF FansOut, IsEndOf

LEMMA LineFansOut ==
  ASSUME FansOut, BatchLine
  PROVE  FansOut'
<1>1. /\ records = <<>> /\ records' = records /\ batch # <<>> /\ Head(batch) \notin Documents
      /\ batch' = Tail(batch) /\ out' = Append(out, Result) /\ request' = request
      /\ ReadLine("line", Head(batch))
  BY DEF BatchLine, Empty, Tokenize
<1>2. PICK l \in Lines, behind \in Seq(Lines) : l = Head(batch) /\ behind = SplicedLast(request)[Len(Tail(batch))]
  BY <1>1, FrontLine
<1>3. PICK r \in Results : r = Result /\ r[1] = Normalize[l]
  BY <1>1, <1>2, ResultOfLine
<1>4. PICK one \in Seq(Lines) : one = <<l>>
  <2>1. <<l>> \in Seq(Lines)
    OBVIOUS
  <2> QED BY <2>1
<1>5. SplicedLast(request)[Len(batch)] = one \o behind
  BY <1>1, <1>2, <1>4, FrontLine DEF RecordsOf
<1>6. <<>> \o (one \o behind) = one \o behind /\ <<>> \o behind = behind
  BY ConcatProperties, ConcatEmptySeq
<1>7. PICK all \in Seq(Lines) : all = Spliced(request)
  BY SplicedType DEF FansOut
<1>8. Answers(out, all, <<l>> \o behind)
  BY <1>1, <1>4, <1>5, <1>6, <1>7 DEF FansOut
<1>9. Append(out, r) \in Seq(Results) /\ Answers(Append(out, r), all, behind)
  BY <1>3, <1>8, OneMore DEF FansOut
<1>10. Answers(out, Spliced(request), records \o SplicedLast(request)[Len(batch)])'
  <2>1. /\ Spliced(request)' = all /\ (SplicedLast(request)[Len(batch)])' = behind
    BY <1>1, <1>2, <1>7 DEF Spliced, SplicedLast
  <2>2. records' \o behind = behind
    BY <1>1, <1>6
  <2> QED BY <1>1, <1>3, <1>9, <2>1, <2>2 DEF Answers
<1>11. IsEndOf(batch, request)' /\ batch' \in Seq(Lines)
  <2>1. IsEndOf(Tail(batch), request) /\ Tail(batch) \in Seq(Lines)
    BY <1>1, FrontLine
  <2> QED BY <1>1, <2>1 DEF IsEndOf
<1> QED BY <1>1, <1>3, <1>9, <1>10, <1>11 DEF FansOut

LEMMA NextFansOut == FansOut /\ [NextTokenizer]_allVars => FansOut'
<1> SUFFICES ASSUME FansOut, [NextTokenizer]_allVars PROVE FansOut'
  OBVIOUS
<1>1. CASE UNCHANGED call
  <2>1. batch' = batch /\ records' = records /\ out' = out /\ request' = request
    BY <1>1 DEF call
  <2>2. Spliced(request)' = Spliced(request) /\ (SplicedLast(request)[Len(batch)])' = SplicedLast(request)[Len(batch)]
    BY <2>1 DEF Spliced, SplicedLast
  <2>3. IsEndOf(batch, request)'
    BY <2>1 DEF FansOut, IsEndOf
  <2>4. Answers(out, Spliced(request), records \o SplicedLast(request)[Len(batch)])'
    <3>1. Answers(out, Spliced(request), records \o SplicedLast(request)[Len(batch)])
      BY DEF FansOut
    <3> QED BY <2>1, <2>2, <3>1 DEF Answers
  <2> QED BY <2>1, <2>3, <2>4 DEF FansOut
<1>2. \/ \E lines \in Batches : ProcessBatch(lines)
      \/ Unpack \/ BatchRecord \/ BatchLine
      \/ UNCHANGED call
  BY DEF NextTokenizer, ProcessLine, ProcessStableLine, DeclareContext, allVars
<1> QED BY <1>1, <1>2, CallFansOut, UnpackFansOut, RecordFansOut, LineFansOut

(* The results of a batch are its records' in order, each document's in    *)
(* its place, and when the call returns no record is without one           *)
(* (process_batch, unpack_span_document).                                  *)
THEOREM BatchAnswersInOrder == SpecTokenizer => []FanOutInPlace
<1>1. FansOut => FanOutInPlace
  <2> SUFFICES ASSUME FansOut PROVE FanOutInPlace
    OBVIOUS
  <2>1. PICK all \in Seq(Lines), behind \in Seq(Lines) :
          /\ all = Spliced(request) /\ behind = records \o SplicedLast(request)[Len(batch)]
          /\ Answers(out, all, behind)
    <3>1. SplicedLast(request)[Len(batch)] \in Seq(Lines)
      <4>1. Len(batch) \in 0 .. Len(request)
        BY DEF FansOut, IsEndOf
      <4> QED BY <4>1, SplicedType DEF FansOut
    <3>2. records \o SplicedLast(request)[Len(batch)] \in Seq(Lines)
      BY <3>1, ConcatProperties DEF FansOut
    <3> QED BY <3>2, SplicedType DEF FansOut
  <2>2. PICK k \in Nat, b \in Nat : k = Len(out) /\ b = Len(all) /\ DOMAIN out = 1 .. k
    BY DEF FansOut
  <2>3. k <= b /\ (\A i \in 1 .. k : out[i][1] = Normalize[all[i]]) /\ behind = SubSeq(all, k + 1, b)
    BY <2>1, <2>2 DEF Answers
  <2>4. ASSUME ~InCall PROVE k = b
    <3>1. batch = <<>> /\ records = <<>> /\ Len(batch) = 0
      BY <2>4 DEF InCall, Empty
    <3>2. <<>> \o <<>> = <<>>
      BY ConcatEmptySeq
    <3>3. SplicedLast(request)[0] = <<>>
      BY SplicedIs DEF FansOut
    <3>4. behind = <<>>
      BY <2>1, <3>1, <3>2, <3>3
    <3>5. Len(SubSeq(all, k + 1, b)) = b - k
      BY <2>2, <2>3
    <3> QED BY <2>2, <2>3, <3>4, <3>5
  <2> QED BY <2>1, <2>2, <2>3, <2>4 DEF FanOutInPlace
<1> QED BY <1>1, InitFansOut, NextFansOut, PTL DEF SpecTokenizer
============================================================================
