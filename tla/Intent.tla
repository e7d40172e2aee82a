-------------------------------- MODULE Intent --------------------------------
(***************************************************************************)
(* The identity of a declared intent (core/src/identity/intent_identity.   *)
(* cpp): a name's class, where numbers, versions and parentheses are       *)
(* masked, and its discriminant, the bytes that the class leaves out.      *)
(***************************************************************************)
EXTENDS Bytes, SequencesExt

WordByte == Alnum \cup {"_"}
kMinMaskedDigits == 2

Trimmed(name) ==
  LET used == {i \in DOMAIN name : name[i] # " "}
  IN  IF used = {} THEN <<>>
      ELSE SubSeq(name, CHOOSE i \in used : \A k \in used : i <= k, CHOOSE i \in used : \A k \in used : k <= i)

\* Past every group of a dot and its digits.
DotEnd(name, pos) ==
  LET end[i \in 1 .. Len(name) + 1] ==
        IF i < Len(name) /\ name[i] = "." /\ name[i + 1] \in Digit THEN end[After(name, i + 1, Digit)] ELSE i
  IN  end[pos]

\* claim_numeric: a version, or a number of two digits, that no letter follows.
ClaimNumeric(name, start) ==
  LET digits == IF name[start] = "v" THEN start + 1 ELSE start
      pos == After(name, digits, Digit)
      dotEnd == DotEnd(name, pos)
      ends(i) == i > Len(name) \/ name[i] \notin WordByte
      claim(mask, end) == {[mask |-> mask, first |-> start, last |-> end - 1]}
  IN  IF pos = digits THEN {}
      ELSE IF dotEnd > pos /\ ends(dotEnd) THEN claim(<<"vX">>, dotEnd)
      ELSE IF digits > start THEN IF ends(pos) THEN claim(<<"vX">>, pos) ELSE {}
      ELSE IF pos - digits >= kMinMaskedDigits /\ ends(pos) THEN claim(<<"N">>, pos) ELSE {}

ClaimParentheses(name, start) ==
  LET closes == {i \in start + 1 .. Len(name) : name[i] = ")"}
  IN  IF name[start] = "(" /\ closes # {}
      THEN {[mask |-> <<"(", "M", ")">>, first |-> start, last |-> CHOOSE i \in closes : \A k \in closes : i <= k]} ELSE {}

\* The masked spans of a trimmed name, from the left.  A number opens where no word runs, which the byte
\* before it tells: a number that was claimed ends in a digit, a parenthesis in a mark.
Spans(name) ==
  LET opensNumber(i) == name[i] \in Digit \cup {"v"} /\ (i > 1 => name[i - 1] \notin WordByte)
      claims(i) ==
        IF ClaimParentheses(name, i) # {} THEN ClaimParentheses(name, i)
        ELSE IF opensNumber(i) THEN ClaimNumeric(name, i) ELSE {}
      scan[i \in 1 .. Len(name) + 1] ==
        IF i > Len(name) THEN <<>>
        ELSE IF claims(i) = {} THEN scan[i + 1]
        ELSE LET claim == CHOOSE c \in claims(i) : TRUE
             IN  <<claim>> \o scan[claim.last + 1]
  IN  scan[1]

\* canonicalize_intent: the class of a name.
MaskSpans(name, spans) ==
  LET from(k) == IF k = 1 THEN 1 ELSE spans[k - 1].last + 1
      masked(k) == SubSeq(name, from(k), spans[k].first - 1) \o spans[k].mask
  IN  FlattenSeq([k \in DOMAIN spans |-> masked(k)]) \o From(name, from(Len(spans) + 1))

CanonicalizeIntent(name) == MaskSpans(Trimmed(name), Spans(Trimmed(name)))

\* A version that is the end of its name.
EndsWith(name, version) == version # <<>> /\ Len(version) <= Len(name)
HeadOf(name, version) == Upto(name, Len(name) - Len(version))

MarkerClass(name, version) ==
  LET versioned == EndsWith(Trimmed(name), version)
  IN  CanonicalizeIntent(IF versioned THEN HeadOf(Trimmed(name), version) ELSE name)
        \o (IF versioned THEN <<"vX">> ELSE <<>>)

\* one_token_version_of: what follows the last introducer of a name of one token.
OneTokenVersionOf(name, introducer) ==
  LET tok == Trimmed(name)
      found == {i \in DOMAIN tok : StartsAt(tok, i, introducer)}
  IN  IF introducer = <<>> \/ Has(tok, {" "}) \/ found = {} THEN <<>>
      ELSE From(tok, (CHOOSE i \in found : \A k \in found : k <= i) + Len(introducer))

\* Fault: the envelope is the first span alone.
FirstSpanOnly(name) == LET spans == Spans(name) IN {[first |-> s.first, last |-> s.last] : s \in IF spans = <<>> THEN {} ELSE {spans[1]}}

\* discriminant_of: from the first masked span's start to the last one's end.
Envelope(name) ==
  {[first |-> spans[1].first, last |-> spans[Len(spans)].last] : spans \in {Spans(name)} \ {<<>>}}

\* With a version it opens at the head's first span, or at the version, and closes with the name.
VersionEnvelope(name, version) ==
  IF ~EndsWith(name, version) THEN Envelope(name)
  ELSE LET head == HeadOf(name, version)
           lead == CHOOSE n \in 0 .. Len(head) : Over(Upto(head, n), {" "}) /\ (n = Len(head) \/ head[n + 1] # " ")
       IN  {[first |-> IF spans = <<>> THEN Len(head) + 1 ELSE lead + spans[1].first, last |-> Len(name)] :
              spans \in {Spans(Trimmed(head))}}

DiscriminantOf(name, version) ==
  UNION {{SubSeq(Trimmed(name), e.first, e.last)} : e \in VersionEnvelope(Trimmed(name), version)}

\* The claims of the declared runs inside the envelope and before the version.
InsideClaims(name, version, runs) ==
  LET tail == IF EndsWith(name, version) THEN Len(name) - Len(version) ELSE Len(name)
  IN  {claim \in ClaimDeclaredRuns(name, runs) :
         \E e \in VersionEnvelope(name, version) : e.first <= claim.first /\ claim.last <= e.last /\ claim.last <= tail}

DeclaredDiscriminantOf(name, version, runs) ==
  LET tok == Trimmed(name)
      inside == InsideClaims(tok, version, runs)
      shifted(e) == {[first |-> c.first - e.first + 1, last |-> c.last - e.first + 1] : c \in inside}
  IN  {Replaced(SubSeq(tok, e.first, e.last), shifted(e)) : e \in VersionEnvelope(tok, version)}

----------------------------------------------------------------------------
\* What stands before the masked spans of a name, and behind them.
Around(name, version) == {[before |-> e.first - 1, behind |-> Len(name) - e.last] : e \in VersionEnvelope(name, version)}

\* What is known of a name: its class, where it is masked and what it hides there, and its text but
\* for the declared values.
IdentityOf(name, introducer, declared) ==
  LET version == OneTokenVersionOf(name, introducer)
  IN  [name |-> name, class |-> MarkerClass(name, version), around |-> Around(Trimmed(name), version),
       hidden |-> DeclaredDiscriminantOf(name, version, declared),
       within |-> Replaced(Trimmed(name), InsideClaims(Trimmed(name), version, declared))]
===============================================================================
