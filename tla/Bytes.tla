-------------------------------- MODULE Bytes --------------------------------
(***************************************************************************)
(* The bytes that the masker and the intent identity tell apart            *)
(* (core/src/scan/canon.detail.scan.cppm, core/src/scan/shell.cpp), and    *)
(* the one reader of a complete wrapper shell.  Text is a sequence of      *)
(* cells: a digit, a mark, or a whole run of letters.                      *)
(***************************************************************************)
EXTENDS Texts

CONSTANTS
  Digit,       \* the digits that are told apart
  HexLetter,   \* the letters of a hexadecimal digit, one byte each
  Word         \* every other run of letters

(* No mark is a digit or a letter.                                         *)
Marks == {"[", "]", "(", ")", "{", "}", "<", ">", "\"", "'", "*", ".", ",", ":", ";", "-", "+", "_", "=", "/", "\\", "#", "$", "%", " "}
ASSUME AlphabetAssumption == Marks \cap (Digit \cup HexLetter \cup Word) = {}

Letter == HexLetter \cup Word
Alnum == Digit \cup Letter
HexChar == Digit \cup HexLetter

kMaskWildcard == <<"<", "*", ">">>

kWrapperPairs == {<<"[", "]">>, <<"(", ")">>, <<"{", "}">>, <<"<", ">">>, <<"\"", "\"">>, <<"'", "'">>}
WrapperOpen == {pair[1] : pair \in kWrapperPairs}
WrapperClose == {pair[2] : pair \in kWrapperPairs}
ShellTrailingPunct == {",", ";", ":", "."}
kMaxShellTrailBytes == 2
kMinShellTokenLen == 3

----------------------------------------------------------------------------
(* complete_shell_core: where the core of a complete shell lies, or none.  *)
CompleteShellCore(text) ==
  LET trail == Cardinality({n \in 1 .. kMaxShellTrailBytes :
                              n < Len(text) /\ Over(From(text, Len(text) - n + 1), ShellTrailingPunct)})
      last == Len(text) - trail
  IN  {[first |-> 2, last |-> last - 1] : pair \in
         {p \in kWrapperPairs :
            /\ Len(text) >= kMinShellTokenLen /\ last >= kMinShellTokenLen
            /\ text[1] = p[1] /\ text[last] = p[2]
            /\ ~Has(SubSeq(text, 2, last - 1), {p[1], p[2]})}}

----------------------------------------------------------------------------
(* claim_declared_runs: the digit runs that a declared value claims.  A    *)
(* run is [markers, value]; where a marker opens a digit run that no       *)
(* letter follows, the scan resumes after it, claimed or not.              *)

\* The end of the digit run that the first such marker opens at i, with its start.
OpenedAt(form, i, run) ==
  LET opens(k) ==
        LET digits == i + Len(run.markers[k])
            end == After(form, digits, Digit)
        IN  /\ StartsAt(form, i, run.markers[k])
            /\ end > digits /\ (end > Len(form) \/ form[end] \notin Letter)
  IN  {[first |-> i + Len(run.markers[k]), last |-> After(form, i + Len(run.markers[k]), Digit) - 1] :
         k \in {m \in DOMAIN run.markers : opens(m) /\ \A n \in 1 .. m - 1 : ~opens(n)}}

ClaimsOf(form, run) ==
  LET scan[i \in 1 .. Len(form) + 1] ==
        IF i > Len(form) THEN {}
        ELSE LET opened == IF i = 1 \/ form[i - 1] \notin Alnum THEN OpenedAt(form, i, run) ELSE {}
             IN  IF opened = {} THEN scan[i + 1]
                 ELSE UNION {scan[o.last + 1] \cup (IF SubSeq(form, o.first, o.last) = run.value THEN {o} ELSE {}) :
                               o \in opened}
  IN  scan[1]

ClaimDeclaredRuns(form, runs) == UNION {ClaimsOf(form, run) : run \in runs}

\* The form with each of these ranges read as the wildcard.
Replaced(form, claims) ==
  LET copy[i \in 1 .. Len(form) + 1] ==
        IF i > Len(form) THEN <<>>
        ELSE IF \E c \in claims : c.first = i
             THEN kMaskWildcard \o copy[(CHOOSE c \in claims : c.first = i).last + 1]
             ELSE <<form[i]>> \o copy[i + 1]
  IN  copy[1]
==============================================================================
