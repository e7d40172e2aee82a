----------------------------- MODULE RunOutcome -----------------------------
(***************************************************************************)
(* The verdict of a run (core/src/compose/outcome.cpp): a scan of the      *)
(* whole log for the stream's terminal lines, then a ladder: the verdict   *)
(* the caller declares, read in the vocabulary of whoever supplied it,     *)
(* else the one in the bytes, else Unknown.  An optional value is the set  *)
(* that holds it, empty when it is absent.                                 *)
(***************************************************************************)
EXTENDS Composition

CONSTANTS
  WordBytes,    \* the bytes of a verdict word
  LogLines,     \* the lines of a log: the contents of their segments, cut at each bare CR
  SideInputs,   \* the pairs of a token and the vocabulary that interprets it
  Scanned,      \* bound: the arguments whose compositions are given a log and a side input
  MaxLines      \* bound: lines of a log

\* An outcome row adds a shape and, when the prefix is the verdict, an outcome;
\* a token row adds the outcome it stands for.  Neither has a shape to match.
ASSUME OutcomeAssumption ==
  \A given \in Arguments : \A i \in DOMAIN given : \A r \in given[i].rows :
    /\ r.table \in {"outcome", "token"} => r.match = "prefix"
    /\ r.table = "outcome" => r.shape \in {"remainder", "prefix"}

ASSUME LogAssumption == LogLines \subseteq Seq(Seq(Nat))

VARIABLES
  read,       \* ghost: the lines scanned
  scan,       \* RunOutcomeScan
  side,       \* the side input declared last
  resolution  \* RunOutcomeResolution, once there is one

outcomeVars == <<read, scan, side, resolution>>

NoToken == <<>>
NoScan == [present |-> FALSE, token |-> NoToken, verdict |-> {}]
NoSide == [token |-> NoToken, vocabulary |-> kAny]

----------------------------------------------------------------------------
(* The scan.                                                               *)

Remainder(row, content) == SubSeq(content, Len(row.key) + 1, Len(content))
IsVerdictWord(token) == token # NoToken /\ \A i \in DOMAIN token : token[i] \in WordBytes

Claims(row, content) ==
  /\ StartsWith(content, row.key)
  /\ row.shape = "remainder" => IsVerdictWord(Remainder(row, content))

\* Fault: of two matches in a line the later segment's is kept.
ImproveWithLater(best, content) ==
  LET match == Best({e \in Of(view, "outcome") : Claims(e.row, content)}, Longer)
  IN  IF match = {} THEN best ELSE {<<e.row, Remainder(e.row, content)>> : e \in match}

(* improve_match: a segment displaces what the line has by a longer prefix.*)
Improve(best, content) ==
  LET match == Best({e \in Of(view, "outcome") : Claims(e.row, content)}, Longer)
      longer == {e \in match : \A b \in best : Len(e.row.key) > Len(b[1].key)}
  IN  IF longer = {} THEN best ELSE {<<e.row, Remainder(e.row, content)>> : e \in longer}

BestOfLine(line) ==
  LET best[i \in 0 .. Len(line)] == IF i = 0 THEN {} ELSE Improve(best[i - 1], line[i])
  IN  best[Len(line)]

\* Fault: the verdict of an earlier line is not reset.
TakenOver(row, token) ==
  [present |-> TRUE,
   token |-> IF row.shape = "prefix" THEN NoToken ELSE token,
   verdict |-> IF row.shape = "prefix" THEN {row.outcome} ELSE scan.verdict]

Taken(row, token) ==
  [present |-> TRUE,
   token |-> IF row.shape = "prefix" THEN NoToken ELSE token,
   verdict |-> IF row.shape = "prefix" THEN {row.outcome} ELSE {}]

ScanLine(line) ==
  /\ status = "ready" /\ resolution = {}
  /\ args \in Scanned /\ Len(read) < MaxLines
  /\ read' = Append(read, line)
  /\ IF BestOfLine(line) = {}
     THEN UNCHANGED scan
     ELSE \E b \in BestOfLine(line) : scan' = Taken(b[1], b[2])
  /\ UNCHANGED <<vars, side, resolution>>

----------------------------------------------------------------------------
(* The ladder.                                                             *)

(* map_outcome_token: a token that maps to Unknown maps.                   *)
Mapped(token, rows) == {e.row.outcome : e \in {f \in Of(rows, "token") : f.row.key = token}}

\* Fault: a side input is read in the vocabulary of the stream.
MappedInStream(declared) == Mapped(declared.token, view)

(* map_outcome_token_in: filtered again from the whole composition.        *)
MappedIn(declared) == Mapped(declared.token, Filtered(all, declared.vocabulary, kAny))

Console ==
  IF ~scan.present THEN {}
  ELSE IF scan.verdict # {} THEN scan.verdict
  ELSE Mapped(scan.token, view)

ConsoleMiss == IF scan.present /\ Console = {} THEN {scan.token} ELSE {}

\* A token without a vocabulary, or with one that is not composed, is a wiring error.
Miswired(declared) == declared.token # NoToken /\ declared.vocabulary \notin PackageNames

ValueOr(optional, default) == IF optional = {} THEN default ELSE CHOOSE o \in optional : TRUE

\* Fault: a token its vocabulary does not hold is passed over in silence.
FallenQuietly(declared) ==
  [outcome |-> ValueOr(Console, "Unknown"), console |-> ValueOr(Console, "Unknown"),
   authoritative |-> FALSE, divergent |-> FALSE, note |-> {}]

(* The rungs below a side input that is absent or does not map.            *)
Fallen(declared) ==
  [outcome |-> ValueOr(Console, "Unknown"), console |-> ValueOr(Console, "Unknown"),
   authoritative |-> FALSE, divergent |-> FALSE,
   note |-> IF declared.token # NoToken THEN {declared.token} ELSE ConsoleMiss]

Authoritative(mapped) ==
  [outcome |-> mapped, console |-> ValueOr(Console, "Unknown"),
   authoritative |-> TRUE, divergent |-> Console # {} /\ Console # {mapped}, note |-> ConsoleMiss]

(* resolve_run_outcome.                                                    *)
Resolution(declared) ==
  IF declared.token # NoToken /\ MappedIn(declared) # {}
  THEN Authoritative(ValueOr(MappedIn(declared), "Unknown"))
  ELSE Fallen(declared)

ResolveRunOutcome(declared) ==
  /\ status = "ready" /\ resolution = {} /\ args \in Scanned
  /\ side' = declared
  /\ IF Miswired(declared)
     THEN status' = "terminated" /\ UNCHANGED resolution
     ELSE resolution' = {Resolution(declared)} /\ UNCHANGED status
  /\ UNCHANGED <<args, all, shadows, view, dialect, channel, read, scan>>

----------------------------------------------------------------------------
InitOutcome ==
  /\ Init
  /\ read = <<>> /\ scan = NoScan /\ side = NoSide /\ resolution = {}

\* The view is resolved before the first line.
Prepare ==
  /\ read = <<>> /\ resolution = {}
  /\ Next
  /\ UNCHANGED outcomeVars

NextOutcome ==
  \/ Prepare
  \/ \E line \in LogLines : ScanLine(line)
  \/ \E declared \in SideInputs \cup {NoSide} : ResolveRunOutcome(declared)

SpecOutcome == InitOutcome /\ [][NextOutcome]_<<vars, outcomeVars>>

----------------------------------------------------------------------------
(* "the LONGEST matching prefix wins within a line and the LAST such line  *)
(* wins across the log" (canon.cppm:242), whatever the rows' order; among  *)
(* equals of one line the first segment's.  What the scan holds is that    *)
(* match's alone: nothing of an earlier line survives in it.               *)
ClaimsOn(line) == {c \in (DOMAIN line) \X Of(view, "outcome") : Claims(c[2].row, line[c[1]])}

VerdictLines == {i \in DOMAIN read : ClaimsOn(read[i]) # {}}

LastVerdictLineWins ==
  IF VerdictLines = {} THEN scan = NoScan
  ELSE LET line == read[CHOOSE i \in VerdictLines : \A j \in VerdictLines : j <= i]
       IN  \E c \in ClaimsOn(line) :
             /\ \A d \in ClaimsOn(line) :
                  \/ Len(c[2].row.key) > Len(d[2].row.key)
                  \/ Len(c[2].row.key) = Len(d[2].row.key) /\ c[1] <= d[1]
             /\ scan.present
             /\ c[2].row.shape = "prefix" => scan.verdict = {c[2].row.outcome}
             /\ c[2].row.shape = "remainder" =>
                  scan.verdict = {} /\ scan.token = Remainder(c[2].row, line[c[1]])

(* "STRICT and TOTAL, never a reconciliation" (canon.cppm:270): a declared *)
(* verdict is its supplier's, whatever the stream declared and whatever    *)
(* its bytes say; without one the outcome is what the bytes alone give,    *)
(* and divergent tells exactly that a verdict in the bytes was overruled.  *)
Declared ==
  {r.outcome : r \in {s \in UNION {args[i].rows : i \in DOMAIN args} :
     s.table = "token" /\ s.key = side.token /\ s.gate \in {kAny, side.vocabulary}}}

StrictLadder ==
  \A r \in resolution :
    IF side.token # NoToken /\ Declared # {}
    THEN /\ r.authoritative /\ Declared = {r.outcome}
         /\ r.divergent <=> Console # {} /\ r.outcome \notin Console
    ELSE /\ ~r.authoritative /\ ~r.divergent
         /\ r.outcome = Resolution(NoSide).outcome

(* "a token that is provided but does not map is never a silent            *)
(* misclassification" (canon.cppm:275): a resolution without a note took   *)
(* every token it was given, from the caller and from the bytes.           *)
NoSilentMiss ==
  \A r \in resolution :
    r.note = {} =>
      /\ side.token # NoToken => Declared # {}
      /\ scan.present => Console # {}
=============================================================================
