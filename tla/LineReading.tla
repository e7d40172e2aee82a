----------------------------- MODULE LineReading -----------------------------
(***************************************************************************)
(* What becomes of one line: its record (LineRecord), and the template of  *)
(* the record's content (Templates).  A content may also be given as it    *)
(* is.                                                                     *)
(***************************************************************************)
EXTENDS Templates, LineRecord

CONSTANTS
  Spelling   \* the text of every cell of a line

vars == <<recordVars, templateVars>>

InitContent == InitTemplate /\ line = NoLine
InitLine ==
  /\ line \in LinesRead
  /\ content = NoLine /\ maskIp = TRUE /\ runs = {}
  /\ tokens = <<>> /\ cursor = 0 /\ template = <<>> /\ params = <<>>

Init == (InitContent \/ InitLine) /\ InitUnread

\* A record's content is what the template is made of.
Spell(cells) == FlattenSeq([i \in DOMAIN cells |-> Spelling[cells[i]]])

ParseLine ==
  /\ ParseText
  /\ content' = IF record' = {} THEN NoLine
                ELSE [kind |-> "text", text |-> Spell((CHOOSE r \in record' : TRUE).content)]
  /\ UNCHANGED loopVars

ReadLine == ParseLine \/ ((DetectText \/ ReadObject \/ ReadExport) /\ UNCHANGED templateVars)
ReadContent == content # NoLine /\ ReadTemplate /\ UNCHANGED recordVars

Spec == Init /\ [][ReadLine \/ ReadContent]_vars
==============================================================================
