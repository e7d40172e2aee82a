------------------------------ MODULE Templates ------------------------------
(***************************************************************************)
(* stateless_template (core/src/mask/mask.cpp): one line's template and    *)
(* its parameters.  Contents are texts, and whole JSON values, whose       *)
(* members are put in order before a token is read.                        *)
(***************************************************************************)
EXTENDS TemplateLoop, JsonOrder

CONSTANTS
  Contents  \* [kind, text, value]: a text, or a JSON value

VARIABLES
  content

templateVars == <<content, loopVars>>

\* The line that is tokenized.
LineOf(c) == IF c.kind = "json" THEN JsonMemberOrder(c.value) ELSE c.text

InitTemplate == content \in Contents /\ InitLoop

PutInOrder == Begin(LineOf(content))

ReadTemplate == (PutInOrder \/ ReadToken) /\ UNCHANGED content

----------------------------------------------------------------------------
(* What the template says.                                                 *)

(* Member order is presentation: a line whose members are in any other     *)
(* order, at any depth, has the same template; a line that names a member  *)
(* twice is left as it is written.                                         *)
MemberOrderIsPresentation ==
  Done /\ content.kind = "json" =>
    IF Rewritten(content.value)
    THEN \A v \in Reorderings(content.value) : FormsOf(TokensOf(JsonMemberOrder(v)), maskIp, runs) = template
    ELSE tokens = TokensOf(Source(content.value))

(* A lead moves where a root sits, never what it matches: a path under an  *)
(* ephemeral root that reaches the rules has the same form behind an       *)
(* opener, a key or a scheme.                                              *)
Leads == {<<"(">>, <<"\"">>, <<"k", "=">>, <<"k", "=", "\"">>, <<"[", "k", "=">>, kFileUrlScheme, <<"(">> \o kFileUrlScheme}
LeadIsKept(forms) == \A lead \in Leads : forms[lead] = {lead \o form : form \in forms[<<>>]}
RootsIgnoreTheirLead ==
  Done => \A k \in DOMAIN tokens :
    /\ tokens[k][1] \in RootSeparator /\ HasSeparator(tokens[k]) /\ FirstRoot(tokens[k]) # {}
    /\ EphemeralRoot(tokens[k]) \cup DiagnosticComposite(tokens[k]) # {}
    => LeadIsKept([lead \in Leads \cup {<<>>} |-> TryComposite(lead \o tokens[k])])

----------------------------------------------------------------------------
(* Status values.  A spot is the place of a short number that a status     *)
(* keyword announces.                                                      *)

Spots(first, number) == IF ShortNumber(number) THEN first .. first + Len(number) - 1 ELSE {}

\* The number of a pair that starts at a position, if its key is a keyword.
PairSpots(tok, first, last) ==
  LET pair == SubSeq(tok, first, last)
  IN  UNION {Spots(first + eq, Upto(From(pair, eq + 1), ValueExtent(From(pair, eq + 1)))) :
               eq \in {i \in First(pair, "=") : IsStatusKeyword(Upto(pair, i - 1))}}

\* The segments that kv_value does not read under a longer key.
OwnKeySpots(tok) ==
  UNION {PairSpots(tok, piece.first, piece.last) :
           piece \in {q \in Range(Pieces(tok, {";"})) : q.first = 1 \/ \E eq \in First(tok, "=") : eq < q.first}}

ShellSpots(tok, prev) ==
  IF ~IsStatusKeyword(prev) THEN {}
  ELSE Spots(1, tok) \cup UNION {Spots(core.first, Text(tok, core)) :
                                  core \in {c \in CompleteShellCore(tok) : tok[1] # "["}}

CompositeSpots(tok) ==
  LET pieces == Pieces(tok, {":", "/"})
  IN  IF DiagnosticComposite(tok) = {} THEN {}
      ELSE UNION {AlnumIn(tok, pieces[k]) :
             k \in {n \in 2 .. Len(pieces) : IsStatusKeyword(Core(tok, pieces[n - 1])) /\ ShortNumber(Core(tok, pieces[n]))}}

\* A line that differs in one of these spots has another template.
TellsApart(k, spots) ==
  \A spot \in spots, digit \in Digit :
    digit # tokens[k][spot] =>
      TokenForm([tokens[k] EXCEPT ![spot] = digit], PrevOf(tokens, k), maskIp, runs) # template[k]

(* A status value that turns from green to red is another template, bare,  *)
(* in a shell, in a composite, behind a key or in a segment.               *)
StatusStaysDistinct ==
  Done => \A k \in DOMAIN tokens :
    TellsApart(k, ShellSpots(tokens[k], PrevOf(tokens, k)) \cup CompositeSpots(tokens[k]) \cup OwnKeySpots(tokens[k]))
==============================================================================
