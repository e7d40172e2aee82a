---------------------------- MODULE TemplateLoop ----------------------------
(***************************************************************************)
(* The loop of stateless_template (core/src/mask/mask.cpp) over the tokens *)
(* of one line: each token's form is appended to the template, and a token *)
(* that is masked whole is a parameter.                                    *)
(***************************************************************************)
EXTENDS Masking

CONSTANTS
  DeclaredSets  \* the declared runs of a stream, any of these sets

VARIABLES
  maskIp,     \* MaskConfig::mask_ip_addresses
  runs,       \* the stream's declared runs
  tokens,     \* the line's tokens, once it is in order
  cursor,     \* the token to read next; 0 before the line is put in order
  template,   \* the forms of the tokens read
  params      \* the tokens masked whole

loopVars == <<maskIp, runs, tokens, cursor, template, params>>

\* for_each_token: the pieces between spaces that hold something.
TokensOf(line) ==
  LET pieces == Pieces(line, {" "})
      held == {k \in DOMAIN pieces : Text(line, pieces[k]) # <<>>}
  IN  [n \in 1 .. Cardinality(held) |-> Text(line, pieces[Ascending(held)[n]])]

InitLoop ==
  /\ maskIp \in BOOLEAN /\ runs \in DeclaredSets
  /\ tokens = <<>> /\ cursor = 0 /\ template = <<>> /\ params = <<>>

\* The line is put in order, and its tokens are read from the first.
Begin(line) ==
  /\ cursor = 0
  /\ tokens' = TokensOf(line)
  /\ cursor' = 1
  /\ UNCHANGED <<maskIp, runs, template, params>>

Token == tokens[cursor]
PrevOf(toks, k) == IF k = 1 THEN <<>> ELSE toks[k - 1]
Prev == PrevOf(tokens, cursor)

Reads == cursor > 0 /\ cursor <= Len(tokens)

\* Whatever the rule, the next token is read with this one before it.
Advance == cursor' = cursor + 1 /\ UNCHANGED <<maskIp, runs, tokens>>

Mask == template' = Append(template, kMaskWildcard) /\ params' = Append(params, Token)
Keep == template' = Append(template, Token) /\ UNCHANGED params

\* Fault: the form is appended as any other.
AppendWithoutParam(form) == template' = Append(template, form) /\ UNCHANGED params

\* append_normal_form: a form that is exactly the wildcard is masked whole.
AppendNormalForm(form) ==
  IF form = kMaskWildcard THEN Mask ELSE template' = Append(template, form) /\ UNCHANGED params

KeepStatus == Reads /\ KeepsStatus(Token, Prev) /\ Keep /\ Advance

Composite ==
  /\ Reads /\ ~KeepsStatus(Token, Prev) /\ TryComposite(Token) # {}
  /\ AppendNormalForm(NormalFormSteps(ClaimedForm(TryComposite(Token)), runs))
  /\ Advance

\* No composite claims the token: the rule that its value meets first decides.
MaskWhole == Mask
KeepAddress == Keep
KeepNormalForm == AppendNormalForm(NormalFormSteps(Token, runs))

ByValue ==
  /\ Reads /\ ~KeepsStatus(Token, Prev) /\ TryComposite(Token) = {}
  /\ LET disposition == ValueDisposition(Token, Prev, maskIp)
     IN  \/ disposition = "mask" /\ MaskWhole
         \/ disposition = "literal" /\ KeepAddress
         \/ disposition = "none" /\ KeepNormalForm
  /\ Advance

ReadToken == KeepStatus \/ Composite \/ ByValue

IsText(raw) == \E S : raw \in Seq(S)

SpecLoop == InitLoop /\ [][(\E raw : IsText(raw) /\ Begin(raw)) \/ ReadToken]_loopVars

----------------------------------------------------------------------------
(* What the template says.                                                 *)

\* The template of a line under a configuration, as one function of its tokens.
FormsOf(toks, ip, declared) == [k \in DOMAIN toks |-> TokenForm(toks[k], PrevOf(toks, k), ip, declared)]

Done == cursor > Len(tokens) /\ cursor > 0

(* "a template token that is exactly the wildcard is a param and every     *)
(* param is one: param i is the (i + 1)-th such token" (mask.cpp:1585):    *)
(* the template alone says which of its places are parameters, whichever   *)
(* rule or step left them so.                                              *)
ParamsBindWildcards ==
  LET places == {k \in DOMAIN template : template[k] = kMaskWildcard}
  IN  /\ Len(params) = Cardinality(places)
      /\ \A k \in places : params[Cardinality({j \in places : j <= k})] = tokens[k]

(* The switch for addresses decides every address that no composite claims *)
(* ("rule 4 decides its whole acceptance set, bare or shelled",            *)
(* mask.cpp:1561), and nothing else: turned, it leaves every other token   *)
(* of the template as it was.                                              *)
SwitchDecidesAddresses ==
  Done =>
    FormsOf(tokens, ~maskIp, runs) =
      [k \in DOMAIN tokens |->
         IF IsIpv4Token(tokens[k]) /\ TryComposite(tokens[k]) = {}
         THEN IF maskIp THEN tokens[k] ELSE kMaskWildcard
         ELSE template[k]]
==============================================================================
