------------------------------- MODULE Masking -------------------------------
(***************************************************************************)
(* Masking (core/src/mask/mask.cpp): a line's template, decided token by   *)
(* token from the token's own bytes and the one before it.  Every rule     *)
(* gives the normal form of a token it claims, or nothing.                 *)
(***************************************************************************)
EXTENDS Bytes, SequencesExt

CONSTANTS
  kMaxStatusDigits,   \* width of the widest status value
  kMinHashLen,        \* floor of a hash
  kUuidLen, kUuidDashes,   \* a UUID: its length, and where its dashes stand
  InstantShape,       \* the compact instant: a digit, or the byte itself
  Rfc3339Shape        \* the bracketed datetime, likewise

(* A group of a UUID, and a run of an instant's digits, is shorter than a  *)
(* hash: the widths are 8 of 16 and 6 of 16.                               *)
ASSUME WidthsAssumption ==
  /\ kMaxStatusDigits \in Nat \ {0} /\ kMinHashLen \in Nat /\ kUuidLen \in Nat
  /\ kUuidDashes # {} /\ kUuidDashes \subseteq 1 .. kUuidLen - 2
  /\ \A i \in 0 .. kUuidLen - kMinHashLen : \E d \in kUuidDashes : d \in i .. i + kMinHashLen - 1
  /\ Len(InstantShape) > 0

kStatusKeywords == {"code", "status", "exit", "signal"}
IsStatusKeyword(text) == \E keyword \in kStatusKeywords : text = <<keyword>>

\* An all-digit number short enough to be a status.
ShortNumber(text) == text # <<>> /\ Over(text, Digit) /\ Len(text) <= kMaxStatusDigits

----------------------------------------------------------------------------
(* Rules 3 and 4: shapes of the whole token.                               *)

ShapeAt(text, i, shape) ==
  /\ i + Len(shape) <= Len(text) + 1
  /\ \A k \in DOMAIN shape :
       IF shape[k] = "digit" THEN text[i + k - 1] \in Digit ELSE text[i + k - 1] = shape[k]

UuidAt(text, i) ==
  /\ i + kUuidLen <= Len(text) + 1
  /\ \A k \in 0 .. kUuidLen - 1 : IF k \in kUuidDashes THEN text[i + k] = "-" ELSE text[i + k] \in HexChar

IsUuidOrLongHash(tok) ==
  \/ Len(tok) = kUuidLen /\ UuidAt(tok, 1)
  \/ Len(tok) >= kMinHashLen /\ Over(tok, HexChar)

\* Where the four octets after an optional opener end, or nowhere.
OctetsEnd(tok) ==
  LET octet(i) ==
        LET run == After(tok, i, Digit) - i
        IN  IF i > Len(tok) \/ run = 0 THEN {} ELSE {i + Min({3, run})}
      dot(i) == IF i <= Len(tok) /\ tok[i] = "." THEN {i + 1} ELSE {}
      start == IF tok[1] \in WrapperOpen THEN 2 ELSE 1
      ends[n \in 1 .. 4] ==
        IF n = 1 THEN octet(start) ELSE UNION {octet(j) : j \in UNION {dot(i) : i \in ends[n - 1]}}
  IN  ends[4]

IsIpv4Token(tok) ==
  tok # <<>> /\ \E i \in OctetsEnd(tok) :
    LET trail == IF i <= Len(tok) /\ tok[i] = ":" THEN After(tok, i + 1, Digit) ELSE i
    IN  Len(tok) - trail < kMaxShellTrailBytes /\ Over(From(tok, trail), WrapperClose \cup ShellTrailingPunct)

IsShelledNumeric(tok, prev) ==
  \E core \in CompleteShellCore(tok) :
    /\ tok[core.first] \in Digit
    /\ ~(IsStatusKeyword(prev) /\ ShortNumber(SubSeq(tok, core.first, core.last)))

IsDigitLeading(tok) ==
  LET i == IF tok # <<>> /\ tok[1] \in {"+", "-"} THEN 2 ELSE 1
  IN  i <= Len(tok) /\ tok[i] \in Digit

----------------------------------------------------------------------------
(* The ephemeral roots: directories whose children are of one run.         *)

Segment(s) == IF s = ".conan2" THEN <<".", "conan2">> ELSE <<s>>
Root(segments, anchor, scope) ==
  [segments |-> [i \in DOMAIN segments |-> Segment(segments[i])], anchor |-> anchor, scope |-> scope]

kEphemeralRoots == {
  Root(<<"tmp">>, "start", "subtree"),
  Root(<<"var", "tmp">>, "start", "subtree"),
  Root(<<"var", "folders">>, "start", "subtree"),
  Root(<<".conan2", "p", "b">>, "floating", "instance"),
  Root(<<"nix", "store">>, "start", "instance"),
  Root(<<"private", "var", "folders">>, "start", "subtree"),
  Root(<<"private", "tmp">>, "start", "subtree"),
  Root(<<"AppData", "Local", "Temp">>, "floating", "subtree")}

RootSeparator == {"/", "\\"}

\* Past one "/" or a whole run of "\".
SkipRootSeparator(tok, i) == IF tok[i] = "/" THEN i + 1 ELSE After(tok, i, {"\\"})

LeadKeyByte == Alnum \cup {"_", ".", "-"}
kFileUrlScheme == <<"file", ":", "/", "/">>

\* Fault: a lead is not read, the path has to open the token.
NoLeadFirstComponent(tok) ==
  IF tok # <<>> /\ tok[1] \in RootSeparator THEN SkipRootSeparator(tok, 1) ELSE 0

\* path_first_component: where the path's first component starts, behind a declared lead; 0 when no path opens there.
PathFirstComponent(tok) ==
  LET opened == After(tok, 1, WrapperOpen)
      keyEnd == After(tok, opened, LeadKeyByte)
      keyed == keyEnd > opened /\ keyEnd <= Len(tok) /\ tok[keyEnd] = "="
      led == IF keyed THEN After(tok, keyEnd + 1, WrapperOpen) ELSE opened
      path == IF StartsAt(tok, led, kFileUrlScheme) THEN led + Len(kFileUrlScheme) ELSE led
  IN  IF path <= Len(tok) /\ tok[path] \in RootSeparator THEN SkipRootSeparator(tok, path) ELSE 0

\* A component: its text, the byte before it, and whether it is the path's first.
Component(tok, first, last) ==
  [text |-> SubSeq(tok, first, last), sep |-> IF first = 1 THEN "none" ELSE tok[first - 1],
   starts |-> first = PathFirstComponent(tok)]

(* root_scope_ending_at: the roots that the last of these components ends, *)
(* of which the longest decides.                                           *)
RootsEndingAt(components) ==
  {root \in kEphemeralRoots :
     LET before == Len(components) - Len(root.segments)
     IN  /\ before >= 0
         /\ \A k \in DOMAIN root.segments :
              components[before + k].text = root.segments[k] /\ components[before + k].sep \in RootSeparator
         /\ root.anchor = "start" => components[before + 1].starts}

ScopeEndingAt(components) ==
  {root.scope : root \in {r \in RootsEndingAt(components) :
                            \A o \in RootsEndingAt(components) : Len(o.segments) <= Len(r.segments)}}

\* first_root: the end of the first component that ends a root, and the root's scope.
FirstRoot(tok) ==
  LET starts == {i \in 1 .. Len(tok) + 1 :
                   \/ i = 1
                   \/ /\ tok[i - 1] \in RootSeparator
                      /\ ~(tok[i - 1] = "\\" /\ i <= Len(tok) /\ tok[i] = "\\")}
      last(i) == After(tok, i, {tok[k] : k \in DOMAIN tok} \ RootSeparator) - 1
      upTo(i) == LET firsts == Ascending({s \in starts : s <= i})
                 IN  [k \in DOMAIN firsts |-> Component(tok, firsts[k], last(firsts[k]))]
      hits == {i \in starts : RootsEndingAt(upTo(i)) # {}}
  IN  IF hits = {} THEN {} ELSE {[end |-> last(Min(hits)), scope |-> s] : s \in ScopeEndingAt(upTo(Min(hits)))}

EphemeralRoot(tok) ==
  UNION {LET instance == SkipRootSeparator(tok, hit.end + 1)
             tail == After(tok, instance, {tok[k] : k \in DOMAIN tok} \ RootSeparator)
         IN  IF instance > Len(tok) \/ tok[instance] \in RootSeparator THEN {}
             ELSE {Upto(tok, instance - 1) \o kMaskWildcard
                     \o (IF hit.scope = "instance" THEN From(tok, tail) ELSE <<>>)} :
           hit \in {h \in FirstRoot(tok) : h.end < Len(tok)}}

----------------------------------------------------------------------------
(* The diagnostic composite: segments between ":" and "/".  Led by a       *)
(* letter it is kept, unless it lies directly under a root; a number is    *)
(* kept as a status behind its keyword, and masked otherwise.              *)

AlnumIn(tok, piece) == {i \in piece.first .. piece.last : tok[i] \in Alnum}
Text(tok, piece) == SubSeq(tok, piece.first, piece.last)
Core(tok, piece) ==
  LET at == AlnumIn(tok, piece) IN IF at = {} THEN <<>> ELSE SubSeq(tok, Min(at), Max(at))
WildCore(tok, piece) ==
  SubSeq(tok, piece.first, Min(AlnumIn(tok, piece)) - 1) \o kMaskWildcard
    \o SubSeq(tok, Max(AlnumIn(tok, piece)) + 1, piece.last)

(* The walk: what is written, whether anything was masked, whether a       *)
(* letter-led segment was seen, the core before, the components read, and  *)
(* whether the next one is an instance.                                    *)
WalkStart == [out |-> <<>>, masked |-> FALSE, anchor |-> FALSE, prev |-> <<>>, components |-> <<>>, pending |-> FALSE]

Push(tok, walk, piece) ==
  LET components == Append(walk.components, Component(tok, piece.first, piece.last))
  IN  [walk EXCEPT !.components = components, !.pending = RootsEndingAt(components) # {}]

Write(walk, text, masked) == [walk EXCEPT !.out = @ \o text, !.masked = @ \/ masked]

\* The parts of a segment between runs of "\"; only one directly under a root is masked.
BackslashParts(tok, piece) ==
  LET starts == {i \in piece.first .. piece.last + 1 :
                   i = piece.first \/ (tok[i - 1] = "\\" /\ ~(i <= piece.last /\ tok[i] = "\\"))}
      cells == {tok[k] : k \in DOMAIN tok} \ {"\\"}
  IN  [k \in 1 .. Cardinality(starts) |->
         LET first == Ascending(starts)[k]
             last == Min({After(tok, first, cells) - 1, piece.last})
         IN  [first |-> first, last |-> last,
              next |-> IF k < Cardinality(starts) THEN Ascending(starts)[k + 1] ELSE piece.last + 1]]

AppendPart(tok, walk, part) ==
  LET instance == walk.pending /\ AlnumIn(tok, part) # {}
      written == Write(walk, IF instance THEN WildCore(tok, part) ELSE Text(tok, part), instance)
      pushed == IF AlnumIn(tok, part) = {} THEN written ELSE Push(tok, written, part)
  IN  Write(pushed, SubSeq(tok, part.last + 1, part.next - 1), FALSE)

FlushSegment(tok, walk, piece) ==
  LET core == Core(tok, piece)
      named == core # <<>> /\ ~walk.pending /\ core[1] \in Letter
      status == ~walk.pending /\ IsStatusKeyword(walk.prev) /\ ShortNumber(core)
      masks == core # <<>> /\ ~named /\ ~status
      seen == [walk EXCEPT !.prev = core, !.anchor = @ \/ named]
      written == Write(seen, IF masks THEN WildCore(tok, piece) ELSE Text(tok, piece), masks)
  IN  IF core = <<>> THEN written
      ELSE IF named /\ Has(Text(tok, piece), {"\\"})
      THEN FoldLeft(LAMBDA w, part : AppendPart(tok, w, part), seen, BackslashParts(tok, piece))
      ELSE Push(tok, written, piece)

FlushThenSeparator(tok, walk, piece) ==
  Write(FlushSegment(tok, walk, piece), SubSeq(tok, piece.last + 1, Min({piece.last + 1, Len(tok)})), FALSE)

DiagnosticComposite(tok) ==
  IF ~ \E i \in 1 .. Len(tok) - 1 : tok[i] = ":" /\ tok[i + 1] \in Digit THEN {}
  ELSE LET Walked == {FoldLeft(LAMBDA w, piece : FlushThenSeparator(tok, w, piece), WalkStart, Pieces(tok, {":", "/"}))}
       IN  {w.out : w \in {v \in Walked : v.masked /\ v.anchor}}

----------------------------------------------------------------------------
(* The other composites.                                                   *)

\* The token with the cells first .. last masked.
Masked(tok, first, last) == Upto(tok, first - 1) \o kMaskWildcard \o From(tok, last + 1)

VersionedRef(tok) ==
  {Masked(tok, slash + 1, After(tok, slash + 1, Digit \cup {"."}) - 1) : slash \in
     {i \in 1 .. Len(tok) - 1 :
        /\ tok[i] = "/" /\ ~Has(From(tok, i + 1), {"/"})
        /\ tok[i + 1] \in Digit
        /\ ~Has(From(tok, After(tok, i + 1, Digit \cup {"."})), Alnum)}}

BracketTimestamp(tok) ==
  IF /\ Len(tok) = Len(Rfc3339Shape) + 2 /\ tok[1] = "[" /\ tok[Len(tok)] = "]"
     /\ ShapeAt(tok, 2, Rfc3339Shape)
  THEN {<<"[">> \o kMaskWildcard \o <<"]">>}
  ELSE {}

BracketIndex(tok) ==
  {Masked(tok, index, After(tok, index, Digit) - 1) : index \in
     {i \in {After(tok, open + 1, Letter) : open \in First(tok, "[")} :
        LET end == After(tok, i, Digit) IN end > i /\ end <= Len(tok) /\ tok[end] = "]"}}

\* bare_hash_counter_end: the last digit of a bare counter at first .. last, or nothing.
BareHashCounterEnd(tok, first, last) ==
  LET end == Min({After(tok, first + 1, Digit), last + 1})
  IN  IF tok[first] = "#" /\ end > first + 1 /\ ~Has(SubSeq(tok, end, last), Alnum) THEN {end - 1} ELSE {}

HashCounter(tok) ==
  LET bare == BareHashCounterEnd(tok, 1, Len(tok))
  IN  IF bare # {} THEN {Masked(tok, 2, end) : end \in bare}
      ELSE UNION {{Masked(tok, core.first + 1, end) : end \in BareHashCounterEnd(tok, core.first, core.last)} :
                    core \in CompleteShellCore(tok)}

\* The length of the marker that opens the text.
MarkerPrefixLen(text) == IF Len(text) > 1 /\ text[1] = "$" THEN 1 ELSE 0

MarkerNumber(tok) ==
  LET whole == After(tok, 2, Digit)
      end == IF whole <= Len(tok) /\ tok[whole] = "." THEN After(tok, whole + 1, Digit) ELSE whole
  IN  IF /\ MarkerPrefixLen(tok) = 1 /\ whole > 2
         /\ end # whole + 1
         /\ ~Has(From(tok, end), Alnum)
      THEN {Masked(tok, 2, end - 1)} ELSE {}

CompactInstantAt(tok, i) ==
  LET after == i + Len(InstantShape)
  IN  /\ ShapeAt(tok, i, InstantShape)
      /\ i > 1 => tok[i - 1] \notin Alnum
      /\ after <= Len(tok) => tok[after] \notin Alnum

HexRunAt(tok, i) ==
  IF tok[i] \in HexChar /\ (i = 1 \/ tok[i - 1] \notin HexChar) THEN After(tok, i, HexChar) - i ELSE 0

\* The arms that claim a position, and what the first of them takes.
HashRunAt(tok, i) == HexRunAt(tok, i) >= kMinHashLen
IdentityAt(tok, i) ==
  CASE UuidAt(tok, i) -> kUuidLen
    [] ~UuidAt(tok, i) /\ CompactInstantAt(tok, i) -> Len(InstantShape)
    [] ~UuidAt(tok, i) /\ ~CompactInstantAt(tok, i) /\ HashRunAt(tok, i) -> HexRunAt(tok, i)
    [] OTHER -> 0

EmbeddedIdentity(tok) ==
  LET scan[i \in 1 .. Len(tok) + 1] ==
        IF i > Len(tok) THEN <<>>
        ELSE IF IdentityAt(tok, i) > 0 THEN kMaskWildcard \o scan[i + IdentityAt(tok, i)]
        ELSE <<tok[i]>> \o scan[i + 1]
  IN  IF \E i \in DOMAIN tok : IdentityAt(tok, i) > 0 THEN {scan[1]} ELSE {}

SanitizerPid(tok) ==
  LET end == After(tok, 3, Digit)
  IN  IF /\ Len(tok) > 2 /\ StartsAt(tok, 1, <<"=", "=">>) /\ end > 3 /\ StartsAt(tok, end, <<"=", "=">>)
         /\ end + 2 > Len(tok) \/ tok[end + 2] \in Letter
      THEN {Masked(tok, 3, end - 1)} ELSE {}

----------------------------------------------------------------------------
(* The one disposition of a value behind its key.                          *)

ExtentByte == Alnum \cup {".", "_", "+", "%", "-"}
ExtentJoint == {",", ":", "/"}

\* The length of the number that opens a value: it crosses a joint into a digit, and reads a wildcard whole.
ValueExtent(value) ==
  LET end[i \in 1 .. Len(value) + 1] ==
        IF i > Len(value) THEN i
        ELSE IF StartsAt(value, i, kMaskWildcard) THEN end[i + Len(kMaskWildcard)]
        ELSE IF \/ value[i] \in ExtentByte
                \/ /\ value[i] \in ExtentJoint /\ i < Len(value)
                   /\ value[i + 1] \in Digit \/ StartsAt(value, i + 1, kMaskWildcard)
        THEN end[i + 1]
        ELSE i
  IN  end[1] - 1

\* Fault: the status carve-out is read on the whole value.
StatusOnWholeValue(key, raw) ==
  LET marker == MarkerPrefixLen(raw)
      value == From(raw, marker + 1)
      rest == From(value, ValueExtent(value) + 1)
  IN  IF ~IsDigitLeading(value) \/ (IsStatusKeyword(key) /\ ShortNumber(value)) THEN {}
      ELSE {Upto(raw, marker) \o kMaskWildcard
              \o (IF Over(rest, WrapperClose \cup ShellTrailingPunct) THEN <<>> ELSE rest)}

\* append_masked_value: the value's normal form, or nothing.
MaskedValue(key, raw) ==
  LET marker == MarkerPrefixLen(raw)
      value == From(raw, marker + 1)
      number == Upto(value, ValueExtent(value))
      rest == From(value, ValueExtent(value) + 1)
  IN  IF ~IsDigitLeading(value) \/ (IsStatusKeyword(key) /\ ShortNumber(number)) THEN {}
      ELSE {Upto(raw, marker) \o kMaskWildcard
              \o (IF Over(rest, WrapperClose \cup ShellTrailingPunct) THEN <<>> ELSE rest)}

KvValue(tok) ==
  UNION {{Upto(tok, eq) \o form : form \in MaskedValue(Upto(tok, eq - 1), From(tok, eq + 1))} :
           eq \in {i \in First(tok, "=") : i > 1}}

kCompositeRules == <<"diagnostic_composite", "ephemeral_root", "versioned_ref", "bracket_timestamp",
  "bracket_index", "hash_counter", "marker_number", "embedded_identity", "sanitizer_pid", "kv_value">>

Normalize(rule, tok) ==
  CASE rule = "diagnostic_composite" -> DiagnosticComposite(tok)
    [] rule = "ephemeral_root" -> EphemeralRoot(tok)
    [] rule = "versioned_ref" -> VersionedRef(tok)
    [] rule = "bracket_timestamp" -> BracketTimestamp(tok)
    [] rule = "bracket_index" -> BracketIndex(tok)
    [] rule = "hash_counter" -> HashCounter(tok)
    [] rule = "marker_number" -> MarkerNumber(tok)
    [] rule = "embedded_identity" -> EmbeddedIdentity(tok)
    [] rule = "sanitizer_pid" -> SanitizerPid(tok)
    [] rule = "kv_value" -> KvValue(tok)

\* try_composite: the form that the first rule to claim a token gives it.
HasSeparator(tok) == Has(tok, {":", "/", "#", "-", "="} \cup WrapperOpen \cup WrapperClose)

TryComposite(tok) ==
  IF MarkerPrefixLen(tok) = 0 /\ ~HasSeparator(tok) THEN {}
  ELSE FoldLeft(LAMBDA claimed, rule : IF claimed # {} THEN claimed ELSE Normalize(rule, tok), {}, kCompositeRules)

----------------------------------------------------------------------------
(* The two steps that claim nothing, on the normal form.                   *)

IsSegmentKey(key) ==
  key # <<>> /\ key[1] \in Letter \cup {"_"} /\ Over(key, Alnum \cup {"_", ".", "-"})

\* append_segment: the segment, its value masked behind an identifier key.
AppendSegment(form, piece) ==
  LET segment == Text(form, piece)
      lead == IF piece.first = 1 THEN After(segment, 1, WrapperOpen) ELSE 1
      masked == UNION {{Upto(segment, eq) \o value :
                          value \in MaskedValue(SubSeq(segment, lead, eq - 1), From(segment, eq + 1))} :
                         eq \in {i \in First(segment, "=") : i > 1 /\ IsSegmentKey(SubSeq(segment, lead, i - 1))}}
  IN  IF masked = {} THEN segment ELSE CHOOSE m \in masked : TRUE

MaskSegmentValues(form) ==
  LET pieces == Pieces(form, {";"})
      segment(k) == (IF k > 1 THEN <<";">> ELSE <<>>) \o AppendSegment(form, pieces[k])
  IN  IF Has(form, {";"}) /\ Has(form, {"="}) THEN FlattenSeq([k \in DOMAIN pieces |-> segment(k)]) ELSE form

ReplaceDeclaredRuns(form, runs) == Replaced(form, ClaimDeclaredRuns(form, runs))

NormalFormSteps(form, runs) == ReplaceDeclaredRuns(MaskSegmentValues(form), runs)

----------------------------------------------------------------------------
(* The precedence of the rules, for one token and the one before it.       *)

KeepsStatus(tok, prev) == ShortNumber(tok) /\ IsStatusKeyword(prev)

\* Fault: the numbers are read before the addresses.
NumbersFirstDisposition(tok, prev, maskIp) ==
  CASE IsUuidOrLongHash(tok) \/ IsDigitLeading(tok) \/ IsShelledNumeric(tok, prev) -> "mask"
    [] OTHER -> IF IsIpv4Token(tok) THEN IF maskIp THEN "mask" ELSE "literal" ELSE "none"

\* value_disposition, of a token that no composite claimed.
ValueDisposition(tok, prev, maskIp) ==
  CASE IsUuidOrLongHash(tok) -> "mask"
    [] ~IsUuidOrLongHash(tok) /\ IsIpv4Token(tok) -> IF maskIp THEN "mask" ELSE "literal"
    [] ~IsUuidOrLongHash(tok) /\ ~IsIpv4Token(tok) ->
         IF IsDigitLeading(tok) \/ IsShelledNumeric(tok, prev) THEN "mask" ELSE "none"

\* The form of a token that a composite claims: a rule gives one form, or none.
ClaimedForm(forms) == CHOOSE form \in forms : TRUE

\* What the template holds in the token's place, given the forms that composites give it.
FormGiven(composites, tok, prev, maskIp, runs) ==
  LET disposition == ValueDisposition(tok, prev, maskIp)
  IN  CASE KeepsStatus(tok, prev) -> tok
        [] ~KeepsStatus(tok, prev) /\ composites = {} /\ disposition # "none" ->
             IF disposition = "mask" THEN kMaskWildcard ELSE tok
        [] OTHER -> NormalFormSteps(IF composites = {} THEN tok ELSE ClaimedForm(composites), runs)

TokenForm(tok, prev, maskIp, runs) == FormGiven(TryComposite(tok), tok, prev, maskIp, runs)
==============================================================================
