----------------------------- MODULE LineProofs -----------------------------
(***************************************************************************)
(* What one line is read as, for every line, object and alphabet.  The     *)
(* loop of stateless_template (TemplateLoop): the template alone tells its *)
(* parameters, and the switch for addresses decides the addresses and      *)
(* nothing else.  The record (LineRecord): which of the two readers an     *)
(* object takes is invisible, and so is whether a key is dotted or nested; *)
(* a claim is a commitment, the shortlist of candidates loses no better    *)
(* claim, and the words behind a recognised header reach the content.  Two *)
(* names of one identity are one name (IntentProofs).                      *)
(***************************************************************************)
EXTENDS TemplateLoop, LineRecord, IntentProofs, FiniteSetTheorems

----------------------------------------------------------------------------
(* Reading a text.                                                         *)

(* Every rank of a finite set of naturals is some element's.               *)
LEMMA RankExists ==
  ASSUME NEW S \in SUBSET Nat, IsFiniteSet(S), NEW r \in 0 .. Cardinality(S) - 1
  PROVE  \E i \in S : Cardinality({j \in S : j < i}) = r
<1> DEFINE Below(i) == {j \in S : j < i}
           Ranks == {q \in Nat : q < Cardinality(S) => \E i \in S : Cardinality(Below(i)) = q}
<1>1. Cardinality(S) \in Nat
  BY FS_CardinalityType
<1>2. \A i : IsFiniteSet(Below(i))
  BY FS_Subset
<1>n. \A i, j \in S : i \in Nat /\ (i <= j <=> ~(j < i)) /\ (i < j \/ i = j \/ j < i)
  OBVIOUS
<1>3. 0 \in Ranks
  <2> SUFFICES ASSUME 0 < Cardinality(S) PROVE \E i \in S : Cardinality(Below(i)) = 0
    OBVIOUS
  <2>1. S # {}
    BY FS_EmptySet
  <2>2. PICK i \in S : \A j \in S : i <= j
    BY <2>1, Least
  <2>3. Below(i) = {}
    BY <1>n, <2>2, Zenon
  <2> QED BY <2>3, FS_EmptySet
<1>4. ASSUME NEW q \in Nat, q \in Ranks PROVE q + 1 \in Ranks
  <2> SUFFICES ASSUME q + 1 < Cardinality(S) PROVE \E i \in S : Cardinality(Below(i)) = q + 1
    OBVIOUS
  <2>1. PICK i \in S : Cardinality(Below(i)) = q
    BY <1>1, <1>4
  <2>2. PICK low : low = Below(i) /\ IsFiniteSet(low) /\ Cardinality(low) = q /\ i \notin low
    BY <1>2, <1>n, <2>1
  <2>3. Cardinality(low \cup {i}) = q + 1
    BY <2>2, FS_AddElement
  <2> DEFINE above == {j \in S : i < j}
  <2>4. \A j \in S : j \in low \cup {i} \/ j \in above
    BY <1>n, <2>2, Zenon
  <2>5. above # {}
    <3> SUFFICES ASSUME above = {} PROVE FALSE
      OBVIOUS
    <3>1. S = low \cup {i}
      BY <2>2, <2>4, Zenon
    <3>2. Cardinality(S) = q + 1
      BY <2>3, <3>1
    <3> QED BY <1>1, <3>2
  <2>6. PICK t \in above : \A j \in above : t <= j
    <3>1. above \in SUBSET Nat
      OBVIOUS
    <3> HIDE DEF above
    <3> QED BY <2>5, <3>1, Least
  <2>7. Below(t) = low \cup {i}
    <3>1. \A j \in low \cup {i} : j \in S /\ j < t
      <4>1. \A j \in low : j \in S /\ j < i
        BY <2>2
      <4>2. i < t /\ t \in Nat /\ i \in Nat
        BY <1>n
      <4>3. \A j \in low : j \in Nat
        BY <2>2
      <4>4. i \in S
        BY <2>1
      <4> HIDE DEF above, Below, Ranks
      <4> QED BY <4>1, <4>2, <4>3, <4>4
    <3>2. \A j \in Below(t) : j \in low \cup {i}
      BY <1>n, <2>4, <2>6, Zenon
    <3> QED BY <3>1, <3>2, Zenon
  <2> QED BY <2>3, <2>7
<1>5. Nat \subseteq Ranks
  <2> HIDE DEF Ranks
  <2> QED BY <1>3, <1>4, Induct
<1> QED BY <1>1, <1>5

LEMMA AscendingType ==
  ASSUME NEW S \in SUBSET Nat, IsFiniteSet(S)
  PROVE  /\ Cardinality(S) \in Nat
         /\ Ascending(S) \in [1 .. Cardinality(S) -> S]
<1>1. Cardinality(S) \in Nat
  BY FS_CardinalityType
<1>2. ASSUME NEW k \in 1 .. Cardinality(S)
      PROVE  (CHOOSE i \in S : Cardinality({j \in S : j < i}) = k - 1) \in S
  <2>1. k - 1 \in 0 .. Cardinality(S) - 1
    BY <1>1
  <2>2. \E i \in S : Cardinality({j \in S : j < i}) = k - 1
    BY <2>1, RankExists
  <2> QED BY <2>2
<1> QED BY <1>1, <1>2 DEF Ascending

LEMMA PiecesType ==
  ASSUME NEW A, NEW text \in Seq(A), NEW separators
  PROVE  /\ Len(Pieces(text, separators)) \in Nat
         /\ DOMAIN Pieces(text, separators) = 1 .. Len(Pieces(text, separators))
         /\ \A k \in DOMAIN Pieces(text, separators) : Text(text, Pieces(text, separators)[k]) \in Seq(A)
<1> PICK n \in Nat : n = Len(text) /\ DOMAIN text = 1 .. n
  OBVIOUS
<1> DEFINE starts == {i \in 1 .. n + 1 : i = 1 \/ text[i - 1] \in separators}
           others == {text[i] : i \in DOMAIN text} \ separators
<1>1. starts \in SUBSET Nat /\ IsFiniteSet(starts) /\ starts \in SUBSET (1 .. n + 1)
  <2>1. IsFiniteSet(1 .. n + 1)
    BY FS_Interval
  <2> QED BY <2>1, FS_Subset
<1> PICK at : at = Ascending(starts)
  OBVIOUS
<1> PICK m : m = Cardinality(starts)
  OBVIOUS
<1>2. m \in Nat /\ at \in [1 .. m -> starts]
  <2> HIDE DEF starts
  <2> QED BY <1>1, AscendingType
<1>3. Pieces(text, separators)
        = [k \in 1 .. m |-> [first |-> at[k], last |-> After(text, at[k], others) - 1]]
  BY DEF Pieces
<1>4. ASSUME NEW k \in 1 .. m
      PROVE  SubSeq(text, at[k], After(text, at[k], others) - 1) \in Seq(A)
  <2> HIDE DEF others
  <2>1. PICK i \in 1 .. n + 1 : i = at[k]
    BY <1>1, <1>2
  <2>2. PICK j \in i .. n + 1 : j = After(text, i, others)
    <3>1. i \in Nat /\ i <= n + 1
      OBVIOUS
    <3> QED BY <2>1, <3>1, AfterType
  <2>3. i \in Int /\ j - 1 \in Int /\ j - 1 <= n /\ 1 <= i
    BY <2>1, <2>2
  <2>4. SubSeq(text, i, j - 1) \in Seq(A)
    BY <2>3
  <2> QED BY <2>1, <2>2, <2>4
<1> HIDE DEF starts, others
<1>5. Len(Pieces(text, separators)) = m /\ DOMAIN Pieces(text, separators) = 1 .. m
  BY <1>2, <1>3
<1> QED BY <1>2, <1>3, <1>4, <1>5 DEF Text

LEMMA HeldType ==
  ASSUME NEW A, NEW raw, NEW pieces, Len(pieces) \in Nat, DOMAIN pieces = 1 .. Len(pieces),
         \A k \in DOMAIN pieces : Text(raw, pieces[k]) \in Seq(A),
         NEW held \in SUBSET DOMAIN pieces
  PROVE  [n \in 1 .. Cardinality(held) |-> Text(raw, pieces[Ascending(held)[n]])] \in Seq(Seq(A))
<1>1. held \in SUBSET Nat /\ IsFiniteSet(held)
  <2>1. IsFiniteSet(1 .. Len(pieces))
    BY FS_Interval
  <2> QED BY <2>1, FS_Subset
<1>2. Cardinality(held) \in Nat /\ Ascending(held) \in [1 .. Cardinality(held) -> held]
  BY <1>1, AscendingType
<1>3. \A n \in 1 .. Cardinality(held) : Text(raw, pieces[Ascending(held)[n]]) \in Seq(A)
  BY <1>2
<1> QED BY <1>2, <1>3

LEMMA TokensBetween ==
  ASSUME NEW A, NEW raw \in Seq(A), NEW separators
  PROVE  LET pieces == Pieces(raw, separators)
             held == {k \in DOMAIN pieces : Text(raw, pieces[k]) # <<>>}
         IN  [n \in 1 .. Cardinality(held) |-> Text(raw, pieces[Ascending(held)[n]])] \in Seq(Seq(A))
<1> DEFINE pieces == Pieces(raw, separators)
           held == {k \in DOMAIN pieces : Text(raw, pieces[k]) # <<>>}
<1>1. /\ Len(pieces) \in Nat /\ DOMAIN pieces = 1 .. Len(pieces)
      /\ \A k \in DOMAIN pieces : Text(raw, pieces[k]) \in Seq(A)
  BY PiecesType, Zenon
<1>2. held \in SUBSET DOMAIN pieces
  OBVIOUS
<1>3. [n \in 1 .. Cardinality(held) |-> Text(raw, pieces[Ascending(held)[n]])] \in Seq(Seq(A))
  <2> HIDE DEF held, pieces
  <2> QED BY <1>1, <1>2, HeldType, Zenon
<1> QED BY <1>3, Zenon

LEMMA TokensType ==
  ASSUME NEW A, NEW raw \in Seq(A)
  PROVE  TokensOf(raw) \in Seq(Seq(A))
BY TokensBetween, Zenon DEF TokensOf

----------------------------------------------------------------------------
(* What the rules of the whole token accept.                               *)

LEMMA MarksApart == "<" \notin Digit /\ "." \notin Alnum /\ "." \notin HexChar /\ "." \notin Digit
BY AlphabetAssumption, Zenon DEF Marks, Alnum, Letter, HexChar

LEMMA WildcardIs ==
  /\ DOMAIN kMaskWildcard = 1 .. 3 /\ Len(kMaskWildcard) = 3 /\ kMaskWildcard[1] = "<"
  /\ \A i \in DOMAIN kMaskWildcard : kMaskWildcard[i] # "."
BY DEF kMaskWildcard

LEMMA StatusIsNoWildcard ==
  ASSUME NEW tok, NEW prev, KeepsStatus(tok, prev)
  PROVE  tok # kMaskWildcard
BY MarksApart, WildcardIs DEF KeepsStatus, ShortNumber, Over

LEMMA MinOfTwo ==
  ASSUME NEW a \in Int, NEW b \in Int
  PROVE  Min({a, b}) \in Int /\ (a >= 0 /\ b >= 0 => Min({a, b}) >= 0)
<1>1. \E x \in {a, b} : \A y \in {a, b} : x <= y
  OBVIOUS
<1> QED BY <1>1 DEF Min

LEMMA OctetType ==
  ASSUME NEW tok, Len(tok) \in Nat, NEW i \in Nat, i <= Len(tok)
  PROVE  i + Min({3, After(tok, i, Digit) - i}) \in Nat /\ i <= i + Min({3, After(tok, i, Digit) - i})
<1>1. After(tok, i, Digit) \in i .. Len(tok) + 1
  BY AfterType
<1>2. PICK run \in Int : run = After(tok, i, Digit) - i /\ run >= 0
  BY <1>1
<1>3. Min({3, run}) \in Int /\ Min({3, run}) >= 0
  <2>1. 3 \in Int /\ 3 >= 0
    OBVIOUS
  <2> QED BY <1>2, <2>1, MinOfTwo
<1> QED BY <1>2, <1>3

(* The four octets are read one behind the other, each but the first       *)
(* behind a dot.                                                           *)
LEMMA AddressHasADot ==
  ASSUME NEW A, NEW tok \in Seq(A), IsIpv4Token(tok)
  PROVE  \E i \in DOMAIN tok : tok[i] = "."
<1> DEFINE octet(i) ==
             LET run == After(tok, i, Digit) - i
             IN  IF i > Len(tok) \/ run = 0 THEN {} ELSE {i + Min({3, run})}
           dot(i) == IF i <= Len(tok) /\ tok[i] = "." THEN {i + 1} ELSE {}
           start == IF tok[1] \in WrapperOpen THEN 2 ELSE 1
           more(E) == UNION {octet(j) : j \in UNION {dot(i) : i \in E}}
           Ends(g) == g = [n \in 1 .. 4 |-> IF n = 1 THEN octet(start) ELSE more(g[n - 1])]
           ends == CHOOSE g : Ends(g)
           first == octet(start)
           f == [n \in 1 .. 4 |-> IF n = 1 THEN first ELSE IF n = 2 THEN more(first)
                                  ELSE IF n = 3 THEN more(more(first)) ELSE more(more(more(first)))]
           Places == Nat \ {0}
<1>1. OctetsEnd(tok) = ends[4]
  BY Zenon DEF OctetsEnd
<1>2. Ends(f)
  <2> HIDE DEF octet, more, start
  <2>1. \A n \in 1 .. 4 : f[n] = IF n = 1 THEN octet(start) ELSE more(f[n - 1])
    OBVIOUS
  <2> QED BY <2>1
<1>3. Ends(ends)
  <2> HIDE DEF Ends, f
  <2> QED BY <1>2
<1> HIDE DEF ends
<1>4. ends[4] = more(ends[3]) /\ ends[3] = more(ends[2]) /\ ends[2] = more(ends[1]) /\ ends[1] = octet(start)
  <2> HIDE DEF octet, more, start
  <2> QED BY <1>3
<1>5. ASSUME NEW i \in Places PROVE octet(i) \in SUBSET Places
  <2>1. CASE i > Len(tok)
    BY <2>1
  <2>2. CASE i <= Len(tok)
    <3>1. i + Min({3, After(tok, i, Digit) - i}) \in Places
      BY <2>2, OctetType
    <3> QED BY <3>1
  <2> QED BY <2>1, <2>2
<1>6. ASSUME NEW E \in SUBSET Places PROVE more(E) \in SUBSET Places
  <2>1. UNION {dot(i) : i \in E} \in SUBSET Places
    OBVIOUS
  <2> HIDE DEF octet, dot
  <2> QED BY <1>5, <2>1
<1>7. start \in Places
  OBVIOUS
<1>8. ends[3] \in SUBSET Places
  <2> HIDE DEF octet, more, start
  <2> QED BY <1>4, <1>5, <1>6, <1>7
<1>9. ends[4] # {}
  BY <1>1 DEF IsIpv4Token
<1>10. PICK i \in ends[3] : dot(i) # {}
  <2> HIDE DEF octet, dot, start
  <2> QED BY <1>4, <1>9
<1>11. i \in Places /\ i <= Len(tok) /\ tok[i] = "."
  BY <1>8, <1>10
<1> QED BY <1>11

LEMMA AddressIsItself ==
  ASSUME NEW A, NEW tok \in Seq(A), IsIpv4Token(tok), NEW prev
  PROVE  tok # kMaskWildcard /\ ~KeepsStatus(tok, prev) /\ ~IsUuidOrLongHash(tok)
<1>1. PICK i \in DOMAIN tok : tok[i] = "."
  BY AddressHasADot
<1>2. tok # kMaskWildcard
  BY <1>1, WildcardIs
<1>3. ~KeepsStatus(tok, prev)
  BY <1>1, MarksApart DEF KeepsStatus, ShortNumber, Over
<1>4. ~Over(tok, HexChar)
  BY <1>1, MarksApart DEF Over
<1>5. ASSUME Len(tok) = kUuidLen PROVE ~UuidAt(tok, 1)
  <2>1. kUuidLen \in Nat /\ i - 1 \in 0 .. kUuidLen - 1 /\ 1 + (i - 1) = i
    BY <1>5, WidthsAssumption
  <2>2. tok[1 + (i - 1)] # "-" /\ tok[1 + (i - 1)] \notin HexChar
    BY <1>1, <2>1, MarksApart
  <2> QED BY <2>1, <2>2, Zenon DEF UuidAt
<1> QED BY <1>2, <1>3, <1>4, <1>5 DEF IsUuidOrLongHash

(* What the switch changes: the form of an address that no composite       *)
(* claims, and no other form.                                              *)
LEMMA FormSwitched ==
  ASSUME NEW A, NEW tok \in Seq(A), NEW prev, NEW declared, NEW ip \in BOOLEAN
  PROVE  TokenForm(tok, prev, ~ip, declared)
           = IF IsIpv4Token(tok) /\ TryComposite(tok) = {}
             THEN IF ip THEN tok ELSE kMaskWildcard
             ELSE TokenForm(tok, prev, ip, declared)
<1>1. CASE IsIpv4Token(tok)
  <2>1. ~KeepsStatus(tok, prev) /\ ~IsUuidOrLongHash(tok)
    BY <1>1, AddressIsItself
  <2>2. \A b \in BOOLEAN : ValueDisposition(tok, prev, b) = IF b THEN "mask" ELSE "literal"
    BY <1>1, <2>1 DEF ValueDisposition
  <2> QED BY <1>1, <2>1, <2>2 DEF TokenForm, FormGiven
<1>2. CASE ~IsIpv4Token(tok)
  <2>1. ValueDisposition(tok, prev, ~ip) = ValueDisposition(tok, prev, ip)
    BY <1>2 DEF ValueDisposition
  <2> QED BY <1>2, <2>1 DEF TokenForm, FormGiven
<1> QED BY <1>1, <1>2

----------------------------------------------------------------------------
(* The places of the wildcard.                                             *)

Places(t) == {k \in DOMAIN t : t[k] = kMaskWildcard}

Binds(t, p, toks) ==
  /\ Len(p) = Cardinality(Places(t))
  /\ \A k \in Places(t) : p[Cardinality({j \in Places(t) : j <= k})] = toks[k]

LEMMA PlacesType ==
  ASSUME NEW A, NEW t \in Seq(A)
  PROVE  /\ IsFiniteSet(Places(t)) /\ Cardinality(Places(t)) \in Nat
         /\ \A k \in Places(t) : k \in 1 .. Len(t)
<1>1. IsFiniteSet(1 .. Len(t)) /\ DOMAIN t = 1 .. Len(t)
  BY FS_Interval
<1>2. Places(t) \in SUBSET (1 .. Len(t))
  BY <1>1 DEF Places
<1> QED BY <1>1, <1>2, FS_Subset, FS_CardinalityType

LEMMA BindsLiteral ==
  ASSUME NEW A, NEW t \in Seq(A), NEW p, NEW toks, Binds(t, p, toks), NEW form, form # kMaskWildcard
  PROVE  Binds(Append(t, form), p, toks)
<1>1. Places(Append(t, form)) = Places(t)
  <2>1. /\ DOMAIN Append(t, form) = DOMAIN t \cup {Len(t) + 1} /\ Append(t, form)[Len(t) + 1] = form
        /\ \A k \in DOMAIN t : Append(t, form)[k] = t[k]
    OBVIOUS
  <2> QED BY <2>1 DEF Places
<1> QED BY <1>1 DEF Binds

LEMMA OneMorePlace ==
  ASSUME NEW S, IsFiniteSet(S), NEW m, m = Cardinality(S), NEW x, x \notin S
  PROVE  Cardinality(S \cup {x}) = m + 1
BY FS_AddElement

LEMMA AppendIs ==
  ASSUME NEW B, NEW p \in Seq(B), NEW x
  PROVE  /\ Len(Append(p, x)) = Len(p) + 1 /\ Append(p, x)[Len(p) + 1] = x
         /\ \A i \in 1 .. Len(p) : Append(p, x)[i] = p[i]
         /\ Append(p, x) \in Seq(B \cup {x})
<1> DEFINE C == B \cup {x}
<1>1. p \in Seq(C) /\ x \in C
  OBVIOUS
<1> HIDE DEF C
<1>2. /\ Len(Append(p, x)) = Len(p) + 1 /\ Append(p, x)[Len(p) + 1] = x
      /\ \A i \in 1 .. Len(p) : Append(p, x)[i] = p[i]
      /\ Append(p, x) \in Seq(C)
  BY <1>1
<1> QED BY <1>2 DEF C

LEMMA BindsWildcard ==
  ASSUME NEW A, NEW t \in Seq(A), NEW B, NEW p \in Seq(B), NEW toks, Binds(t, p, toks), NEW tok,
         tok = toks[Len(t) + 1]
  PROVE  Binds(Append(t, kMaskWildcard), Append(p, tok), toks)
<1>0. /\ Len(Append(p, tok)) = Len(p) + 1 /\ Append(p, tok)[Len(p) + 1] = tok
      /\ \A i \in 1 .. Len(p) : Append(p, tok)[i] = p[i]
  BY AppendIs
<1> PICK n \in Nat : n = Len(t)
  OBVIOUS
<1> PICK u : u = Append(t, kMaskWildcard)
  OBVIOUS
<1> PICK old : old = Places(t) /\ IsFiniteSet(old) /\ Cardinality(old) \in Nat /\ old \in SUBSET (1 .. n)
  BY PlacesType
<1> PICK m \in Nat : m = Len(p) /\ m = Cardinality(old)
  BY DEF Binds
<1>1. Places(u) = old \cup {n + 1}
  <2>1. DOMAIN u = DOMAIN t \cup {n + 1} /\ u[n + 1] = kMaskWildcard /\ \A k \in DOMAIN t : u[k] = t[k]
    OBVIOUS
  <2> QED BY <2>1 DEF Places
<1> PICK new : new = Places(u)
  OBVIOUS
<1>2. Cardinality(new) = m + 1 /\ n + 1 \notin old
  <2>1. n + 1 \notin old
    <3>1. n + 1 \notin 1 .. n
      OBVIOUS
    <3> QED BY <3>1, Zenon
  <2>2. Cardinality(old \cup {n + 1}) = m + 1
    BY <2>1, OneMorePlace
  <2> QED BY <1>1, <2>1, <2>2
<1>3. {j \in new : j <= n + 1} = new
  BY <1>1
<1>4. Append(p, tok)[m + 1] = tok /\ Len(Append(p, tok)) = m + 1
      /\ \A i \in 1 .. m : Append(p, tok)[i] = p[i]
  BY <1>0
<1>5. ASSUME NEW k \in old
      PROVE  Append(p, tok)[Cardinality({j \in new : j <= k})] = toks[k]
  <2>1. {j \in new : j <= k} = {j \in old : j <= k}
    BY <1>1
  <2> PICK low : low = {j \in old : j <= k}
    OBVIOUS
  <2>2. Cardinality(low) \in 1 .. m
    <3>1. low \in SUBSET old /\ k \in low
      OBVIOUS
    <3>2. IsFiniteSet(low) /\ Cardinality(low) \in Nat /\ Cardinality(low) <= m
      BY <3>1, FS_Subset, FS_CardinalityType
    <3>3. Cardinality(low) # 0
      BY <3>1, <3>2, FS_EmptySet
    <3> QED BY <3>2, <3>3
  <2>3. p[Cardinality(low)] = toks[k]
    BY DEF Binds
  <2> QED BY <1>4, <2>1, <2>2, <2>3
<1>6. Append(p, tok)[Cardinality({j \in new : j <= n + 1})] = toks[n + 1]
  BY <1>2, <1>3, <1>4
<1>7. \A k \in new : Append(p, tok)[Cardinality({j \in new : j <= k})] = toks[k]
  BY <1>1, <1>5, <1>6
<1>8. Len(Append(p, tok)) = Cardinality(new)
  BY <1>2, <1>4
<1>9. new = Places(Append(t, kMaskWildcard))
  OBVIOUS
<1> QED BY <1>7, <1>8, <1>9, Zenon DEF Binds

----------------------------------------------------------------------------
(* The loop: what is appended for a token is its form, and the token is a  *)
(* parameter exactly when the form is the wildcard.                        *)

InForm(k) == template[k] = TokenForm(tokens[k], PrevOf(tokens, k), maskIp, runs)

LoopInv ==
  /\ cursor \in Nat /\ maskIp \in BOOLEAN
  /\ \E A : tokens \in Seq(Seq(A))
  /\ \E A : template \in Seq(A)
  /\ \E A : params \in Seq(A)
  /\ Len(template) <= Len(tokens)
  /\ cursor = IF cursor = 0 THEN Len(template) ELSE Len(template) + 1
  /\ Binds(template, params, tokens)
  /\ \A k \in 1 .. Len(template) : InForm(k)

LEMMA LoopInit == InitLoop => LoopInv
<1> SUFFICES ASSUME InitLoop PROVE LoopInv
  OBVIOUS
<1>1. /\ tokens = <<>> /\ template = <<>> /\ params = <<>> /\ cursor = 0 /\ maskIp \in BOOLEAN
  BY DEF InitLoop
<1>2. <<>> \in Seq({}) /\ <<>> \in Seq(Seq({})) /\ Len(<<>>) = 0 /\ 1 .. 0 = {}
  OBVIOUS
<1>3. Places(template) = {}
  BY <1>1 DEF Places
<1>4. Binds(template, params, tokens)
  BY <1>1, <1>2, <1>3, FS_EmptySet DEF Binds
<1> QED BY <1>1, <1>2, <1>4 DEF LoopInv

LEMMA BeginKeeps == ASSUME LoopInv, NEW raw, IsText(raw), Begin(raw) PROVE LoopInv'
<1>1. cursor = 0 /\ cursor' = 1 /\ template' = template /\ params' = params /\ maskIp' = maskIp
  BY DEF Begin
<1>2. \E A : tokens' \in Seq(Seq(A))
  BY TokensType DEF IsText, Begin
<1>3. Len(template) = 0 /\ \E A : template \in Seq(A)
  BY <1>1 DEF LoopInv
<1>4. Places(template) = {}
  BY <1>3 DEF Places
<1>5. Binds(template, params, tokens)'
  BY <1>1, <1>4 DEF LoopInv, Binds, Places
<1>6. Len(tokens') \in Nat /\ 1 .. 0 = {}
  BY <1>2
<1> QED BY <1>1, <1>2, <1>3, <1>5, <1>6 DEF LoopInv

(* The three ways a token is read.                                         *)
LEMMA ReadsForm ==
  ASSUME LoopInv, ReadToken
  PROVE  /\ Reads /\ Advance
         /\ \E form : /\ form = TokenForm(Token, Prev, maskIp, runs)
                       /\ IF form = kMaskWildcard THEN Mask
                          ELSE template' = Append(template, form) /\ params' = params
<1>1. CASE KeepStatus
  <2>1. TokenForm(Token, Prev, maskIp, runs) = Token
    BY <1>1 DEF KeepStatus, TokenForm, FormGiven
  <2>2. Token # kMaskWildcard
    BY <1>1, StatusIsNoWildcard DEF KeepStatus
  <2> QED BY <1>1, <2>1, <2>2 DEF KeepStatus, Keep
<1>2. CASE Composite
  <2>1. TokenForm(Token, Prev, maskIp, runs) = NormalFormSteps(ClaimedForm(TryComposite(Token)), runs)
    BY <1>2 DEF Composite, TokenForm, FormGiven
  <2> QED BY <1>2, <2>1 DEF Composite, AppendNormalForm
<1>3. CASE ByValue
  <2>1. ~KeepsStatus(Token, Prev) /\ TryComposite(Token) = {} /\ Reads /\ Advance
    BY <1>3 DEF ByValue
  <2>2. CASE ValueDisposition(Token, Prev, maskIp) = "mask"
    <3>1. TokenForm(Token, Prev, maskIp, runs) = kMaskWildcard
      BY <2>1, <2>2 DEF TokenForm, FormGiven
    <3> QED BY <1>3, <2>1, <2>2, <3>1 DEF ByValue, MaskWhole
  <2>3. CASE ValueDisposition(Token, Prev, maskIp) = "literal"
    <3>1. TokenForm(Token, Prev, maskIp, runs) = Token
      BY <2>1, <2>3 DEF TokenForm, FormGiven
    <3>2. IsIpv4Token(Token)
      BY <2>3 DEF ValueDisposition
    <3>3. Token # kMaskWildcard
      <4>1. \E A : Token \in Seq(A)
        BY <2>1 DEF LoopInv, Reads, Token
      <4> QED BY <3>2, <4>1, AddressIsItself
    <3> QED BY <1>3, <2>1, <2>3, <3>1, <3>3 DEF ByValue, KeepAddress, Keep
  <2>4. CASE ValueDisposition(Token, Prev, maskIp) = "none"
    <3>1. TokenForm(Token, Prev, maskIp, runs) = NormalFormSteps(Token, runs)
      BY <2>1, <2>4 DEF TokenForm, FormGiven
    <3> QED BY <1>3, <2>1, <2>4, <3>1 DEF ByValue, KeepNormalForm, AppendNormalForm
  <2> QED BY <1>3, <2>2, <2>3, <2>4 DEF ByValue
<1> QED BY <1>1, <1>2, <1>3 DEF ReadToken

LEMMA ReadKeeps == ASSUME LoopInv, ReadToken PROVE LoopInv'
<1>1. PICK n \in Nat : n = Len(template) /\ cursor = n + 1 /\ n + 1 <= Len(tokens)
  BY ReadsForm DEF LoopInv, Reads
<1>2. PICK A : template \in Seq(A)
  BY DEF LoopInv
<1>3. PICK B : params \in Seq(B)
  BY DEF LoopInv
<1>4. PICK form : /\ form = TokenForm(Token, Prev, maskIp, runs)
                  /\ IF form = kMaskWildcard THEN Mask ELSE template' = Append(template, form) /\ params' = params
  BY ReadsForm
<1>5. cursor' = (n + 1) + 1 /\ maskIp' = maskIp /\ runs' = runs /\ tokens' = tokens
  BY <1>1, ReadsForm DEF Advance
<1>6. template' = Append(template, form)
  BY <1>4 DEF Mask
<1>7. /\ template' \in Seq(A \cup {form}) /\ Len(template') = n + 1 /\ template'[n + 1] = form
      /\ \A k \in 1 .. n : template'[k] = template[k]
  BY <1>1, <1>2, <1>6, AppendIs
<1>8. Binds(template, params, tokens)' /\ \E C : params' \in Seq(C)
  <2>1. Binds(template, params, tokens)
    BY DEF LoopInv
  <2>2. CASE form = kMaskWildcard
    <3>1. template' = Append(template, kMaskWildcard) /\ params' = Append(params, Token)
      BY <1>4, <2>2 DEF Mask
    <3>2. Token = tokens[Len(template) + 1]
      BY <1>1 DEF Token
    <3>3. Binds(Append(template, kMaskWildcard), Append(params, Token), tokens)
      BY <1>2, <1>3, <2>1, <3>2, BindsWildcard
    <3>4. Append(params, Token) \in Seq(B \cup {Token})
      BY <1>3, AppendIs
    <3> QED BY <1>5, <3>1, <3>3, <3>4 DEF Binds, Places
  <2>3. CASE form # kMaskWildcard
    <3>1. Binds(Append(template, form), params, tokens)
      BY <1>2, <2>1, <2>3, BindsLiteral
    <3> QED BY <1>3, <1>4, <1>5, <2>3, <3>1 DEF Binds, Places
  <2> QED BY <2>2, <2>3
<1>9. ASSUME NEW k \in 1 .. n + 1 PROVE InForm(k)'
  <2>1. CASE k = n + 1
    BY <1>1, <1>4, <1>5, <1>7, <2>1 DEF InForm, Token, Prev
  <2>2. CASE k \in 1 .. n
    <3>1. InForm(k)
      BY <1>1, <2>2 DEF LoopInv
    <3> QED BY <1>5, <1>7, <2>2, <3>1 DEF InForm
  <2> QED BY <2>1, <2>2
<1> QED BY <1>1, <1>5, <1>7, <1>8, <1>9 DEF LoopInv

LEMMA LoopNext == LoopInv /\ [(\E raw : IsText(raw) /\ Begin(raw)) \/ ReadToken]_loopVars => LoopInv'
<1> SUFFICES ASSUME LoopInv, [(\E raw : IsText(raw) /\ Begin(raw)) \/ ReadToken]_loopVars
             PROVE  LoopInv'
  OBVIOUS
<1>1. CASE \E raw : IsText(raw) /\ Begin(raw)
  BY <1>1, BeginKeeps
<1>2. CASE ReadToken
  BY <1>2, ReadKeeps
<1>3. CASE UNCHANGED loopVars
  BY <1>3 DEF loopVars, LoopInv, Binds, Places, InForm
<1> QED BY <1>1, <1>2, <1>3

LEMMA LoopInvIsEnough == LoopInv => ParamsBindWildcards /\ SwitchDecidesAddresses
<1> SUFFICES ASSUME LoopInv PROVE ParamsBindWildcards /\ SwitchDecidesAddresses
  OBVIOUS
<1>1. ParamsBindWildcards
  BY DEF LoopInv, Binds, Places, ParamsBindWildcards
<1>2. ASSUME Done PROVE SwitchDecidesAddresses
  <2>1. PICK A : tokens \in Seq(Seq(A))
    BY DEF LoopInv
  <2>2. Len(template) = Len(tokens) /\ maskIp \in BOOLEAN
    BY <1>2, <2>1 DEF LoopInv, Done
  <2>3. ASSUME NEW k \in DOMAIN tokens
        PROVE  TokenForm(tokens[k], PrevOf(tokens, k), ~maskIp, runs)
                 = IF IsIpv4Token(tokens[k]) /\ TryComposite(tokens[k]) = {}
                   THEN IF maskIp THEN tokens[k] ELSE kMaskWildcard
                   ELSE template[k]
    <3>1. tokens[k] \in Seq(A) /\ k \in 1 .. Len(template)
      BY <2>1, <2>2
    <3>2. InForm(k)
      BY <3>1 DEF LoopInv
    <3> QED BY <2>2, <3>1, <3>2, FormSwitched DEF InForm
  <2> QED BY <2>3 DEF SwitchDecidesAddresses, FormsOf
<1> QED BY <1>1, <1>2 DEF SwitchDecidesAddresses

(* "every param is one" (mask.cpp:1585), for every line, every rule's form *)
(* and every declared run: the template tells its parameters' places.      *)
THEOREM TemplateTellsItsParams == SpecLoop => []ParamsBindWildcards
<1> QED BY LoopInit, LoopNext, LoopInvIsEnough, PTL DEF SpecLoop

(* mask_ip_addresses decides the addresses no composite claims, and no     *)
(* other token (value_disposition, mask.cpp:1559).                         *)
THEOREM SwitchIsForAddresses == SpecLoop => []SwitchDecidesAddresses
<1> QED BY LoopInit, LoopNext, LoopInvIsEnough, PTL DEF SpecLoop

----------------------------------------------------------------------------
(* One object, with and without an escape in the bytes of a member.        *)

LEMMA EscapeKeeps ==
  ASSUME NEW o, IsObject(o), NEW i \in DOMAIN o, o[i].value.kind = "string"
  PROVE  /\ DOMAIN J!Escape(o, i) = DOMAIN o
         /\ \A k \in DOMAIN o : J!Escape(o, i)[k].key = o[k].key
         /\ \A k \in DOMAIN o \ {i} : J!Escape(o, i)[k] = o[k]
         /\ J!Escape(o, i)[i].value.kind = "string"
         /\ J!Escape(o, i)[i].value.text = o[i].value.text
         /\ J!Escape(o, i)[i].value.escaped
<1> DEFINE v == [o[i].value EXCEPT !.escaped = TRUE]
           m == [o[i] EXCEPT !.value = v]
<1>1. o[i].value = [kind |-> "string", text |-> o[i].value.text, escaped |-> o[i].value.escaped]
  BY DEF IsObject
<1>2. v.kind = "string" /\ v.text = o[i].value.text /\ v.escaped = TRUE
  BY <1>1
<1>3. o[i] = [key |-> o[i].key, value |-> o[i].value]
  BY DEF IsObject, J!Member
<1>4. m.key = o[i].key /\ m.value = v
  <2> HIDE DEF v
  <2> QED BY <1>3
<1>5. J!Escape(o, i) = [o EXCEPT ![i] = m]
  BY DEF J!Escape
<1>6. DOMAIN o = DOMAIN [o EXCEPT ![i] = m] /\ [o EXCEPT ![i] = m][i] = m
  OBVIOUS
<1>7. \A k \in DOMAIN o \ {i} : [o EXCEPT ![i] = m][k] = o[k]
  OBVIOUS
<1> HIDE DEF m, v
<1> QED BY <1>2, <1>4, <1>5, <1>6, <1>7

\* Two objects that differ in the escapes of their strings alone, and there in no name that is probed.
Alike(o, p) ==
  /\ DOMAIN p = DOMAIN o
  /\ \A k \in DOMAIN o :
       /\ p[k].key = o[k].key /\ p[k].value.kind = o[k].value.kind
       /\ o[k].value.kind = "string" =>
            /\ p[k].value.text = o[k].value.text
            /\ (p[k].value.escaped <=> o[k].value.escaped) \/ o[k].value.text \notin J!Probed
       /\ o[k].value.kind # "string" => p[k].value = o[k].value

LEMMA EscapedAlike ==
  ASSUME NEW o, IsObject(o), NEW i \in DOMAIN o, J!IsPlainText(o[i].value)
  PROVE  Alike(o, J!Escape(o, i))
BY EscapeKeeps DEF Alike, J!IsPlainText

LEMMA AlikeGet ==
  ASSUME NEW o, NEW p, Alike(o, p), NEW name, NEW kind, kind # "string"
  PROVE  J!Get(p, name, kind) = J!Get(o, name, kind)
BY DEF Alike, J!Get

LEMMA AlikeTexts ==
  ASSUME NEW o, NEW p, Alike(o, p), NEW name
  PROVE  J!Texts(p, name) = J!Texts(o, name)
<1> DEFINE Strings(q) == {q[i].value.text : i \in {k \in DOMAIN q : q[k].key = <<name>> /\ q[k].value.kind = "string"}}
<1>1. J!Texts(p, name) = Strings(p) /\ J!Texts(o, name) = Strings(o)
  BY DEF J!Texts, J!Get
<1>2. Strings(p) = Strings(o)
  BY DEF Alike
<1> QED BY <1>1, <1>2

LEMMA AlikeLevels ==
  ASSUME NEW o, NEW p, Alike(o, p)
  PROVE  \E inner : J!Levels(p) = {p} \cup inner /\ J!Levels(o) = {o} \cup inner
<1> DEFINE first(q) == UNION {J!Nested(q[i].value) : i \in DOMAIN q}
<1>1. \A k \in DOMAIN o : J!Nested(p[k].value) = J!Nested(o[k].value)
  <2> TAKE k \in DOMAIN o
  <2>1. CASE o[k].value.kind = "string"
    BY <2>1 DEF Alike, J!Nested
  <2>2. CASE o[k].value.kind # "string"
    BY <2>2 DEF Alike
  <2> QED BY <2>1, <2>2
<1>2. first(p) = first(o)
  BY <1>1 DEF Alike
<1>3. \A q : J!Levels(q) = {q} \cup (first(q) \cup UNION {UNION {J!Nested(inner[i].value) : i \in DOMAIN inner} : inner \in first(q)})
  BY DEF J!Levels
<1> HIDE DEF first
<1> QED BY <1>2, <1>3

LEMMA AlikeNames ==
  ASSUME NEW o, NEW p, Alike(o, p)
  PROVE  \A names \in SUBSET J!Probed : J!Mentions(p, names) <=> J!Mentions(o, names)
<1>1. PICK inner : J!Levels(p) = {p} \cup inner /\ J!Levels(o) = {o} \cup inner
  BY AlikeLevels
<1>2. ASSUME NEW names \in SUBSET J!Probed PROVE J!InText(p, names) <=> J!InText(o, names)
  BY <1>1 DEF Alike, J!InText
<1>3. ASSUME NEW names \in SUBSET J!Probed PROVE J!Mentions(p, names) <=> J!Mentions(o, names)
  BY <1>1, <1>2 DEF Alike, J!Mentions
<1> QED BY <1>3

LEMMA AlikeChosen ==
  ASSUME NEW o, NEW p, Alike(o, p), NEW role
  PROVE  J!Chosen(role, p) = J!Chosen(role, o)
<1>1. \A i \in DOMAIN o : J!OffersOf(role, p, i) = J!OffersOf(role, o, i)
  <2> TAKE i \in DOMAIN o
  <2>1. p[i].key = o[i].key /\ p[i].value.kind = o[i].value.kind
    BY DEF Alike
  <2>2. CASE o[i].value.kind = "string"
    <3>1. p[i].value.text = o[i].value.text
      BY <2>2 DEF Alike
    <3> QED BY <2>1, <2>2, <3>1 DEF J!OffersOf
  <2>3. CASE o[i].value.kind # "string"
    <3>1. p[i].value = o[i].value
      BY <2>3 DEF Alike
    <3> QED BY <2>1, <3>1 DEF J!OffersOf
  <2> QED BY <2>2, <2>3
<1>2. UNION {J!OffersOf(role, p, i) : i \in DOMAIN p} = UNION {J!OffersOf(role, o, i) : i \in DOMAIN o}
  BY <1>1 DEF Alike
<1> QED BY <1>2 DEF J!Chosen

\* What the readers of an object ask of it.
ReadAlike(o, p) ==
  /\ \A name : J!Texts(p, name) = J!Texts(o, name)
  /\ \A name : J!Get(p, name, "number") = J!Get(o, name, "number")
  /\ \A name : J!Get(p, name, "array") = J!Get(o, name, "array")
  /\ J!Get(p, "status", "object") = J!Get(o, "status", "object") /\ J!Get(p, "body", "object") = J!Get(o, "body", "object")
  /\ \A role : J!Chosen(role, p) = J!Chosen(role, o)
  /\ \A names \in SUBSET J!Probed : J!Mentions(p, names) <=> J!Mentions(o, names)

LEMMA AlikeIsRead == ASSUME NEW o, NEW p, Alike(o, p) PROVE ReadAlike(o, p)
<1>1. /\ \A name : J!Texts(p, name) = J!Texts(o, name)
      /\ \A role : J!Chosen(role, p) = J!Chosen(role, o)
      /\ \A names \in SUBSET J!Probed : J!Mentions(p, names) <=> J!Mentions(o, names)
  BY AlikeTexts, AlikeChosen, AlikeNames
<1>2. /\ \A name : J!Get(p, name, "number") = J!Get(o, name, "number")
      /\ \A name : J!Get(p, name, "array") = J!Get(o, name, "array")
      /\ \A name : J!Get(p, name, "object") = J!Get(o, name, "object")
  BY AlikeGet
<1> QED BY <1>1, <1>2 DEF ReadAlike

LEMMA AppliedAlike ==
  ASSUME NEW o, NEW p, ReadAlike(o, p)
  PROVE  J!Applied(p) = J!Applied(o)
<1>1. /\ J!Chosen("timestamp", p) = J!Chosen("timestamp", o) /\ J!Chosen("level", p) = J!Chosen("level", o)
      /\ J!Chosen("component", p) = J!Chosen("component", o) /\ J!Chosen("message", p) = J!Chosen("message", o)
  BY DEF ReadAlike
<1> DEFINE numbered(q) == UNION {{[name |-> name, value |-> v.text] : v \in J!Get(q, name, "number")} : name \in J!Ordinals}
<1>2. \A name : J!Get(p, name, "number") = J!Get(o, name, "number")
  BY DEF ReadAlike
<1>3. numbered(p) = numbered(o)
  BY <1>2
<1> QED BY <1>1, <1>3, Zenon DEF J!Applied

LEMMA OtelAlike ==
  ASSUME NEW o, NEW p, ReadAlike(o, p)
  PROVE  /\ J!ParseOtelSpan(p) = J!ParseOtelSpan(o)
         /\ \A r : J!Trace(r, p) = J!Trace(r, o)
         /\ \A r : J!OtelFields(r, p) = J!OtelFields(r, o)
         /\ J!IsOtel(p) <=> J!IsOtel(o)
<1>1. \A name : J!Texts(p, name) = J!Texts(o, name)
  BY DEF ReadAlike
<1>2. /\ \A name : J!Get(p, name, "number") = J!Get(o, name, "number")
      /\ J!Get(p, "status", "object") = J!Get(o, "status", "object") /\ J!Get(p, "body", "object") = J!Get(o, "body", "object")
      /\ \A name : J!Get(p, name, "array") = J!Get(o, name, "array")
  BY DEF ReadAlike
<1>3. ASSUME NEW r PROVE J!Trace(r, p) = J!Trace(r, o)
  <2>1. /\ J!Texts(p, "traceId") = J!Texts(o, "traceId") /\ J!Texts(p, "spanId") = J!Texts(o, "spanId")
        /\ J!Texts(p, "parentSpanId") = J!Texts(o, "parentSpanId")
    BY <1>1
  <2> QED BY <2>1, Zenon DEF J!Trace
<1>4. J!ServiceNames(p) = J!ServiceNames(o) /\ J!LinkSpanIds(p) = J!LinkSpanIds(o)
  <2>1. J!Get(p, "attributes", "array") = J!Get(o, "attributes", "array") /\ J!Get(p, "links", "array") = J!Get(o, "links", "array")
    BY <1>2
  <2> QED BY <2>1, Zenon DEF J!ServiceNames, J!LinkSpanIds
<1>5. J!ParseOtelSpan(p) = J!ParseOtelSpan(o)
  <2>1. /\ J!Texts(p, "startTimeUnixNano") = J!Texts(o, "startTimeUnixNano")
        /\ J!Texts(p, "endTimeUnixNano") = J!Texts(o, "endTimeUnixNano")
        /\ J!Texts(p, "name") = J!Texts(o, "name")
        /\ J!Get(p, "status", "object") = J!Get(o, "status", "object")
    BY <1>1, <1>2
  <2> DEFINE span(from, end, name, failed, services, links) ==
        [J!NoRecord EXCEPT
           !.time = J!Time(from), !.declared = J!Time(from) # J!NoText,
           !.level = IF failed THEN "Error" ELSE "Info",
           !.component = J!OneOf(services \ {""}, J!NoText),
           !.content = J!OneOf(name, J!WholeLine),
           !.ordinals = {[name |-> "span_duration_ns", value |-> IF end > J!Count(from) THEN end - J!Count(from) ELSE 0]},
           !.links = links, !.isSpan = TRUE]
      failed(q) == \E s \in J!Get(q, "status", "object") : J!Texts(s.members, "code") \cap J!ErrorCodes # {}
      spanOf(q, from) == span(from, J!Count(J!OneOf(J!Texts(q, "endTimeUnixNano"), J!NoText)), J!Texts(q, "name") \ {""},
                              failed(q), J!ServiceNames(q), J!LinkSpanIds(q))
  <2>2. \A q : J!ParseOtelSpan(q) = {J!Trace(spanOf(q, from), q) : from \in J!Texts(q, "startTimeUnixNano") \ {""}}
    BY Zenon DEF J!ParseOtelSpan
  <2>3. failed(p) <=> failed(o)
    BY <2>1
  <2>4. ASSUME NEW from PROVE spanOf(p, from) = spanOf(o, from)
    <3> HIDE DEF failed
    <3>1. CASE failed(p)
      BY <2>1, <2>3, <3>1, <1>4, Zenon
    <3>2. CASE ~failed(p)
      BY <2>1, <2>3, <3>2, <1>4, Zenon
    <3> QED BY <3>1, <3>2
  <2> HIDE DEF span, failed, spanOf
  <2>5. ASSUME NEW from PROVE J!Trace(spanOf(p, from), p) = J!Trace(spanOf(o, from), o)
    BY <1>3, <2>4
  <2> QED BY <2>1, <2>2, <2>5
<1>6. J!IsOtel(p) <=> J!IsOtel(o)
  BY <1>1, <1>2 DEF J!IsOtel
<1>7. ASSUME NEW r PROVE J!OtelFields(r, p) = J!OtelFields(r, o)
  <2> DEFINE severity(q) == {v.text : v \in J!Get(q, "severityNumber", "number")}
             body(q) == UNION {J!Texts(b.members, "stringValue") : b \in J!Get(q, "body", "object")}
             stamp(q) == J!Texts(q, "timeUnixNano") \cap DOMAIN Nanos
             read(t, s, b) == [r EXCEPT !.time = J!OneOf(t, @), !.declared = t # {}, !.level = J!OneOf(s, @),
                                        !.content = J!OneOf(b, J!WholeLine)]
  <2>1. severity(p) = severity(o) /\ body(p) = body(o) /\ stamp(p) = stamp(o)
    BY <1>1, <1>2
  <2>2. \A q : J!OtelFields(r, q) = J!Trace(read(stamp(q), severity(q), body(q)), q)
    BY Zenon DEF J!OtelFields
  <2> HIDE DEF severity, body, stamp, read
  <2> QED BY <1>3, <2>1, <2>2
<1> QED BY <1>3, <1>5, <1>6, <1>7

\* A span has a start that the line quotes.
LEMMA SlowIs ==
  ASSUME NEW o
  PROVE  J!SlowRecord(o) = IF J!ParseOtelSpan(o) # {} THEN J!ParseOtelSpan(o)
                           ELSE IF J!IsOtel(o) THEN {J!OtelFields(J!Applied(o), o)}
                           ELSE {J!Marked(J!Trace(J!Applied(o), o), o)}
<1>1. ASSUME J!ParseOtelSpan(o) # {} PROVE J!IsOtelSpanLine(o)
  <2>1. J!Texts(o, "startTimeUnixNano") # {}
    BY <1>1, Zenon DEF J!ParseOtelSpan
  <2>2. PICK i \in DOMAIN o : o[i].key = <<"startTimeUnixNano">>
    BY <2>1 DEF J!Texts, J!Get
  <2>3. o \in J!Levels(o)
    BY DEF J!Levels
  <2> QED BY <2>2, <2>3 DEF J!IsOtelSpanLine, J!Quotes
<1> QED BY <1>1, Zenon DEF J!SlowRecord

LEMMA SlowAlike ==
  ASSUME NEW o, NEW p, ReadAlike(o, p)
  PROVE  J!SlowRecord(p) = J!SlowRecord(o)
<1>1. \A r : J!Marked(r, p) = J!Marked(r, o)
  <2>1. J!Chosen("message", p) = J!Chosen("message", o)
    BY DEF ReadAlike
  <2> QED BY <2>1, Zenon DEF J!Marked
<1>2. J!Marked(J!Trace(J!Applied(p), p), p) = J!Marked(J!Trace(J!Applied(o), o), o)
  BY <1>1, AppliedAlike, OtelAlike
<1>3. J!OtelFields(J!Applied(p), p) = J!OtelFields(J!Applied(o), o)
  BY AppliedAlike, OtelAlike
<1>4. J!ParseOtelSpan(p) = J!ParseOtelSpan(o) /\ (J!IsOtel(p) <=> J!IsOtel(o))
  BY OtelAlike
<1> QED BY <1>2, <1>3, <1>4, SlowIs

LEMMA OthersAlike ==
  ASSUME NEW o, NEW p, ReadAlike(o, p)
  PROVE  /\ J!ObjectFormat(p) = J!ObjectFormat(o)
         /\ J!CloudWatchParse(p) = J!CloudWatchParse(o)
         /\ J!SystemdJournalParse(p) = J!SystemdJournalParse(o)
<1>1. \A name : J!Texts(p, name) = J!Texts(o, name)
  BY DEF ReadAlike
<1>2. \A names \in {J!CloudWatchKeys, J!JournalKeys} : J!Mentions(p, names) <=> J!Mentions(o, names)
  BY DEF ReadAlike, J!Probed
<1>3. J!ObjectFormat(p) = J!ObjectFormat(o)
  BY <1>2 DEF J!ObjectFormat
<1>4. J!CloudWatchParse(p) = J!CloudWatchParse(o)
  <2> DEFINE stamp(q) == {v.text : v \in J!Get(q, "timestamp", "number")} \cap DOMAIN Nanos
             made(group, stream, time, level, message) ==
               [J!NoRecord EXCEPT
                  !.time = J!OneOf(time, J!NoText),
                  !.level = J!OneOf(level \cap LevelNames, J!NoText),
                  !.component = J!OneOf(IF group = {} THEN stream ELSE group, J!NoText),
                  !.content = J!OneOf(message, J!WholeLine)]
             madeOf(q) == made(J!Texts(q, "logGroup"), J!Texts(q, "logStream"), stamp(q), J!Texts(q, "level"), J!Texts(q, "message"))
  <2>1. \A q : J!CloudWatchParse(q) = IF ~J!Mentions(q, J!CloudWatchKeys) THEN {} ELSE {madeOf(q)}
    BY Zenon DEF J!CloudWatchParse
  <2>2. stamp(p) = stamp(o)
    BY DEF ReadAlike
  <2>3. /\ J!Texts(p, "logGroup") = J!Texts(o, "logGroup") /\ J!Texts(p, "logStream") = J!Texts(o, "logStream")
        /\ J!Texts(p, "level") = J!Texts(o, "level") /\ J!Texts(p, "message") = J!Texts(o, "message")
    BY <1>1
  <2>4. madeOf(p) = madeOf(o)
    <3> HIDE DEF made, stamp
    <3> QED BY <2>2, <2>3
  <2> HIDE DEF madeOf
  <2> QED BY <1>2, <2>1, <2>4
<1>5. \A names : J!FirstText(p, names) = J!FirstText(o, names)
  <2> TAKE names
  <2> DEFINE held(q) == {i \in DOMAIN names : J!Texts(q, names[i]) # {}}
             at(S) == names[CHOOSE i \in S : \A k \in S : i <= k]
  <2>1. \A q : J!FirstText(q, names) = IF held(q) = {} THEN J!NoText ELSE J!OneOf(J!Texts(q, at(held(q))), J!NoText)
    BY Zenon DEF J!FirstText
  <2>2. held(p) = held(o)
    BY <1>1
  <2> HIDE DEF held, at
  <2> QED BY <1>1, <2>1, <2>2
<1>6. J!SystemdJournalParse(p) = J!SystemdJournalParse(o)
  <2> DEFINE made(time, level, component, message) ==
               [J!NoRecord EXCEPT !.time = J!Time(time), !.level = level, !.component = component,
                                  !.content = J!OneOf(message, J!WholeLine)]
             madeOf(q) == made(J!FirstText(q, <<"__REALTIME_TIMESTAMP">>), J!FirstText(q, <<"PRIORITY">>),
                               J!FirstText(q, <<"_COMM", "SYSLOG_IDENTIFIER", "_SYSTEMD_UNIT">>), J!Texts(q, "MESSAGE"))
  <2>1. \A q : J!SystemdJournalParse(q) = IF ~J!Mentions(q, J!JournalKeys) THEN {} ELSE {madeOf(q)}
    BY Zenon DEF J!SystemdJournalParse
  <2>2. madeOf(p) = madeOf(o)
    <3> HIDE DEF made
    <3> QED BY <1>1, <1>5
  <2> HIDE DEF madeOf
  <2> QED BY <1>2, <2>1, <2>2
<1> QED BY <1>3, <1>4, <1>6

LEMMA AppliedIsUnlinked ==
  ASSUME NEW o
  PROVE  [J!Applied(o) EXCEPT !.traceId = J!NoText, !.spanId = J!NoText, !.parentSpanId = J!NoText] = J!Applied(o)
<1> DEFINE r == J!Applied(o)
           s == [r EXCEPT !.traceId = J!NoText, !.spanId = J!NoText, !.parentSpanId = J!NoText]
<1>1. r = [x \in DOMAIN r |-> r[x]]
  BY DEF J!Applied
<1>2. r["traceId"] = J!NoText /\ r["spanId"] = J!NoText /\ r["parentSpanId"] = J!NoText
  BY DEF J!Applied, J!NoRecord
<1> HIDE DEF r
<1>3. s = [x \in DOMAIN r |-> s[x]] /\ \A x \in DOMAIN r : s[x] = r[x]
  BY <1>2
<1> HIDE DEF s
<1>4. s = [x \in DOMAIN r |-> r[x]]
  BY <1>3
<1>5. s = r
  BY <1>1, <1>4
<1> QED BY <1>5 DEF s, r

LEMMA FlatIsSlow ==
  ASSUME NEW o, J!ScanFlatJson(o)
  PROVE  J!SlowRecord(o) = {J!Marked(J!Applied(o), o)}
<1>1. ASSUME NEW name, J!IsOtelMember(<<name>>), NEW kind PROVE J!Get(o, name, kind) = {}
  BY <1>1 DEF J!ScanFlatJson, J!Get
<1>2. /\ J!IsOtelMember(<<"traceId">>) /\ J!IsOtelMember(<<"spanId">>) /\ J!IsOtelMember(<<"parentSpanId">>)
      /\ J!IsOtelMember(<<"severityNumber">>) /\ J!IsOtelMember(<<"timeUnixNano">>) /\ J!IsOtelMember(<<"startTimeUnixNano">>)
  BY DEF J!IsOtelMember, J!kOtelFieldCatalog
<1>3. /\ J!Texts(o, "traceId") = {} /\ J!Texts(o, "spanId") = {} /\ J!Texts(o, "parentSpanId") = {}
      /\ J!Texts(o, "timeUnixNano") = {} /\ J!Texts(o, "startTimeUnixNano") = {}
      /\ J!Get(o, "severityNumber", "number") = {}
  BY <1>1, <1>2 DEF J!Texts
<1>4. J!ParseOtelSpan(o) = {} /\ ~J!IsOtel(o)
  <2>1. J!ParseOtelSpan(o) = {}
    BY <1>3, Zenon DEF J!ParseOtelSpan
  <2> QED BY <2>1, <1>3 DEF J!IsOtel
<1>5. J!Trace(J!Applied(o), o) = J!Applied(o)
  <2>1. J!Trace(J!Applied(o), o) = [J!Applied(o) EXCEPT !.traceId = J!NoText, !.spanId = J!NoText, !.parentSpanId = J!NoText]
    BY <1>3 DEF J!Trace, J!OneOf
  <2> QED BY <2>1, AppliedIsUnlinked
<1> QED BY <1>4, <1>5 DEF J!SlowRecord

\* Where only the reader that copies the line is left, no reading has changed.
LEMMA ReadAlikeRecord ==
  ASSUME NEW o, NEW p, ReadAlike(o, p), J!IsSpanDocument(p) <=> J!IsSpanDocument(o), ~J!ScanFlatJson(p)
  PROVE  J!ObjectRecord(p) = J!ObjectRecord(o)
<1>1. J!JsonParse(p) = J!JsonParse(o)
  BY SlowAlike, FlatIsSlow DEF J!JsonParse
<1> QED BY <1>1, OthersAlike DEF J!ObjectRecord

LEMMA EscapeIsInvisible ==
  ASSUME NEW o, IsObject(o), NEW i \in DOMAIN o, J!IsPlainText(o[i].value)
  PROVE  J!ObjectRecord(J!Escape(o, i)) = J!ObjectRecord(o)
<1> DEFINE p == J!Escape(o, i)
<1>1. Alike(o, p) /\ p[i].value.kind = "string" /\ p[i].value.escaped /\ i \in DOMAIN p
  BY EscapedAlike, EscapeKeeps DEF J!IsPlainText
<1> HIDE DEF p
<1>2. J!IsSpanDocument(p) <=> J!IsSpanDocument(o)
  <2>1. 1 \in DOMAIN o
    <3>1. o \in Seq({o[k] : k \in DOMAIN o})
      BY DEF IsObject, IsSequence
    <3>2. DOMAIN o = 1 .. Len(o) /\ Len(o) \in Nat
      BY <3>1
    <3> QED BY <3>2
  <2>2. DOMAIN p = DOMAIN o /\ p[1].key = o[1].key /\ p # <<>> /\ o # <<>>
    BY <1>1, <2>1 DEF Alike
  <2> QED BY <2>2 DEF J!IsSpanDocument
<1>3. ~J!ScanFlatJson(p)
  BY <1>1 DEF J!ScanFlatJson
<1>4. J!ObjectRecord(p) = J!ObjectRecord(o)
  BY <1>1, <1>2, <1>3, AlikeIsRead, ReadAlikeRecord
<1> QED BY <1>4 DEF p

----------------------------------------------------------------------------
\* A record that is read is what the reader makes of the line, and nothing else.
RecordOfObject ==
  /\ line \in LinesRead
  /\ line.kind = "object" => record = Unread \/ record = J!ObjectRecord(line.members)

(* A record is what the reader makes of the members, whatever ran before.  *)
THEOREM RecordOfObjectHolds == SpecRecord => []RecordOfObject
<1>1. InitRecord => RecordOfObject
  BY DEF InitRecord, InitUnread, RecordOfObject
<1>2. ASSUME RecordOfObject, [ReadRecord]_recordVars PROVE RecordOfObject'
  <2>1. CASE DetectText
    BY <1>2, <2>1 DEF RecordOfObject, DetectText, LinesRead
  <2>2. CASE ParseText
    BY <1>2, <2>2 DEF RecordOfObject, ParseText
  <2>3. CASE ReadObject
    BY <1>2, <2>3 DEF RecordOfObject, ReadObject
  <2>4. CASE ReadExport
    BY <1>2, <2>4 DEF RecordOfObject, ReadExport
  <2>5. CASE UNCHANGED recordVars
    BY <1>2, <2>5 DEF RecordOfObject, recordVars, LinesRead
  <2> QED BY <1>2, <2>1, <2>2, <2>3, <2>4, <2>5 DEF ReadRecord
<1> QED BY <1>1, <1>2, PTL DEF SpecRecord

(* Which of the two readers a line takes is invisible: an escape in the    *)
(* bytes of any member changes no record, for every object and every text  *)
(* that is no name a probe of the raw bytes looks for.                     *)
THEOREM ReaderHolds == SpecRecord => []ReaderIsInvisible
<1>1. RecordOfObject => ReaderIsInvisible
  <2> SUFFICES ASSUME RecordOfObject, ObjectRead, NEW o \in J!EscapedForms(line.members)
      PROVE J!ObjectRecord(o) = record
    BY DEF ReaderIsInvisible
  <2>1. line.members \in Objects
    BY DEF RecordOfObject, ObjectRead, LinesRead
  <2>2. PICK i \in DOMAIN line.members : J!IsPlainText(line.members[i].value) /\ o = J!Escape(line.members, i)
    BY DEF J!EscapedForms
  <2>3. IsObject(line.members)
    BY <2>1, ObjectsAssumption
  <2>4. J!ObjectRecord(o) = J!ObjectRecord(line.members)
    BY <2>2, <2>3, EscapeIsInvisible
  <2> QED BY <2>4 DEF RecordOfObject, ObjectRead
<1> QED BY <1>1, RecordOfObjectHolds, PTL

----------------------------------------------------------------------------
(* The claims.                                                             *)

LEMMA ScoreOf ==
  ASSUME NEW text
  PROVE  /\ DOMAIN D!ConfidenceOf(text) = {"JSON", "CloudWatch", "SystemdJournal", "Syslog", "Rfc3339Text", "CLF", "KeyValue", "HealthApp", "BGL", "AndroidLogcat", "Proxifier", "ApacheError", "WindowsCBS", "SparkHDFS", "Log4j", "HPC", "NginxError", "IISW3C", "RFC5424", "RawText"}
         /\ D!ConfidenceOf(text)["JSON"] = D!JSONConfidence(text)
         /\ D!ConfidenceOf(text)["CloudWatch"] = D!CloudWatchConfidence(text)
         /\ D!ConfidenceOf(text)["SystemdJournal"] = D!SystemdJournalConfidence(text)
         /\ D!ConfidenceOf(text)["Syslog"] = D!SyslogConfidence(text)
         /\ D!ConfidenceOf(text)["Rfc3339Text"] = D!Rfc3339TextConfidence(text)
         /\ D!ConfidenceOf(text)["CLF"] = D!CLFConfidence(text)
         /\ D!ConfidenceOf(text)["KeyValue"] = D!KVConfidence(text)
         /\ D!ConfidenceOf(text)["HealthApp"] = D!HealthAppConfidence(text)
         /\ D!ConfidenceOf(text)["BGL"] = D!BGLConfidence(text)
         /\ D!ConfidenceOf(text)["AndroidLogcat"] = D!AndroidLogcatConfidence(text)
         /\ D!ConfidenceOf(text)["Proxifier"] = D!ProxifierConfidence(text)
         /\ D!ConfidenceOf(text)["ApacheError"] = D!ApacheErrorConfidence(text)
         /\ D!ConfidenceOf(text)["WindowsCBS"] = D!WindowsCBSConfidence(text)
         /\ D!ConfidenceOf(text)["SparkHDFS"] = D!SparkHDFSConfidence(text)
         /\ D!ConfidenceOf(text)["Log4j"] = D!Log4jConfidence(text)
         /\ D!ConfidenceOf(text)["HPC"] = D!HPCConfidence(text)
         /\ D!ConfidenceOf(text)["NginxError"] = D!NginxErrorConfidence(text)
         /\ D!ConfidenceOf(text)["IISW3C"] = D!IISW3CConfidence(text)
         /\ D!ConfidenceOf(text)["RFC5424"] = D!RFC5424Confidence(text)
         /\ D!ConfidenceOf(text)["RawText"] = 0
BY DEF D!ConfidenceOf

LEMMA ReadingOf ==
  ASSUME NEW text
  PROVE
         /\ D!ParseOf("Syslog", text) = D!SyslogParse(text)
         /\ D!ParseOf("Rfc3339Text", text) = D!Rfc3339TextParse(text)
         /\ D!ParseOf("CLF", text) = D!CLFParse(text)
         /\ D!ParseOf("HealthApp", text) = D!HealthAppParse(text)
         /\ D!ParseOf("BGL", text) = D!BGLParse(text)
         /\ D!ParseOf("Proxifier", text) = D!ProxifierParse(text)
         /\ D!ParseOf("ApacheError", text) = D!ApacheErrorParse(text)
         /\ D!ParseOf("SparkHDFS", text) = D!SparkHDFSParse(text)
         /\ D!ParseOf("HPC", text) = D!HPCParse(text)
         /\ D!ParseOf("NginxError", text) = D!NginxErrorParse(text)
         /\ D!ParseOf("RFC5424", text) = D!RFC5424Parse(text)
BY DEF D!ParseOf

LEMMA CommittedParse ==
  ASSUME NEW text, NEW f \in Committed, D!ConfidenceOf(text)[f] > 0
  PROVE  D!ParseOf(f, text) # {}
<1>1. CASE f = "Syslog"
  <2>1. D!SyslogHeader(text) # {}
    BY <1>1, ScoreOf DEF D!SyslogConfidence
  <2>2. D!SyslogParse(text) # {}
    BY <2>1, Zenon DEF D!SyslogParse, D!SyslogRecords
  <2> QED BY <1>1, <2>2, ReadingOf
<1>2. CASE f = "Rfc3339Text"
  <2>1. D!IsRfc3339Prefix(text) /\ D!SyslogHeader(text) = {}
    BY <1>2, ScoreOf DEF D!Rfc3339TextConfidence
  <2>2. D!Rfc3339TextParse(text) # {}
    BY <2>1, Zenon DEF D!Rfc3339TextParse, D!When
  <2> QED BY <1>2, <2>2, ReadingOf
<1>3. CASE f = "BGL"
  BY <1>3, ScoreOf, ReadingOf DEF D!BGLConfidence, D!Score
<1>4. CASE f = "SparkHDFS"
  <2>1. D!IsSparkPrefix(text) \/ D!IsHdfsPrefix(text)
    BY <1>4, ScoreOf DEF D!SparkHDFSConfidence, D!Score
  <2>2. D!SparkHDFSParse(text) # {}
    BY <2>1, Zenon DEF D!SparkHDFSParse, D!When
  <2> QED BY <1>4, <2>2, ReadingOf
<1>5. CASE f = "Proxifier"
  <2>1. D!IsProxifierPrefix(text)
    BY <1>5, ScoreOf DEF D!ProxifierConfidence, D!Score
  <2>2. D!ProxifierParse(text) # {}
    BY <2>1, Zenon DEF D!ProxifierParse, D!When
  <2> QED BY <1>5, <2>2, ReadingOf
<1>6. CASE f = "ApacheError"
  <2>1. D!IsApacheErrorPrefix(text)
    BY <1>6, ScoreOf DEF D!ApacheErrorConfidence, D!Score
  <2>2. D!ApacheErrorParse(text) # {}
    BY <2>1, Zenon DEF D!ApacheErrorParse, D!When
  <2> QED BY <1>6, <2>2, ReadingOf
<1>7. CASE f = "HPC"
  <2>1. D!IsHpcPrefix(text)
    BY <1>7, ScoreOf DEF D!HPCConfidence, D!Score
  <2>2. D!HPCParse(text) # {}
    BY <2>1, Zenon DEF D!HPCParse, D!When
  <2> QED BY <1>7, <2>2, ReadingOf
<1>8. CASE f = "NginxError"
  <2>1. D!IsNginxErrorPrefix(text)
    BY <1>8, ScoreOf DEF D!NginxErrorConfidence, D!Score
  <2>2. D!NginxErrorParse(text) # {}
    BY <2>1, Zenon DEF D!NginxErrorParse, D!When
  <2> QED BY <1>8, <2>2, ReadingOf
<1>9. CASE f = "RFC5424"
  <2>1. D!IsRfc5424Prefix(text)
    BY <1>9, ScoreOf DEF D!RFC5424Confidence, D!Score
  <2>2. D!RFC5424Parse(text) # {}
    BY <2>1, Zenon DEF D!RFC5424Parse, D!When
  <2> QED BY <1>9, <2>2, ReadingOf
<1>10. CASE f = "HealthApp"
  <2>1. D!IsHealthAppPrefix(text)
    BY <1>10, ScoreOf DEF D!HealthAppConfidence, D!Score
  <2>2. D!HealthAppParse(text) # {}
    BY <2>1, Zenon DEF D!HealthAppParse, D!When
  <2> QED BY <1>10, <2>2, ReadingOf
<1>11. CASE f = "CLF"
  <2>1. D!IsClfRecordPrefix(text)
    BY <1>11, ScoreOf DEF D!CLFConfidence
  <2>2. D!CLFParse(text) # {}
    BY <2>1, Zenon DEF D!CLFParse, D!When
  <2> QED BY <1>11, <2>2, ReadingOf
<1> QED BY <1>1, <1>2, <1>3, <1>4, <1>5, <1>6, <1>7, <1>8, <1>9, <1>10, <1>11 DEF Committed

\* What is read of the memory behind a line can change the score of syslog, and no other.
LEMMA PastOf ==
  ASSUME NEW text, NEW behind
  PROVE  /\ DOMAIN D!ConfidencePast(text, behind) = DOMAIN D!ConfidenceOf(text)
         /\ \A f \in DOMAIN D!ConfidenceOf(text) \ {"Syslog"} : D!ConfidencePast(text, behind)[f] = D!ConfidenceOf(text)[f]
         /\ D!TrimsInLine(text) => D!ConfidencePast(text, behind) = D!ConfidenceOf(text)
         /\ ~D!TrimsInLine(text) => D!ConfidencePast(text, behind)["Syslog"] \in {0, 85}
<1>1. "Syslog" \in DOMAIN D!ConfidenceOf(text)
  BY ScoreOf
<1> PICK s : s = D!ConfidenceOf(text)
  OBVIOUS
<1> PICK n : n = IF D!HeaderIn(behind) = {} THEN 0 ELSE 85
  OBVIOUS
<1>2. D!ConfidencePast(text, behind) = IF D!TrimsInLine(text) THEN s ELSE [s EXCEPT !["Syslog"] = n]
  BY DEF D!ConfidencePast
<1> QED BY <1>1, <1>2

\* A line is scored once, for what it is, and for the memory behind it where it is read.
LineIsScored ==
  /\ line \in LinesRead
  /\ line.kind = "text" /\ format # Undetected =>
       /\ \E behind \in Memories : scores = D!ConfidencePast(line.text, behind)
       /\ format = D!DetectedFormat(line.text, scores)

(* The strategy detected is the detector's answer for these very scores.   *)
THEOREM LineIsScoredHolds == SpecRecord => []LineIsScored
<1>1. InitRecord => LineIsScored
  BY DEF InitRecord, InitUnread, LineIsScored
<1>2. ASSUME LineIsScored, [ReadRecord]_recordVars PROVE LineIsScored'
  <2>1. CASE DetectText
    BY <1>2, <2>1 DEF LineIsScored, DetectText, LinesRead
  <2>2. CASE ParseText
    BY <1>2, <2>2 DEF LineIsScored, ParseText, LinesRead
  <2>3. CASE ReadObject
    BY <1>2, <2>3 DEF LineIsScored, ReadObject, LinesRead
  <2>4. CASE ReadExport
    BY <1>2, <2>4 DEF LineIsScored, ReadExport, LinesRead
  <2>5. CASE UNCHANGED recordVars
    BY <1>2, <2>5 DEF LineIsScored, recordVars, LinesRead
  <2> QED BY <1>2, <2>1, <2>2, <2>3, <2>4, <2>5 DEF ReadRecord
<1> QED BY <1>1, <1>2, PTL DEF SpecRecord

(* A claim is a commitment, for every line: the eleven strategies that     *)
(* promise a record read one from whatever they give a score, syslog from  *)
(* whatever its trims stay in.                                             *)
THEOREM ClaimHolds == SpecRecord => []ClaimIsCommitment
<1>1. LineIsScored => ClaimIsCommitment
  <2> SUFFICES ASSUME LineIsScored, Scored, NEW f \in Committed, f \in DOMAIN scores, scores[f] > 0,
                      f = "Syslog" => D!TrimsInLine(line.text)
      PROVE  D!ParseOf(f, line.text) # {}
    BY DEF ClaimIsCommitment, Claimed, Claims
  <2>1. PICK behind \in Memories : scores = D!ConfidencePast(line.text, behind)
    BY DEF LineIsScored, Scored
  <2>2. D!ConfidenceOf(line.text)[f] > 0
    <3>1. CASE D!TrimsInLine(line.text)
      BY <2>1, <3>1, PastOf
    <3>2. CASE ~D!TrimsInLine(line.text)
      BY <2>1, <3>2, PastOf
    <3> QED BY <3>1, <3>2
  <2> QED BY <2>2, CommittedParse
<1> QED BY <1>1, LineIsScoredHolds, PTL


----------------------------------------------------------------------------
(* One object, with a dotted key and with the key nested.                  *)

\* The member at i is spelled as an object that holds m.
Spelled(o, p, i, m) ==
  /\ i \in DOMAIN o /\ DOMAIN p = DOMAIN o /\ Len(o[i].key) \in Nat /\ Len(o[i].key) > 1
  /\ \A k \in DOMAIN o \ {i} : p[k] = o[k]
  /\ p[i].key = <<o[i].key[1]>> /\ p[i].value.kind = "object" /\ p[i].value.members = <<m>>
  /\ m.value = o[i].value /\ Len(m.key) = Len(o[i].key) - 1 /\ m.key[1] = o[i].key[2]
  /\ \A names : (\E k \in DOMAIN o[i].key : o[i].key[k] \in names) <=> (o[i].key[1] \in names \/ \E k \in DOMAIN m.key : m.key[k] \in names)
  /\ o[i].key[1] \notin J!OtelObjects /\ o[i].value.kind \notin {"object", "array"}

LEMMA NestIsSpelled ==
  ASSUME NEW o, IsObject(o), NEW i \in DOMAIN o, J!IsDotted(o[i])
  PROVE  \E m : Spelled(o, J!Nest(o, i), i, m)
<1> DEFINE key == o[i].key
           m == J!Member(Tail(key), o[i].value)
           c == J!Pair(key[1], J!Obj(<<m>>))
           p == [o EXCEPT ![i] = c]
<1>1. Len(key) > 1 /\ key[1] \notin J!OtelObjects /\ o[i].value.kind \notin {"object", "array"}
  BY DEF J!IsDotted
<1>2. key \in Seq({key[k] : k \in DOMAIN key})
  BY DEF IsObject, IsSequence
<1>3. J!Nest(o, i) = p
  BY DEF J!Nest
<1>4. p[i] = c /\ DOMAIN p = DOMAIN o /\ \A k \in DOMAIN o \ {i} : p[k] = o[k]
  <2> HIDE DEF c
  <2> QED OBVIOUS
<1>5. m.key = Tail(key) /\ m.value = o[i].value
  BY DEF J!Member
<1>6. c.key = <<key[1]>> /\ c.value.kind = "object" /\ c.value.members = <<m>>
  <2> HIDE DEF m
  <2> QED BY DEF J!Pair, J!Member, J!Obj
<1> PICK q : q = key
  OBVIOUS
<1>7. Len(q) \in Nat /\ Len(q) > 1 /\ Len(Tail(q)) = Len(q) - 1 /\ Tail(q)[1] = q[2]
      /\ DOMAIN q = 1 .. Len(q) /\ DOMAIN Tail(q) = 1 .. Len(q) - 1 /\ \A k \in 1 .. Len(q) - 1 : Tail(q)[k] = q[k + 1]
  BY <1>1, <1>2
<1>8. ASSUME NEW names
      PROVE  (\E k \in DOMAIN q : q[k] \in names) <=> (q[1] \in names \/ \E k \in DOMAIN Tail(q) : Tail(q)[k] \in names)
  <2>1. ASSUME NEW k \in DOMAIN q, q[k] \in names, k # 1 PROVE \E l \in DOMAIN Tail(q) : Tail(q)[l] \in names
    <3>1. k - 1 \in 1 .. Len(q) - 1 /\ (k - 1) + 1 = k
      BY <1>7, <2>1
    <3> QED BY <1>7, <2>1, <3>1
  <2>2. ASSUME NEW k \in DOMAIN Tail(q), Tail(q)[k] \in names PROVE \E l \in DOMAIN q : q[l] \in names
    <3>1. k + 1 \in DOMAIN q /\ q[k + 1] \in names
      BY <1>7, <2>2
    <3> QED BY <3>1
  <2>3. 1 \in DOMAIN q
    BY <1>7
  <2> QED BY <2>1, <2>2, <2>3
<1> HIDE DEF p, c, m, key
<1>9. Spelled(o, p, i, m)
  BY <1>1, <1>4, <1>5, <1>6, <1>7, <1>8 DEF Spelled, key
<1> QED BY <1>3, <1>9

LEMMA SpelledGet ==
  ASSUME NEW o, NEW p, NEW i, NEW m, Spelled(o, p, i, m), NEW name, NEW kind, kind # "object" \/ name \in J!OtelObjects
  PROVE  J!Get(p, name, kind) = J!Get(o, name, kind)
<1>1. o[i].key # <<name>>
  BY DEF Spelled
<1>2. ~(p[i].key = <<name>> /\ p[i].value.kind = kind)
  BY DEF Spelled
<1>3. \A k \in DOMAIN o : p[k].key = <<name>> /\ p[k].value.kind = kind <=> o[k].key = <<name>> /\ o[k].value.kind = kind
  BY <1>1, <1>2 DEF Spelled
<1>4. \A k \in DOMAIN o : o[k].key = <<name>> => p[k] = o[k]
  BY <1>1 DEF Spelled
<1>5. DOMAIN p = DOMAIN o
  BY DEF Spelled
<1> QED BY <1>3, <1>4, <1>5 DEF J!Get

LEMMA SpelledLevels ==
  ASSUME NEW o, NEW p, NEW i, NEW m, Spelled(o, p, i, m)
  PROVE  \E inner : J!Levels(p) = {p, <<m>>} \cup inner /\ J!Levels(o) = {o} \cup inner
<1> DEFINE first(q) == UNION {J!Nested(q[k].value) : k \in DOMAIN q}
           below(S) == UNION {UNION {J!Nested(inner[k].value) : k \in DOMAIN inner} : inner \in S}
<1>1. J!Nested(p[i].value) = {<<m>>} /\ J!Nested(o[i].value) = {} /\ J!Nested(m.value) = {}
  BY DEF Spelled, J!Nested
<1>2. first(p) = first(o) \cup {<<m>>}
  <2>1. \A x : x \in first(p) <=> \E k \in DOMAIN o : x \in J!Nested(p[k].value)
    BY DEF Spelled
  <2>2. \A x : x \in first(o) <=> \E k \in DOMAIN o : x \in J!Nested(o[k].value)
    OBVIOUS
  <2>3. \A k \in DOMAIN o \ {i} : p[k] = o[k]
    BY DEF Spelled
  <2>4. i \in DOMAIN o
    BY DEF Spelled
  <2> HIDE DEF first
  <2> QED BY <1>1, <2>1, <2>2, <2>3, <2>4
<1>3. below(first(o) \cup {<<m>>}) = below(first(o))
  <2>1. DOMAIN <<m>> = {1} /\ <<m>>[1] = m
    OBVIOUS
  <2>2. UNION {J!Nested(<<m>>[k].value) : k \in DOMAIN <<m>>} = {}
    BY <1>1, <2>1
  <2> HIDE DEF first
  <2> QED BY <2>2
<1>4. \A q : J!Levels(q) = {q} \cup first(q) \cup below(first(q))
  BY DEF J!Levels
<1>5. J!Levels(p) = {p, <<m>>} \cup (first(o) \cup below(first(o)))
  <2>1. J!Levels(p) = {p} \cup (first(o) \cup {<<m>>}) \cup below(first(o))
    BY <1>2, <1>3, <1>4
  <2> HIDE DEF first, below
  <2> QED BY <2>1
<1>6. J!Levels(o) = {o} \cup (first(o) \cup below(first(o)))
  <2> HIDE DEF first, below
  <2> QED BY <1>4
<1> QED BY <1>5, <1>6

LEMMA SpelledNames ==
  ASSUME NEW o, NEW p, NEW i, NEW m, Spelled(o, p, i, m)
  PROVE  \A names : J!Mentions(p, names) <=> J!Mentions(o, names)
<1> TAKE names
<1> DEFINE texts(q) == \E k \in DOMAIN q : q[k].value.kind = "string" /\ ~q[k].value.escaped /\ q[k].value.text \in names
           keys(q) == \E k \in DOMAIN q : \E l \in DOMAIN q[k].key : q[k].key[l] \in names
<1> PICK inner : J!Levels(p) = {p, <<m>>} \cup inner /\ J!Levels(o) = {o} \cup inner
  BY SpelledLevels
<1>1. \A q : J!Mentions(q, names) <=> (\E l \in J!Levels(q) : texts(l)) \/ (\E l \in J!Levels(q) : keys(l))
  BY DEF J!Mentions, J!InText
<1>2. DOMAIN <<m>> = {1} /\ <<m>>[1] = m
  OBVIOUS
<1>3. texts(o) <=> texts(p) \/ texts(<<m>>)
  <2>1. texts(<<m>>) <=> o[i].value.kind = "string" /\ ~o[i].value.escaped /\ o[i].value.text \in names
    BY <1>2 DEF Spelled
  <2> QED BY <2>1 DEF Spelled
<1>4. keys(o) <=> keys(p) \/ keys(<<m>>)
  <2>1. keys(<<m>>) <=> \E l \in DOMAIN m.key : m.key[l] \in names
    BY <1>2
  <2>2. (\E l \in DOMAIN p[i].key : p[i].key[l] \in names) <=> o[i].key[1] \in names
    <3>1. p[i].key = <<o[i].key[1]>>
      BY DEF Spelled
    <3>2. \A x : DOMAIN <<x>> = {1} /\ <<x>>[1] = x
      OBVIOUS
    <3> QED BY <3>1, <3>2
  <2>3. (\E l \in DOMAIN o[i].key : o[i].key[l] \in names) <=> (o[i].key[1] \in names \/ \E l \in DOMAIN m.key : m.key[l] \in names)
    BY DEF Spelled
  <2>4. DOMAIN p = DOMAIN o /\ i \in DOMAIN o /\ \A k \in DOMAIN o \ {i} : p[k] = o[k]
    BY DEF Spelled
  <2> QED BY <2>1, <2>2, <2>3, <2>4
<1> HIDE DEF texts, keys
<1> QED BY <1>1, <1>3, <1>4


\* The order in which offers are chosen.
Before(x, y) == x.rank < y.rank \/ (x.rank = y.rank /\ (x.at[1] < y.at[1] \/ (x.at[1] = y.at[1] /\ x.at[2] <= y.at[2])))
Best(S) == {x.text : x \in {y \in S : \A z \in S : Before(y, z)}}

LEMMA BestOfImage ==
  ASSUME NEW S, NEW T, NEW g, T = {g[x] : x \in S}, \A x, y \in S : Before(g[x], g[y]) <=> Before(x, y), \A x \in S : g[x].text = x.text
  PROVE  Best(T) = Best(S)
<1>1. \A x \in S : (\A z \in T : Before(g[x], z)) <=> (\A z \in S : Before(x, z))
  OBVIOUS
<1>2. \A t \in Best(S) : t \in Best(T)
  BY <1>1 DEF Best
<1>3. \A t \in Best(T) : t \in Best(S)
  BY <1>1 DEF Best
<1> QED BY <1>2, <1>3 DEF Best

AllOffers(role, o) == UNION {J!OffersOf(role, o, k) : k \in DOMAIN o}

LEMMA ChosenIsBest ==
  ASSUME NEW role, NEW o
  PROVE  J!Chosen(role, o) = Best(AllOffers(role, o))
BY Zenon DEF J!Chosen, Best, Before, AllOffers

LEMMA OffersAt ==
  ASSUME NEW role, NEW o, NEW k \in DOMAIN o, NEW x \in J!OffersOf(role, o, k)
  PROVE  x.at[1] = k /\ (o[k].value.kind = "string" => x.at = <<k, 0>>)
<1>1. ASSUME NEW name, NEW tier, NEW at, NEW text, NEW y \in J!Offers(role, name, tier, at, text) PROVE y.at = at
  BY DEF J!Offers
<1>2. CASE o[k].value.kind = "string" /\ ~J!IsOtelMember(o[k].key)
  <2>1. PICK name, tier, text : x \in J!Offers(role, name, tier, <<k, 0>>, text)
    BY <1>2 DEF J!OffersOf
  <2> QED BY <1>1, <2>1
<1>3. CASE ~(o[k].value.kind = "string" /\ ~J!IsOtelMember(o[k].key))
  <2> DEFINE sub == IF o[k].value.kind = "object" THEN o[k].value.members ELSE <<>>
             bare == {j \in DOMAIN sub : sub[j].value.kind = "string" /\ Len(sub[j].key) = 1}
  <2>1. J!OffersOf(role, o, k) = UNION {J!Offers(role, sub[j].key[1], J!kCompoundTier, <<k, j>>, sub[j].value.text) : j \in bare}
    BY <1>3, Zenon DEF J!OffersOf
  <2>2. PICK j \in bare : x \in J!Offers(role, sub[j].key[1], J!kCompoundTier, <<k, j>>, sub[j].value.text)
    BY <2>1
  <2>3. x.at = <<k, j>>
    BY <1>1, <2>2
  <2>4. o[k].value.kind = "string" => bare = {}
    OBVIOUS
  <2> HIDE DEF bare
  <2> QED BY <2>2, <2>3, <2>4
<1> QED BY <1>2, <1>3

\* An offer of the nested member, for that of the dotted one.
Nested(x, i) == IF x.at[1] = i THEN [rank |-> x.rank, at |-> <<i, 1>>, text |-> x.text] ELSE x

LEMMA SpelledOffers ==
  ASSUME NEW role, NEW o, NEW p, NEW i, NEW m, Spelled(o, p, i, m)
  PROVE  J!OffersOf(role, p, i) = {Nested(x, i) : x \in J!OffersOf(role, o, i)}
<1>0. i \in DOMAIN o
  BY DEF Spelled
<1> DEFINE named(name) == {q \in DOMAIN J!Vocabulary[role] : J!Vocabulary[role][q] = name}
           offer(q, at, text) == [rank |-> J!kCompoundTier * J!kTierStride + q - 1, at |-> at, text |-> text]
<1>1. \A name, at, text : J!Offers(role, name, J!kCompoundTier, at, text) = {offer(q, at, text) : q \in named(name)}
  BY Zenon DEF J!Offers
<1> DEFINE sub == p[i].value.members
           bare == {j \in DOMAIN sub : sub[j].value.kind = "string" /\ Len(sub[j].key) = 1}
<1>2. J!OffersOf(role, p, i) = UNION {J!Offers(role, sub[j].key[1], J!kCompoundTier, <<i, j>>, sub[j].value.text) : j \in bare}
  <2>1. p[i].value.kind = "object" /\ p[i].value.kind # "string"
    BY DEF Spelled
  <2> QED BY <2>1, Zenon DEF J!OffersOf
<1>3. sub = <<m>> /\ DOMAIN <<m>> = {1} /\ <<m>>[1] = m
  BY DEF Spelled
<1> PICK key, text : key = o[i].key /\ text = o[i].value.text
  OBVIOUS
<1>4. CASE o[i].value.kind = "string" /\ Len(key) = 2
  <2>1. bare = {1} /\ sub[1].key[1] = key[2] /\ sub[1].value.text = text
    BY <1>3, <1>4 DEF Spelled
  <2>2. J!OffersOf(role, p, i) = J!Offers(role, key[2], J!kCompoundTier, <<i, 1>>, text)
    <3> HIDE DEF bare, sub
    <3> QED BY <1>2, <2>1
  <2>3. ~J!IsOtelMember(key)
    <3>1. \A name : key # <<name>>
      BY <1>4
    <3> QED BY <3>1 DEF J!IsOtelMember
  <2>4. J!CompoundKeyName(key) = {key[2]} /\ Len(key) # 1
    BY <1>4 DEF J!CompoundKeyName
  <2>5. J!OffersOf(role, o, i) = J!Offers(role, key[2], J!kCompoundTier, <<i, 0>>, text)
    <3>1. J!OffersOf(role, o, i) = UNION {J!Offers(role, name, J!kCompoundTier, <<i, 0>>, text) : name \in J!CompoundKeyName(key)}
      BY <1>4, <2>3, <2>4, Zenon DEF J!OffersOf
    <3> QED BY <2>4, <3>1
  <2>6. \A q : Nested(offer(q, <<i, 0>>, text), i) = offer(q, <<i, 1>>, text)
    BY DEF Nested
  <2> HIDE DEF offer, named
  <2> QED BY <1>1, <2>2, <2>5, <2>6
<1>5. CASE ~(o[i].value.kind = "string" /\ Len(key) = 2)
  <2>0. Len(key) \in Nat /\ Len(key) > 1 /\ Len(m.key) = Len(key) - 1 /\ m.value = o[i].value
    BY DEF Spelled
  <2>1. bare = {}
    <3>1. m.value.kind # "string" \/ Len(m.key) # 1
      BY <1>5, <2>0
    <3> QED BY <1>3, <3>1
  <2>2. J!OffersOf(role, p, i) = {}
    <3> HIDE DEF bare, sub
    <3> QED BY <1>2, <2>1
  <2>3. CASE o[i].value.kind = "string"
    <3>1. ~J!IsOtelMember(key)
      <4>1. \A name : key # <<name>>
        BY DEF Spelled
      <4> QED BY <4>1 DEF J!IsOtelMember
    <3>2. J!CompoundKeyName(key) = {}
      <4>1. Len(key) # 2 /\ Len(key) \in Nat /\ Len(key) > 1
        BY <1>5, <2>0, <2>3, Zenon
      <4>2. \A n \in Nat : n > 1 /\ n # 2 => n > 2
        OBVIOUS
      <4>3. Len(key) > 2
        BY <4>1, <4>2, Zenon
      <4> QED BY <4>1, <4>3 DEF J!CompoundKeyName
    <3>3. J!OffersOf(role, o, i) = {}
      BY <2>3, <3>1, <3>2 DEF J!OffersOf
    <3> QED BY <2>2, <3>3
  <2>4. CASE o[i].value.kind # "string"
    <3>1. o[i].value.kind # "object"
      BY DEF Spelled
    <3>2. J!OffersOf(role, o, i) = {}
      BY <2>4, <3>1 DEF J!OffersOf
    <3> QED BY <2>2, <3>2
  <2> QED BY <2>3, <2>4
<1> QED BY <1>4, <1>5


LEMMA SpelledChosen ==
  ASSUME NEW role, NEW o, NEW p, NEW i, NEW m, Spelled(o, p, i, m)
  PROVE  J!Chosen(role, p) = J!Chosen(role, o)
<1> DEFINE S == AllOffers(role, o)
           T == AllOffers(role, p)
           g == [x \in S |-> Nested(x, i)]
<1>1. DOMAIN p = DOMAIN o /\ i \in DOMAIN o /\ \A k \in DOMAIN o \ {i} : p[k] = o[k]
  BY DEF Spelled
<1>2. \A k \in DOMAIN o \ {i} : J!OffersOf(role, p, k) = J!OffersOf(role, o, k)
  <2>1. ASSUME NEW k, p[k] = o[k] PROVE J!OffersOf(role, p, k) = J!OffersOf(role, o, k)
    BY <2>1, Zenon DEF J!OffersOf
  <2> QED BY <1>1, <2>1
<1>3. \A k \in DOMAIN o : \A x \in J!OffersOf(role, o, k) : x.at[1] = k
  BY OffersAt
<1>4. \A x \in J!OffersOf(role, o, i) : x.at[1] = i /\ x.at[2] = 0
  <2>1. CASE o[i].value.kind = "string"
    <3>1. \A x \in J!OffersOf(role, o, i) : x.at = <<i, 0>>
      BY <1>1, <2>1, OffersAt
    <3> QED BY <3>1
  <2>2. CASE o[i].value.kind # "string"
    <3>1. o[i].value.kind # "object"
      BY DEF Spelled
    <3>2. J!OffersOf(role, o, i) = {}
      BY <2>2, <3>1 DEF J!OffersOf
    <3> QED BY <3>2
  <2> QED BY <2>1, <2>2
<1>5. \A x : x \in S <=> \E k \in DOMAIN o : x \in J!OffersOf(role, o, k)
  BY DEF AllOffers
<1>6. \A x : x \in T <=> \E k \in DOMAIN o : x \in J!OffersOf(role, p, k)
  BY <1>1 DEF AllOffers
<1> HIDE DEF S, T
<1>7. \A k \in DOMAIN o \ {i} : \A x \in J!OffersOf(role, o, k) : Nested(x, i) = x
  BY <1>3 DEF Nested
<1>8. T = {g[x] : x \in S}
  <2>1. ASSUME NEW y \in T PROVE \E x \in S : Nested(x, i) = y
    <3>1. PICK k \in DOMAIN o : y \in J!OffersOf(role, p, k)
      BY <1>6
    <3>2. CASE k = i
      <4>1. PICK x \in J!OffersOf(role, o, i) : y = Nested(x, i)
        BY <3>1, <3>2, SpelledOffers
      <4> QED BY <1>1, <1>5, <4>1
    <3>3. CASE k # i
      BY <1>2, <1>5, <1>7, <3>1, <3>3
    <3> QED BY <3>2, <3>3
  <2>2. ASSUME NEW x \in S PROVE Nested(x, i) \in T
    <3>1. PICK k \in DOMAIN o : x \in J!OffersOf(role, o, k)
      BY <1>5
    <3>2. CASE k = i
      <4>1. Nested(x, i) \in J!OffersOf(role, p, i)
        BY <3>1, <3>2, SpelledOffers
      <4> QED BY <1>1, <1>6, <4>1
    <3>3. CASE k # i
      BY <1>2, <1>6, <1>7, <3>1, <3>3
    <3> QED BY <3>2, <3>3
  <2> QED BY <2>1, <2>2
<1>9. \A x \in S : g[x].text = x.text /\ g[x].rank = x.rank /\ g[x].at[1] = x.at[1]
  BY DEF Nested
<1>10. \A x \in S : (x.at[1] = i => x.at[2] = 0 /\ g[x].at[2] = 1) /\ (x.at[1] # i => g[x] = x)
  <2>1. ASSUME NEW x \in S, x.at[1] = i PROVE x.at[2] = 0
    BY <1>3, <1>4, <1>5, <2>1
  <2> QED BY <2>1 DEF Nested
<1> HIDE DEF g
<1>11. ASSUME NEW x \in S, NEW y \in S PROVE Before(g[x], g[y]) <=> Before(x, y)
  <2>1. CASE x.at[1] = i /\ y.at[1] = i
    BY <1>9, <1>10, <2>1 DEF Before
  <2>2. CASE x.at[1] # i /\ y.at[1] # i
    BY <1>10, <2>2
  <2>3. CASE x.at[1] # y.at[1]
    BY <1>9, <2>3 DEF Before
  <2> QED BY <2>1, <2>2, <2>3
<1>12. Best(T) = Best(S)
  BY <1>8, <1>9, <1>11, BestOfImage
<1> QED BY <1>12, ChosenIsBest DEF S, T

LEMMA SpelledIsRead == ASSUME NEW o, NEW p, NEW i, NEW m, Spelled(o, p, i, m) PROVE ReadAlike(o, p)
<1>1. /\ \A name : J!Get(p, name, "string") = J!Get(o, name, "string")
      /\ \A name : J!Get(p, name, "number") = J!Get(o, name, "number")
      /\ \A name : J!Get(p, name, "array") = J!Get(o, name, "array")
  BY SpelledGet
<1>2. J!Get(p, "status", "object") = J!Get(o, "status", "object") /\ J!Get(p, "body", "object") = J!Get(o, "body", "object")
  <2>1. "status" \in J!OtelObjects /\ "body" \in J!OtelObjects
    BY DEF J!OtelObjects
  <2> QED BY <2>1, SpelledGet
<1>3. \A name : J!Texts(p, name) = J!Texts(o, name)
  BY <1>1 DEF J!Texts
<1> QED BY <1>1, <1>2, <1>3, SpelledChosen, SpelledNames DEF ReadAlike

LEMMA NestIsInvisible ==
  ASSUME NEW o, IsObject(o), NEW i \in DOMAIN o, J!IsDotted(o[i])
  PROVE  J!ObjectRecord(J!Nest(o, i)) = J!ObjectRecord(o)
<1> DEFINE p == J!Nest(o, i)
<1>1. PICK m : Spelled(o, p, i, m)
  BY NestIsSpelled
<1> HIDE DEF p
<1>2. J!IsSpanDocument(p) <=> J!IsSpanDocument(o)
  <2>1. 1 \in DOMAIN o
    <3>1. o \in Seq({o[k] : k \in DOMAIN o})
      BY DEF IsObject, IsSequence
    <3>2. DOMAIN o = 1 .. Len(o) /\ Len(o) \in Nat
      BY <3>1
    <3> QED BY <3>2
  <2>2. DOMAIN p = DOMAIN o /\ p # <<>> /\ o # <<>>
    BY <1>1, <2>1 DEF Spelled
  <2>3. CASE i = 1
    <3>1. p[1].key # <<"resourceSpans">> /\ o[1].key # <<"resourceSpans">>
      BY <1>1, <2>3 DEF Spelled, J!OtelObjects
    <3> QED BY <2>2, <3>1 DEF J!IsSpanDocument
  <2>4. CASE i # 1
    <3>1. p[1] = o[1]
      BY <1>1, <2>1, <2>4 DEF Spelled
    <3> QED BY <2>2, <3>1 DEF J!IsSpanDocument
  <2> QED BY <2>3, <2>4
<1>3. ~J!ScanFlatJson(p)
  BY <1>1 DEF J!ScanFlatJson, Spelled
<1>4. J!ObjectRecord(p) = J!ObjectRecord(o)
  BY <1>1, <1>2, <1>3, SpelledIsRead, ReadAlikeRecord
<1> QED BY <1>4 DEF p

(* A dotted key and a nested one are two spellings of one document, for    *)
(* every object, and whatever its other members are.                       *)
THEOREM SpellingHolds == SpecRecord => []SpellingIsInvisible
<1>1. RecordOfObject => SpellingIsInvisible
  <2> SUFFICES ASSUME RecordOfObject, ObjectRead, NEW o \in J!NestedForms(line.members)
      PROVE J!ObjectRecord(o) = record
    BY DEF SpellingIsInvisible
  <2>1. line.members \in Objects
    BY DEF RecordOfObject, ObjectRead, LinesRead
  <2>2. PICK i \in DOMAIN line.members : J!IsDotted(line.members[i]) /\ o = J!Nest(line.members, i)
    BY DEF J!NestedForms
  <2>3. IsObject(line.members)
    BY <2>1, ObjectsAssumption
  <2>4. J!ObjectRecord(o) = J!ObjectRecord(line.members)
    BY <2>2, <2>3, NestIsInvisible
  <2> QED BY <2>4 DEF RecordOfObject, ObjectRead
<1> QED BY <1>1, RecordOfObjectHolds, PTL

----------------------------------------------------------------------------
(* The detector, given the shapes of a line and its scores.                *)

\* candidates_for's table: what is offered for which shape.
Table == <<
  <<"brace", "SystemdJournal">>, <<"brace", "CloudWatch">>, <<"brace", "JSON">>, <<"angle", "RFC5424">>,
  <<"dashOrUpper", "BGL">>, <<"bracketWord", "ApacheError">>, <<"bracketDate", "Proxifier">>, <<"month", "Syslog">>,
  <<"slashDate", "NginxError">>, <<"shortDate", "SparkHDFS">>, <<"compactDate", "HealthApp">>, <<"monthDay", "AndroidLogcat">>,
  <<"isoT", "Syslog">>, <<"isoT", "Rfc3339Text">>, <<"isoDate", "WindowsCBS">>, <<"isoDate", "IISW3C">>, <<"isoDate", "Log4j">>,
  <<"log4jStamp", "Log4j">>, <<"clf", "CLF">>, <<"hpc", "HPC">>, <<"kvMarker", "KeyValue">> >>

LEMMA OffersTable ==
  ASSUME NEW t, NEW h, NEW s
  PROVE  /\ DOMAIN D!Detector(t, h, s)!Offers = 1 .. 21 /\ Len(D!Detector(t, h, s)!Offers) = 21
         /\ \A i \in 1 .. 21 : D!Detector(t, h, s)!Offers[i].shape = Table[i][1] /\ D!Detector(t, h, s)!Offers[i].format = Table[i][2]
<1> DEFINE O == D!Detector(t, h, s)!Offers
<1>1. DOMAIN O = 1 .. 21 /\ Len(O) = 21
  BY DEF D!Detector!Offers
<1>2. \A i \in 1 .. 21 : i \in {1, 2, 3, 4, 5, 6, 7, 8, 9, 10, 11, 12, 13, 14, 15, 16, 17, 18, 19, 20, 21}
  OBVIOUS
<1>3. \A i \in {1, 2, 3, 4, 5, 6, 7} : O[i].shape = Table[i][1] /\ O[i].format = Table[i][2]
  BY DEF D!Detector!Offers, Table
<1>4. \A i \in {8, 9, 10, 11, 12, 13, 14} : O[i].shape = Table[i][1] /\ O[i].format = Table[i][2]
  BY DEF D!Detector!Offers, Table
<1>5. \A i \in {15, 16, 17, 18, 19, 20, 21} : O[i].shape = Table[i][1] /\ O[i].format = Table[i][2]
  BY DEF D!Detector!Offers, Table
<1> HIDE DEF O
<1>6. \A i \in 1 .. 21 : O[i].shape = Table[i][1] /\ O[i].format = Table[i][2]
  BY <1>2, <1>3, <1>4, <1>5
<1> QED BY <1>1, <1>6 DEF O

Offered(h) == {i \in 1 .. 21 : Table[i][1] \in h}
Fresh(h) == {i \in Offered(h) : \A j \in Offered(h) : j < i => Table[j][2] # Table[i][2]}

\* Of the shapes of an event, those that decide what is offered.
Deciding(h, g) == h \cap {"empty", "blank"} = {} /\ g = IF "brace" \in h THEN {"brace"} ELSE h

LEMMA FreshIs ==
  ASSUME NEW t, NEW h, NEW s, NEW g, Deciding(h, g)
  PROVE  D!Detector(t, h, s)!Fresh(t) = Fresh(g)
<1>1. D!Detector(t, h, s)!Seen(t) = g
  BY DEF D!Detector!Seen, D!Detector!IsNoEvent, Deciding
<1>2. D!Detector(t, h, s)!Offered(t) = Offered(g)
  BY <1>1, OffersTable DEF D!Detector!Offered, Offered
<1>3. \A i \in Offered(g) : i \in 1 .. 21
  BY DEF Offered
<1> DEFINE O == D!Detector(t, h, s)!Offers
<1>4. D!Detector(t, h, s)!Fresh(t) = {i \in Offered(g) : \A j \in Offered(g) : j < i => O[j].format # O[i].format}
  BY <1>2, Zenon DEF D!Detector!Fresh
<1>5. \A i \in Offered(g) : O[i].format = Table[i][2]
  BY <1>3, OffersTable
<1> HIDE DEF O
<1> QED BY <1>4, <1>5 DEF Fresh

\* Four seats of the table that stand together, and the last four.
LEMMA FewOffered ==
  ASSUME NEW h, NEW a \in Nat, Offered(h) \subseteq (a .. a + 3) \cup (18 .. 21), NEW i \in Offered(h)
  PROVE  IsFiniteSet({j \in Fresh(h) : j < i}) /\ Cardinality({j \in Fresh(h) : j < i}) < 8
<1> DEFINE Room == (a .. a + 3) \cup (18 .. 21)
           B == {j \in Fresh(h) : j < i}
<1>1. IsFiniteSet(a .. a + 3) /\ Cardinality(a .. a + 3) = 4 /\ IsFiniteSet(18 .. 21) /\ Cardinality(18 .. 21) = 4
  <2>1. \A b \in Nat : IsFiniteSet(b .. b + 3) /\ Cardinality(b .. b + 3) = 4
    <3> TAKE b \in Nat
    <3>1. b + 3 \in Int /\ b \in Int /\ ~(b > b + 3) /\ (b + 3) - b + 1 = 4
      OBVIOUS
    <3>2. PICK c \in Int : c = b + 3
      BY <3>1
    <3>3. IsFiniteSet(b .. c) /\ Cardinality(b .. c) = IF b > c THEN 0 ELSE c - b + 1
      BY <3>1, FS_Interval
    <3> QED BY <3>1, <3>2, <3>3
  <2>2. 18 + 3 = 21 /\ 18 \in Nat
    OBVIOUS
  <2> QED BY <2>1, <2>2
<1>2. IsFiniteSet(Room) /\ Cardinality(Room) <= 8
  <2>1. IsFiniteSet(Room)
    BY <1>1, FS_Union
  <2>2. Cardinality(Room) = 4 + 4 - Cardinality((a .. a + 3) \cap (18 .. 21))
    BY <1>1, FS_Union
  <2>3. Cardinality((a .. a + 3) \cap (18 .. 21)) \in Nat
    BY <1>1, FS_Intersection, FS_CardinalityType
  <2> HIDE DEF Room
  <2> QED BY <2>1, <2>2, <2>3
<1>3. i \in Room /\ B \subseteq Room \ {i}
  BY DEF Fresh, Offered
<1>4. IsFiniteSet(Room \ {i}) /\ Cardinality(Room \ {i}) = Cardinality(Room) - 1
  <2> HIDE DEF Room
  <2> QED BY <1>2, <1>3, FS_RemoveElement
<1>5. IsFiniteSet(B) /\ Cardinality(B) <= Cardinality(Room \ {i})
  <2> HIDE DEF Room, B
  <2> QED BY <1>3, <1>4, FS_Subset
<1>6. Cardinality(B) \in Nat /\ Cardinality(Room) \in Nat
  <2> HIDE DEF Room, B
  <2> QED BY <1>2, <1>5, FS_CardinalityType
<1> HIDE DEF Room, B
<1>7. IsFiniteSet(B) /\ Cardinality(B) < 8
  BY <1>2, <1>4, <1>5, <1>6
<1> QED BY <1>7 DEF B

LEMMA CandidatesAre ==
  ASSUME NEW t, NEW h, NEW s, NEW g, Deciding(h, g), NEW a \in Nat, Offered(g) \subseteq (a .. a + 3) \cup (18 .. 21)
  PROVE  D!Detector(t, h, s)!Candidates(t) = Fresh(g)
<1>1. D!Detector(t, h, s)!Fresh(t) = Fresh(g)
  BY FreshIs
<1>2. ASSUME NEW i \in Fresh(g) PROVE Cardinality({j \in Fresh(g) : j < i}) < 8
  <2>1. i \in Offered(g)
    BY DEF Fresh
  <2> QED BY <2>1, FewOffered
<1>3. D!Detector(t, h, s)!Candidates(t) = {i \in Fresh(g) : Cardinality({j \in Fresh(g) : j < i}) < 8}
  BY <1>1, Zenon DEF D!Detector!Candidates, D!Detector!kMaxCandidates, D!Detector!Cardinality, Cardinality
<1> QED BY <1>2, <1>3

\* A format that is offered is offered first once.
LEMMA FirstOffer ==
  ASSUME NEW h, NEW i \in Offered(h)
  PROVE  \E j \in Fresh(h) : Table[j][2] = Table[i][2]
<1> DEFINE S == {j \in Offered(h) : Table[j][2] = Table[i][2]}
<1>1. S \in SUBSET Nat /\ i \in S
  BY DEF Offered
<1>2. PICK j \in S : \A k \in S : j <= k
  <2> HIDE DEF S
  <2> QED BY <1>1, Least
<1>3. j \in Offered(h) /\ j \in Nat /\ \A k \in Offered(h) : k \in Nat
  BY DEF Offered
<1>4. ASSUME NEW k \in Offered(h), k < j PROVE Table[k][2] # Table[j][2]
  BY <1>2, <1>3, <1>4
<1> QED BY <1>3, <1>4 DEF Fresh

\* The best score, and of the best the first, is some candidate's.
LEMMA BestExists ==
  ASSUME NEW K \in SUBSET (1 .. 21), K # {}, NEW of, \A i \in K : of[i] \in 0 .. 106
  PROVE  \E i \in K : \A j \in K : of[i] > of[j] \/ (of[i] = of[j] /\ i <= j)
<1> DEFINE V == {of[i] : i \in K}
<1>1. V \in SUBSET (0 .. 106) /\ V # {}
  OBVIOUS
<1>2. PICK v \in V : \A w \in V : w <= v
  <2> HIDE DEF V
  <2> QED BY <1>1, Greatest
<1> DEFINE T == {i \in K : of[i] = v}
<1>3. T \in SUBSET Nat /\ T # {}
  <2>1. PICK i \in K : v = of[i]
    OBVIOUS
  <2>2. i \in T
    BY <2>1
  <2>3. T \subseteq K /\ K \subseteq Nat
    OBVIOUS
  <2> HIDE DEF T
  <2> QED BY <2>2, <2>3
<1>4. PICK i \in T : \A j \in T : i <= j
  <2> HIDE DEF T
  <2> QED BY <1>3, Least
<1>5. ASSUME NEW j \in K PROVE of[i] > of[j] \/ (of[i] = of[j] /\ i <= j)
  <2>1. of[j] \in V /\ of[j] <= v /\ of[i] = v /\ v \in 0 .. 106 /\ of[j] \in 0 .. 106
    BY <1>1, <1>2, <1>4
  <2>2. CASE of[j] = v
    BY <1>4, <2>1, <2>2
  <2>3. CASE of[j] # v
    <3> HIDE DEF V, T
    <3> QED BY <2>1, <2>3
  <2> QED BY <2>2, <2>3
<1> QED BY <1>4, <1>5

LEMMA EvaluatedAre ==
  ASSUME NEW t, NEW h, NEW s, NEW g, Deciding(h, g), NEW a \in Nat, Offered(g) \subseteq (a .. a + 3) \cup (18 .. 21)
  PROVE  D!Detector(t, h, s)!Evaluated(t) = {[turn |-> i, strategy |-> Table[i][2]] : i \in Fresh(g)}
<1>1. D!Detector(t, h, s)!Candidates(t) = Fresh(g)
  BY CandidatesAre
<1>2. DOMAIN <<>> = {}
  OBVIOUS
<1>3. \A f : D!Detector(t, h, s)!ByFormat(f) = f
  BY <1>2 DEF D!Detector!ByFormat
<1> DEFINE O == D!Detector(t, h, s)!Offers
           offered == {[turn |-> i, strategy |-> D!Detector(t, h, s)!ByFormat(O[i].format)] : i \in Fresh(g)}
           custom == {[turn |-> D!Detector(t, h, s)!Len(O) + k, strategy |-> <<>>[k]] : k \in DOMAIN <<>>}
<1>4. D!Detector(t, h, s)!Evaluated(t) = offered \cup {c \in custom : \A o \in offered : o.strategy # c.strategy}
  BY <1>1, Zenon DEF D!Detector!Evaluated
<1>5. custom = {}
  BY <1>2
<1>6. \A i \in Fresh(g) : O[i].format = Table[i][2]
  BY OffersTable DEF Fresh, Offered
<1>7. offered = {[turn |-> i, strategy |-> Table[i][2]] : i \in Fresh(g)}
  <2> HIDE DEF O
  <2> QED BY <1>3, <1>6
<1> HIDE DEF offered, custom
<1>8. D!Detector(t, h, s)!Evaluated(t) = offered
  BY <1>4, <1>5
<1> QED BY <1>7, <1>8

\* What the detector answers.
Detected(t, h, s) == D!Detector(t, h, s)!Detect[t]
\* Scores of the strategies in the table.
Ranged(s) == \A k \in 1 .. 21 : s[Table[k][2]] \in 0 .. 106

LEMMA DetectIsBest ==
  ASSUME NEW t, NEW h, NEW s, NEW g, Deciding(h, g), NEW a \in Nat, Offered(g) \subseteq (a .. a + 3) \cup (18 .. 21),
         Ranged(s),
         NEW i \in Offered(g), s[Table[i][2]] > 0
  PROVE  \E w \in Fresh(g) : Detected(t, h, s) = Table[w][2] /\ s[Table[i][2]] <= s[Table[w][2]]
<1> DEFINE E == D!Detector(t, h, s)!Evaluated(t)
           of == [k \in 1 .. 21 |-> s[Table[k][2]]]
<1>1. E = {[turn |-> k, strategy |-> Table[k][2]] : k \in Fresh(g)}
  BY EvaluatedAre
<1>0. \A k \in 1 .. 21 : s[Table[k][2]] \in 0 .. 106
  BY DEF Ranged
<1>2. Fresh(g) \in SUBSET (1 .. 21)
  BY DEF Fresh, Offered
<1>3. \A e : D!Detector(t, h, s)!Score(t, e) = s[e.strategy]
  BY DEF D!Detector!Score
<1>4. PICK j \in Fresh(g) : Table[j][2] = Table[i][2]
  BY FirstOffer
<1>5. PICK b \in Fresh(g) : \A k \in Fresh(g) : of[b] > of[k] \/ (of[b] = of[k] /\ b <= k)
  <2>1. \A k \in Fresh(g) : of[k] \in 0 .. 106
    BY <1>0, <1>2
  <2> HIDE DEF of
  <2> QED BY <1>2, <1>4, <2>1, BestExists
<1>6. \A e, f \in E : D!Detector(t, h, s)!Beats(t, e, f) <=> (s[e.strategy] > s[f.strategy] \/ (s[e.strategy] = s[f.strategy] /\ e.turn <= f.turn))
  BY <1>3 DEF D!Detector!Beats
<1>7. \E e \in E : \A f \in E : D!Detector(t, h, s)!Beats(t, e, f)
  <2>1. [turn |-> b, strategy |-> Table[b][2]] \in E
    BY <1>1
  <2>2. \A f \in E : \E k \in Fresh(g) : f.turn = k /\ f.strategy = Table[k][2]
    BY <1>1
  <2>3. \A k \in Fresh(g) : s[Table[k][2]] = of[k]
    BY <1>2
  <2> HIDE DEF E, of
  <2>4. \A f \in E : s[Table[b][2]] > s[f.strategy] \/ (s[Table[b][2]] = s[f.strategy] /\ b <= f.turn)
    BY <1>5, <2>2, <2>3
  <2> QED BY <1>6, <2>1, <2>4
<1>8. D!Detector(t, h, s)!Winner(t) \in E /\ \A f \in E : D!Detector(t, h, s)!Beats(t, D!Detector(t, h, s)!Winner(t), f)
  <2> HIDE DEF E
  <2>1. D!Detector(t, h, s)!Winner(t) = CHOOSE e \in E : \A f \in E : D!Detector(t, h, s)!Beats(t, e, f)
    BY Zenon DEF D!Detector!Winner, E
  <2> QED BY <1>7, <2>1, Zenon
<1> DEFINE W == D!Detector(t, h, s)!Winner(t)
           claimed == [turn |-> j, strategy |-> Table[j][2]]
<1>9. PICK w \in Fresh(g) : W = [turn |-> w, strategy |-> Table[w][2]]
  BY <1>1, <1>8
<1>10. claimed \in E /\ s[claimed.strategy] > 0
  BY <1>1, <1>4
<1>11. D!Detector(t, h, s)!Detect[t] = W.strategy
  <2> HIDE DEF E, claimed, W
  <2>1. \E e \in E : D!Detector(t, h, s)!Score(t, e) > 0
    BY <1>3, <1>10
  <2> QED BY <2>1, Zenon DEF D!Detector!Detect, E, W
<1>12. s[claimed.strategy] <= s[W.strategy]
  <2>1. s[W.strategy] > s[claimed.strategy] \/ (s[W.strategy] = s[claimed.strategy] /\ W.turn <= claimed.turn)
    <3> HIDE DEF E, claimed
    <3> QED BY <1>6, <1>8, <1>10
  <2>2. W.strategy = Table[w][2] /\ claimed.strategy = Table[j][2]
    BY <1>9
  <2>3. s[Table[w][2]] \in 0 .. 106 /\ s[Table[j][2]] \in 0 .. 106
    BY <1>0, <1>2
  <2> HIDE DEF E, claimed, W
  <2>4. s[W.strategy] \in Int /\ s[claimed.strategy] \in Int
    BY <2>2, <2>3
  <2>5. PICK x, y \in Int : x = s[W.strategy] /\ y = s[claimed.strategy]
    BY <2>4
  <2>6. x > y \/ x = y
    BY <2>1, <2>5
  <2> QED BY <2>5, <2>6
<1>13. Detected(t, h, s) = W.strategy
  BY <1>11, Zenon DEF Detected
<1> QED BY <1>4, <1>9, <1>12, <1>13

----------------------------------------------------------------------------
(* Past every cell of a run there is nothing else to stop at.              *)
LEMMA AfterIs ==
  ASSUME NEW text, Len(text) \in Nat, NEW i \in Nat, i <= Len(text) + 1, NEW cells, NEW j \in i .. Len(text) + 1,
         \A k \in i .. j - 1 : text[k] \in cells, j > Len(text) \/ text[j] \notin cells
  PROVE  After(text, i, cells) = j
<1> DEFINE a == After(text, i, cells)
<1>1. a \in i .. Len(text) + 1 /\ (\A k \in i .. a - 1 : text[k] \in cells) /\ (a > Len(text) \/ text[a] \notin cells)
  BY AfterType
<1> HIDE DEF a
<1>2. ~(a < j)
  <2> SUFFICES ASSUME a < j PROVE FALSE
    OBVIOUS
  <2>1. a \in i .. j - 1 /\ a <= Len(text)
    BY <1>1
  <2> QED BY <1>1, <2>1
<1>3. ~(j < a)
  <2> SUFFICES ASSUME j < a PROVE FALSE
    OBVIOUS
  <2>1. j \in i .. a - 1 /\ j <= Len(text)
    BY <1>1
  <2> QED BY <1>1, <2>1
<1>4. a = j
  BY <1>1, <1>2, <1>3
<1> QED BY <1>4 DEF a

(* Without its leading blanks a text opens with a cell that is none.       *)
LEMMA SkipIs ==
  ASSUME NEW text, IsSequence(text)
  PROVE  \E b \in 0 .. Len(text) :
           /\ Len(text) \in Nat /\ DOMAIN text = 1 .. Len(text)
           /\ \A k \in 1 .. b : text[k] = "sp"
           /\ IsSequence(D!Skip(text)) /\ Len(D!Skip(text)) = Len(text) - b
           /\ DOMAIN D!Skip(text) = 1 .. Len(text) - b
           /\ \A k \in 1 .. Len(text) - b : D!Skip(text)[k] = text[b + k]
           /\ b < Len(text) => text[b + 1] # "sp"
           /\ After(text, 1, {"sp"}) = b + 1
           /\ D!Skip(text) = From(text, b + 1)
<1> DEFINE a == After(text, 1, {"sp"})
           A == {text[i] : i \in DOMAIN text}
<1>1. text \in Seq(A) /\ Len(text) \in Nat /\ DOMAIN text = 1 .. Len(text)
  BY DEF IsSequence
<1>2. a \in 1 .. Len(text) + 1 /\ (\A k \in 1 .. a - 1 : text[k] \in {"sp"}) /\ (a > Len(text) \/ text[a] \notin {"sp"})
  BY <1>1, AfterType
<1>3. D!Skip(text) = SubSeq(text, a, Len(text))
  BY DEF D!Skip, D!From, D!After, After
<1> DEFINE s == SubSeq(text, a, Len(text))
<1> HIDE DEF a
<1>4. s \in Seq(A) /\ Len(s) = Len(text) - (a - 1) /\ \A k \in 1 .. Len(s) : s[k] = text[(a - 1) + k]
  <2> HIDE DEF A
  <2> QED BY <1>1, <1>2
<1>5. IsSequence(s) /\ DOMAIN s = 1 .. Len(s)
  <2> HIDE DEF s
  <2>1. DOMAIN s = 1 .. Len(s) /\ s \in [1 .. Len(s) -> A]
    BY <1>4
  <2>2. s \in Seq({s[i] : i \in DOMAIN s})
    BY <2>1
  <2> QED BY <2>1, <2>2 DEF IsSequence
<1>6. D!Skip(text) = s
  BY <1>3
<1>7. From(text, (a - 1) + 1) = s
  BY <1>2 DEF From
<1>8. a - 1 \in 0 .. Len(text)
  BY <1>1, <1>2
<1> USE <1>8
<1> WITNESS a - 1 \in 0 .. Len(text)
<1> HIDE DEF s
<1> QED BY <1>1, <1>2, <1>4, <1>5, <1>6, <1>7 DEF a

LEMMA ShapesAre ==
  ASSUME NEW raw, NEW led, led = D!Skip(raw), led # <<>>
  PROVE  /\ D!ShapesOf(raw) \cap {"empty", "blank"} = {}
         /\ "brace" \in D!ShapesOf(raw) <=> led[1] = "{"
         /\ "angle" \in D!ShapesOf(raw) <=> led[1] = "<"
         /\ "dashOrUpper" \in D!ShapesOf(raw) <=> led[1] \in {"-"} \cup D!UpperFirst
         /\ "bracketWord" \in D!ShapesOf(raw) <=> D!Leads(led, <<{"["}, D!Words>>)
         /\ "bracketDate" \in D!ShapesOf(raw) <=> (D!Leads(led, <<{"["}, D!DigitRun>>) /\ D!Size(led) > 3 /\ D!Has(led, {"."}))
         /\ "month" \in D!ShapesOf(raw) <=> D!LooksLikeMonth(led)
         /\ "slashDate" \in D!ShapesOf(raw) <=> D!Leads(led, D!DateLead("/"))
         /\ "shortDate" \in D!ShapesOf(raw) <=> D!Leads(led, <<{"d2"}, {"/"}, {"d2"}, {"/"}, D!Wider(2)>>)
         /\ "compactDate" \in D!ShapesOf(raw) <=> (D!Size(led) >= D!kMinCompactTimestampLength /\ D!Leads(led, <<{"d8"}, {"-"}>>))
         /\ "monthDay" \in D!ShapesOf(raw) <=> (D!Size(led) >= D!kMinCompactTimestampLength /\ D!Leads(led, <<{"d2"}, {"-"}, {"d2"}, {"sp"}>>))
         /\ "isoT" \in D!ShapesOf(raw) <=> D!IsoTimeLed(led)
         /\ "isoDate" \in D!ShapesOf(raw) <=> (D!IsoDateLed(led) /\ ~D!IsoTimeLed(led))
         /\ "log4jStamp" \in D!ShapesOf(raw) <=> (~D!IsoDateLed(led) /\ D!FindLog4jStamp(led) # {})
         /\ "clf" \in D!ShapesOf(raw) <=> D!LooksLikeCLF(led)
         /\ "hpc" \in D!ShapesOf(raw) <=> D!LooksLikeHPC(led)
         /\ "kvMarker" \in D!ShapesOf(raw) <=> D!ContainsKvMarker(led)
<1> DEFINE shapes(l) == (IF l[1] = "{" THEN {"brace"} ELSE {})
                  \cup (IF l[1] = "<" THEN {"angle"} ELSE {})
                  \cup (IF l[1] \in {"-"} \cup D!UpperFirst THEN {"dashOrUpper"} ELSE {})
                  \cup (IF D!Leads(l, <<{"["}, D!Words>>) THEN {"bracketWord"} ELSE {})
                  \cup (IF D!Leads(l, <<{"["}, D!DigitRun>>) /\ D!Size(l) > 3 /\ D!Has(l, {"."}) THEN {"bracketDate"} ELSE {})
                  \cup (IF D!LooksLikeMonth(l) THEN {"month"} ELSE {})
                  \cup (IF D!Leads(l, D!DateLead("/")) THEN {"slashDate"} ELSE {})
                  \cup (IF D!Leads(l, <<{"d2"}, {"/"}, {"d2"}, {"/"}, D!Wider(2)>>) THEN {"shortDate"} ELSE {})
                  \cup (IF D!Size(l) >= D!kMinCompactTimestampLength /\ D!Leads(l, <<{"d8"}, {"-"}>>) THEN {"compactDate"} ELSE {})
                  \cup (IF D!Size(l) >= D!kMinCompactTimestampLength /\ D!Leads(l, <<{"d2"}, {"-"}, {"d2"}, {"sp"}>>) THEN {"monthDay"} ELSE {})
                  \cup (IF D!IsoTimeLed(l) THEN {"isoT"} ELSE {})
                  \cup (IF D!IsoDateLed(l) /\ ~D!IsoTimeLed(l) THEN {"isoDate"} ELSE {})
                  \cup (IF ~D!IsoDateLed(l) /\ D!FindLog4jStamp(l) # {} THEN {"log4jStamp"} ELSE {})
                  \cup (IF D!LooksLikeCLF(l) THEN {"clf"} ELSE {})
                  \cup (IF D!LooksLikeHPC(l) THEN {"hpc"} ELSE {})
                  \cup (IF D!ContainsKvMarker(l) THEN {"kvMarker"} ELSE {})
<1> DEFINE H == shapes(led)
<1>0. D!ShapesOf(raw) = IF D!Skip(raw) = <<>> THEN {IF raw = <<>> THEN "empty" ELSE "blank"} ELSE shapes(D!Skip(raw))
  BY Zenon DEF D!ShapesOf
<1>1. D!ShapesOf(raw) = H
  <2> HIDE DEF shapes
  <2> QED BY <1>0
<1>2. "brace" \in H <=> (led[1] = "{")
  OBVIOUS
<1>3. "angle" \in H <=> (led[1] = "<")
  OBVIOUS
<1>4. "dashOrUpper" \in H <=> (led[1] \in {"-"} \cup D!UpperFirst)
  OBVIOUS
<1>5. "bracketWord" \in H <=> (D!Leads(led, <<{"["}, D!Words>>))
  OBVIOUS
<1>6. "bracketDate" \in H <=> (D!Leads(led, <<{"["}, D!DigitRun>>) /\ D!Size(led) > 3 /\ D!Has(led, {"."}))
  OBVIOUS
<1>7. "month" \in H <=> (D!LooksLikeMonth(led))
  OBVIOUS
<1>8. "slashDate" \in H <=> (D!Leads(led, D!DateLead("/")))
  OBVIOUS
<1>9. "shortDate" \in H <=> (D!Leads(led, <<{"d2"}, {"/"}, {"d2"}, {"/"}, D!Wider(2)>>))
  OBVIOUS
<1>10. "compactDate" \in H <=> (D!Size(led) >= D!kMinCompactTimestampLength /\ D!Leads(led, <<{"d8"}, {"-"}>>))
  OBVIOUS
<1>11. "monthDay" \in H <=> (D!Size(led) >= D!kMinCompactTimestampLength /\ D!Leads(led, <<{"d2"}, {"-"}, {"d2"}, {"sp"}>>))
  OBVIOUS
<1>12. "isoT" \in H <=> (D!IsoTimeLed(led))
  OBVIOUS
<1>13. "isoDate" \in H <=> (D!IsoDateLed(led) /\ ~D!IsoTimeLed(led))
  OBVIOUS
<1>14. "log4jStamp" \in H <=> (~D!IsoDateLed(led) /\ D!FindLog4jStamp(led) # {})
  OBVIOUS
<1>15. "clf" \in H <=> (D!LooksLikeCLF(led))
  OBVIOUS
<1>16. "hpc" \in H <=> (D!LooksLikeHPC(led))
  OBVIOUS
<1>17. "kvMarker" \in H <=> (D!ContainsKvMarker(led))
  OBVIOUS
<1>18. H \cap {"empty", "blank"} = {}
  <2>1. "empty" \notin H
    OBVIOUS
  <2>2. "blank" \notin H
    OBVIOUS
  <2> HIDE DEF H, shapes
  <2> QED BY <2>1, <2>2
<1> HIDE DEF H, shapes
<1>19. D!ShapesOf(raw) \cap {"empty", "blank"} = {}
  BY <1>1, <1>18
<1>20. "brace" \in D!ShapesOf(raw) <=> led[1] = "{"
  BY <1>1, <1>2, Zenon
<1>21. "angle" \in D!ShapesOf(raw) <=> led[1] = "<"
  BY <1>1, <1>3, Zenon
<1>22. "dashOrUpper" \in D!ShapesOf(raw) <=> led[1] \in {"-"} \cup D!UpperFirst
  BY <1>1, <1>4, Zenon
<1>23. "bracketWord" \in D!ShapesOf(raw) <=> D!Leads(led, <<{"["}, D!Words>>)
  BY <1>1, <1>5, Zenon
<1>24. "bracketDate" \in D!ShapesOf(raw) <=> (D!Leads(led, <<{"["}, D!DigitRun>>) /\ D!Size(led) > 3 /\ D!Has(led, {"."}))
  BY <1>1, <1>6, Zenon
<1>25. "month" \in D!ShapesOf(raw) <=> D!LooksLikeMonth(led)
  BY <1>1, <1>7, Zenon
<1>26. "slashDate" \in D!ShapesOf(raw) <=> D!Leads(led, D!DateLead("/"))
  BY <1>1, <1>8, Zenon
<1>27. "shortDate" \in D!ShapesOf(raw) <=> D!Leads(led, <<{"d2"}, {"/"}, {"d2"}, {"/"}, D!Wider(2)>>)
  BY <1>1, <1>9, Zenon
<1>28. "compactDate" \in D!ShapesOf(raw) <=> (D!Size(led) >= D!kMinCompactTimestampLength /\ D!Leads(led, <<{"d8"}, {"-"}>>))
  BY <1>1, <1>10, Zenon
<1>29. "monthDay" \in D!ShapesOf(raw) <=> (D!Size(led) >= D!kMinCompactTimestampLength /\ D!Leads(led, <<{"d2"}, {"-"}, {"d2"}, {"sp"}>>))
  BY <1>1, <1>11, Zenon
<1>30. "isoT" \in D!ShapesOf(raw) <=> D!IsoTimeLed(led)
  BY <1>1, <1>12, Zenon
<1>31. "isoDate" \in D!ShapesOf(raw) <=> (D!IsoDateLed(led) /\ ~D!IsoTimeLed(led))
  BY <1>1, <1>13, Zenon
<1>32. "log4jStamp" \in D!ShapesOf(raw) <=> (~D!IsoDateLed(led) /\ D!FindLog4jStamp(led) # {})
  BY <1>1, <1>14, Zenon
<1>33. "clf" \in D!ShapesOf(raw) <=> D!LooksLikeCLF(led)
  BY <1>1, <1>15, Zenon
<1>34. "hpc" \in D!ShapesOf(raw) <=> D!LooksLikeHPC(led)
  BY <1>1, <1>16, Zenon
<1>35. "kvMarker" \in D!ShapesOf(raw) <=> D!ContainsKvMarker(led)
  BY <1>1, <1>17, Zenon
<1> QED BY <1>19, <1>20, <1>21, <1>22, <1>23, <1>24, <1>25, <1>26, <1>27, <1>28, <1>29, <1>30, <1>31, <1>32, <1>33, <1>34, <1>35, Zenon

LEMMA LeadsCat ==
  ASSUME NEW t, Len(t) \in Nat, NEW S, NEW p \in Seq(S), NEW q \in Seq(S)
  PROVE  D!Leads(t, p \o q) <=> /\ D!Leads(t, p)
                                /\ Len(t) >= Len(p) + Len(q)
                                /\ \A k \in 1 .. Len(q) : t[Len(p) + k] \in q[k]
<1>1. Len(p \o q) = Len(p) + Len(q) /\ DOMAIN (p \o q) = 1 .. Len(p) + Len(q) /\ DOMAIN p = 1 .. Len(p) /\ Len(p) \in Nat /\ Len(q) \in Nat
  OBVIOUS
<1>2. \A k \in 1 .. Len(p) : (p \o q)[k] = p[k]
  OBVIOUS
<1>3. \A k \in 1 .. Len(q) : (p \o q)[Len(p) + k] = q[k] /\ Len(p) + k \in 1 .. Len(p) + Len(q)
  OBVIOUS
<1>4. \A k \in 1 .. Len(p) + Len(q) : k \in 1 .. Len(p) \/ \E m \in 1 .. Len(q) : k = Len(p) + m
  <2> TAKE k \in 1 .. Len(p) + Len(q)
  <2>1. k \in 1 .. Len(p) \/ (k - Len(p) \in 1 .. Len(q) /\ k = Len(p) + (k - Len(p)))
    BY <1>1
  <2> QED BY <2>1
<1>5. \A k \in 1 .. Len(p) : k \in 1 .. Len(p) + Len(q)
  BY <1>1
<1>6. ASSUME D!Leads(t, p \o q) PROVE D!Leads(t, p) /\ Len(t) >= Len(p) + Len(q) /\ \A k \in 1 .. Len(q) : t[Len(p) + k] \in q[k]
  <2>1. Len(t) >= Len(p) + Len(q) /\ \A k \in 1 .. Len(p) + Len(q) : t[k] \in (p \o q)[k]
    BY <1>1, <1>6 DEF D!Leads
  <2>2. \A k \in 1 .. Len(p) : t[k] \in p[k]
    BY <1>2, <1>5, <2>1
  <2>3. \A k \in 1 .. Len(q) : t[Len(p) + k] \in q[k]
    BY <1>3, <2>1
  <2>4. Len(t) >= Len(p)
    BY <1>1, <2>1
  <2> QED BY <1>1, <2>1, <2>2, <2>3, <2>4 DEF D!Leads
<1>7. ASSUME D!Leads(t, p), Len(t) >= Len(p) + Len(q), \A k \in 1 .. Len(q) : t[Len(p) + k] \in q[k] PROVE D!Leads(t, p \o q)
  <2>1. \A k \in 1 .. Len(p) : t[k] \in (p \o q)[k]
    BY <1>1, <1>2, <1>7 DEF D!Leads
  <2>2. \A k \in 1 .. Len(q) : t[Len(p) + k] \in (p \o q)[Len(p) + k]
    BY <1>3, <1>7
  <2>3. \A k \in 1 .. Len(p) + Len(q) : t[k] \in (p \o q)[k]
    BY <1>4, <2>1, <2>2
  <2> QED BY <1>1, <1>7, <2>3 DEF D!Leads
<1> QED BY <1>6, <1>7

LEMMA LeadsOne ==
  ASSUME NEW t, Len(t) \in Nat, NEW S, NEW p \in Seq(S), NEW c
  PROVE  D!Leads(t, p \o <<c>>) <=> (D!Leads(t, p) /\ Len(t) >= Len(p) + 1 /\ t[Len(p) + 1] \in c)
<1>1. <<c>> \in Seq(S \cup {c}) /\ p \in Seq(S \cup {c}) /\ Len(<<c>>) = 1 /\ <<c>>[1] = c
  OBVIOUS
<1>2. 1 .. 1 = {1}
  OBVIOUS
<1> QED BY <1>1, <1>2, LeadsCat

LEMMA DateIs ==
  ASSUME NEW t, Len(t) \in Nat, NEW sep
  PROVE  /\ D!Leads(t, D!DateLead(sep)) <=> (/\ Len(t) >= 5 /\ t[1] = "d4" /\ t[2] = sep /\ t[3] = "d2" /\ t[4] = sep
                                             /\ t[5] \in D!Wider(2))
         /\ \A c : D!Leads(t, D!WholeDate(sep) \o <<c>>) <=>
               (Len(t) >= 6 /\ t[1] = "d4" /\ t[2] = sep /\ t[3] = "d2" /\ t[4] = sep /\ t[5] = "d2" /\ t[6] \in c)
         /\ \E S : \A c : D!WholeDate(sep) \o <<c>> \in Seq(S \cup {c})
<1> DEFINE S == {{"d4"}, {sep}, {"d2"}}
<1>1. D!Date(sep) \in Seq(S) /\ Len(D!Date(sep)) = 4 /\ DOMAIN D!Date(sep) = {1, 2, 3, 4}
  BY DEF D!Date
<1>3. D!Leads(t, D!Date(sep)) <=> (Len(t) >= 4 /\ t[1] = "d4" /\ t[2] = sep /\ t[3] = "d2" /\ t[4] = sep)
  BY <1>1 DEF D!Leads, D!Date
<1>5. D!Leads(t, D!Date(sep) \o <<D!Wider(2)>>) <=> (D!Leads(t, D!Date(sep)) /\ Len(t) >= 4 + 1 /\ t[4 + 1] \in D!Wider(2))
  BY <1>1, LeadsOne
<1>6. D!WholeDate(sep) \in Seq(S) /\ Len(D!WholeDate(sep)) = 5
  <2>1. <<{"d2"}>> \in Seq(S) /\ Len(<<{"d2"}>>) = 1
    OBVIOUS
  <2> DEFINE p == D!Date(sep)
             q == <<{"d2"}>>
  <2>3. p \in Seq(S) /\ q \in Seq(S)
    BY <1>1, <2>1
  <2> HIDE DEF S, p, q
  <2>2. p \o q \in Seq(S) /\ Len(p \o q) = Len(p) + Len(q)
    BY <2>3
  <2> QED BY <1>1, <2>1, <2>2 DEF D!WholeDate, p, q
<1>7. D!Leads(t, D!WholeDate(sep)) <=> (D!Leads(t, D!Date(sep)) /\ Len(t) >= 4 + 1 /\ t[4 + 1] \in {"d2"})
  BY <1>1, LeadsOne DEF D!WholeDate
<1>8. ASSUME NEW c PROVE D!Leads(t, D!WholeDate(sep) \o <<c>>) <=> (D!Leads(t, D!WholeDate(sep)) /\ Len(t) >= 5 + 1 /\ t[5 + 1] \in c)
  BY <1>6, LeadsOne
<1>9. D!Leads(t, D!DateLead(sep)) <=> D!Leads(t, D!Date(sep) \o <<D!Wider(2)>>)
  BY DEF D!DateLead
<1>10. 4 + 1 = 5 /\ 5 + 1 = 6
  OBVIOUS
<1>11. \A c : D!WholeDate(sep) \o <<c>> \in Seq(S \cup {c})
  BY <1>6
<1> HIDE DEF S
<1>12. D!Leads(t, D!DateLead(sep)) <=> (/\ Len(t) >= 5 /\ t[1] = "d4" /\ t[2] = sep /\ t[3] = "d2" /\ t[4] = sep
                                             /\ t[5] \in D!Wider(2))
  BY <1>3, <1>5, <1>9, <1>10
<1>13. ASSUME NEW c
       PROVE  D!Leads(t, D!WholeDate(sep) \o <<c>>) <=>
               (Len(t) >= 6 /\ t[1] = "d4" /\ t[2] = sep /\ t[3] = "d2" /\ t[4] = sep /\ t[5] = "d2" /\ t[6] \in c)
  BY <1>3, <1>7, <1>8, <1>10
<1> QED BY <1>11, <1>12, <1>13

----------------------------------------------------------------------------
(* The width of a text, cell by cell.                                      *)
LEMMA WidthType == \A c : D!Width(c) \in Nat /\ D!Width("sp") = 1
<1>1. \A c \in D!DigitRun : D!DigitWidth[c] \in Nat
  BY DEF D!DigitRun, D!DigitWidth
<1>2. \A c \in D!Words : D!WordWidth[c] \in Nat
  BY DEF D!Words, D!WordWidth
<1>3. \A c \in DOMAIN D!MemberWidth : D!MemberWidth[c] \in Nat
  BY DEF D!MemberWidth
<1>4. "sp" \notin D!DigitRun /\ "sp" \notin D!Words /\ "sp" \notin DOMAIN D!MemberWidth
  BY DEF D!DigitRun, D!DigitWidth, D!Words, D!WordWidth, D!MemberWidth
<1> QED BY <1>1, <1>2, <1>3, <1>4 DEF D!Width

IsSizes(f, text) ==
  /\ f \in [0 .. Len(text) -> Nat] /\ f[0] = 0
  /\ \A n \in 1 .. Len(text) : f[n] = f[n - 1] + D!Width(text[n])

LEMMA SizeIs ==
  ASSUME NEW text, Len(text) \in Nat
  PROVE  \E f : IsSizes(f, text) /\ D!Size(text) = f[Len(text)]
<1> PICK b \in Nat : b = Len(text)
  OBVIOUS
<1> DEFINE step == [n \in 1 .. b |-> [t \in Nat |-> t + D!Width(text[n])]]
           Pass(g) == g = [n \in 0 .. b |-> IF n = 0 THEN 0 ELSE g[n - 1] + D!Width(text[n])]
<1>3. \A n \in 1 .. b : \A t \in Nat : step[n][t] = t + D!Width(text[n]) /\ step[n][t] \in Nat
  BY WidthType
<1> HIDE DEF step
<1>4. Steps(b, Nat, step)
  BY <1>3 DEF Steps
<1>5. PICK h : IsPass(h, b, Nat, 0, step)
  BY <1>4, PassExists
<1>6. Pass(h)
  <2>1. ASSUME NEW n \in 1 .. b PROVE h[n] = h[n - 1] + D!Width(text[n])
    <3>1. n - 1 \in 0 .. b
      OBVIOUS
    <3>2. h[n - 1] \in Nat
      BY <1>5, <3>1 DEF IsPass
    <3> QED BY <1>3, <1>5, <3>2 DEF IsPass
  <2>2. \A n \in 0 .. b : n = 0 \/ n \in 1 .. b
    OBVIOUS
  <2>3. h = [n \in 0 .. b |-> h[n]] /\ h[0] = 0
    BY <1>5 DEF IsPass
  <2>4. \A n \in 0 .. b : h[n] = IF n = 0 THEN 0 ELSE h[n - 1] + D!Width(text[n])
    BY <2>1, <2>2, <2>3
  <2> QED BY <2>3, <2>4
<1> DEFINE f == CHOOSE g : Pass(g)
<1>7. Pass(f)
  <2> HIDE DEF Pass
  <2> QED BY <1>6
<1>8. D!Size(text) = f[b]
  BY DEF D!Size
<1> HIDE DEF f
<1>a. \A n \in 0 .. b : f[n] = IF n = 0 THEN 0 ELSE f[n - 1] + D!Width(text[n])
  BY <1>7
<1>b. f = [n \in 0 .. b |-> f[n]]
  BY <1>7
<1>c. 0 \in 0 .. b /\ \A n \in 1 .. b : n \in 0 .. b /\ n # 0
  OBVIOUS
<1>d. f[0] = 0
  BY <1>a, <1>c
<1>9. \A n \in 1 .. b : f[n] = f[n - 1] + D!Width(text[n])
  <2> HIDE DEF Pass
  <2> QED BY <1>a, <1>c
<1>10. f \in [0 .. b -> Nat]
  <2>1. \A n \in 1 .. b : f[n - 1] \in Nat => f[n] = step[n][f[n - 1]]
    BY <1>3, <1>9
  <2> HIDE DEF Pass
  <2>2. Follows(f, b, Nat, 0, step)
    BY <1>b, <1>d, <2>1 DEF Follows
  <2> QED BY <1>4, <2>2, PassType
<1> QED BY <1>8, <1>9, <1>10, <1>d DEF IsSizes

\* The widths of a text are those of another that it holds, from where that begins.
LEMMA SizesAgree ==
  ASSUME NEW one, NEW other, NEW f, NEW g, IsSizes(f, one), IsSizes(g, other), Len(one) \in Nat, Len(other) \in Nat,
         NEW b \in Nat, NEW n \in Nat, n <= Len(one), b + n <= Len(other),
         \A k \in 1 .. n : one[k] = other[b + k]
  PROVE  g[b + n] = g[b] + f[n]
<1> DEFINE S == {k \in 0 .. n : g[b + k] = g[b] + f[k]}
<1>0. g[b] \in Nat
  <2>1. b \in 0 .. Len(other)
    OBVIOUS
  <2> QED BY <2>1 DEF IsSizes
<1>1. 0 \in S
  BY <1>0 DEF IsSizes
<1>2. ASSUME NEW k \in 0 .. n - 1, k \in S PROVE k + 1 \in S
  <2>1. k + 1 \in 1 .. n /\ k + 1 \in 1 .. Len(one) /\ b + (k + 1) \in 1 .. Len(other) /\ (b + (k + 1)) - 1 = b + k /\ (k + 1) - 1 = k
        /\ k \in 0 .. Len(one) /\ b + k \in 0 .. Len(other) /\ k + 1 \in 0 .. n
    OBVIOUS
  <2>2. g[b + (k + 1)] = g[b + k] + D!Width(one[k + 1]) /\ f[k + 1] = f[k] + D!Width(one[k + 1])
    BY <2>1 DEF IsSizes
  <2>3. f[k] \in Nat /\ D!Width(one[k + 1]) \in Nat
    BY <2>1, WidthType DEF IsSizes
  <2> QED BY <1>0, <1>2, <2>1, <2>2, <2>3
<1>3. n \in S
  <2> HIDE DEF S
  <2> QED BY <1>1, <1>2, InductUpTo
<1> QED BY <1>3

LEMMA SizesGrow ==
  ASSUME NEW text, Len(text) \in Nat, NEW f, IsSizes(f, text), NEW j \in 0 .. Len(text), NEW k \in 0 .. Len(text), j <= k
  PROVE  f[j] <= f[k]
<1> DEFINE S == {m \in 0 .. k - j : f[j] <= f[j + m]}
<1>0. k - j \in Nat /\ j + (k - j) = k /\ j + 0 = j
  OBVIOUS
<1>1. 0 \in S
  BY <1>0 DEF IsSizes
<1>2. ASSUME NEW m \in 0 .. (k - j) - 1, m \in S PROVE m + 1 \in S
  <2>1. j + (m + 1) \in 1 .. Len(text) /\ (j + (m + 1)) - 1 = j + m /\ j + m \in 0 .. Len(text) /\ m + 1 \in 0 .. k - j
    OBVIOUS
  <2>2. f[j + (m + 1)] = f[j + m] + D!Width(text[j + (m + 1)])
    BY <2>1 DEF IsSizes
  <2>3. f[j + m] \in Nat /\ f[j] \in Nat /\ D!Width(text[j + (m + 1)]) \in Nat
    BY <2>1, WidthType DEF IsSizes
  <2> QED BY <1>2, <2>1, <2>2, <2>3
<1>3. k - j \in S
  <2> HIDE DEF S
  <2> QED BY <1>0, <1>1, <1>2, InductUpTo
<1> QED BY <1>0, <1>3

LEMMA SizeType ==
  ASSUME NEW text, Len(text) \in Nat
  PROVE  D!Size(text) \in Nat
BY SizeIs DEF IsSizes

\* No cell is without width.
LEMMA SizeAtLeast ==
  ASSUME NEW text, Len(text) \in Nat
  PROVE  D!Size(text) >= Len(text)
<1>1. \A c : D!Width(c) \in Nat \ {0}
  <2>1. \A c \in D!DigitRun : D!DigitWidth[c] \in Nat \ {0}
    BY DEF D!DigitRun, D!DigitWidth
  <2>2. \A c \in D!Words : D!WordWidth[c] \in Nat \ {0}
    BY DEF D!Words, D!WordWidth
  <2>3. \A c \in DOMAIN D!MemberWidth : D!MemberWidth[c] \in Nat \ {0}
    BY DEF D!MemberWidth
  <2> QED BY <2>1, <2>2, <2>3 DEF D!Width
<1> PICK b \in Nat : b = Len(text)
  OBVIOUS
<1>2. PICK f : IsSizes(f, text) /\ D!Size(text) = f[b]
  BY SizeIs
<1> DEFINE S == {n \in 0 .. b : f[n] >= n}
<1>3. 0 \in S
  BY <1>2 DEF IsSizes
<1>4. ASSUME NEW n \in 0 .. b - 1, n \in S PROVE n + 1 \in S
  <2>1. n + 1 \in 1 .. b /\ n + 1 \in 0 .. b /\ n \in 0 .. b /\ (n + 1) - 1 = n
    OBVIOUS
  <2>2. f[n + 1] = f[n] + D!Width(text[n + 1]) /\ f[n] \in Nat
    BY <1>2, <2>1 DEF IsSizes
  <2>3. D!Width(text[n + 1]) \in Nat \ {0}
    BY <1>1
  <2> QED BY <1>4, <2>1, <2>2, <2>3
<1>5. b \in S
  <2> HIDE DEF S
  <2> QED BY <1>3, <1>4, InductUpTo
<1> QED BY <1>2, <1>5

----------------------------------------------------------------------------
(* What a layout opens with, and what the detector sees of that.           *)

LEMMA SeqIs == ASSUME NEW S, NEW t \in Seq(S) PROVE IsSequence(t)
<1>1. DOMAIN t = 1 .. Len(t) /\ Len(t) \in Nat /\ t \in [1 .. Len(t) -> {t[i] : i \in DOMAIN t}]
  OBVIOUS
<1> DEFINE A == {t[i] : i \in DOMAIN t}
<1>2. t \in [1 .. Len(t) -> A] /\ Len(t) \in Nat
  BY <1>1
<1>3. t \in Seq(A)
  <2> HIDE DEF A
  <2> QED BY <1>2
<1> QED BY <1>3 DEF IsSequence

LEMMA LeadsHead ==
  ASSUME NEW t, Len(t) \in Nat, NEW p, NEW q, IsSequence(p), IsSequence(q), D!Leads(t, p \o q)
  PROVE  /\ D!Leads(t, p) /\ Len(t) >= Len(p) + Len(q)
         /\ \A k \in 1 .. Len(q) : t[Len(p) + k] \in q[k]
<1> DEFINE P == {p[i] : i \in DOMAIN p}
           Q == {q[i] : i \in DOMAIN q}
<1>1. p \in Seq(P) /\ q \in Seq(Q)
  BY DEF IsSequence
<1> HIDE DEF P, Q
<1>2. p \in Seq(P \cup Q) /\ q \in Seq(P \cup Q)
  BY <1>1
<1> QED BY <1>2, LeadsCat

LEMMA JoinIs ==
  ASSUME NEW p, NEW q, IsSequence(p), IsSequence(q)
  PROVE  IsSequence(p \o q) /\ Len(p \o q) = Len(p) + Len(q) /\ Len(p) \in Nat /\ Len(q) \in Nat
<1> DEFINE P == {p[i] : i \in DOMAIN p}
           Q == {q[i] : i \in DOMAIN q}
<1>1. p \in Seq(P) /\ q \in Seq(Q)
  BY DEF IsSequence
<1> HIDE DEF P, Q
<1>2. p \in Seq(P \cup Q) /\ q \in Seq(P \cup Q)
  BY <1>1
<1>3. p \o q \in Seq(P \cup Q) /\ Len(p \o q) = Len(p) + Len(q) /\ Len(p) \in Nat /\ Len(q) \in Nat
  BY <1>2
<1>4. IsSequence(p \o q)
  <2> PICK r : r = p \o q
    OBVIOUS
  <2>1. r \in Seq(P \cup Q)
    BY <1>3
  <2>2. IsSequence(r)
    BY <2>1, SeqIs
  <2> QED BY <2>2
<1> QED BY <1>3, <1>4

LEMMA ClocksAre ==
  /\ IsSequence(D!Minutes) /\ IsSequence(D!WholeClock) /\ IsSequence(D!Clock)
  /\ Len(D!Minutes) = 4 /\ Len(D!WholeClock) = 5 /\ Len(D!Clock) = 5
<1>1. D!Minutes \in Seq({{"d2"}, {":"}}) /\ Len(D!Minutes) = 4
  BY DEF D!Minutes
<1>2. <<D!Wider(2)>> \in Seq({D!Wider(2)}) /\ <<{"d2"}>> \in Seq({{"d2"}}) /\ Len(<<D!Wider(2)>>) = 1 /\ Len(<<{"d2"}>>) = 1
  OBVIOUS
<1>3. IsSequence(D!Minutes) /\ IsSequence(<<D!Wider(2)>>) /\ IsSequence(<<{"d2"}>>)
  BY <1>1, <1>2, SeqIs
<1>4. IsSequence(D!Minutes \o <<D!Wider(2)>>) /\ Len(D!Minutes \o <<D!Wider(2)>>) = 4 + 1
  BY <1>1, <1>2, <1>3, JoinIs
<1>5. IsSequence(D!Minutes \o <<{"d2"}>>) /\ Len(D!Minutes \o <<{"d2"}>>) = 4 + 1
  BY <1>1, <1>2, <1>3, JoinIs
<1>6. D!Clock = D!Minutes \o <<D!Wider(2)>> /\ D!WholeClock = D!Minutes \o <<{"d2"}>>
  BY DEF D!Clock, D!WholeClock
<1>7. 4 + 1 = 5
  OBVIOUS
<1> QED BY <1>1, <1>3, <1>4, <1>5, <1>6, <1>7

(* A line that opens with a cell has no leading blanks.                    *)
LEMMA SkipSelf ==
  ASSUME NEW raw, IsSequence(raw), Len(raw) >= 1, raw[1] # "sp"
  PROVE  D!Skip(raw) = raw /\ raw # <<>> /\ Len(raw) \in Nat
<1>1. PICK b \in 0 .. Len(raw) : /\ Len(raw) \in Nat /\ \A k \in 1 .. b : raw[k] = "sp"
                                 /\ D!Skip(raw) = From(raw, b + 1)
  BY SkipIs
<1>2. b = 0
  <2>1. b >= 1 => 1 \in 1 .. b
    BY <1>1
  <2> QED BY <1>1, <2>1
<1>3. SubSeq(raw, 1, Len(raw)) = raw /\ raw # <<>>
  <2>1. raw \in Seq({raw[i] : i \in DOMAIN raw})
    BY DEF IsSequence
  <2> QED BY <2>1
<1>4. D!Skip(raw) = SubSeq(raw, 1, Len(raw))
  BY <1>1, <1>2 DEF From
<1> QED BY <1>1, <1>3, <1>4

LEMMA TwoDigits == "d2" \in D!Wider(2) /\ "d2" \in D!DigitRun /\ D!DigitRun \cap D!Words = {} /\ "sp" \notin D!Words /\ "sp" \notin D!DigitRun
BY DEF D!Wider, D!DigitRun, D!DigitWidth, D!Words, D!WordWidth

LEMMA Rfc3339Opens ==
  ASSUME NEW raw, IsSequence(raw), D!IsRfc3339Prefix(raw)
  PROVE  D!Skip(raw) = raw /\ raw # <<>> /\ D!IsoTimeLed(raw)
<1> DEFINE p == D!WholeDate("-") \o <<{"T"}>>
<1>0. Len(raw) \in Nat
  BY SkipIs
<1>1. IsSequence(p)
  <2>1. PICK S : \A c : D!WholeDate("-") \o <<c>> \in Seq(S \cup {c})
    BY <1>0, DateIs
  <2> QED BY <2>1, SeqIs
<1>2. D!Leads(raw, p \o D!Clock)
  BY DEF D!IsRfc3339Prefix
<1>3. D!Leads(raw, p)
  <2> HIDE DEF p
  <2> QED BY <1>0, <1>1, <1>2, ClocksAre, LeadsHead
<1>4. Len(raw) >= 6 /\ raw[1] = "d4"
  BY <1>0, <1>3, DateIs
<1> QED BY <1>0, <1>3, <1>4, SkipSelf DEF D!IsoTimeLed

LEMMA IsoSpaceOpens ==
  ASSUME NEW raw, IsSequence(raw), NEW fraction, D!IsIsoDatetimeSpacePrefix(raw, fraction)
  PROVE  D!Skip(raw) = raw /\ raw # <<>> /\ D!IsoDateLed(raw) /\ ~D!IsoTimeLed(raw) /\ raw[1] = "d4" /\ Len(raw) >= 6
<1>0. Len(raw) \in Nat
  BY SkipIs
<1>2. D!Leads(raw, D!WholeDate("-") \o <<{"sp"}>>)
  BY DEF D!IsIsoDatetimeSpacePrefix
<1>3. Len(raw) >= 6 /\ raw[1] = "d4" /\ raw[2] = "-" /\ raw[3] = "d2" /\ raw[4] = "-" /\ raw[5] = "d2" /\ raw[6] \in {"sp"}
  BY <1>0, <1>2, DateIs
<1>4. D!IsoDateLed(raw)
  BY <1>0, <1>3, DateIs, TwoDigits DEF D!IsoDateLed
<1>5. ~D!IsoTimeLed(raw)
  BY <1>0, <1>3, DateIs DEF D!IsoTimeLed
<1> QED BY <1>0, <1>3, <1>4, <1>5, SkipSelf

LEMMA NginxOpens ==
  ASSUME NEW raw, IsSequence(raw), D!IsNginxErrorPrefix(raw)
  PROVE  D!Skip(raw) = raw /\ raw # <<>> /\ D!Leads(raw, D!DateLead("/"))
<1> DEFINE p == D!WholeDate("/") \o <<{"sp"}>>
<1>0. Len(raw) \in Nat
  BY SkipIs
<1>1. IsSequence(p)
  <2>1. PICK S : \A c : D!WholeDate("/") \o <<c>> \in Seq(S \cup {c})
    BY <1>0, DateIs
  <2> QED BY <2>1, SeqIs
<1>2. D!Leads(raw, p \o D!WholeClock)
  BY DEF D!IsNginxErrorPrefix
<1>3. D!Leads(raw, p)
  <2> HIDE DEF p
  <2> QED BY <1>0, <1>1, <1>2, ClocksAre, LeadsHead
<1>4. Len(raw) >= 6 /\ raw[1] = "d4" /\ raw[2] = "/" /\ raw[3] = "d2" /\ raw[4] = "/" /\ raw[5] = "d2"
  BY <1>0, <1>3, DateIs
<1>5. D!Leads(raw, D!DateLead("/"))
  BY <1>0, <1>4, DateIs, TwoDigits
<1> QED BY <1>0, <1>4, <1>5, SkipSelf

LEMMA SparkOpens ==
  ASSUME NEW led, Len(led) \in Nat, D!IsSparkPrefix(led)
  PROVE  D!Leads(led, <<{"d2"}, {"/"}, {"d2"}, {"/"}, D!Wider(2)>>)
<1> DEFINE p == D!ShortDate \o <<{"sp"}>>
<1>1. D!ShortDate \in Seq({{"d2"}, {"/"}}) /\ Len(D!ShortDate) = 5 /\ <<{"sp"}>> \in Seq({{"sp"}})
  BY DEF D!ShortDate
<1>2. IsSequence(D!ShortDate) /\ IsSequence(<<{"sp"}>>)
  BY <1>1, SeqIs
<1>3. IsSequence(p)
  BY <1>2, JoinIs
<1>4. D!Leads(led, p \o D!Clock)
  BY DEF D!IsSparkPrefix
<1>5. D!Leads(led, p)
  <2> HIDE DEF p
  <2> QED BY <1>3, <1>4, ClocksAre, LeadsHead
<1>6. D!Leads(led, D!ShortDate)
  BY <1>2, <1>5, LeadsHead
<1>7. Len(led) >= 5 /\ led[1] = "d2" /\ led[2] = "/" /\ led[3] = "d2" /\ led[4] = "/" /\ led[5] = "d2"
  BY <1>6 DEF D!Leads, D!ShortDate
<1> PICK W : W = D!Wider(2)
  OBVIOUS
<1>8. DOMAIN <<{"d2"}, {"/"}, {"d2"}, {"/"}, W>> = {1, 2, 3, 4, 5} /\ Len(<<{"d2"}, {"/"}, {"d2"}, {"/"}, W>>) = 5
  OBVIOUS
<1>9. \A k \in {1, 2, 3, 4, 5} : led[k] \in <<{"d2"}, {"/"}, {"d2"}, {"/"}, W>>[k]
  BY <1>7, TwoDigits
<1> QED BY <1>7, <1>8, <1>9 DEF D!Leads

LEMMA HealthAppOpens ==
  ASSUME NEW raw, IsSequence(raw), D!IsHealthAppPrefix(raw)
  PROVE  D!Skip(raw) = raw /\ raw # <<>> /\ D!Size(raw) >= 18 /\ D!Leads(raw, <<{"d8"}, {"-"}>>)
<1> DEFINE field == <<D!Narrower(2), {":"}>>
           p == <<{"d8"}, {"-"}>>
<1>0. Len(raw) \in Nat
  BY SkipIs
<1>1. D!Size(raw) >= 18 /\ D!Leads(raw, p \o field \o field \o field \o <<D!Narrower(3), {"|"}>>)
  BY DEF D!IsHealthAppPrefix
<1>2. IsSequence(field)
  <2>1. field \in Seq({D!Narrower(2), {":"}})
    OBVIOUS
  <2> QED BY <2>1, SeqIs
<1>3. IsSequence(p) /\ Len(p) = 2
  <2>1. p \in Seq({{"d8"}, {"-"}})
    OBVIOUS
  <2> QED BY <2>1, SeqIs
<1>4. IsSequence(<<D!Narrower(3), {"|"}>>)
  <2>1. <<D!Narrower(3), {"|"}>> \in Seq({D!Narrower(3), {"|"}})
    OBVIOUS
  <2> QED BY <2>1, SeqIs
<1>5. D!Leads(raw, p)
  <2> HIDE DEF p, field
  <2>1. IsSequence(p \o field) /\ IsSequence(p \o field \o field) /\ IsSequence(p \o field \o field \o field)
    BY <1>2, <1>3, JoinIs
  <2>2. D!Leads(raw, p \o field \o field \o field)
    BY <1>0, <1>1, <1>4, <2>1, LeadsHead
  <2>3. D!Leads(raw, p \o field \o field)
    BY <1>0, <1>2, <2>1, <2>2, LeadsHead
  <2>4. D!Leads(raw, p \o field)
    BY <1>0, <1>2, <2>1, <2>3, LeadsHead
  <2> QED BY <1>0, <1>2, <1>3, <2>4, LeadsHead
<1>6. Len(raw) >= 1 /\ raw[1] = "d8"
  BY <1>5 DEF D!Leads
<1> HIDE DEF p, field
<1>7. D!Skip(raw) = raw /\ raw # <<>>
  BY <1>0, <1>6, SkipSelf
<1> QED BY <1>1, <1>5, <1>7 DEF p

LEMMA LogcatOpens ==
  ASSUME NEW raw, IsSequence(raw), D!HasLogcatPrefix(raw)
  PROVE  D!Skip(raw) = raw /\ raw # <<>> /\ D!Size(raw) >= 18 /\ D!Leads(raw, <<{"d2"}, {"-"}, {"d2"}, {"sp"}>>)
<1> DEFINE p == <<{"d2"}, {"-"}, {"d2"}, {"sp"}>>
           q == <<{"."}, D!Wider(3)>>
<1>0. Len(raw) \in Nat /\ D!Size(raw) \in Nat
  BY SkipIs, SizeType
<1>1. D!Size(raw) >= 30 /\ D!Leads(raw, p \o D!WholeClock \o q)
  BY DEF D!HasLogcatPrefix
<1>2. p \in Seq({{"d2"}, {"-"}, {"sp"}}) /\ q \in Seq({{"."}, D!Wider(3)})
  OBVIOUS
<1>3. D!Leads(raw, p)
  <2> HIDE DEF p, q
  <2>1. IsSequence(p) /\ IsSequence(q)
    BY <1>2, SeqIs
  <2>2. IsSequence(p \o D!WholeClock)
    BY <2>1, ClocksAre, JoinIs
  <2>3. D!Leads(raw, p \o D!WholeClock)
    BY <1>0, <1>1, <2>1, <2>2, LeadsHead
  <2> QED BY <1>0, <2>1, <2>3, ClocksAre, LeadsHead
<1>4. Len(raw) >= 1 /\ raw[1] = "d2"
  BY <1>3 DEF D!Leads
<1>5. D!Skip(raw) = raw /\ raw # <<>>
  BY <1>0, <1>4, SkipSelf
<1>6. D!Size(raw) >= 18
  BY <1>0, <1>1
<1> QED BY <1>3, <1>5, <1>6

LEMMA ProxifierOpens ==
  ASSUME NEW raw, IsSequence(raw), D!IsProxifierPrefix(raw)
  PROVE  /\ D!Skip(raw) = raw /\ raw # <<>> /\ D!Size(raw) > 3
         /\ D!Leads(raw, <<{"["}, D!DigitRun>>) /\ D!Has(raw, {"."})
<1> DEFINE p == <<{"["}, {"d2"}, {"."}, {"d2"}, {"sp"}>>
           q == <<{"]"}>>
<1>0. Len(raw) \in Nat /\ D!Size(raw) \in Nat /\ DOMAIN raw = 1 .. Len(raw)
  BY SkipIs, SizeType
<1>1. D!Size(raw) >= 17 /\ D!Leads(raw, p \o D!WholeClock \o q)
  BY DEF D!IsProxifierPrefix
<1>2. p \in Seq({{"["}, {"d2"}, {"."}, {"sp"}}) /\ q \in Seq({{"]"}})
  OBVIOUS
<1>3. D!Leads(raw, p)
  <2> HIDE DEF p, q
  <2>1. IsSequence(p) /\ IsSequence(q)
    BY <1>2, SeqIs
  <2>2. IsSequence(p \o D!WholeClock)
    BY <2>1, ClocksAre, JoinIs
  <2>3. D!Leads(raw, p \o D!WholeClock)
    BY <1>0, <1>1, <2>1, <2>2, LeadsHead
  <2> QED BY <1>0, <2>1, <2>3, ClocksAre, LeadsHead
<1>4. Len(raw) >= 5 /\ raw[1] = "[" /\ raw[2] = "d2" /\ raw[3] = "."
  BY <1>3 DEF D!Leads
<1>5. D!Skip(raw) = raw /\ raw # <<>>
  BY <1>0, <1>4, SkipSelf
<1>6. D!Size(raw) > 3
  BY <1>0, <1>1
<1>7. D!Leads(raw, <<{"["}, D!DigitRun>>)
  BY <1>0, <1>4, TwoDigits DEF D!Leads
<1>8. D!Has(raw, {"."})
  <2>1. 3 \in DOMAIN raw
    BY <1>0, <1>4
  <2> QED BY <1>4, <2>1 DEF D!Has
<1> QED BY <1>5, <1>6, <1>7, <1>8

LEMMA ApacheOpens ==
  ASSUME NEW raw, IsSequence(raw), D!IsApacheErrorPrefix(raw)
  PROVE  D!Skip(raw) = raw /\ raw # <<>> /\ D!Leads(raw, <<{"["}, D!Words>>)
<1>0. Len(raw) \in Nat
  BY SkipIs
<1>1. D!Leads(raw, <<{"["}, {"Mon"}, {"sp"}, {"Mon"}>>)
  BY DEF D!IsApacheErrorPrefix
<1>2. Len(raw) >= 4 /\ raw[1] = "[" /\ raw[2] = "Mon"
  BY <1>1 DEF D!Leads
<1>3. "Mon" \in D!Words
  BY DEF D!Words, D!WordWidth
<1>4. D!Skip(raw) = raw /\ raw # <<>>
  BY <1>0, <1>2, SkipSelf
<1>5. D!Leads(raw, <<{"["}, D!Words>>)
  BY <1>0, <1>2, <1>3 DEF D!Leads
<1> QED BY <1>4, <1>5

LEMMA Rfc5424Opens ==
  ASSUME NEW raw, IsSequence(raw), D!IsRfc5424Prefix(raw)
  PROVE  D!Skip(raw) = raw /\ raw # <<>> /\ raw[1] = "<"
<1> PICK W : W = D!Narrower(3)
  OBVIOUS
<1>1. D!Leads(raw, <<{"<"}, W, {">"}, {"d1"}, {"sp"}>>)
  BY DEF D!IsRfc5424Prefix
<1>2. Len(raw) >= 5 /\ raw[1] = "<"
  BY <1>1 DEF D!Leads
<1> QED BY <1>2, SkipSelf

LEMMA BglOpens ==
  ASSUME NEW raw, IsSequence(raw), D!IsBglLabelledPrefix(raw)
  PROVE  D!Skip(raw) = raw /\ raw # <<>> /\ raw[1] \in {"-"} \cup D!UpperFirst
<1> DEFINE n == D!After(raw, 1, D!Other(raw, {"sp"})) - 1
           label == SubSeq(raw, 1, n)
<1>0. Len(raw) \in Nat /\ raw \in Seq({raw[i] : i \in DOMAIN raw})
  BY SkipIs DEF IsSequence
<1>1. label = <<"-">> \/ D!IsIdentifier(label)
  BY DEF D!IsBglLabelledPrefix, D!Upto
<1>2. label # <<>> /\ label[1] \in {"-"} \cup D!AllUpper
  <2> HIDE DEF label
  <2>1. CASE label = <<"-">>
    BY <2>1
  <2>2. CASE D!IsIdentifier(label)
    BY <2>2 DEF D!IsIdentifier, D!FirstIs
  <2> QED BY <1>1, <2>1, <2>2
<1>3. n \in 0 .. Len(raw)
  <2>1. D!After(raw, 1, D!Other(raw, {"sp"})) = After(raw, 1, D!Other(raw, {"sp"}))
    BY DEF D!After, After
  <2>2. After(raw, 1, D!Other(raw, {"sp"})) \in 1 .. Len(raw) + 1
    BY <1>0, AfterType
  <2> QED BY <1>0, <2>1, <2>2
<1> HIDE DEF n
<1>4. n >= 1 /\ raw[1] = label[1]
  BY <1>0, <1>2, <1>3
<1>5. "sp" \notin D!AllUpper /\ D!AllUpper \subseteq D!UpperFirst
  BY DEF D!AllUpper, D!UpperFirst
<1> HIDE DEF label
<1>6. Len(raw) >= 1 /\ raw[1] \in {"-"} \cup D!UpperFirst /\ raw[1] # "sp"
  BY <1>0, <1>2, <1>3, <1>4, <1>5
<1> QED BY <1>6, SkipSelf

LEMMA KeyValueOpens ==
  ASSUME NEW raw, IsSequence(raw), D!LeadsWithKvPair(raw)
  PROVE  D!Skip(raw) # <<>> /\ D!ContainsKvMarker(D!Skip(raw))
<1> PICK led : led = D!Skip(raw)
  OBVIOUS
<1> PICK e : e = D!After(led, 1, D!KeyCell)
  OBVIOUS
<1>1. D!FirstIs(led, D!KeyStart) /\ e < Len(led) /\ led[e] = "="
  BY DEF D!LeadsWithKvPair
<1>2. IsSequence(led) /\ Len(led) \in Nat /\ DOMAIN led = 1 .. Len(led)
  BY SkipIs
<1>3. e = After(led, 1, D!KeyCell)
  BY DEF D!After, After
<1>4. e \in 1 .. Len(led) + 1 /\ \A k \in 1 .. e - 1 : led[k] \in D!KeyCell
  BY <1>2, <1>3, AfterType
<1>5. "=" \notin D!KeyCell /\ D!KeyStart \subseteq D!KeyCell
  BY DEF D!KeyCell, D!KeyStart, D!Words, D!WordWidth, D!DigitRun, D!DigitWidth
<1>6. led # <<>> /\ led[1] \in D!KeyCell
  BY <1>1, <1>5 DEF D!FirstIs
<1>7. e > 1
  BY <1>1, <1>4, <1>5, <1>6
<1>8. e \in D!First(led, "=")
  BY <1>1, <1>2, <1>4, <1>5 DEF D!First
<1>9. e - 1 \in 1 .. e - 1
  BY <1>4, <1>7
<1> QED BY <1>4, <1>6, <1>7, <1>8, <1>9 DEF D!ContainsKvMarker

----------------------------------------------------------------------------
(* A stamp behind blanks and behind a prefix is the same stamp.            *)

\* One text is the other without its first b cells.
Shifts(raw, led, b) ==
  /\ IsSequence(raw) /\ IsSequence(led) /\ Len(raw) \in Nat /\ Len(led) \in Nat
  /\ b \in Nat /\ Len(raw) = b + Len(led)
  /\ \A k \in 1 .. Len(led) : led[k] = raw[b + k]

\* And those are blanks.
Trims(raw, led, b) == Shifts(raw, led, b) /\ \A k \in 1 .. b : raw[k] = "sp"

LEMMA FromIs ==
  ASSUME NEW text, IsSequence(text), NEW i \in 1 .. Len(text) + 1
  PROVE  /\ IsSequence(From(text, i)) /\ Len(From(text, i)) = Len(text) - i + 1 /\ Len(text) \in Nat
         /\ \A k \in 1 .. Len(text) - i + 1 : From(text, i)[k] = text[i + k - 1]
<1> DEFINE A == {text[k] : k \in DOMAIN text}
<1>1. text \in Seq(A) /\ Len(text) \in Nat
  BY DEF IsSequence
<1> DEFINE s == SubSeq(text, i, Len(text))
<1>2. s \in Seq(A) /\ Len(s) = Len(text) - i + 1 /\ \A k \in 1 .. Len(text) - i + 1 : s[k] = text[i + k - 1]
  <2> HIDE DEF A
  <2> QED BY <1>1
<1>3. IsSequence(s)
  <2> HIDE DEF A, s
  <2> QED BY <1>2, SeqIs
<1> QED BY <1>1, <1>2, <1>3 DEF From

LEMMA SameText ==
  ASSUME NEW s, NEW t, IsSequence(s), IsSequence(t), Len(s) = Len(t), \A k \in 1 .. Len(s) : s[k] = t[k]
  PROVE  s = t
<1> DEFINE A == {s[i] : i \in DOMAIN s}
           B == {t[i] : i \in DOMAIN t}
<1>1. s \in Seq(A) /\ t \in Seq(B)
  BY DEF IsSequence
<1> HIDE DEF A, B
<1> QED BY <1>1

LEMMA FromShifts ==
  ASSUME NEW raw, NEW led, NEW b, Shifts(raw, led, b), NEW i \in 1 .. Len(led) + 1
  PROVE  From(raw, b + i) = From(led, i)
<1>0. b \in Nat /\ Len(raw) = b + Len(led) /\ Len(led) \in Nat /\ IsSequence(raw) /\ IsSequence(led)
  BY DEF Shifts
<1>1. b + i \in 1 .. Len(raw) + 1 /\ Len(raw) - (b + i) + 1 = Len(led) - i + 1
  BY <1>0
<1>2. \A k \in 1 .. Len(led) - i + 1 : From(raw, b + i)[k] = raw[(b + i) + k - 1] /\ From(led, i)[k] = led[i + k - 1]
  BY <1>0, <1>1, FromIs
<1>3. \A k \in 1 .. Len(led) - i + 1 : i + k - 1 \in 1 .. Len(led) /\ (b + i) + k - 1 = b + (i + k - 1)
  BY <1>0
<1>4. \A k \in 1 .. Len(led) - i + 1 : From(raw, b + i)[k] = From(led, i)[k]
  BY <1>2, <1>3 DEF Shifts
<1>5. IsSequence(From(raw, b + i)) /\ IsSequence(From(led, i)) /\ Len(From(raw, b + i)) = Len(led) - i + 1 /\ Len(From(led, i)) = Len(led) - i + 1
  BY <1>0, <1>1, FromIs
<1> QED BY <1>4, <1>5, SameText

LEMMA AfterShifts ==
  ASSUME NEW raw, NEW led, NEW b, Shifts(raw, led, b), NEW i \in 1 .. Len(led) + 1, NEW cells
  PROVE  After(raw, b + i, cells) = b + After(led, i, cells) /\ After(led, i, cells) \in i .. Len(led) + 1
<1>0. b \in Nat /\ Len(raw) = b + Len(led) /\ Len(led) \in Nat /\ Len(raw) \in Nat /\ i \in Nat
  BY DEF Shifts
<1> PICK a : a = After(led, i, cells)
  OBVIOUS
<1>1. a \in i .. Len(led) + 1 /\ (\A k \in i .. a - 1 : led[k] \in cells) /\ (a > Len(led) \/ led[a] \notin cells)
  BY <1>0, AfterType
<1>2. b + a \in b + i .. Len(raw) + 1 /\ b + i \in Nat /\ b + i <= Len(raw) + 1
  BY <1>0, <1>1
<1>3. \A k \in b + i .. (b + a) - 1 : raw[k] \in cells
  <2> TAKE k \in b + i .. (b + a) - 1
  <2>1. k - b \in i .. a - 1 /\ k - b \in 1 .. Len(led) /\ b + (k - b) = k
    BY <1>0, <1>1
  <2> QED BY <1>1, <2>1 DEF Shifts
<1>4. b + a > Len(raw) \/ raw[b + a] \notin cells
  <2>1. a > Len(led) \/ a \in 1 .. Len(led)
    BY <1>0, <1>1
  <2>2. a \in 1 .. Len(led) => led[a] = raw[b + a]
    BY DEF Shifts
  <2> QED BY <1>0, <1>1, <2>1, <2>2
<1>5. After(raw, b + i, cells) = b + a
  BY <1>0, <1>2, <1>3, <1>4, AfterIs
<1> QED BY <1>1, <1>5

LEMMA SizeUpto ==
  ASSUME NEW text, IsSequence(text), NEW f, IsSizes(f, text), NEW n \in 0 .. Len(text)
  PROVE  D!Size(D!Upto(text, n)) = f[n] /\ f[n] \in Nat
<1> DEFINE A == {text[k] : k \in DOMAIN text}
           s == SubSeq(text, 1, n)
<1>1. text \in Seq(A) /\ Len(text) \in Nat
  BY DEF IsSequence
<1>2. Len(s) = n /\ \A k \in 1 .. n : s[k] = text[k]
  <2> HIDE DEF A
  <2> QED BY <1>1
<1>3. D!Upto(text, n) = s
  BY DEF D!Upto
<1> HIDE DEF s, A
<1>4. PICK g : IsSizes(g, s) /\ D!Size(s) = g[Len(s)]
  BY <1>2, SizeIs
<1>5. f[0 + n] = f[0] + g[n]
  <2>1. \A k \in 1 .. n : s[k] = text[0 + k]
    BY <1>2
  <2>2. 0 \in Nat /\ n \in Nat /\ n <= Len(s) /\ 0 + n <= Len(text) /\ Len(s) \in Nat
    BY <1>1, <1>2
  <2> QED BY <1>1, <1>4, <2>1, <2>2, SizesAgree
<1>6. f[0] = 0 /\ g[n] \in Nat /\ f[n] \in Nat
  BY <1>1, <1>2, <1>4 DEF IsSizes
<1>7. 0 + n = n
  OBVIOUS
<1> QED BY <1>2, <1>3, <1>4, <1>5, <1>6, <1>7

LEMMA SizeUptoGrows ==
  ASSUME NEW text, IsSequence(text), NEW m \in 0 .. Len(text), NEW n \in 0 .. Len(text), m <= n
  PROVE  D!Size(D!Upto(text, m)) \in Nat /\ D!Size(D!Upto(text, n)) \in Nat /\ D!Size(D!Upto(text, m)) <= D!Size(D!Upto(text, n))
<1>1. Len(text) \in Nat
  BY DEF IsSequence
<1>2. PICK f : IsSizes(f, text)
  BY <1>1, SizeIs
<1>3. f[m] <= f[n]
  BY <1>1, <1>2, SizesGrow
<1> QED BY <1>2, <1>3, SizeUpto

LEMMA SizeShifts ==
  ASSUME NEW raw, NEW led, NEW b, Trims(raw, led, b)
  PROVE  /\ D!Size(raw) = b + D!Size(led) /\ D!Size(led) \in Nat
         /\ \A n \in 0 .. Len(led) : D!Size(D!Upto(raw, b + n)) = b + D!Size(D!Upto(led, n))
<1>0. b \in Nat /\ Len(raw) = b + Len(led) /\ Len(led) \in Nat /\ Len(raw) \in Nat /\ IsSequence(raw) /\ IsSequence(led)
  BY DEF Trims, Shifts
<1>1. PICK f : IsSizes(f, led) /\ D!Size(led) = f[Len(led)]
  BY <1>0, SizeIs
<1>2. PICK g : IsSizes(g, raw) /\ D!Size(raw) = g[Len(raw)]
  BY <1>0, SizeIs
<1>3. g[b] = b
  <2> DEFINE S == {k \in 0 .. b : g[k] = k}
  <2>1. 0 \in S
    BY <1>0, <1>2 DEF IsSizes
  <2>2. ASSUME NEW k \in 0 .. b - 1, k \in S PROVE k + 1 \in S
    <3>1. k + 1 \in 1 .. Len(raw) /\ k + 1 \in 1 .. b /\ k + 1 \in 0 .. b /\ (k + 1) - 1 = k
      BY <1>0
    <3>2. g[k + 1] = g[k] + D!Width(raw[k + 1])
      BY <1>2, <3>1 DEF IsSizes
    <3>3. raw[k + 1] = "sp"
      BY <3>1 DEF Trims, Shifts
    <3>4. D!Width("sp") = 1
      BY WidthType
    <3>5. g[k] = k
      BY <2>2
    <3>6. g[k + 1] = k + 1
      BY <3>2, <3>3, <3>4, <3>5
    <3> QED BY <3>1, <3>6
  <2>3. b \in S
    <3> HIDE DEF S
    <3> QED BY <1>0, <2>1, <2>2, InductUpTo
  <2> QED BY <2>3
<1>4. ASSUME NEW n \in 0 .. Len(led) PROVE g[b + n] = b + f[n]
  <2>1. \A k \in 1 .. n : led[k] = raw[b + k]
    BY <1>0 DEF Trims, Shifts
  <2>2. n \in Nat /\ n <= Len(led) /\ b + n <= Len(raw)
    BY <1>0
  <2>3. g[b + n] = g[b] + f[n]
    <3>1. IsSizes(f, led) /\ IsSizes(g, raw) /\ Len(led) \in Nat /\ Len(raw) \in Nat /\ b \in Nat
      BY <1>0, <1>1, <1>2
    <3> QED BY <2>1, <2>2, <3>1, SizesAgree
  <2> QED BY <1>3, <2>3
<1>5. ASSUME NEW n \in 0 .. Len(led) PROVE D!Size(D!Upto(raw, b + n)) = b + D!Size(D!Upto(led, n))
  <2>1. b + n \in 0 .. Len(raw)
    BY <1>0
  <2>2. D!Size(D!Upto(raw, b + n)) = g[b + n] /\ D!Size(D!Upto(led, n)) = f[n]
    BY <1>0, <1>1, <1>2, <2>1, SizeUpto
  <2> QED BY <1>4, <2>2
<1>6. Len(led) \in 0 .. Len(led)
  BY <1>0
<1>7. g[b + Len(led)] = b + f[Len(led)]
  BY <1>4, <1>6
<1> QED BY <1>0, <1>1, <1>2, <1>5, <1>7, SizeType

LEMMA FromShiftsBack ==
  ASSUME NEW text, IsSequence(text), NEW i \in 1 .. Len(text) + 1
  PROVE  Shifts(text, From(text, i), i - 1)
<1>1. /\ IsSequence(From(text, i)) /\ Len(From(text, i)) = Len(text) - i + 1 /\ Len(text) \in Nat
      /\ \A k \in 1 .. Len(text) - i + 1 : From(text, i)[k] = text[i + k - 1]
  BY FromIs
<1>2. \A k \in 1 .. Len(text) - i + 1 : i + k - 1 = (i - 1) + k
  OBVIOUS
<1> QED BY <1>1, <1>2 DEF Shifts

\* What find_log4j_stamp looks at.
Stamped(text, i) == D!IsIsoDatetimeSpacePrefix(D!From(text, i), TRUE)
Within(text, i) == D!Size(D!Upto(text, i - 1)) + 20 <= (IF D!Size(text) < 96 THEN D!Size(text) ELSE 96)
HasPid(text, i) == D!Leads(D!Skip(D!From(text, D!Log4jStampEnd(text, i))), <<D!DigitRun, {"sp"}>>)
Later(text) == {i \in D!After(text, 1, {"sp"}) + 1 .. Len(text) : text[i - 1] = "sp" /\ Within(text, i) /\ Stamped(text, i)}

LEMMA StampFound ==
  ASSUME NEW text
  PROVE  D!FindLog4jStamp(text) # {} <=>
           Stamped(text, D!After(text, 1, {"sp"})) \/ \E k \in Later(text) : (\A n \in Later(text) : k <= n) /\ HasPid(text, k)
<1> DEFINE first == D!After(text, 1, {"sp"})
           chosen == {k \in Later(text) : (\A n \in Later(text) : k <= n) /\ HasPid(text, k)}
           one == [start |-> first, end |-> D!Log4jStampEnd(text, first), prefixed |-> FALSE]
           all == {[start |-> i, end |-> D!Log4jStampEnd(text, i), prefixed |-> TRUE] : i \in chosen}
<1>1. D!FindLog4jStamp(text) = IF Stamped(text, first) THEN {one} ELSE all
  BY Zenon DEF D!FindLog4jStamp, Stamped, Later, Within, HasPid, D!kIsoTimestampMinLen, D!kLog4jPrefixScanLimit
<1>2. all # {} <=> chosen # {}
  OBVIOUS
<1>3. {one} # {}
  OBVIOUS
<1> HIDE DEF one, all, first
<1> QED BY <1>1, <1>2, <1>3 DEF first

\* Behind a stamp there is room for the end of one.
LEMMA StampRoom ==
  ASSUME NEW text, IsSequence(text), NEW i \in 1 .. Len(text), Stamped(text, i)
  PROVE  /\ text[i] = "d4" /\ i + 5 <= Len(text) /\ Len(text) \in Nat
         /\ After(text, i + 5, {"sp"}) \in i + 5 .. Len(text) /\ After(text, i + 5, {"sp"}) + 5 <= Len(text)
<1>0. Len(text) \in Nat
  BY DEF IsSequence
<1> PICK t : t = From(text, i)
  OBVIOUS
<1>a. i \in 1 .. Len(text) + 1
  BY <1>0
<1>1. IsSequence(t) /\ Len(t) = Len(text) - i + 1 /\ \A k \in 1 .. Len(text) - i + 1 : t[k] = text[i + k - 1]
  BY <1>a, FromIs
<1>2. D!IsIsoDatetimeSpacePrefix(t, TRUE)
  BY DEF Stamped, D!From, From
<1>3. t[1] = "d4" /\ Len(t) >= 6
  BY <1>1, <1>2, IsoSpaceOpens
<1>4. text[i] = "d4" /\ i + 5 <= Len(text)
  BY <1>0, <1>1, <1>3
<1> PICK x : x = From(t, 6)
  OBVIOUS
<1>5. IsSequence(x) /\ Len(x) = Len(t) - 6 + 1 /\ Len(x) \in Nat
  <2>1. 6 \in 1 .. Len(t) + 1
    BY <1>0, <1>1, <1>3
  <2>2. IsSequence(From(t, 6)) /\ Len(From(t, 6)) = Len(t) - 6 + 1
    BY <1>1, <2>1, FromIs
  <2>3. Len(x) \in Nat
    BY <2>2 DEF IsSequence
  <2> QED BY <2>2, <2>3
<1>6. x = From(text, i + 5)
  <2>1. Shifts(text, t, i - 1)
    BY <1>0, FromShiftsBack
  <2>2. 6 \in 1 .. Len(t) + 1 /\ (i - 1) + 6 = i + 5
    BY <1>0, <1>1, <1>3
  <2>3. From(text, (i - 1) + 6) = From(t, 6)
    BY <2>1, <2>2, FromShifts
  <2> QED BY <2>2, <2>3
<1> PICK u : u = D!Skip(x)
  OBVIOUS
<1>7. D!Leads(u, D!WholeClock \o <<{".", ","}>>)
  BY <1>2 DEF D!IsIsoDatetimeSpacePrefix, D!From, From
<1>8. IsSequence(u) /\ Len(u) \in Nat /\ Len(u) = Len(x) - (After(x, 1, {"sp"}) - 1) /\ After(x, 1, {"sp"}) \in 1 .. Len(x) + 1
  <2>1. PICK c \in 0 .. Len(x) : IsSequence(D!Skip(x)) /\ Len(D!Skip(x)) = Len(x) - c /\ After(x, 1, {"sp"}) = c + 1
    BY <1>5, SkipIs
  <2> QED BY <1>5, <2>1
<1>9. Len(u) >= 6
  <2>1. <<{".", ","}>> \in Seq({{".", ","}}) /\ Len(<<{".", ","}>>) = 1
    OBVIOUS
  <2>2. IsSequence(<<{".", ","}>>)
    BY <2>1, SeqIs
  <2>3. Len(u) >= Len(D!WholeClock) + Len(<<{".", ","}>>)
    BY <1>7, <1>8, <2>2, ClocksAre, LeadsHead
  <2> QED BY <2>1, <2>3, ClocksAre
<1>10. Shifts(text, x, i + 4)
  <2>1. i + 5 \in 1 .. Len(text) + 1 /\ (i + 5) - 1 = i + 4
    BY <1>0, <1>4
  <2> QED BY <1>6, <2>1, FromShiftsBack
<1>11. After(text, (i + 4) + 1, {"sp"}) = (i + 4) + After(x, 1, {"sp"})
  <2>1. 1 \in 1 .. Len(x) + 1
    BY <1>5
  <2> QED BY <1>10, <2>1, AfterShifts
<1>12. (i + 4) + 1 = i + 5
  OBVIOUS
<1> QED BY <1>0, <1>1, <1>4, <1>5, <1>8, <1>9, <1>11, <1>12

LEMMA EndShifts ==
  ASSUME NEW raw, NEW led, NEW b, Shifts(raw, led, b), NEW i \in 1 .. Len(led), Stamped(led, i)
  PROVE  D!Log4jStampEnd(raw, b + i) = b + D!Log4jStampEnd(led, i) /\ D!Log4jStampEnd(led, i) \in 1 .. Len(led) + 1
<1>0. b \in Nat /\ Len(led) \in Nat /\ IsSequence(led)
  BY DEF Shifts
<1> PICK c : c = After(led, i + 5, {"sp"})
  OBVIOUS
<1>1. i + 5 \in 1 .. Len(led) + 1 /\ c \in i + 5 .. Len(led) /\ c + 6 \in 1 .. Len(led) + 1
  BY <1>0, StampRoom
<1>2. After(raw, b + (i + 5), {"sp"}) = b + c
  BY <1>1, AfterShifts
<1>3. After(raw, b + (c + 6), D!DigitRun) = b + After(led, c + 6, D!DigitRun) /\ After(led, c + 6, D!DigitRun) \in c + 6 .. Len(led) + 1
  BY <1>1, AfterShifts
<1>4. (b + i) + 5 = b + (i + 5) /\ (b + c) + 6 = b + (c + 6)
  BY <1>0, <1>1
<1>5. \A text, start : D!Log4jStampEnd(text, start) = After(text, After(text, start + 5, {"sp"}) + 6, D!DigitRun)
  BY DEF D!Log4jStampEnd, D!After, After
<1>6. D!Log4jStampEnd(raw, b + i) = After(raw, b + (c + 6), D!DigitRun)
  BY <1>2, <1>4, <1>5
<1>7. D!Log4jStampEnd(led, i) = After(led, c + 6, D!DigitRun)
  BY <1>5
<1> QED BY <1>0, <1>1, <1>3, <1>6, <1>7

\* The stamps of the trimmed text are those of the text behind its blanks.
LEMMA StampsShift ==
  ASSUME NEW raw, NEW led, NEW b, Trims(raw, led, b), NEW i \in 2 .. Len(led)
  PROVE  /\ Stamped(raw, b + i) <=> Stamped(led, i)
         /\ raw[b + i - 1] = led[i - 1]
         /\ Within(raw, b + i) => Within(led, i)
         /\ Stamped(led, i) => (HasPid(raw, b + i) <=> HasPid(led, i))
<1>0. Shifts(raw, led, b) /\ b \in Nat /\ Len(led) \in Nat /\ Len(raw) = b + Len(led)
  BY DEF Trims, Shifts
<1>1. i \in 1 .. Len(led) + 1 /\ i - 1 \in 1 .. Len(led) /\ i - 1 \in 0 .. Len(led) /\ b + i - 1 = b + (i - 1)
  BY <1>0
<1>2. Stamped(raw, b + i) <=> Stamped(led, i)
  <2>1. From(raw, b + i) = From(led, i)
    BY <1>0, <1>1, FromShifts
  <2>2. \A t, n : D!From(t, n) = From(t, n)
    BY DEF D!From, From
  <2> QED BY <2>1, <2>2 DEF Stamped
<1>3. raw[b + i - 1] = led[i - 1]
  BY <1>0, <1>1 DEF Shifts
<1>4. Within(raw, b + i) => Within(led, i)
  <2>1. D!Size(raw) = b + D!Size(led) /\ D!Size(led) \in Nat /\ D!Size(D!Upto(raw, b + (i - 1))) = b + D!Size(D!Upto(led, i - 1))
    BY <1>1, SizeShifts
  <2>2. D!Size(D!Upto(led, i - 1)) \in Nat
    BY <1>0, <1>1, SizeUptoGrows DEF Shifts
  <2> PICK x \in Nat, y \in Nat : x = D!Size(D!Upto(led, i - 1)) /\ y = D!Size(led)
    BY <2>1, <2>2
  <2>3. Within(raw, b + i) <=> (b + x) + 20 <= (IF b + y < 96 THEN b + y ELSE 96)
    <3>1. (b + i) - 1 = b + (i - 1)
      BY <1>0
    <3>2. D!Size(D!Upto(raw, (b + i) - 1)) = D!Size(D!Upto(raw, b + (i - 1)))
      BY <3>1
    <3>3. D!Size(D!Upto(raw, (b + i) - 1)) = b + x /\ D!Size(raw) = b + y
      BY <2>1, <3>2
    <3> QED BY <3>3 DEF Within
  <2>4. Within(led, i) <=> x + 20 <= (IF y < 96 THEN y ELSE 96)
    BY DEF Within
  <2> QED BY <1>0, <2>3, <2>4
<1>5. ASSUME Stamped(led, i) PROVE HasPid(raw, b + i) <=> HasPid(led, i)
  <2>1. D!Log4jStampEnd(raw, b + i) = b + D!Log4jStampEnd(led, i) /\ D!Log4jStampEnd(led, i) \in 1 .. Len(led) + 1
    <3>1. i \in 1 .. Len(led)
      BY <1>0
    <3> QED BY <1>0, <1>5, <3>1, EndShifts
  <2>2. From(raw, b + D!Log4jStampEnd(led, i)) = From(led, D!Log4jStampEnd(led, i))
    BY <1>0, <2>1, FromShifts
  <2>3. \A t, n : D!From(t, n) = From(t, n)
    BY DEF D!From, From
  <2> QED BY <2>1, <2>2, <2>3 DEF HasPid
<1> QED BY <1>2, <1>3, <1>4, <1>5

(* A stamp that Log4j claims by is found again behind the blanks, or opens *)
(* the line there.                                                         *)
LEMMA Log4jOpens ==
  ASSUME NEW raw, IsSequence(raw), D!FindLog4jStamp(raw) # {}, NEW led, led = D!Skip(raw)
  PROVE  led # <<>> /\ (D!IsoDateLed(led) \/ D!FindLog4jStamp(led) # {})
<1> PICK b \in 0 .. Len(raw) :
           /\ Len(raw) \in Nat /\ DOMAIN raw = 1 .. Len(raw)
           /\ \A k \in 1 .. b : raw[k] = "sp"
           /\ IsSequence(led) /\ Len(led) = Len(raw) - b
           /\ \A k \in 1 .. Len(raw) - b : led[k] = raw[b + k]
           /\ b < Len(raw) => raw[b + 1] # "sp"
           /\ After(raw, 1, {"sp"}) = b + 1
           /\ led = From(raw, b + 1)
  BY SkipIs
<1>0. b \in Nat /\ Len(led) \in Nat
  OBVIOUS
<1>1. Trims(raw, led, b)
  BY <1>0 DEF Trims, Shifts
<1>2. \A t, n : D!From(t, n) = From(t, n)
  BY DEF D!From, From
<1>3. \A t : D!After(t, 1, {"sp"}) = After(t, 1, {"sp"})
  BY DEF D!After, After
<1>4. Stamped(raw, b + 1) \/ \E k \in Later(raw) : (\A n \in Later(raw) : k <= n) /\ HasPid(raw, k)
  BY <1>3, StampFound
<1>5. CASE Stamped(raw, b + 1)
  <2>1. D!IsIsoDatetimeSpacePrefix(led, TRUE)
    BY <1>2, <1>5 DEF Stamped
  <2> QED BY <2>1, IsoSpaceOpens
<1>6. ASSUME NEW k \in Later(raw), \A n \in Later(raw) : k <= n, HasPid(raw, k), ~D!IsoDateLed(led)
      PROVE  led # <<>> /\ D!FindLog4jStamp(led) # {}
  <2>1. k \in b + 2 .. Len(raw) /\ raw[k - 1] = "sp" /\ Within(raw, k) /\ Stamped(raw, k)
    BY <1>0, <1>3, <1>6 DEF Later
  <2> PICK j \in 2 .. Len(led) : k = b + j
    <3>1. k - b \in 2 .. Len(led) /\ k = b + (k - b)
      BY <1>0, <2>1
    <3> QED BY <3>1
  <2>2. Len(led) >= 2 /\ led[1] # "sp" /\ led # <<>>
    <3>1. Len(led) >= 2 /\ b < Len(raw) /\ 1 \in 1 .. Len(raw) - b
      BY <1>0
    <3>2. led # <<>>
      BY <3>1
    <3> QED BY <3>1, <3>2
  <2>3. After(led, 1, {"sp"}) = 1
    <3> PICK a : a = After(led, 1, {"sp"})
      OBVIOUS
    <3>1. a \in 1 .. Len(led) + 1 /\ \A m \in 1 .. a - 1 : led[m] \in {"sp"}
      <4>1. 1 \in Nat /\ 1 <= Len(led) + 1 /\ Len(led) \in Nat
        BY <1>0
      <4> QED BY <4>1, AfterType
    <3>2. a > 1 => 1 \in 1 .. a - 1
      BY <3>1
    <3> QED BY <2>2, <3>1, <3>2
  <2>4. Stamped(led, j) /\ led[j - 1] = "sp" /\ Within(led, j) /\ HasPid(led, j)
    <3>1. raw[b + j - 1] = "sp" /\ Within(raw, b + j) /\ Stamped(raw, b + j) /\ HasPid(raw, b + j)
      BY <1>6, <2>1
    <3>2. /\ Stamped(raw, b + j) <=> Stamped(led, j)
          /\ raw[b + j - 1] = led[j - 1]
          /\ Within(raw, b + j) => Within(led, j)
          /\ Stamped(led, j) => (HasPid(raw, b + j) <=> HasPid(led, j))
      BY <1>1, StampsShift
    <3> QED BY <3>1, <3>2, Zenon
  <2>5. Later(led) = {i \in 2 .. Len(led) : led[i - 1] = "sp" /\ Within(led, i) /\ Stamped(led, i)}
    BY <1>3, <2>3 DEF Later
  <2>6. j \in Later(led)
    BY <2>4, <2>5
  <2>7. ASSUME NEW n \in Later(led) PROVE j <= n
    <3>1. n \in 2 .. Len(led) /\ led[n - 1] = "sp" /\ Stamped(led, n)
      BY <2>5
    <3> SUFFICES ASSUME n < j PROVE FALSE
      BY <1>0, <3>1
    <3>2. b + n \in After(raw, 1, {"sp"}) + 1 .. Len(raw) /\ raw[b + n - 1] = "sp" /\ Stamped(raw, b + n)
      BY <1>0, <1>1, <3>1, StampsShift
    <3>3. Within(raw, b + n)
      <4>1. (b + n) - 1 \in 0 .. Len(raw) /\ k - 1 \in 0 .. Len(raw) /\ (b + n) - 1 <= k - 1
        BY <1>0, <3>1
      <4>2. D!Size(D!Upto(raw, (b + n) - 1)) \in Nat /\ D!Size(D!Upto(raw, k - 1)) \in Nat
            /\ D!Size(D!Upto(raw, (b + n) - 1)) <= D!Size(D!Upto(raw, k - 1))
        BY <4>1, SizeUptoGrows
      <4>3. D!Size(raw) \in Nat
        BY SizeType
      <4> PICK x \in Nat, y \in Nat, z \in Nat : x = D!Size(D!Upto(raw, (b + n) - 1)) /\ y = D!Size(D!Upto(raw, k - 1)) /\ z = D!Size(raw)
        BY <4>2, <4>3
      <4>4. x <= y /\ y + 20 <= (IF z < 96 THEN z ELSE 96)
        BY <2>1, <4>2 DEF Within
      <4>5. x + 20 <= (IF z < 96 THEN z ELSE 96)
        BY <4>4
      <4> QED BY <4>5 DEF Within
    <3>4. b + n \in Later(raw)
      BY <1>3, <3>2, <3>3 DEF Later
    <3>5. k <= b + n
      BY <1>6, <3>4
    <3> QED BY <1>0, <3>1, <3>5
  <2>8. D!FindLog4jStamp(led) # {}
    BY <2>4, <2>6, <2>7, StampFound
  <2> QED BY <2>2, <2>8
<1>7. CASE \E k \in Later(raw) : (\A n \in Later(raw) : k <= n) /\ HasPid(raw, k)
  <2>1. CASE D!IsoDateLed(led)
    <3>1. Len(led) >= 5
      BY <1>0, <2>1, DateIs DEF D!IsoDateLed
    <3>2. led # <<>>
      BY <3>1
    <3> QED BY <2>1, <3>2
  <2>2. CASE ~D!IsoDateLed(led)
    BY <1>6, <1>7, <2>2
  <2> QED BY <2>1, <2>2
<1> QED BY <1>4, <1>5, <1>7

----------------------------------------------------------------------------
(* What is offered for a line, and who claims it.                          *)

LEMMA ScoreRange ==
  ASSUME NEW text, NEW f \in DOMAIN D!ConfidenceOf(text)
  PROVE  /\ D!ConfidenceOf(text)[f] \in 0 .. 106
         /\ f \notin {"JSON", "CloudWatch", "SystemdJournal"} => D!ConfidenceOf(text)[f] \in 0 .. 95
         /\ D!OpensBrace(text) => D!ConfidenceOf(text)["JSON"] = 100
<1> DEFINE s == D!ConfidenceOf(text)
<1>1. s["JSON"] \in {0, 100} /\ (D!OpensBrace(text) => s["JSON"] = 100)
  BY ScoreOf DEF D!JSONConfidence
<1>2. s["CloudWatch"] \in {0, 105} /\ s["SystemdJournal"] \in {0, 106}
  BY ScoreOf DEF D!CloudWatchConfidence, D!SystemdJournalConfidence, D!Score
<1>3. s["Syslog"] \in {0, 80, 85} /\ s["Rfc3339Text"] \in {0, 80} /\ s["CLF"] \in {0, 95} /\ s["AndroidLogcat"] \in {0, 90}
  BY ScoreOf DEF D!SyslogConfidence, D!Rfc3339TextConfidence, D!CLFConfidence, D!AndroidLogcatConfidence
<1>4. s["KeyValue"] \in {0, 30, 70, 90} /\ s["RawText"] = 0
  BY ScoreOf DEF D!KVConfidence
<1>5. s["HealthApp"] \in {0, 92} /\ s["BGL"] \in {0, 90} /\ s["Proxifier"] \in {0, 90} /\ s["ApacheError"] \in {0, 88}
  BY ScoreOf DEF D!HealthAppConfidence, D!BGLConfidence, D!ProxifierConfidence, D!ApacheErrorConfidence, D!Score
<1>6. s["WindowsCBS"] \in {0, 88} /\ s["SparkHDFS"] \in {0, 85} /\ s["Log4j"] \in {0, 82} /\ s["HPC"] \in {0, 80}
  BY ScoreOf DEF D!WindowsCBSConfidence, D!SparkHDFSConfidence, D!Log4jConfidence, D!HPCConfidence, D!Score
<1>7. s["NginxError"] \in {0, 89} /\ s["IISW3C"] \in {0, 87} /\ s["RFC5424"] \in {0, 92}
  BY ScoreOf DEF D!NginxErrorConfidence, D!IISW3CConfidence, D!RFC5424Confidence, D!Score
<1>8. f \in {"JSON", "CloudWatch", "SystemdJournal", "Syslog", "Rfc3339Text", "CLF", "KeyValue", "HealthApp", "BGL", "AndroidLogcat", "Proxifier", "ApacheError", "WindowsCBS", "SparkHDFS", "Log4j", "HPC", "NginxError", "IISW3C", "RFC5424", "RawText"}
  BY ScoreOf
<1> HIDE DEF s
<1>9. f \notin {"JSON", "CloudWatch", "SystemdJournal"} => s[f] \in 0 .. 95
  BY <1>3, <1>4, <1>5, <1>6, <1>7, <1>8
<1>10. s[f] \in 0 .. 106
  BY <1>1, <1>2, <1>9
<1> QED BY <1>1, <1>9, <1>10 DEF s

LEMMA PastRange ==
  ASSUME NEW text, NEW behind, NEW f \in DOMAIN D!ConfidenceOf(text)
  PROVE  /\ D!ConfidencePast(text, behind)[f] \in 0 .. 106
         /\ f \notin {"JSON", "CloudWatch", "SystemdJournal"} => D!ConfidencePast(text, behind)[f] \in 0 .. 95
         /\ D!OpensBrace(text) => D!ConfidencePast(text, behind)["JSON"] = 100
<1>1. "JSON" \in DOMAIN D!ConfidenceOf(text) \ {"Syslog"}
  BY ScoreOf
<1>2. D!ConfidencePast(text, behind)["JSON"] = D!ConfidenceOf(text)["JSON"]
  BY <1>1, PastOf
<1>3. CASE D!ConfidencePast(text, behind)[f] = D!ConfidenceOf(text)[f]
  BY <1>2, <1>3, ScoreRange
<1>4. CASE f = "Syslog" /\ D!ConfidencePast(text, behind)["Syslog"] \in {0, 85}
  BY <1>2, <1>4, ScoreRange
<1> QED BY <1>3, <1>4, PastOf

LEMMA LeadsFirst ==
  ASSUME NEW t, NEW p, 1 \in DOMAIN p, NEW c, p[1] = {c}, D!Leads(t, p)
  PROVE  t[1] = c
BY DEF D!Leads

LEMMA Heads ==
  ASSUME NEW a, NEW b, NEW c, NEW d, NEW e
  PROVE  /\ 1 \in DOMAIN <<a, b>> /\ <<a, b>>[1] = a
         /\ 1 \in DOMAIN <<a, b, c, d>> /\ <<a, b, c, d>>[1] = a
         /\ 1 \in DOMAIN <<a, b, c, d, e>> /\ <<a, b, c, d, e>>[1] = a
OBVIOUS

LEMMA RangeWithout ==
  /\ \A i \in 1 .. 21 : i \notin {1, 2, 3} => i \in 4 .. 21
  /\ \A i \in 4 .. 21 : i \notin {5, 6, 7, 8, 9, 10, 11, 12, 13, 14, 15, 16, 17} => i \in (4 .. 4 + 3) \cup (18 .. 21)
  /\ \A i \in 4 .. 21 : i \notin {4, 9, 10, 11, 12, 13, 14, 15, 16, 17} => i \in (5 .. 5 + 3) \cup (18 .. 21)
  /\ \A i \in 4 .. 21 : i \notin {4, 5, 6, 7, 8} /\ i \notin {13, 14, 15, 16, 17} => i \in (9 .. 9 + 3) \cup (18 .. 21)
  /\ \A i \in 4 .. 21 : i \notin {4, 5, 6, 7, 8} /\ i \notin {9, 10, 11, 12} => i \in 13 .. 21
  /\ \A i \in 13 .. 21 : i \notin {15, 16, 17} => i \in (13 .. 13 + 3) \cup (18 .. 21)
  /\ \A i \in 13 .. 21 : i \notin {13, 14} => i \in (14 .. 14 + 3) \cup (18 .. 21)
OBVIOUS

(* Every layout opens with cells of its own: what is offered for them      *)
(* stands together in the table.                                           *)
LEMMA OfferedTogether ==
  ASSUME NEW raw, IsSequence(raw), NEW led, led = D!Skip(raw), led # <<>>, led[1] # "{"
  PROVE  \E a \in Nat : Offered(D!ShapesOf(raw)) \subseteq (a .. a + 3) \cup (18 .. 21)
<1> DEFINE h == D!ShapesOf(raw)
<1>0. Len(led) \in Nat
  BY SkipIs
<1>1. \A i \in Offered(h) : i \in 1 .. 21 /\ Table[i][1] \in h
  BY DEF Offered
<1>2. Table[1][1] = "brace" /\ Table[2][1] = "brace" /\ Table[3][1] = "brace" /\ Table[4][1] = "angle" /\ Table[5][1] = "dashOrUpper"
  BY DEF Table
<1>3. Table[6][1] = "bracketWord" /\ Table[7][1] = "bracketDate" /\ Table[8][1] = "month" /\ Table[9][1] = "slashDate"
  BY DEF Table
<1>4. Table[10][1] = "shortDate" /\ Table[11][1] = "compactDate" /\ Table[12][1] = "monthDay" /\ Table[13][1] = "isoT" /\ Table[14][1] = "isoT"
  BY DEF Table
<1>5. Table[15][1] = "isoDate" /\ Table[16][1] = "isoDate" /\ Table[17][1] = "isoDate"
  BY DEF Table
<1>6. "brace" \notin h
  BY ShapesAre
<1>7. "angle" \in h => led[1] = "<"
  BY ShapesAre
<1>8. "dashOrUpper" \in h => led[1] \in {"-"} \cup D!UpperFirst
  BY ShapesAre
<1>9. "bracketWord" \in h \/ "bracketDate" \in h => led[1] = "["
  <2>0. \A W : 1 \in DOMAIN <<{"["}, W>> /\ <<{"["}, W>>[1] = {"["}
    BY Heads, Zenon
  <2>1. D!Leads(led, <<{"["}, D!Words>>) \/ D!Leads(led, <<{"["}, D!DigitRun>>) => led[1] = "["
    BY <2>0, LeadsFirst
  <2> QED BY <2>1, ShapesAre
<1>10. "month" \in h => led[1] \in D!Words
  <2>1. D!LooksLikeMonth(led) => led[1] \in D!Words
    BY DEF D!LooksLikeMonth
  <2> QED BY <2>1, ShapesAre
<1>11. "slashDate" \in h => led[1] = "d4" /\ led[2] = "/"
  <2>1. D!Leads(led, D!DateLead("/")) => led[1] = "d4" /\ led[2] = "/"
    BY <1>0, DateIs
  <2> QED BY <2>1, ShapesAre
<1>12. "shortDate" \in h => led[1] = "d2"
  <2> PICK W : W = D!Wider(2)
    OBVIOUS
  <2>0. 1 \in DOMAIN <<{"d2"}, {"/"}, {"d2"}, {"/"}, W>> /\ <<{"d2"}, {"/"}, {"d2"}, {"/"}, W>>[1] = {"d2"}
    BY Heads, Zenon
  <2>1. D!Leads(led, <<{"d2"}, {"/"}, {"d2"}, {"/"}, W>>) => led[1] = "d2"
    BY <2>0, LeadsFirst
  <2> QED BY <2>1, ShapesAre
<1>13. "monthDay" \in h => led[1] = "d2"
  <2>0. 1 \in DOMAIN <<{"d2"}, {"-"}, {"d2"}, {"sp"}>> /\ <<{"d2"}, {"-"}, {"d2"}, {"sp"}>>[1] = {"d2"}
    BY Heads, Zenon
  <2>1. D!Leads(led, <<{"d2"}, {"-"}, {"d2"}, {"sp"}>>) => led[1] = "d2"
    BY <2>0, LeadsFirst
  <2> QED BY <2>1, ShapesAre
<1>14. "compactDate" \in h => led[1] = "d8"
  <2>0. 1 \in DOMAIN <<{"d8"}, {"-"}>> /\ <<{"d8"}, {"-"}>>[1] = {"d8"}
    BY Heads, Zenon
  <2>1. D!Leads(led, <<{"d8"}, {"-"}>>) => led[1] = "d8"
    BY <2>0, LeadsFirst
  <2> QED BY <2>1, ShapesAre
<1>15. "isoT" \in h => D!IsoTimeLed(led) /\ led[1] = "d4" /\ led[2] = "-"
  <2>1. D!IsoTimeLed(led) => led[1] = "d4" /\ led[2] = "-"
    BY <1>0, DateIs DEF D!IsoTimeLed
  <2> QED BY <2>1, ShapesAre
<1>16. "isoDate" \in h => ~D!IsoTimeLed(led) /\ led[1] = "d4" /\ led[2] = "-"
  <2>1. D!IsoDateLed(led) => led[1] = "d4" /\ led[2] = "-"
    BY <1>0, DateIs DEF D!IsoDateLed
  <2> QED BY <2>1, ShapesAre
<1>17. D!UpperFirst \subseteq D!Words /\ "<" \notin D!Words /\ "[" \notin D!Words /\ "-" \notin D!Words
       /\ "d2" \notin D!Words /\ "d4" \notin D!Words /\ "d8" \notin D!Words
  BY DEF D!UpperFirst, D!AllUpper, D!Words, D!WordWidth
<1> HIDE DEF h
<1>18. \A i \in Offered(h) : i \in 4 .. 21
  <2>1. \A i \in Offered(h) : i \in 1 .. 21 /\ i \notin {1, 2, 3}
    BY <1>1, <1>2, <1>6
  <2> QED BY <2>1, RangeWithout
<1>19. CASE led[1] = "<"
  <2>1. \A i \in Offered(h) : i \notin {5, 6, 7, 8, 9, 10, 11, 12, 13, 14, 15, 16, 17}
    BY <1>1, <1>2, <1>3, <1>4, <1>5, <1>8, <1>9, <1>10, <1>11, <1>12, <1>13, <1>14, <1>15, <1>16, <1>17, <1>19
  <2>2. Offered(h) \subseteq (4 .. 4 + 3) \cup (18 .. 21)
    BY <1>18, <2>1, RangeWithout
  <2> QED BY <2>2 DEF h
<1>20. CASE led[1] \in {"-", "["} \cup D!Words
  <2>1. \A i \in Offered(h) : i \notin {4, 9, 10, 11, 12, 13, 14, 15, 16, 17}
    BY <1>1, <1>2, <1>3, <1>4, <1>5, <1>7, <1>11, <1>12, <1>13, <1>14, <1>15, <1>16, <1>17, <1>20
  <2>2. Offered(h) \subseteq (5 .. 5 + 3) \cup (18 .. 21)
    BY <1>18, <2>1, RangeWithout
  <2> QED BY <2>2 DEF h
<1>21. CASE led[1] \notin {"<", "-", "["} \cup D!Words
  <2>1. \A i \in Offered(h) : i \notin {4, 5, 6, 7, 8}
    BY <1>1, <1>2, <1>3, <1>7, <1>8, <1>9, <1>10, <1>17, <1>21
  <2>2. CASE ~(led[1] = "d4" /\ led[2] = "-")
    <3>1. \A i \in Offered(h) : i \notin {13, 14, 15, 16, 17}
      BY <1>1, <1>4, <1>5, <1>15, <1>16, <2>2
    <3>2. Offered(h) \subseteq (9 .. 9 + 3) \cup (18 .. 21)
      BY <1>18, <2>1, <3>1, RangeWithout
    <3> QED BY <3>2 DEF h
  <2>3. CASE led[1] = "d4" /\ led[2] = "-"
    <3>1. \A i \in Offered(h) : i \notin {9, 10, 11, 12}
      BY <1>1, <1>3, <1>4, <1>11, <1>12, <1>13, <1>14, <2>3
    <3>2. CASE D!IsoTimeLed(led)
      <4>1. \A i \in Offered(h) : i \notin {15, 16, 17}
        BY <1>1, <1>5, <1>16, <3>2
      <4>2. Offered(h) \subseteq (13 .. 13 + 3) \cup (18 .. 21)
        BY <1>18, <2>1, <3>1, <4>1, RangeWithout
      <4> QED BY <4>2 DEF h
    <3>3. CASE ~D!IsoTimeLed(led)
      <4>1. \A i \in Offered(h) : i \notin {13, 14}
        BY <1>1, <1>4, <1>15, <3>3
      <4>2. Offered(h) \subseteq (14 .. 14 + 3) \cup (18 .. 21)
        BY <1>18, <2>1, <3>1, <4>1, RangeWithout
      <4> QED BY <4>2 DEF h
    <3> QED BY <3>2, <3>3
  <2> QED BY <2>2, <2>3
<1> QED BY <1>19, <1>20, <1>21


LEMMA LenOfFive == ASSUME NEW a, NEW b, NEW c, NEW d, NEW e PROVE Len(<<a, b, c, d, e>>) = 5
OBVIOUS

LEMMA NotEmpty == ASSUME NEW t, IsSequence(t), t # <<>> PROVE Len(t) \in Nat /\ Len(t) >= 1
<1> DEFINE A == {t[i] : i \in DOMAIN t}
<1>1. t \in Seq(A)
  BY DEF IsSequence
<1> HIDE DEF A
<1> QED BY <1>1

\* Where the table offers a format for a shape.
Offers(shape, f) == \E i \in 1 .. 21 : Table[i][1] = shape /\ Table[i][2] = f

LEMMA TableOffers ==
  /\ Offers("brace", "SystemdJournal")
  /\ Offers("brace", "CloudWatch")
  /\ Offers("brace", "JSON")
  /\ Offers("angle", "RFC5424")
  /\ Offers("dashOrUpper", "BGL")
  /\ Offers("bracketWord", "ApacheError")
  /\ Offers("bracketDate", "Proxifier")
  /\ Offers("month", "Syslog")
  /\ Offers("slashDate", "NginxError")
  /\ Offers("shortDate", "SparkHDFS")
  /\ Offers("compactDate", "HealthApp")
  /\ Offers("monthDay", "AndroidLogcat")
  /\ Offers("isoT", "Syslog")
  /\ Offers("isoT", "Rfc3339Text")
  /\ Offers("isoDate", "WindowsCBS")
  /\ Offers("isoDate", "IISW3C")
  /\ Offers("isoDate", "Log4j")
  /\ Offers("log4jStamp", "Log4j")
  /\ Offers("clf", "CLF")
  /\ Offers("hpc", "HPC")
  /\ Offers("kvMarker", "KeyValue")
<1>1. 1 \in 1 .. 21 /\ Table[1][1] = "brace" /\ Table[1][2] = "SystemdJournal"
  BY DEF Table
<1>2. 2 \in 1 .. 21 /\ Table[2][1] = "brace" /\ Table[2][2] = "CloudWatch"
  BY DEF Table
<1>3. 3 \in 1 .. 21 /\ Table[3][1] = "brace" /\ Table[3][2] = "JSON"
  BY DEF Table
<1>4. 4 \in 1 .. 21 /\ Table[4][1] = "angle" /\ Table[4][2] = "RFC5424"
  BY DEF Table
<1>5. 5 \in 1 .. 21 /\ Table[5][1] = "dashOrUpper" /\ Table[5][2] = "BGL"
  BY DEF Table
<1>6. 6 \in 1 .. 21 /\ Table[6][1] = "bracketWord" /\ Table[6][2] = "ApacheError"
  BY DEF Table
<1>7. 7 \in 1 .. 21 /\ Table[7][1] = "bracketDate" /\ Table[7][2] = "Proxifier"
  BY DEF Table
<1>8. 8 \in 1 .. 21 /\ Table[8][1] = "month" /\ Table[8][2] = "Syslog"
  BY DEF Table
<1>9. 9 \in 1 .. 21 /\ Table[9][1] = "slashDate" /\ Table[9][2] = "NginxError"
  BY DEF Table
<1>10. 10 \in 1 .. 21 /\ Table[10][1] = "shortDate" /\ Table[10][2] = "SparkHDFS"
  BY DEF Table
<1>11. 11 \in 1 .. 21 /\ Table[11][1] = "compactDate" /\ Table[11][2] = "HealthApp"
  BY DEF Table
<1>12. 12 \in 1 .. 21 /\ Table[12][1] = "monthDay" /\ Table[12][2] = "AndroidLogcat"
  BY DEF Table
<1>13. 13 \in 1 .. 21 /\ Table[13][1] = "isoT" /\ Table[13][2] = "Syslog"
  BY DEF Table
<1>14. 14 \in 1 .. 21 /\ Table[14][1] = "isoT" /\ Table[14][2] = "Rfc3339Text"
  BY DEF Table
<1>15. 15 \in 1 .. 21 /\ Table[15][1] = "isoDate" /\ Table[15][2] = "WindowsCBS"
  BY DEF Table
<1>16. 16 \in 1 .. 21 /\ Table[16][1] = "isoDate" /\ Table[16][2] = "IISW3C"
  BY DEF Table
<1>17. 17 \in 1 .. 21 /\ Table[17][1] = "isoDate" /\ Table[17][2] = "Log4j"
  BY DEF Table
<1>18. 18 \in 1 .. 21 /\ Table[18][1] = "log4jStamp" /\ Table[18][2] = "Log4j"
  BY DEF Table
<1>19. 19 \in 1 .. 21 /\ Table[19][1] = "clf" /\ Table[19][2] = "CLF"
  BY DEF Table
<1>20. 20 \in 1 .. 21 /\ Table[20][1] = "hpc" /\ Table[20][2] = "HPC"
  BY DEF Table
<1>21. 21 \in 1 .. 21 /\ Table[21][1] = "kvMarker" /\ Table[21][2] = "KeyValue"
  BY DEF Table
<1>31. Offers("brace", "SystemdJournal")
  BY <1>1 DEF Offers
<1>32. Offers("brace", "CloudWatch")
  BY <1>2 DEF Offers
<1>33. Offers("brace", "JSON")
  BY <1>3 DEF Offers
<1>34. Offers("angle", "RFC5424")
  BY <1>4 DEF Offers
<1>35. Offers("dashOrUpper", "BGL")
  BY <1>5 DEF Offers
<1>36. Offers("bracketWord", "ApacheError")
  BY <1>6 DEF Offers
<1>37. Offers("bracketDate", "Proxifier")
  BY <1>7 DEF Offers
<1>38. Offers("month", "Syslog")
  BY <1>8 DEF Offers
<1>39. Offers("slashDate", "NginxError")
  BY <1>9 DEF Offers
<1>40. Offers("shortDate", "SparkHDFS")
  BY <1>10 DEF Offers
<1>41. Offers("compactDate", "HealthApp")
  BY <1>11 DEF Offers
<1>42. Offers("monthDay", "AndroidLogcat")
  BY <1>12 DEF Offers
<1>43. Offers("isoT", "Syslog")
  BY <1>13 DEF Offers
<1>44. Offers("isoT", "Rfc3339Text")
  BY <1>14 DEF Offers
<1>45. Offers("isoDate", "WindowsCBS")
  BY <1>15 DEF Offers
<1>46. Offers("isoDate", "IISW3C")
  BY <1>16 DEF Offers
<1>47. Offers("isoDate", "Log4j")
  BY <1>17 DEF Offers
<1>48. Offers("log4jStamp", "Log4j")
  BY <1>18 DEF Offers
<1>49. Offers("clf", "CLF")
  BY <1>19 DEF Offers
<1>50. Offers("hpc", "HPC")
  BY <1>20 DEF Offers
<1>51. Offers("kvMarker", "KeyValue")
  BY <1>21 DEF Offers
<1> QED BY <1>31, <1>32, <1>33, <1>34, <1>35, <1>36, <1>37, <1>38, <1>39, <1>40, <1>41, <1>42, <1>43, <1>44, <1>45, <1>46, <1>47, <1>48, <1>49, <1>50, <1>51

(* Unless a gate stands before it, a claim has its shape.                  *)
LEMMA BsdHasShape ==
  ASSUME NEW raw, IsSequence(raw), D!IsBsdSyslogPrefix(raw), "Syslog" \notin NeverOffered(raw)
  PROVE  D!Skip(raw) # <<>> /\ \E shape \in D!ShapesOf(raw) : Offers(shape, "Syslog")
<1>1. raw # <<>> /\ raw[1] = "Mon"
  BY DEF D!IsBsdSyslogPrefix, D!FirstIs
<1>2. Len(raw) \in Nat /\ Len(raw) >= 1
  BY <1>1, SkipIs, NotEmpty
<1>3. D!Skip(raw) = raw
  BY <1>1, <1>2, SkipSelf
<1>4. D!LooksLikeMonth(raw)
  BY <1>3 DEF NeverOffered
<1>5. "month" \in D!ShapesOf(raw)
  BY <1>1, <1>3, <1>4, ShapesAre
<1> QED BY <1>1, <1>3, <1>5, TableOffers

LEMMA ClaimHasShape ==
  ASSUME NEW raw, IsSequence(raw), NEW led, led = D!Skip(raw), NEW f \in DOMAIN D!ConfidenceOf(raw),
         D!ConfidenceOf(raw)[f] > 0, f \notin NeverOffered(raw)
  PROVE  led # <<>> /\ \E shape \in D!ShapesOf(raw) : Offers(shape, f)
<1> DEFINE s == D!ConfidenceOf(raw)
<1>0. Len(raw) \in Nat /\ Len(led) \in Nat /\ DOMAIN led = 1 .. Len(led) /\ IsSequence(led)
  BY SkipIs
<1>1. f \in {"JSON", "CloudWatch", "SystemdJournal", "Syslog", "Rfc3339Text", "CLF", "KeyValue", "HealthApp", "BGL", "AndroidLogcat", "Proxifier", "ApacheError", "WindowsCBS", "SparkHDFS", "Log4j", "HPC", "NginxError", "IISW3C", "RFC5424", "RawText"}
  BY ScoreOf
<1>2. f # "RawText"
  BY ScoreOf
<1>3. /\ ~D!IsSparkPrefix(led) => "SparkHDFS" \in NeverOffered(raw)
      /\ ~D!LooksLikeHPC(led) => "HPC" \in NeverOffered(raw)
      /\ ~D!LooksLikeCLF(led) => "CLF" \in NeverOffered(raw)
      /\ ~(D!IsBsdSyslogPrefix(led) => D!LooksLikeMonth(led)) => "Syslog" \in NeverOffered(raw)
      /\ D!IsoTimeLed(led) => "Log4j" \in NeverOffered(raw)
  BY DEF NeverOffered
<1>4. CASE f = "JSON"
  <2>1. D!OpensBrace(raw)
    BY <1>4, ScoreOf DEF D!JSONConfidence
  <2>2. led # <<>> /\ led[1] = "{"
    BY <2>1 DEF D!OpensBrace, D!FirstIs
  <2>3. "brace" \in D!ShapesOf(raw)
    BY <2>2, ShapesAre
  <2> QED BY <1>4, <2>2, <2>3, TableOffers
<1>5. CASE f = "CloudWatch"
  <2>1. D!OpensBrace(raw)
    BY <1>5, ScoreOf DEF D!CloudWatchConfidence, D!Score
  <2>2. led # <<>> /\ led[1] = "{"
    BY <2>1 DEF D!OpensBrace, D!FirstIs
  <2>3. "brace" \in D!ShapesOf(raw)
    BY <2>2, ShapesAre
  <2> QED BY <1>5, <2>2, <2>3, TableOffers
<1>6. CASE f = "SystemdJournal"
  <2>1. D!OpensBrace(raw)
    BY <1>6, ScoreOf DEF D!SystemdJournalConfidence, D!Score
  <2>2. led # <<>> /\ led[1] = "{"
    BY <2>1 DEF D!OpensBrace, D!FirstIs
  <2>3. "brace" \in D!ShapesOf(raw)
    BY <2>2, ShapesAre
  <2> QED BY <1>6, <2>2, <2>3, TableOffers
<1>7. CASE f = "RFC5424"
  <2>1. D!IsRfc5424Prefix(raw)
    BY <1>7, ScoreOf DEF D!RFC5424Confidence, D!Score
  <2>2. D!Skip(raw) = raw /\ raw # <<>>
    BY <2>1, Rfc5424Opens
  <2>3. "angle" \in D!ShapesOf(raw)
    BY <2>1, <2>2, Rfc5424Opens, ShapesAre
  <2> QED BY <1>7, <2>2, <2>3, TableOffers
<1>8. CASE f = "ApacheError"
  <2>1. D!IsApacheErrorPrefix(raw)
    BY <1>8, ScoreOf DEF D!ApacheErrorConfidence, D!Score
  <2>2. D!Skip(raw) = raw /\ raw # <<>>
    BY <2>1, ApacheOpens
  <2>3. "bracketWord" \in D!ShapesOf(raw)
    BY <2>1, <2>2, ApacheOpens, ShapesAre
  <2> QED BY <1>8, <2>2, <2>3, TableOffers
<1>9. CASE f = "Proxifier"
  <2>1. D!IsProxifierPrefix(raw)
    BY <1>9, ScoreOf DEF D!ProxifierConfidence, D!Score
  <2>2. D!Skip(raw) = raw /\ raw # <<>>
    BY <2>1, ProxifierOpens
  <2>3. "bracketDate" \in D!ShapesOf(raw)
    BY <2>1, <2>2, ProxifierOpens, ShapesAre
  <2> QED BY <1>9, <2>2, <2>3, TableOffers
<1>10. CASE f = "NginxError"
  <2>1. D!IsNginxErrorPrefix(raw)
    BY <1>10, ScoreOf DEF D!NginxErrorConfidence, D!Score
  <2>2. D!Skip(raw) = raw /\ raw # <<>>
    BY <2>1, NginxOpens
  <2>3. "slashDate" \in D!ShapesOf(raw)
    BY <2>1, <2>2, NginxOpens, ShapesAre
  <2> QED BY <1>10, <2>2, <2>3, TableOffers
<1>11. CASE f = "HealthApp"
  <2>1. D!IsHealthAppPrefix(raw)
    BY <1>11, ScoreOf DEF D!HealthAppConfidence, D!Score
  <2>2. D!Skip(raw) = raw /\ raw # <<>>
    BY <2>1, HealthAppOpens
  <2>3. "compactDate" \in D!ShapesOf(raw)
    BY <2>1, <2>2, HealthAppOpens, ShapesAre DEF D!kMinCompactTimestampLength
  <2> QED BY <1>11, <2>2, <2>3, TableOffers
<1>12. CASE f = "AndroidLogcat"
  <2>1. D!HasLogcatPrefix(raw)
    BY <1>12, ScoreOf DEF D!AndroidLogcatConfidence
  <2>2. D!Skip(raw) = raw /\ raw # <<>>
    BY <2>1, LogcatOpens
  <2>3. "monthDay" \in D!ShapesOf(raw)
    BY <2>1, <2>2, LogcatOpens, ShapesAre DEF D!kMinCompactTimestampLength
  <2> QED BY <1>12, <2>2, <2>3, TableOffers
<1>13. CASE f = "Rfc3339Text"
  <2>1. D!IsRfc3339Prefix(raw)
    BY <1>13, ScoreOf DEF D!Rfc3339TextConfidence
  <2>2. D!Skip(raw) = raw /\ raw # <<>>
    BY <2>1, Rfc3339Opens
  <2>3. "isoT" \in D!ShapesOf(raw)
    BY <2>1, <2>2, Rfc3339Opens, ShapesAre
  <2> QED BY <1>13, <2>2, <2>3, TableOffers
<1>14. CASE f = "WindowsCBS"
  <2>0. D!WindowsCBSConfidence(raw) # 0
    BY <1>14, ScoreOf
  <2>1. D!IsIsoDatetimeSpacePrefix(raw, FALSE)
    BY <2>0, Zenon DEF D!WindowsCBSConfidence, D!Score
  <2>2. D!Skip(raw) = raw /\ raw # <<>>
    BY <2>1, IsoSpaceOpens
  <2>3. "isoDate" \in D!ShapesOf(raw)
    BY <2>1, <2>2, IsoSpaceOpens, ShapesAre
  <2> QED BY <1>14, <2>2, <2>3, TableOffers
<1>15. CASE f = "IISW3C"
  <2>0. D!IISW3CConfidence(raw) # 0
    BY <1>15, ScoreOf
  <2>1. D!IsIsoDatetimeSpacePrefix(raw, FALSE)
    BY <2>0, Zenon DEF D!IISW3CConfidence, D!Score
  <2>2. D!Skip(raw) = raw /\ raw # <<>>
    BY <2>1, IsoSpaceOpens
  <2>3. "isoDate" \in D!ShapesOf(raw)
    BY <2>1, <2>2, IsoSpaceOpens, ShapesAre
  <2> QED BY <1>15, <2>2, <2>3, TableOffers
<1>16. CASE f = "BGL"
  <2>1. D!BGLParse(raw) # {}
    BY <1>16, ScoreOf DEF D!BGLConfidence, D!Score
  <2>2. D!IsBglLabelledPrefix(raw)
    BY <2>1, Zenon DEF D!BGLParse
  <2>3. D!Skip(raw) = raw /\ raw # <<>>
    BY <2>2, BglOpens
  <2>4. "dashOrUpper" \in D!ShapesOf(raw)
    BY <2>2, <2>3, BglOpens, ShapesAre
  <2> QED BY <1>16, <2>3, <2>4, TableOffers
<1>17. CASE f = "KeyValue"
  <2>1. D!LeadsWithKvPair(raw)
    BY <1>17, ScoreOf DEF D!KVConfidence
  <2>2. led # <<>> /\ "kvMarker" \in D!ShapesOf(raw)
    BY <2>1, KeyValueOpens, ShapesAre
  <2> QED BY <1>17, <2>2, TableOffers
<1>18. CASE f = "SparkHDFS"
  <2>1. D!Leads(led, <<{"d2"}, {"/"}, {"d2"}, {"/"}, D!Wider(2)>>)
    BY <1>18, <1>0, <1>3, SparkOpens
  <2>2. led # <<>>
    <3> PICK W : W = D!Wider(2)
      OBVIOUS
    <3>1. Len(<<{"d2"}, {"/"}, {"d2"}, {"/"}, W>>) = 5
      BY LenOfFive
    <3>2. Len(led) >= 5
      BY <2>1, <3>1 DEF D!Leads
    <3> QED BY <3>2
  <2>3. "shortDate" \in D!ShapesOf(raw)
    BY <2>1, <2>2, ShapesAre
  <2> QED BY <1>18, <2>2, <2>3, TableOffers
<1>19. CASE f = "HPC"
  <2>1. D!LooksLikeHPC(led)
    BY <1>19, <1>3
  <2>2. led # <<>>
    BY <2>1 DEF D!LooksLikeHPC
  <2>3. "hpc" \in D!ShapesOf(raw)
    BY <2>1, <2>2, ShapesAre
  <2> QED BY <1>19, <2>2, <2>3, TableOffers
<1>20. CASE f = "CLF"
  <2>1. D!LooksLikeCLF(led)
    BY <1>20, <1>3
  <2>2. led # <<>>
    <3>1. D!Has(led, {"["})
      BY <2>1, Zenon DEF D!LooksLikeCLF
    <3>2. led = <<>> => DOMAIN led = {}
      OBVIOUS
    <3> QED BY <3>1, <3>2, Zenon DEF D!Has
  <2>3. "clf" \in D!ShapesOf(raw)
    BY <2>1, <2>2, ShapesAre
  <2> QED BY <1>20, <2>2, <2>3, TableOffers
<1>21. CASE f = "Log4j"
  <2>1. D!FindLog4jStamp(raw) # {}
    BY <1>21, ScoreOf DEF D!Log4jConfidence, D!Score
  <2>2. led # <<>> /\ (D!IsoDateLed(led) \/ D!FindLog4jStamp(led) # {})
    BY <2>1, Log4jOpens
  <2>3. ~D!IsoTimeLed(led)
    BY <1>21, <1>3
  <2>4. "isoDate" \in D!ShapesOf(raw) \/ "log4jStamp" \in D!ShapesOf(raw)
    BY <2>2, <2>3, ShapesAre
  <2> QED BY <1>21, <2>2, <2>4, TableOffers
<1>22. CASE f = "Syslog"
  <2>1. D!SyslogHeader(raw) # {}
    BY <1>22, ScoreOf DEF D!SyslogConfidence
  <2>2. D!IsBsdSyslogPrefix(raw) \/ D!IsRfc3339Prefix(raw)
    BY <2>1, Zenon DEF D!SyslogHeader
  <2>3. CASE D!IsBsdSyslogPrefix(raw)
    BY <1>22, <2>3, BsdHasShape
  <2>4. CASE D!IsRfc3339Prefix(raw)
    <3>1. led = raw /\ raw # <<>> /\ D!IsoTimeLed(raw)
      BY <2>4, Rfc3339Opens
    <3>2. "isoT" \in D!ShapesOf(raw)
      BY <3>1, ShapesAre
    <3> QED BY <1>22, <3>1, <3>2, TableOffers
  <2> QED BY <2>2, <2>3, <2>4
<1> QED BY <1>1, <1>2, <1>4, <1>5, <1>6, <1>7, <1>8, <1>9, <1>10, <1>11, <1>12, <1>13, <1>14, <1>15, <1>16, <1>17, <1>18, <1>19, <1>20, <1>21, <1>22


LEMMA TableFormats ==
  ASSUME NEW text, NEW behind, NEW i \in 1 .. 21
  PROVE  Table[i][2] \in DOMAIN D!ConfidenceOf(text) /\ Table[i][2] # "none" /\ D!ConfidencePast(text, behind)[Table[i][2]] \in 0 .. 106
<1>1. Table[i][2] \in {"JSON", "CloudWatch", "SystemdJournal", "Syslog", "Rfc3339Text", "CLF", "KeyValue", "HealthApp", "BGL", "AndroidLogcat", "Proxifier", "ApacheError", "WindowsCBS", "SparkHDFS", "Log4j", "HPC", "NginxError", "IISW3C", "RFC5424", "RawText"}
  <2>1. i \in {1, 2, 3, 4, 5, 6, 7} \/ i \in {8, 9, 10, 11, 12, 13, 14} \/ i \in {15, 16, 17, 18, 19, 20, 21}
    OBVIOUS
  <2>2. CASE i \in {1, 2, 3, 4, 5, 6, 7}
    BY <2>2 DEF Table
  <2>3. CASE i \in {8, 9, 10, 11, 12, 13, 14}
    BY <2>3 DEF Table
  <2>4. CASE i \in {15, 16, 17, 18, 19, 20, 21}
    BY <2>4 DEF Table
  <2> QED BY <2>1, <2>2, <2>3, <2>4
<1> PICK f : f = Table[i][2]
  OBVIOUS
<1>2. f \in DOMAIN D!ConfidenceOf(text) /\ f # "none"
  BY <1>1, ScoreOf
<1> QED BY <1>2, PastRange

(* An offer that scores, of those that decide, is at most the detected     *)
(* strategy's.                                                             *)
LEMMA OfferedIsBeaten ==
  ASSUME NEW raw, NEW behind, NEW s, s = D!ConfidencePast(raw, behind), NEW g, Deciding(D!ShapesOf(raw), g),
         NEW a \in Nat, Offered(g) \subseteq (a .. a + 3) \cup (18 .. 21),
         NEW f, NEW shape \in g, Offers(shape, f), s[f] > 0
  PROVE  D!DetectedFormat(raw, s) # "none" /\ s[f] <= s[D!DetectedFormat(raw, s)]
<1>1. PICK i \in 1 .. 21 : Table[i][1] = shape /\ Table[i][2] = f
  BY DEF Offers
<1>2. i \in Offered(g)
  BY <1>1 DEF Offered
<1>3. Ranged(s)
  BY TableFormats DEF Ranged
<1>4. s[Table[i][2]] > 0
  BY <1>1
<1>5. PICK w \in Fresh(g) : /\ Detected(raw, D!ShapesOf(raw), s) = Table[w][2]
                            /\ s[Table[i][2]] <= s[Table[w][2]]
  BY <1>2, <1>3, <1>4, DetectIsBest
<1>6. D!DetectedFormat(raw, s) = Table[w][2]
  BY <1>5, Zenon DEF D!DetectedFormat, Detected
<1>7. w \in 1 .. 21
  BY DEF Fresh, Offered
<1> QED BY <1>1, <1>5, <1>6, <1>7, TableFormats

\* A line that is claimed for what stands behind it opens as syslog does.
LEMMA PastHasShape ==
  ASSUME NEW raw, IsSequence(raw), NEW behind, NEW f \in DOMAIN D!ConfidenceOf(raw),
         D!ConfidencePast(raw, behind)[f] > 0, f \notin NeverOffered(raw)
  PROVE  D!Skip(raw) # <<>> /\ \E shape \in D!ShapesOf(raw) : Offers(shape, f)
<1>1. CASE D!ConfidencePast(raw, behind)[f] = D!ConfidenceOf(raw)[f]
  BY <1>1, ClaimHasShape
<1>2. CASE f = "Syslog" /\ ~D!TrimsInLine(raw)
  BY <1>2, BsdHasShape DEF D!TrimsInLine
<1> QED BY <1>1, <1>2, PastOf

LEMMA ClaimIsBeaten ==
  ASSUME NEW raw, IsSequence(raw), NEW behind, NEW s, s = D!ConfidencePast(raw, behind), NEW f \in DOMAIN D!ConfidenceOf(raw),
         s[f] > 0, f \notin NeverOffered(raw)
  PROVE  D!DetectedFormat(raw, s) # "none" /\ s[f] <= s[D!DetectedFormat(raw, s)]
<1> PICK led : led = D!Skip(raw)
  OBVIOUS
<1>1. led # <<>> /\ \E shape \in D!ShapesOf(raw) : Offers(shape, f)
  BY PastHasShape
<1>2. PICK shape \in D!ShapesOf(raw) : Offers(shape, f)
  BY <1>1
<1>3. D!ShapesOf(raw) \cap {"empty", "blank"} = {} /\ ("brace" \in D!ShapesOf(raw) <=> led[1] = "{")
  BY <1>1, ShapesAre
<1>4. CASE led[1] # "{"
  <2>1. Deciding(D!ShapesOf(raw), D!ShapesOf(raw))
    BY <1>3, <1>4 DEF Deciding
  <2>2. PICK a \in Nat : Offered(D!ShapesOf(raw)) \subseteq (a .. a + 3) \cup (18 .. 21)
    BY <1>1, <1>4, OfferedTogether
  <2> QED BY <1>2, <2>1, <2>2, OfferedIsBeaten
<1>5. CASE led[1] = "{"
  <2>1. Deciding(D!ShapesOf(raw), {"brace"})
    BY <1>3, <1>5 DEF Deciding
  <2>2. Offered({"brace"}) \subseteq (1 .. 1 + 3) \cup (18 .. 21)
    <3>1. \A i \in {4, 5, 6, 7, 8, 9, 10, 11, 12, 13, 14, 15, 16, 17} : Table[i][1] # "brace"
      BY DEF Table
    <3>2. \A i \in 1 .. 21 : i \notin {4, 5, 6, 7, 8, 9, 10, 11, 12, 13, 14, 15, 16, 17} => i \in (1 .. 1 + 3) \cup (18 .. 21)
      OBVIOUS
    <3> QED BY <3>1, <3>2 DEF Offered
  <2>3. \A k : Offers("brace", k) /\ s[k] > 0 => D!DetectedFormat(raw, s) # "none" /\ s[k] <= s[D!DetectedFormat(raw, s)]
    <3>1. "brace" \in {"brace"} /\ 1 \in Nat
      OBVIOUS
    <3> QED BY <2>1, <2>2, <3>1, OfferedIsBeaten
  <2>4. CASE f \in {"JSON", "CloudWatch", "SystemdJournal"}
    BY <2>3, <2>4, TableOffers
  <2>5. CASE f \notin {"JSON", "CloudWatch", "SystemdJournal"}
    <3>1. s["JSON"] = 100 /\ s[f] \in 0 .. 95
      <4>1. D!OpensBrace(raw)
        BY <1>1, <1>5 DEF D!OpensBrace, D!FirstIs
      <4> QED BY <2>5, <4>1, PastRange
    <3>2. D!DetectedFormat(raw, s) # "none" /\ s["JSON"] <= s[D!DetectedFormat(raw, s)]
      BY <2>3, <3>1, TableOffers
    <3>3. s[D!DetectedFormat(raw, s)] \in 0 .. 106
      <4>1. \A k \in 1 .. 21 : s[Table[k][2]] \in 0 .. 106
        BY TableFormats
      <4>0. Ranged(s)
        BY <4>1 DEF Ranged
      <4>2. 3 \in Offered({"brace"}) /\ Table[3][2] = "JSON"
        BY DEF Offered, Table
      <4>3. s[Table[3][2]] > 0 /\ 1 \in Nat
        BY <3>1, <4>2
      <4>4. PICK w \in Fresh({"brace"}) : Detected(raw, D!ShapesOf(raw), s) = Table[w][2]
        BY <2>1, <2>2, <4>0, <4>2, <4>3, DetectIsBest
      <4>5. D!DetectedFormat(raw, s) = Table[w][2]
        BY <4>4, Zenon DEF D!DetectedFormat, Detected
      <4>6. w \in 1 .. 21
        BY DEF Fresh, Offered
      <4> QED BY <4>1, <4>5, <4>6
    <3> PICK x, y \in Int : x = s[f] /\ y = s[D!DetectedFormat(raw, s)]
      BY <3>1, <3>3
    <3>4. x <= y
      BY <3>1, <3>2
    <3> QED BY <3>2, <3>4
  <2> QED BY <2>4, <2>5
<1> QED BY <1>4, <1>5

(* The shortlist costs nothing: in every scored line the detected strategy *)
(* is one of the best of all those that claim it, those aside that a gate  *)
(* of candidates_for holds back.                                           *)
THEOREM ShortlistHolds == SpecRecord => []ShortlistLosesNothing
<1>1. LineIsScored => ShortlistLosesNothing
  <2> SUFFICES ASSUME LineIsScored, Scored, NEW f \in Claimed, f \notin NeverOffered(line.text)
      PROVE format # "none" /\ scores[f] <= scores[format]
    BY DEF ShortlistLosesNothing
  <2>1. PICK behind \in Memories : scores = D!ConfidencePast(line.text, behind)
    BY DEF LineIsScored, Scored
  <2>5. format = D!DetectedFormat(line.text, scores)
    BY DEF LineIsScored, Scored
  <2>2. line.text \in TextLines
    BY DEF LineIsScored, Scored, LinesRead
  <2>3. IsSequence(line.text)
    BY <2>2, TextLinesAssumption
  <2>4. f \in DOMAIN D!ConfidenceOf(line.text) /\ scores[f] > 0
    BY <2>1, PastOf DEF Claimed, Claims
  <2> QED BY <2>1, <2>3, <2>4, <2>5, ClaimIsBeaten
<1> QED BY <1>1, LineIsScoredHolds, PTL

----------------------------------------------------------------------------
(* The words behind a line.                                                *)

Foreign(cell) == cell \notin {"sp", "unix"}

\* The text ends in n of the extra words, each behind a blank but perhaps the first.
EndsIn(t, n) ==
  /\ IsSequence(t) /\ n \in Nat \ {0} /\ Len(t) >= 2 * n - 1
  /\ \A m \in 0 .. n - 1 : t[Len(t) - 2 * m] = "unix"
  /\ \A m \in 1 .. n : 2 * m <= Len(t) => t[Len(t) - 2 * m + 1] = "sp"

\* The same text, read through the instance.
LEMMA FromSame == \A t, i, cells : D!From(t, i) = From(t, i) /\ D!After(t, i, cells) = After(t, i, cells)
BY DEF D!From, From, D!After, After

(* What is foreign to the words stands before them.                        *)
LEMMA BeforeWords ==
  ASSUME NEW t, NEW n, EndsIn(t, n), NEW i \in 1 .. Len(t), Foreign(t[i])
  PROVE  i <= Len(t) - 2 * n /\ Len(t) \in Nat
<1>0. Len(t) \in Nat /\ n \in Nat
  BY SkipIs DEF EndsIn
<1> SUFFICES ASSUME i > Len(t) - 2 * n PROVE FALSE
  BY <1>0
<1>1. PICK d \in Nat : d = Len(t) - i /\ d < 2 * n
  BY <1>0
<1>2. PICK m \in Nat : d = 2 * m \/ d = 2 * m + 1
  <2>1. d \div 2 \in Nat /\ (d = 2 * (d \div 2) \/ d = 2 * (d \div 2) + 1)
    OBVIOUS
  <2> QED BY <2>1
<1>3. CASE d = 2 * m
  <2>1. m \in 0 .. n - 1 /\ i = Len(t) - 2 * m
    BY <1>0, <1>1, <1>3
  <2>2. t[i] = "unix"
    BY <2>1 DEF EndsIn
  <2> QED BY <2>2 DEF Foreign
<1>4. CASE d = 2 * m + 1
  <2>1. m + 1 \in 1 .. n /\ i = Len(t) - 2 * (m + 1) + 1 /\ 2 * (m + 1) <= Len(t)
    BY <1>0, <1>1, <1>4
  <2>2. t[i] = "sp"
    BY <2>1 DEF EndsIn
  <2> QED BY <2>2 DEF Foreign
<1> QED BY <1>2, <1>3, <1>4

(* A text cut at or before a word keeps the words from there.              *)
LEMMA CutKeeps ==
  ASSUME NEW t, NEW n, EndsIn(t, n), NEW m \in 1 .. n, NEW i \in 1 .. Len(t), i <= Len(t) - 2 * m + 2
  PROVE  EndsIn(From(t, i), m) /\ Len(From(t, i)) = Len(t) - i + 1
<1>0. Len(t) \in Nat /\ n \in Nat \ {0} /\ IsSequence(t)
  BY SkipIs DEF EndsIn
<1> PICK s : s = From(t, i)
  OBVIOUS
<1>1. IsSequence(s) /\ Len(s) = Len(t) - i + 1 /\ \A k \in 1 .. Len(t) - i + 1 : s[k] = t[i + k - 1]
  <2>1. i \in 1 .. Len(t) + 1
    BY <1>0
  <2> QED BY <1>0, <2>1, FromIs
<1>2. Len(s) >= 2 * m - 1 /\ m \in Nat \ {0}
  BY <1>0, <1>1
<1>3. ASSUME NEW k \in 0 .. m - 1 PROVE s[Len(s) - 2 * k] = "unix"
  <2>1. k \in 0 .. n - 1 /\ Len(s) - 2 * k \in 1 .. Len(t) - i + 1 /\ i + (Len(s) - 2 * k) - 1 = Len(t) - 2 * k
    BY <1>0, <1>1, <1>2
  <2> QED BY <1>1, <2>1 DEF EndsIn
<1>4. ASSUME NEW k \in 1 .. m, 2 * k <= Len(s) PROVE s[Len(s) - 2 * k + 1] = "sp"
  <2>1. k \in 1 .. n /\ Len(s) - 2 * k + 1 \in 1 .. Len(t) - i + 1 /\ i + (Len(s) - 2 * k + 1) - 1 = Len(t) - 2 * k + 1 /\ 2 * k <= Len(t)
    BY <1>0, <1>1, <1>2, <1>4
  <2> QED BY <1>1, <2>1 DEF EndsIn
<1> QED BY <1>1, <1>2, <1>3, <1>4 DEF EndsIn

LEMMA WordsType ==
  ASSUME NEW t, NEW n, EndsIn(t, n)
  PROVE  IsSequence(t) /\ Len(t) \in Nat /\ Len(t) >= 1 /\ t # <<>> /\ t[Len(t)] = "unix" /\ n \in Nat \ {0} /\ DOMAIN t = 1 .. Len(t)
         /\ Len(t) >= 2 * n - 1
<1>1. IsSequence(t) /\ Len(t) \in Nat /\ n \in Nat \ {0} /\ DOMAIN t = 1 .. Len(t)
  BY SkipIs DEF EndsIn
<1>2. 0 \in 0 .. n - 1 /\ Len(t) - 2 * 0 = Len(t) /\ Len(t) >= 2 * n - 1
  BY <1>1 DEF EndsIn
<1>3. t[Len(t)] = "unix"
  BY <1>2 DEF EndsIn
<1>4. Len(t) >= 1
  BY <1>1, <1>2
<1> QED BY <1>1, <1>2, <1>3, <1>4

LEMMA CutBefore ==
  ASSUME NEW t, NEW n, EndsIn(t, n), NEW i \in 1 .. Len(t), Foreign(t[i]), NEW j \in 1 .. i + 1
  PROVE  EndsIn(From(t, j), n)
<1>1. i <= Len(t) - 2 * n /\ Len(t) \in Nat /\ n \in Nat \ {0}
  BY BeforeWords, WordsType
<1>2. j \in 1 .. Len(t) /\ j <= Len(t) - 2 * n + 2 /\ n \in 1 .. n
  BY <1>1
<1> QED BY <1>1, <1>2, CutKeeps

LEMMA TailIs ==
  ASSUME NEW t, IsSequence(t), t # <<>>
  PROVE  Tail(t) = From(t, 2)
<1>1. t \in Seq({t[i] : i \in DOMAIN t})
  BY DEF IsSequence
<1> QED BY <1>1 DEF From

LEMMA TailKeeps ==
  ASSUME NEW t, NEW n, EndsIn(t, n), Foreign(t[1])
  PROVE  EndsIn(Tail(t), n)
<1>1. 1 \in 1 .. Len(t) /\ 2 \in 1 .. 1 + 1
  BY WordsType
<1> QED BY <1>1, CutBefore, TailIs, WordsType

LEMMA SkipKeeps ==
  ASSUME NEW t, NEW n, EndsIn(t, n)
  PROVE  EndsIn(D!Skip(t), n) /\ D!Skip(t)[1] # "sp"
<1>1. IsSequence(t) /\ Len(t) \in Nat /\ n \in Nat \ {0} /\ Len(t) >= 2 * n - 1
  BY WordsType
<1>2. PICK b \in 0 .. Len(t) : /\ \A k \in 1 .. b : t[k] = "sp"
                               /\ Len(D!Skip(t)) = Len(t) - b
                               /\ \A k \in 1 .. Len(t) - b : D!Skip(t)[k] = t[b + k]
                               /\ b < Len(t) => t[b + 1] # "sp"
                               /\ D!Skip(t) = From(t, b + 1)
  BY <1>1, SkipIs
<1>3. t[Len(t) - 2 * (n - 1)] = "unix" /\ Len(t) - 2 * (n - 1) \in 1 .. Len(t) /\ Len(t) - 2 * (n - 1) = Len(t) - 2 * n + 2
  <2>1. n - 1 \in 0 .. n - 1
    BY <1>1
  <2> QED BY <1>1, <2>1 DEF EndsIn
<1>4. b < Len(t) - 2 * n + 2
  <2> SUFFICES ASSUME b >= Len(t) - 2 * n + 2 PROVE FALSE
    BY <1>1
  <2>1. Len(t) - 2 * (n - 1) \in 1 .. b
    BY <1>1, <1>3
  <2> QED BY <1>2, <1>3, <2>1
<1>5. b + 1 \in 1 .. Len(t) /\ b + 1 <= Len(t) - 2 * n + 2 /\ n \in 1 .. n /\ 1 \in 1 .. Len(t) - b
  BY <1>1, <1>4
<1>6. EndsIn(D!Skip(t), n)
  BY <1>2, <1>5, CutKeeps
<1> QED BY <1>1, <1>2, <1>5, <1>6


(* The token that a text opens with.                                       *)
LEMMA TokenIs ==
  ASSUME NEW t, NEW n, EndsIn(t, n), NEW s, s = D!Skip(t)
  PROVE  \E e \in 2 .. Len(s) + 1 :
           /\ D!TakeToken(t).tok = SubSeq(s, 1, e - 1) /\ D!TakeToken(t).rest = D!Skip(From(s, e))
           /\ \A k \in 1 .. e - 1 : s[k] # "sp"
           /\ e > Len(s) \/ s[e] = "sp"
<1>1. EndsIn(s, n) /\ s[1] # "sp"
  BY SkipKeeps
<1>2. IsSequence(s) /\ Len(s) \in Nat /\ Len(s) >= 1 /\ DOMAIN s = 1 .. Len(s)
  BY <1>1, WordsType
<1> DEFINE e == After(s, 1, D!Other(s, {"sp"}))
<1>3. e \in 1 .. Len(s) + 1 /\ (\A k \in 1 .. e - 1 : s[k] \in D!Other(s, {"sp"})) /\ (e > Len(s) \/ s[e] \notin D!Other(s, {"sp"}))
  BY <1>2, AfterType
<1>4. D!TakeToken(t).tok = SubSeq(s, 1, e - 1) /\ D!TakeToken(t).rest = D!Skip(From(s, e))
  BY FromSame DEF D!TakeToken, D!OpeningToken, D!Split, D!Upto
<1>5. \A k \in 1 .. Len(s) : s[k] \in D!Other(s, {"sp"}) <=> s[k] # "sp"
  BY <1>2 DEF D!Other
<1> HIDE DEF e
<1>6. \A k \in 1 .. e - 1 : k \in 1 .. Len(s) /\ s[k] # "sp"
  BY <1>2, <1>3, <1>5
<1>7. e > Len(s) \/ s[e] = "sp"
  BY <1>2, <1>3, <1>5
<1>8. e \in 2 .. Len(s) + 1
  BY <1>1, <1>2, <1>3, <1>7
<1> QED BY <1>4, <1>6, <1>7, <1>8

(* A token costs a word at most, and none unless it is the word.           *)
LEMMA TokenKeeps ==
  ASSUME NEW t, NEW n, EndsIn(t, n)
  PROVE  /\ n >= 2 => EndsIn(D!TakeToken(t).rest, n - 1)
         /\ D!TakeToken(t).tok # <<"unix">> => EndsIn(D!TakeToken(t).rest, n)
<1> PICK s : s = D!Skip(t)
  OBVIOUS
<1>1. EndsIn(s, n) /\ s[1] # "sp"
  BY SkipKeeps
<1>2. IsSequence(s) /\ Len(s) \in Nat /\ Len(s) >= 1 /\ n \in Nat \ {0} /\ Len(s) >= 2 * n - 1
  BY <1>1, WordsType
<1>3. PICK e \in 2 .. Len(s) + 1 :
           /\ D!TakeToken(t).tok = SubSeq(s, 1, e - 1) /\ D!TakeToken(t).rest = D!Skip(From(s, e))
           /\ \A k \in 1 .. e - 1 : s[k] # "sp"
           /\ e > Len(s) \/ s[e] = "sp"
  BY TokenIs
<1>4. CASE Len(s) >= 2 * n
  <2>1. s[Len(s) - 2 * n + 1] = "sp" /\ Len(s) - 2 * n + 1 \in 1 .. Len(s)
    <3>1. n \in 1 .. n /\ 2 * n <= Len(s)
      BY <1>2, <1>4
    <3> QED BY <1>1, <1>2, <3>1 DEF EndsIn
  <2>2. e <= Len(s) - 2 * n + 1
    <3> SUFFICES ASSUME e > Len(s) - 2 * n + 1 PROVE FALSE
      BY <1>2
    <3>1. Len(s) - 2 * n + 1 \in 1 .. e - 1
      BY <1>2, <2>1
    <3> QED BY <1>3, <2>1, <3>1
  <2>3. e \in 1 .. Len(s) /\ e <= Len(s) - 2 * n + 2 /\ n \in 1 .. n
    BY <1>2, <2>2
  <2>4. EndsIn(From(s, e), n)
    BY <1>1, <2>3, CutKeeps
  <2>5. n >= 2 => n - 1 \in 1 .. n /\ e <= Len(s) - 2 * (n - 1) + 2
    BY <1>2, <2>2
  <2>6. n >= 2 => EndsIn(From(s, e), n - 1)
    BY <1>1, <2>3, <2>5, CutKeeps
  <2> QED BY <1>3, <2>4, <2>6, SkipKeeps
<1>5. CASE Len(s) = 2 * n - 1
  <2>1. s[1] = "unix"
    <3>1. n - 1 \in 0 .. n - 1 /\ Len(s) - 2 * (n - 1) = 1
      BY <1>2, <1>5
    <3> QED BY <1>1, <3>1 DEF EndsIn
  <2>2. e = 2
    <3>1. CASE n = 1
      BY <1>5, <3>1
    <3>2. CASE n >= 2
      <4>1. n - 1 \in 1 .. n /\ 2 * (n - 1) <= Len(s) /\ Len(s) - 2 * (n - 1) + 1 = 2
        BY <1>2, <1>5, <3>2
      <4>2. s[2] = "sp"
        BY <1>1, <4>1 DEF EndsIn
      <4> QED BY <1>2, <1>3, <4>2
    <3> QED BY <1>2, <3>1, <3>2
  <2>3. D!TakeToken(t).tok = <<"unix">>
    <3> DEFINE S == {s[i] : i \in DOMAIN s}
    <3>1. s \in Seq(S)
      BY <1>2 DEF IsSequence
    <3> HIDE DEF S
    <3>2. SubSeq(s, 1, 1) = <<s[1]>>
      <4> PICK x : x = SubSeq(s, 1, 1)
        OBVIOUS
      <4>1. Len(x) = 1 /\ x[1] = s[1] /\ x \in Seq(S)
        BY <1>2, <3>1
      <4>2. x = <<x[1]>>
        <5> PICK y : y = <<x[1]>>
          OBVIOUS
        <5>1. y \in Seq({x[1]}) /\ Len(y) = 1 /\ y[1] = x[1]
          OBVIOUS
        <5>2. IsSequence(x) /\ IsSequence(y)
          BY <4>1, <5>1, SeqIs
        <5>3. \A k \in 1 .. Len(x) : x[k] = y[k]
          BY <4>1, <5>1
        <5> QED BY <4>1, <5>1, <5>2, <5>3, SameText
      <4> QED BY <4>1, <4>2
    <3> QED BY <1>3, <2>1, <2>2, <3>2
  <2>4. ASSUME n >= 2 PROVE EndsIn(From(s, e), n - 1)
    <3>1. n - 1 \in 1 .. n /\ e \in 1 .. Len(s) /\ e <= Len(s) - 2 * (n - 1) + 2
      BY <1>2, <1>5, <2>2, <2>4
    <3> QED BY <1>1, <3>1, CutKeeps
  <2> QED BY <1>3, <2>3, <2>4, SkipKeeps
<1> QED BY <1>2, <1>4, <1>5

(* A token opens with the cell that the text opens with.                   *)
LEMMA TokenOpens ==
  ASSUME NEW t, NEW n, EndsIn(t, n), NEW c, D!Skip(t)[1] = c, c # "unix"
  PROVE  D!TakeToken(t).tok # <<"unix">>
<1> PICK s : s = D!Skip(t)
  OBVIOUS
<1>1. PICK e \in 2 .. Len(s) + 1 : D!TakeToken(t).tok = SubSeq(s, 1, e - 1)
  BY TokenIs
<1>2. IsSequence(s) /\ Len(s) \in Nat
  BY SkipKeeps, WordsType
<1> DEFINE S == {s[i] : i \in DOMAIN s}
<1>3. s \in Seq(S)
  BY <1>2 DEF IsSequence
<1> HIDE DEF S
<1>4. SubSeq(s, 1, e - 1)[1] = s[1]
  BY <1>2, <1>3
<1>5. <<"unix">>[1] = "unix"
  OBVIOUS
<1> QED BY <1>1, <1>4, <1>5, Zenon


(* Taking a field up to a delimiter keeps what is behind it.               *)
LEMMA UntilIs ==
  ASSUME NEW t, Len(t) \in Nat, DOMAIN t = 1 .. Len(t), NEW d, NEW i \in 1 .. Len(t), t[i] = d
  PROVE  \E at \in 1 .. i : /\ t[at] = d /\ (\A k \in 1 .. at - 1 : t[k] # d)
                            /\ D!TakeUntil(t, d) = [tok |-> D!Upto(t, at - 1), rest |-> D!From(t, at + 1)]
<1> DEFINE P == {k \in 1 .. Len(t) : t[k] = d}
<1>1. P \in SUBSET Nat /\ P # {}
  OBVIOUS
<1>2. PICK at \in P : \A k \in P : at <= k
  <2> HIDE DEF P
  <2> QED BY <1>1, Least
<1>3. at \in 1 .. i /\ t[at] = d /\ at \in 1 .. Len(t)
  BY <1>2
<1>4. \A k \in 1 .. at - 1 : t[k] # d
  <2> SUFFICES ASSUME NEW k \in 1 .. at - 1, t[k] = d PROVE FALSE
    OBVIOUS
  <2>1. k \in P /\ ~(at <= k) /\ k \in Nat
    BY <1>3
  <2> QED BY <1>2, <2>1
<1>5. D!First(t, d) = {at}
  <2>1. at \in D!First(t, d)
    BY <1>3, <1>4 DEF D!First
  <2>2. ASSUME NEW k \in D!First(t, d) PROVE k = at
    <3>1. k \in 1 .. Len(t) /\ t[k] = d /\ \A m \in 1 .. k - 1 : t[m] # d
      BY <2>2 DEF D!First
    <3>2. ~(k < at) /\ ~(at < k)
      <4>1. k < at => k \in 1 .. at - 1
        BY <3>1
      <4>2. at < k => at \in 1 .. k - 1
        BY <1>3, <3>1
      <4> QED BY <1>3, <1>4, <3>1, <4>1, <4>2
    <3> QED BY <1>3, <3>1, <3>2
  <2> QED BY <2>1, <2>2
<1>6. (CHOOSE k \in D!First(t, d) : TRUE) = at /\ D!First(t, d) # {}
  BY <1>5
<1>7. D!TakeUntil(t, d) = [tok |-> D!Upto(t, at - 1), rest |-> D!From(t, at + 1)]
  BY <1>6, Zenon DEF D!TakeUntil
<1> QED BY <1>3, <1>4, <1>7

LEMMA UntilKeeps ==
  ASSUME NEW t, NEW n, EndsIn(t, n), NEW d, Foreign(d), NEW i \in 1 .. Len(t), t[i] = d
  PROVE  EndsIn(D!TakeUntil(t, d).rest, n)
<1>1. Len(t) \in Nat /\ DOMAIN t = 1 .. Len(t)
  BY WordsType
<1>2. PICK at \in 1 .. i : t[at] = d /\ D!TakeUntil(t, d) = [tok |-> D!Upto(t, at - 1), rest |-> D!From(t, at + 1)]
  BY <1>1, UntilIs
<1>3. at \in 1 .. Len(t) /\ at + 1 \in 1 .. at + 1 /\ Foreign(t[at])
  BY <1>1, <1>2
<1>4. EndsIn(From(t, at + 1), n)
  BY <1>3, CutBefore
<1> QED BY <1>2, <1>4, FromSame

LEMMA HasCell ==
  ASSUME NEW t, NEW n, EndsIn(t, n), NEW d, D!Has(t, {d})
  PROVE  \E i \in 1 .. Len(t) : t[i] = d
BY WordsType DEF D!Has

LEMMA OrNoneKeeps ==
  ASSUME NEW t, NEW n, EndsIn(t, n), NEW d, Foreign(d)
  PROVE  EndsIn(D!TakeUntilOrNone(t, d).rest, n)
<1>1. CASE D!Has(t, {d})
  <2>1. PICK i \in 1 .. Len(t) : t[i] = d
    BY <1>1, HasCell
  <2>2. D!TakeUntilOrNone(t, d) = D!TakeUntil(t, d)
    BY <1>1, Zenon DEF D!TakeUntilOrNone
  <2> QED BY <2>1, <2>2, UntilKeeps
<1>2. CASE ~D!Has(t, {d})
  <2>1. D!TakeUntilOrNone(t, d) = [tok |-> <<>>, rest |-> t]
    BY <1>2, Zenon DEF D!TakeUntilOrNone
  <2> QED BY <2>1
<1> QED BY <1>1, <1>2

LEMMA BracketKeeps ==
  ASSUME NEW t, NEW n, EndsIn(t, n)
  PROVE  EndsIn(D!TakeBracketedOrNone(t).rest, n)
<1> DEFINE closed == D!FirstIs(t, {"["}) /\ D!Has(t, {"]"})
<1>1. CASE closed
  <2>1. PICK i \in 1 .. Len(t) : t[i] = "]"
    BY <1>1, HasCell
  <2>2. PICK at \in 1 .. i : D!TakeUntil(t, "]") = [tok |-> D!Upto(t, at - 1), rest |-> D!From(t, at + 1)]
    BY <2>1, UntilIs, WordsType
  <2>3. D!TakeBracketedOrNone(t) = [D!TakeUntil(t, "]") EXCEPT !.tok = Tail(@)]
    BY <1>1, Zenon DEF D!TakeBracketedOrNone
  <2>4. D!TakeBracketedOrNone(t).rest = D!TakeUntil(t, "]").rest
    BY <2>2, <2>3
  <2>5. Foreign("]")
    BY DEF Foreign
  <2> QED BY <2>1, <2>4, <2>5, UntilKeeps
<1>2. CASE ~closed
  <2>1. D!TakeBracketedOrNone(t) = [tok |-> <<>>, rest |-> t]
    BY <1>2, Zenon DEF D!TakeBracketedOrNone
  <2> QED BY <2>1
<1> QED BY <1>1, <1>2

LEMMA BalancedKeeps ==
  ASSUME NEW t, NEW n, EndsIn(t, n)
  PROVE  EndsIn(D!TakeBalancedOrNone(t).rest, n)
<1> DEFINE closes == {i \in DOMAIN t : t[i] = "]" /\ D!Count(t, i, "[") = D!Count(t, i, "]")
                                         /\ \A k \in 1 .. i - 1 : D!Count(t, k, "[") > D!Count(t, k, "]")}
           closed == D!FirstIs(t, {"["}) /\ closes # {}
<1>1. CASE closed
  <2> PICK at : at = CHOOSE i \in closes : TRUE
    OBVIOUS
  <2>1. at \in closes
    <3> HIDE DEF closes
    <3> QED BY <1>1
  <2>2. at \in 1 .. Len(t) /\ t[at] = "]" /\ Len(t) \in Nat
    BY <2>1, WordsType
  <2>3. D!TakeBalancedOrNone(t) = [tok |-> SubSeq(t, 2, at - 1), rest |-> D!From(t, at + 1)]
    BY <1>1, Zenon DEF D!TakeBalancedOrNone
  <2>4. at + 1 \in 1 .. at + 1 /\ Foreign(t[at])
    BY <2>2 DEF Foreign
  <2>5. EndsIn(From(t, at + 1), n)
    BY <2>2, <2>4, CutBefore
  <2> QED BY <2>3, <2>5, FromSame
<1>2. CASE ~closed
  <2>1. D!TakeBalancedOrNone(t) = [tok |-> <<>>, rest |-> t]
    BY <1>2, Zenon DEF D!TakeBalancedOrNone
  <2> QED BY <2>1
<1> QED BY <1>1, <1>2


\* A cell before the words takes none of them away.
LEMMA PrependKeeps ==
  ASSUME NEW s, NEW n, EndsIn(s, n), Len(s) >= 2 * n, NEW c
  PROVE  EndsIn(<<c>> \o s, n)
<1>0. Len(s) \in Nat /\ IsSequence(s) /\ n \in Nat \ {0}
  BY WordsType
<1> PICK u : u = <<c>> \o s
  OBVIOUS
<1>1. IsSequence(u) /\ Len(u) = 1 + Len(s) /\ \A k \in 1 .. Len(s) : u[1 + k] = s[k]
  <2> DEFINE S == {s[i] : i \in DOMAIN s}
  <2>1. s \in Seq(S) /\ Len(s) \in Nat
    BY <1>0 DEF IsSequence
  <2> HIDE DEF S
  <2>2. s \in Seq(S \cup {c}) /\ <<c>> \in Seq(S \cup {c}) /\ Len(<<c>>) = 1
    BY <2>1
  <2>3. u \in Seq(S \cup {c}) /\ Len(u) = 1 + Len(s) /\ \A k \in 1 .. Len(s) : u[1 + k] = s[k]
    BY <2>1, <2>2
  <2> QED BY <2>3, SeqIs
<1>2. ASSUME NEW m \in 0 .. n - 1 PROVE u[Len(u) - 2 * m] = "unix"
  <2>1. Len(s) - 2 * m \in 1 .. Len(s) /\ Len(u) - 2 * m = 1 + (Len(s) - 2 * m)
    BY <1>0, <1>1
  <2>2. s[Len(s) - 2 * m] = "unix"
    BY DEF EndsIn
  <2> QED BY <1>1, <2>1, <2>2
<1>3. ASSUME NEW m \in 1 .. n PROVE u[Len(u) - 2 * m + 1] = "sp"
  <2>1. Len(s) - 2 * m + 1 \in 1 .. Len(s) /\ Len(u) - 2 * m + 1 = 1 + (Len(s) - 2 * m + 1) /\ 2 * m <= Len(s)
    BY <1>0, <1>1
  <2>2. s[Len(s) - 2 * m + 1] = "sp"
    BY <2>1 DEF EndsIn
  <2> QED BY <1>1, <2>1, <2>2
<1>4. Len(u) >= 2 * n - 1
  BY <1>0, <1>1
<1> QED BY <1>0, <1>1, <1>2, <1>3, <1>4 DEF EndsIn

(* A run of digits may lose some of them.                                  *)
LEMMA DigitsKeep ==
  ASSUME NEW t, NEW n, EndsIn(t, n), Foreign(t[1]), NEW d
  PROVE  EndsIn(D!DropDigits(t, d), n)
<1>0. Len(t) \in Nat /\ IsSequence(t) /\ t # <<>> /\ Len(t) >= 1 /\ n \in Nat \ {0}
  BY WordsType
<1>1. 1 <= Len(t) - 2 * n
  <2>1. 1 \in 1 .. Len(t)
    BY <1>0
  <2> QED BY <2>1, BeforeWords
<1> PICK s : s = Tail(t)
  OBVIOUS
<1>2. EndsIn(s, n) /\ Len(s) = Len(t) - 1
  <2>1. EndsIn(s, n)
    BY TailKeeps
  <2>2. t \in Seq({t[i] : i \in DOMAIN t})
    BY <1>0 DEF IsSequence
  <2>3. Len(s) = Len(t) - 1
    BY <1>0, <2>2
  <2> QED BY <2>1, <2>3
<1>3. ASSUME NEW c PROVE EndsIn(<<c>> \o s, n)
  <2>1. Len(s) >= 2 * n
    BY <1>0, <1>1, <1>2
  <2> QED BY <1>2, <2>1, PrependKeeps
<1>4. D!DropDigits(t, d) = s \/ \E c : D!DropDigits(t, d) = <<c>> \o s
  BY DEF D!DropDigits
<1> QED BY <1>2, <1>3, <1>4

LEMMA OpeningKeeps ==
  ASSUME NEW t, NEW n, EndsIn(t, n), NEW cells, \A c \in cells : Foreign(c)
  PROVE  EndsIn(D!DropOpening(t, cells), n)
<1>1. CASE D!FirstIs(t, cells)
  <2>1. t[1] \in cells /\ D!DropOpening(t, cells) = D!TakeToken(t).rest
    BY <1>1 DEF D!DropOpening, D!FirstIs
  <2>2. t[1] # "sp" /\ t[1] # "unix"
    BY <2>1 DEF Foreign
  <2>3. D!Skip(t) = t
    BY <2>2, SkipSelf, WordsType
  <2>4. D!TakeToken(t).tok # <<"unix">>
    BY <2>2, <2>3, TokenOpens
  <2> QED BY <2>1, <2>4, TokenKeeps
<1>2. CASE ~D!FirstIs(t, cells)
  BY <1>2, Zenon DEF D!DropOpening
<1> QED BY <1>1, <1>2

LEMMA TagKeeps ==
  ASSUME NEW t, NEW n, EndsIn(t, n), NEW tag \in D!TakeTag(t)
  PROVE  EndsIn(tag.rest, n)
<1>1. \E j \in 1 .. Len(t) : t[j] = ":" /\ tag.rest = D!Skip(D!From(t, j + 1))
  <2>0. Len(t) \in Nat /\ DOMAIN t = 1 .. Len(t)
    BY WordsType
  <2> DEFINE stops == {i \in DOMAIN t : t[i] \in {"[", ":", "sp"} /\ \A k \in 1 .. i - 1 : t[k] \notin {"[", ":", "sp"}}
             body(i) ==
               IF t[i] = ":" THEN {i + 1}
               ELSE {c + 2 : c \in {k \in i + 1 .. Len(t) - 1 : /\ t[k] = "]" /\ t[k + 1] = ":"
                                                                /\ \A m \in i + 1 .. k - 1 : t[m] \notin {"]", "sp"}}}
             starts == {s \in stops : s > 1 /\ t[s] # "sp"}
  <2>1. tag \in {[tok |-> D!Upto(t, i - 1), rest |-> D!Skip(D!From(t, b))] : i \in starts, b \in UNION {body(s) : s \in starts}}
    BY DEF D!TakeTag
  <2>2. PICK i \in starts, b \in UNION {body(s) : s \in starts} : tag = [tok |-> D!Upto(t, i - 1), rest |-> D!Skip(D!From(t, b))]
    <3> HIDE DEF starts, body
    <3> QED BY <2>1
  <2>3. PICK s \in starts : b \in body(s)
    <3> HIDE DEF starts, body
    <3> QED BY <2>2
  <2>4. tag.rest = D!Skip(D!From(t, b))
    BY <2>2
  <2>5. \E j \in 1 .. Len(t) : t[j] = ":" /\ b = j + 1
    <3>1. CASE t[s] = ":"
      BY <2>0, <2>3, <3>1
    <3>2. CASE t[s] # ":"
      <4>1. PICK c \in s + 1 .. Len(t) - 1 : t[c + 1] = ":" /\ b = c + 2
        BY <2>3, <3>2
      <4>2. c + 1 \in 1 .. Len(t) /\ b = (c + 1) + 1
        BY <2>0, <2>3, <4>1
      <4> QED BY <4>1, <4>2
    <3> QED BY <3>1, <3>2
  <2> QED BY <2>4, <2>5
<1>2. PICK j \in 1 .. Len(t) : t[j] = ":" /\ tag.rest = D!Skip(D!From(t, j + 1))
  BY <1>1
<1>3. Foreign(t[j]) /\ j + 1 \in 1 .. j + 1
  BY <1>2 DEF Foreign
<1>4. EndsIn(From(t, j + 1), n)
  BY <1>3, CutBefore
<1> QED BY <1>2, <1>4, FromSame, SkipKeeps

LEMMA StructuredKeeps ==
  ASSUME NEW t, NEW n, EndsIn(t, n)
  PROVE  EndsIn(D!WithoutStructuredData(t), n)
<1>0. Len(t) \in Nat /\ DOMAIN t = 1 .. Len(t)
  BY WordsType
<1> DEFINE ends == {i \in 1 .. Len(t) - 1 : t[i] = "]" /\ t[i + 1] = "sp"}
           dashed == D!StartsAt(t, 1, <<"-", "sp">>)
           closed == D!FirstIs(t, {"["}) /\ ends # {}
           first == CHOOSE i \in ends : \A k \in ends : i <= k
<1>1. CASE dashed
  <2>1. Len(t) >= 2 /\ t[1] = "-" /\ t[2] = "sp"
    BY <1>0, <1>1 DEF D!StartsAt
  <2>2. D!WithoutStructuredData(t) = D!From(t, 3)
    BY <1>1, Zenon DEF D!WithoutStructuredData
  <2>3. 1 <= Len(t) - 2 * n /\ n \in Nat \ {0}
    <3>1. 1 \in 1 .. Len(t) /\ Foreign(t[1])
      BY <1>0, <2>1 DEF Foreign
    <3> QED BY <3>1, BeforeWords, WordsType
  <2>4. 3 \in 1 .. Len(t) /\ 3 <= Len(t) - 2 * n + 2 /\ n \in 1 .. n
    BY <1>0, <2>3
  <2> QED BY <2>2, <2>4, CutKeeps, FromSame
<1>2. CASE ~dashed /\ closed
  <2>1. ends \in SUBSET Nat /\ ends # {}
    BY <1>0, <1>2
  <2>2. \E i \in ends : \A k \in ends : i <= k
    <3> HIDE DEF ends
    <3> QED BY <2>1, Least
  <2>3. first \in ends
    <3> HIDE DEF ends
    <3> QED BY <2>2
  <2>4. D!WithoutStructuredData(t) = D!From(t, first + 2)
    BY <1>2, Zenon DEF D!WithoutStructuredData
  <2> HIDE DEF first
  <2>5. first \in 1 .. Len(t) /\ Foreign(t[first])
    BY <1>0, <2>3 DEF Foreign
  <2>6. first <= Len(t) - 2 * n /\ n \in Nat \ {0}
    BY <2>5, BeforeWords, WordsType
  <2>7. first + 2 \in 1 .. Len(t) /\ first + 2 <= Len(t) - 2 * n + 2 /\ n \in 1 .. n
    BY <1>0, <2>5, <2>6
  <2> QED BY <2>4, <2>7, CutKeeps, FromSame
<1>3. CASE ~dashed /\ ~closed
  BY <1>3, Zenon DEF D!WithoutStructuredData
<1> QED BY <1>1, <1>2, <1>3


(* Two tokens, and three.                                                  *)
LEMMA TokensAre ==
  ASSUME NEW t
  PROVE  /\ D!AfterTokens(t, 2) = D!TakeToken(D!TakeToken(t).rest).rest
         /\ D!AfterTokens(t, 3) = D!TakeToken(D!TakeToken(D!TakeToken(t).rest).rest).rest
<1> PICK a, b, c : a = D!TakeToken(t).rest /\ b = D!TakeToken(a).rest /\ c = D!TakeToken(b).rest
  OBVIOUS
<1> DEFINE Walks(g, n) == g = [k \in 0 .. n |-> IF k = 0 THEN t ELSE D!TakeToken(g[k - 1]).rest]
<1>1. D!AfterTokens(t, 2) = b
  <2> DEFINE g == [k \in 0 .. 2 |-> IF k = 0 THEN t ELSE IF k = 1 THEN a ELSE b]
             f == CHOOSE h : Walks(h, 2)
  <2>1. g[0] = t /\ g[1] = a /\ g[2] = b
    OBVIOUS
  <2>2. \A k \in 0 .. 2 : k = 0 \/ (k = 1 /\ k - 1 = 0) \/ (k = 2 /\ k - 1 = 1)
    OBVIOUS
  <2>3. \A k \in 0 .. 2 : g[k] = IF k = 0 THEN t ELSE D!TakeToken(g[k - 1]).rest
    <3> HIDE DEF g
    <3> QED BY <2>1, <2>2
  <2>4. g = [k \in 0 .. 2 |-> g[k]]
    OBVIOUS
  <2> HIDE DEF g
  <2>5. Walks(g, 2)
    BY <2>3, <2>4
  <2>6. Walks(f, 2)
    <3> HIDE DEF Walks
    <3> QED BY <2>5
  <2>7. D!AfterTokens(t, 2) = f[2]
    BY DEF D!AfterTokens
  <2> HIDE DEF f
  <2>8. \A k \in 0 .. 2 : f[k] = IF k = 0 THEN t ELSE D!TakeToken(f[k - 1]).rest
    BY <2>6
  <2>9. f[0] = t /\ f[1] = D!TakeToken(f[0]).rest /\ f[2] = D!TakeToken(f[1]).rest
    <3>1. 0 \in 0 .. 2 /\ 1 \in 0 .. 2 /\ 2 \in 0 .. 2 /\ 1 - 1 = 0 /\ 2 - 1 = 1
      OBVIOUS
    <3> HIDE DEF Walks
    <3> QED BY <2>8, <3>1
  <2> HIDE DEF Walks
  <2> QED BY <2>7, <2>9
<1>2. D!AfterTokens(t, 3) = c
  <2> DEFINE g == [k \in 0 .. 3 |-> IF k = 0 THEN t ELSE IF k = 1 THEN a ELSE IF k = 2 THEN b ELSE c]
             f == CHOOSE h : Walks(h, 3)
  <2>1. g[0] = t /\ g[1] = a /\ g[2] = b /\ g[3] = c
    OBVIOUS
  <2>2. \A k \in 0 .. 3 : k = 0 \/ (k = 1 /\ k - 1 = 0) \/ (k = 2 /\ k - 1 = 1) \/ (k = 3 /\ k - 1 = 2)
    OBVIOUS
  <2>3. \A k \in 0 .. 3 : g[k] = IF k = 0 THEN t ELSE D!TakeToken(g[k - 1]).rest
    <3> HIDE DEF g
    <3> QED BY <2>1, <2>2
  <2>4. g = [k \in 0 .. 3 |-> g[k]]
    OBVIOUS
  <2> HIDE DEF g
  <2>5. Walks(g, 3)
    BY <2>3, <2>4
  <2>6. Walks(f, 3)
    <3> HIDE DEF Walks
    <3> QED BY <2>5
  <2>7. D!AfterTokens(t, 3) = f[3]
    BY DEF D!AfterTokens
  <2> HIDE DEF f
  <2>8. \A k \in 0 .. 3 : f[k] = IF k = 0 THEN t ELSE D!TakeToken(f[k - 1]).rest
    BY <2>6
  <2>9. f[0] = t /\ f[1] = D!TakeToken(f[0]).rest /\ f[2] = D!TakeToken(f[1]).rest /\ f[3] = D!TakeToken(f[2]).rest
    <3>1. 0 \in 0 .. 3 /\ 1 \in 0 .. 3 /\ 2 \in 0 .. 3 /\ 3 \in 0 .. 3 /\ 1 - 1 = 0 /\ 2 - 1 = 1 /\ 3 - 1 = 2
      OBVIOUS
    <3> HIDE DEF Walks
    <3> QED BY <2>8, <3>1
  <2> HIDE DEF Walks
  <2> QED BY <2>7, <2>9
<1> QED BY <1>1, <1>2

LEMMA TwoTokensKeep ==
  ASSUME NEW t, NEW n, EndsIn(t, n), n >= 3
  PROVE  EndsIn(D!AfterTokens(t, 2), n - 2)
<1>0. n \in Nat
  BY WordsType
<1>1. EndsIn(D!TakeToken(t).rest, n - 1)
  BY <1>0, TokenKeeps
<1>2. n - 1 >= 2 /\ (n - 1) - 1 = n - 2
  BY <1>0
<1>3. EndsIn(D!TakeToken(D!TakeToken(t).rest).rest, n - 2)
  BY <1>1, <1>2, TokenKeeps
<1> QED BY <1>3, TokensAre

LEMMA ThreeTokensKeep ==
  ASSUME NEW t, NEW n, EndsIn(t, n), n >= 4
  PROVE  EndsIn(D!AfterTokens(t, 3), n - 3)
<1>0. n \in Nat /\ n >= 3 /\ n - 2 >= 2 /\ (n - 2) - 1 = n - 3
  BY WordsType
<1>1. EndsIn(D!AfterTokens(t, 2), n - 2)
  BY <1>0, TwoTokensKeep
<1>2. EndsIn(D!TakeToken(D!AfterTokens(t, 2)).rest, n - 3)
  BY <1>0, <1>1, TokenKeeps
<1> QED BY <1>2, TokensAre

(* Every section that closes goes, and nothing behind it.                  *)
LEMMA SectionsKeep ==
  ASSUME NEW t, NEW n, EndsIn(t, n)
  PROVE  EndsIn(D!AfterSections(t), n)
<1> DEFINE A == {t[i] : i \in DOMAIN t}
           T == {s \in Seq(A) : EndsIn(s, n)}
           Next1(s) == D!Skip(D!TakeBracketedOrNone(s).rest)
<1> PICK b \in Nat : b = Len(t)
  BY WordsType
<1> DEFINE step == [k \in 1 .. b |-> [s \in T |-> Next1(s)]]
           Walks(g) == g = [k \in 0 .. b |-> IF k = 0 THEN t ELSE Next1(g[k - 1])]
<1>1. t \in T
  BY WordsType DEF IsSequence
<1>2. ASSUME NEW s \in T PROVE Next1(s) \in T
  <2>1. s \in Seq(A) /\ EndsIn(s, n)
    OBVIOUS
  <2> PICK r : r = D!TakeBracketedOrNone(s).rest
    OBVIOUS
  <2>2. EndsIn(r, n)
    BY <2>1, BracketKeeps
  <2>3. EndsIn(D!Skip(r), n)
    BY <2>2, SkipKeeps
  <2> HIDE DEF A
  <2>4. ASSUME NEW u \in Seq(A), NEW i \in 1 .. Len(u) + 1 PROVE From(u, i) \in Seq(A)
    BY DEF From
  <2>5. r \in Seq(A)
    <3>1. CASE D!FirstIs(s, {"["}) /\ D!Has(s, {"]"})
      <4>1. PICK i \in 1 .. Len(s) : s[i] = "]"
        BY <2>1, <3>1, HasCell
      <4>2. PICK at \in 1 .. i : D!TakeUntil(s, "]") = [tok |-> D!Upto(s, at - 1), rest |-> D!From(s, at + 1)]
        BY <2>1, <4>1, UntilIs, WordsType
      <4>3. D!TakeBracketedOrNone(s) = [D!TakeUntil(s, "]") EXCEPT !.tok = Tail(@)]
        BY <3>1, Zenon DEF D!TakeBracketedOrNone
      <4>4. r = D!From(s, at + 1)
        BY <4>2, <4>3
      <4>5. at + 1 \in 1 .. Len(s) + 1
        BY <2>1, WordsType
      <4> QED BY <2>1, <2>4, <4>4, <4>5, FromSame
    <3>2. CASE ~(D!FirstIs(s, {"["}) /\ D!Has(s, {"]"}))
      <4>1. D!TakeBracketedOrNone(s) = [tok |-> <<>>, rest |-> s]
        BY <3>2, Zenon DEF D!TakeBracketedOrNone
      <4> QED BY <2>1, <4>1
    <3> QED BY <3>1, <3>2
  <2>6. D!Skip(r) \in Seq(A)
    <3>1. PICK k \in 0 .. Len(r) : D!Skip(r) = From(r, k + 1) /\ Len(r) \in Nat
      BY <2>2, SkipIs, WordsType
    <3>2. k + 1 \in 1 .. Len(r) + 1
      BY <3>1
    <3> QED BY <2>4, <2>5, <3>1, <3>2
  <2> QED BY <2>3, <2>6
<1>3. \A k \in 1 .. b : \A s \in T : step[k][s] = Next1(s) /\ step[k][s] \in T
  <2> HIDE DEF T, Next1
  <2> QED BY <1>2
<1> HIDE DEF step, T
<1>4. Steps(b, T, step)
  BY <1>3 DEF Steps
<1>5. PICK h : IsPass(h, b, T, t, step)
  BY <1>1, <1>4, PassExists
<1> HIDE DEF Next1
<1>6. Walks(h)
  <2>1. ASSUME NEW k \in 1 .. b PROVE h[k] = Next1(h[k - 1])
    <3>1. k - 1 \in 0 .. b
      OBVIOUS
    <3>2. h[k - 1] \in T
      BY <1>5, <3>1 DEF IsPass
    <3> QED BY <1>3, <1>5, <3>2 DEF IsPass
  <2>2. \A k \in 0 .. b : k = 0 \/ k \in 1 .. b
    OBVIOUS
  <2>3. h = [k \in 0 .. b |-> h[k]] /\ h[0] = t
    BY <1>5 DEF IsPass
  <2>4. \A k \in 0 .. b : h[k] = IF k = 0 THEN t ELSE Next1(h[k - 1])
    BY <2>1, <2>2, <2>3
  <2> QED BY <2>3, <2>4
<1> DEFINE f == CHOOSE g : Walks(g)
<1>7. Walks(f)
  <2> HIDE DEF Walks
  <2> QED BY <1>6
<1>8. D!AfterSections(t) = f[D!Count(t, b, "[")]
  BY DEF D!AfterSections, Next1
<1> HIDE DEF f
<1>9. f \in [0 .. b -> T]
  <2>1. f = [k \in 0 .. b |-> f[k]]
    BY <1>7
  <2>2. \A k \in 0 .. b : f[k] = IF k = 0 THEN t ELSE Next1(f[k - 1])
    BY <1>7
  <2> HIDE DEF Walks
  <2>3. 0 \in 0 .. b /\ \A k \in 1 .. b : k \in 0 .. b /\ k # 0
    OBVIOUS
  <2>4. f[0] = t /\ \A k \in 1 .. b : f[k] = Next1(f[k - 1])
    BY <2>2, <2>3
  <2>5. \A k \in 1 .. b : f[k - 1] \in T => f[k] = step[k][f[k - 1]]
    BY <1>3, <2>4
  <2>6. Follows(f, b, T, t, step)
    BY <2>1, <2>4, <2>5 DEF Follows
  <2> QED BY <1>1, <1>4, <2>6, PassType
<1>10. D!Count(t, b, "[") \in 0 .. b
  <2> DEFINE S == {k \in 1 .. b : t[k] = "["}
  <2>1. S \subseteq 1 .. b
    OBVIOUS
  <2>2. IsFiniteSet(1 .. b) /\ Cardinality(1 .. b) = b
    <3>1. b \in Int /\ 1 \in Int /\ (IF 1 > b THEN 0 ELSE b - 1 + 1) = b
      OBVIOUS
    <3> QED BY <3>1, FS_Interval, Zenon
  <2>3. Cardinality(S) \in Nat /\ Cardinality(S) <= Cardinality(1 .. b)
    <3> HIDE DEF S
    <3> QED BY <2>1, <2>2, FS_Subset, FS_CardinalityType
  <2>4. D!Count(t, b, "[") = Cardinality(S)
    BY Zenon DEF D!Count, D!Cardinality, Cardinality
  <2> HIDE DEF S
  <2> QED BY <2>2, <2>3, <2>4
<1>11. f[D!Count(t, b, "[")] \in T
  BY <1>9, <1>10
<1> QED BY <1>8, <1>11 DEF T


----------------------------------------------------------------------------
(* The layouts, one by one.                                                *)

Reaches(r) == r.content # <<>> /\ r.content[Len(r.content)] = "unix"

LEMMA WordsReach ==
  ASSUME NEW r, NEW n, EndsIn(r.content, n)
  PROVE  Reaches(r)
BY WordsType DEF Reaches

\* Two texts, one behind the other.
IsJoin(r, p, q) ==
  /\ IsSequence(r) /\ Len(p) \in Nat /\ Len(q) \in Nat /\ Len(r) = Len(p) + Len(q)
  /\ \A k \in 1 .. Len(p) : r[k] = p[k]
  /\ \A k \in 1 .. Len(q) : r[Len(p) + k] = q[k]

LEMMA JoinCells ==
  ASSUME NEW p, NEW q, IsSequence(p), IsSequence(q)
  PROVE  IsJoin(p \o q, p, q)
<1> DEFINE P == {p[i] : i \in DOMAIN p}
           Q == {q[i] : i \in DOMAIN q}
<1>1. p \in Seq(P) /\ q \in Seq(Q) /\ Len(p) \in Nat /\ Len(q) \in Nat
  BY DEF IsSequence
<1> HIDE DEF P, Q
<1>2. p \in Seq(P \cup Q) /\ q \in Seq(P \cup Q)
  BY <1>1
<1>3. \A i \in 1 .. Len(p) + Len(q) : (p \o q)[i] = IF i <= Len(p) THEN p[i] ELSE q[i - Len(p)]
  BY <1>2, ConcatProperties
<1>4. \A k \in 1 .. Len(p) : k \in 1 .. Len(p) + Len(q) /\ k <= Len(p)
  BY <1>1
<1>5. \A k \in 1 .. Len(q) : Len(p) + k \in 1 .. Len(p) + Len(q) /\ ~(Len(p) + k <= Len(p)) /\ (Len(p) + k) - Len(p) = k
  BY <1>1
<1> PICK r : r = p \o q
  OBVIOUS
<1>6. IsSequence(r) /\ Len(r) = Len(p) + Len(q)
  BY JoinIs
<1>7. (\A k \in 1 .. Len(p) : r[k] = p[k]) /\ (\A k \in 1 .. Len(q) : r[Len(p) + k] = q[k])
  BY <1>3, <1>4, <1>5
<1> QED BY <1>1, <1>6, <1>7 DEF IsJoin

LEMMA ExtraEnds ==
  ASSUME NEW text, IsSequence(text)
  PROVE  EndsIn(text \o Extra, 8)
<1>0. IsSequence(Extra) /\ Len(Extra) = 16
  <2>1. Extra \in Seq({"sp", "unix"}) /\ Len(Extra) = 16
    BY DEF Extra
  <2> QED BY <2>1, SeqIs
<1>1. /\ Extra[16] = "unix" /\ Extra[14] = "unix" /\ Extra[12] = "unix" /\ Extra[10] = "unix"
      /\ Extra[8] = "unix" /\ Extra[6] = "unix" /\ Extra[4] = "unix" /\ Extra[2] = "unix"
      /\ Extra[15] = "sp" /\ Extra[13] = "sp" /\ Extra[11] = "sp" /\ Extra[9] = "sp"
      /\ Extra[7] = "sp" /\ Extra[5] = "sp" /\ Extra[3] = "sp" /\ Extra[1] = "sp"
  BY DEF Extra
<1> PICK t : t = text \o Extra
  OBVIOUS
<1>j. IsJoin(t, text, Extra)
  BY <1>0, JoinCells
<1>2. IsSequence(t) /\ Len(t) = Len(text) + 16 /\ Len(text) \in Nat
  BY <1>0, <1>j DEF IsJoin
<1>3. \A k \in 1 .. 16 : t[Len(text) + k] = Extra[k]
  BY <1>0, <1>j DEF IsJoin
<1>4. ASSUME NEW m \in 0 .. 8 - 1 PROVE t[Len(t) - 2 * m] = "unix"
  <2>1. PICK k \in 1 .. 16 : k \in {16, 14, 12, 10, 8, 6, 4, 2} /\ Len(t) - 2 * m = Len(text) + k
    <3>1. 16 - 2 * m \in {16, 14, 12, 10, 8, 6, 4, 2} /\ 16 - 2 * m \in 1 .. 16 /\ Len(t) - 2 * m = Len(text) + (16 - 2 * m)
      BY <1>2
    <3> QED BY <3>1
  <2>2. Extra[k] = "unix"
    BY <1>1, <2>1
  <2> QED BY <1>3, <2>1, <2>2
<1>5. ASSUME NEW m \in 1 .. 8 PROVE t[Len(t) - 2 * m + 1] = "sp"
  <2>1. PICK k \in 1 .. 16 : k \in {15, 13, 11, 9, 7, 5, 3, 1} /\ Len(t) - 2 * m + 1 = Len(text) + k
    <3>1. 17 - 2 * m \in {15, 13, 11, 9, 7, 5, 3, 1} /\ 17 - 2 * m \in 1 .. 16 /\ Len(t) - 2 * m + 1 = Len(text) + (17 - 2 * m)
      BY <1>2
    <3> QED BY <3>1
  <2>2. Extra[k] = "sp"
    BY <1>1, <2>1
  <2>3. t[Len(text) + k] = "sp"
    BY <1>3, <2>2
  <2> QED BY <1>2, <2>1, <2>3, Zenon
<1>6. 8 \in Nat \ {0} /\ Len(t) >= 2 * 8 - 1
  BY <1>2
<1>7. EndsIn(t, 8)
  BY <1>2, <1>4, <1>5, <1>6 DEF EndsIn
<1> QED BY <1>7

LEMMA DigitsAreForeign == \A c \in D!DigitRun : Foreign(c)
BY DEF Foreign, D!DigitRun, D!DigitWidth

LEMMA WidthsAreDigits == \A n : D!Wider(n) \subseteq D!DigitRun /\ D!Narrower(n) \subseteq D!DigitRun
BY DEF D!Wider, D!Narrower

\* The cells of a clock behind a pattern.
LEMMA ClockCells ==
  ASSUME NEW t, Len(t) \in Nat, NEW p, IsSequence(p), D!Leads(t, p \o D!Clock) \/ D!Leads(t, p \o D!WholeClock)
  PROVE  /\ D!Leads(t, p) /\ Len(t) >= Len(p) + 5 /\ Len(p) \in Nat
         /\ t[Len(p) + 1] = "d2" /\ t[Len(p) + 2] = ":" /\ t[Len(p) + 3] = "d2" /\ t[Len(p) + 4] = ":"
         /\ t[Len(p) + 5] \in D!Wider(2)
<1>0. Len(p) \in Nat
  BY SkipIs
<1>1. /\ D!Minutes[1] = {"d2"} /\ D!Minutes[2] = {":"} /\ D!Minutes[3] = {"d2"} /\ D!Minutes[4] = {":"}
      /\ D!Minutes \in Seq({{"d2"}, {":"}}) /\ Len(D!Minutes) = 4
  BY DEF D!Minutes
<1>2. ASSUME NEW c PROVE LET q == D!Minutes \o <<c>> IN
        IsSequence(q) /\ Len(q) = 5 /\ q[1] = {"d2"} /\ q[2] = {":"} /\ q[3] = {"d2"} /\ q[4] = {":"} /\ q[5] = c
  <2> PICK M : M = D!Minutes
    OBVIOUS
  <2> PICK S : S = {{"d2"}, {":"}}
    OBVIOUS
  <2> PICK q : q = M \o <<c>>
    OBVIOUS
  <2> PICK r : r = <<c>>
    OBVIOUS
  <2>1. M \in Seq(S) /\ r \in Seq({c}) /\ Len(M) = 4 /\ Len(r) = 1 /\ r[1] = c
    BY <1>1
  <2>2. IsSequence(M) /\ IsSequence(r)
    BY <2>1, SeqIs
  <2>j. IsJoin(q, M, r)
    BY <2>2, JoinCells
  <2>3. IsSequence(q) /\ Len(q) = 5
    BY <2>1, <2>j DEF IsJoin
  <2>4. (\A k \in 1 .. 4 : q[k] = M[k]) /\ \A k \in 1 .. 1 : q[4 + k] = r[k]
    BY <2>1, <2>j DEF IsJoin
  <2>5. q[1] = M[1] /\ q[2] = M[2] /\ q[3] = M[3] /\ q[4] = M[4] /\ q[5] = c
    <3> 1 \in 1 .. 1 /\ 4 + 1 = 5 /\ \A k \in {1, 2, 3, 4} : k \in 1 .. 4
      OBVIOUS
    <3> QED BY <2>1, <2>4
  <2> QED BY <1>1, <2>3, <2>5
<1>3. "d2" \in D!Wider(2)
  BY TwoDigits
<1>4. ASSUME NEW c, c \subseteq D!Wider(2), D!Leads(t, p \o (D!Minutes \o <<c>>))
      PROVE  /\ D!Leads(t, p) /\ Len(t) >= Len(p) + 5
             /\ t[Len(p) + 1] = "d2" /\ t[Len(p) + 2] = ":" /\ t[Len(p) + 3] = "d2" /\ t[Len(p) + 4] = ":"
             /\ t[Len(p) + 5] \in D!Wider(2)
  <2> PICK q : q = D!Minutes \o <<c>>
    OBVIOUS
  <2>1. IsSequence(q) /\ Len(q) = 5 /\ q[1] = {"d2"} /\ q[2] = {":"} /\ q[3] = {"d2"} /\ q[4] = {":"} /\ q[5] = c
    BY <1>2
  <2>2. D!Leads(t, p) /\ Len(t) >= Len(p) + 5 /\ \A k \in 1 .. 5 : t[Len(p) + k] \in q[k]
    BY <1>4, <2>1, LeadsHead
  <2>3. t[Len(p) + 1] \in q[1] /\ t[Len(p) + 2] \in q[2] /\ t[Len(p) + 3] \in q[3] /\ t[Len(p) + 4] \in q[4] /\ t[Len(p) + 5] \in q[5]
    <3> \A k \in {1, 2, 3, 4, 5} : k \in 1 .. 5
      OBVIOUS
    <3> QED BY <2>2
  <2> QED BY <1>4, <2>1, <2>2, <2>3
<1>5. {"d2"} \subseteq D!Wider(2)
  BY <1>3
<1>6. D!Clock = D!Minutes \o <<D!Wider(2)>> /\ D!WholeClock = D!Minutes \o <<{"d2"}>>
  BY DEF D!Clock, D!WholeClock
<1>7. CASE D!Leads(t, p \o D!Clock)
  BY <1>0, <1>4, <1>6, <1>7
<1>8. CASE D!Leads(t, p \o D!WholeClock)
  BY <1>0, <1>4, <1>5, <1>6, <1>8
<1> QED BY <1>7, <1>8

LEMMA ClockAlone ==
  ASSUME NEW t, Len(t) \in Nat, D!Leads(t, D!Clock)
  PROVE  Len(t) >= 5 /\ t[5] \in D!Wider(2) /\ Foreign(t[5])
<1> PICK p : p = <<>>
  OBVIOUS
<1>0. IsSequence(p) /\ Len(p) = 0 /\ p \o D!Clock = D!Clock
  <2>1. p \in Seq({}) /\ Len(p) = 0
    OBVIOUS
  <2>2. D!Clock \in Seq({D!Clock[i] : i \in DOMAIN D!Clock})
    BY ClocksAre DEF IsSequence
  <2>3. p \o D!Clock = D!Clock
    BY <2>2, ConcatEmptySeq
  <2> QED BY <2>1, <2>3, SeqIs
<1>1. Len(t) >= 0 + 5 /\ t[0 + 5] \in D!Wider(2)
  BY <1>0, ClockCells
<1>2. Len(t) >= 5 /\ t[5] \in D!Wider(2)
  BY <1>1
<1> QED BY <1>2, DigitsAreForeign, WidthsAreDigits

LEMMA ClockKeeps ==
  ASSUME NEW t, NEW n, EndsIn(t, n), D!Leads(t, D!Clock)
  PROVE  EndsIn(D!AfterClock(t), n)
<1>0. Len(t) \in Nat /\ IsSequence(t)
  BY WordsType
<1>1. Len(t) >= 5 /\ Foreign(t[5])
  BY <1>0, ClockAlone
<1>2. 5 \in 1 .. Len(t) /\ 5 \in 1 .. 5 + 1 /\ 5 \in 1 .. Len(t) + 1 /\ 1 \in 1 .. Len(t) - 5 + 1 /\ 5 + 1 - 1 = 5
  BY <1>0, <1>1
<1>3. EndsIn(From(t, 5), n)
  BY <1>1, <1>2, CutBefore
<1>4. From(t, 5)[1] = t[5]
  BY <1>0, <1>2, FromIs
<1>5. EndsIn(D!DropDigits(From(t, 5), 2), n)
  BY <1>1, <1>3, <1>4, DigitsKeep
<1> QED BY <1>5, FromSame DEF D!AfterClock

----------------------------------------------------------------------------
LEMMA FewerWords ==
  ASSUME NEW t, NEW n, EndsIn(t, n), NEW m \in 1 .. n
  PROVE  EndsIn(t, m)
<1>1. n \in Nat \ {0} /\ Len(t) \in Nat /\ Len(t) >= 2 * n - 1
  BY WordsType
<1>2. m \in Nat \ {0} /\ Len(t) >= 2 * m - 1 /\ 0 .. m - 1 \subseteq 0 .. n - 1 /\ 1 .. m \subseteq 1 .. n
  BY <1>1
<1> QED BY <1>2 DEF EndsIn

\* The content of a record, whatever else is in it.
LEMMA ContentIs ==
  ASSUME NEW l, NEW c, NEW h, NEW x
  PROVE  /\ [D!Fields EXCEPT !.content = x].content = x
         /\ [D!Fields EXCEPT !.component = c, !.content = x].content = x
         /\ [D!Fields EXCEPT !.level = l, !.component = c, !.content = x].content = x
         /\ [D!Fields EXCEPT !.component = c, !.host = h, !.content = x].content = x
         /\ [level |-> l, component |-> c, host |-> h, content |-> x].content = x
BY DEF D!Fields

LEMMA WhenIs ==
  ASSUME NEW holds, NEW fields, NEW r \in D!When(holds, fields)
  PROVE  r = fields /\ holds
BY DEF D!When

LEMMA LeadsCell ==
  ASSUME NEW t, NEW p, D!Leads(t, p), NEW k \in DOMAIN p
  PROVE  t[k] \in p[k] /\ Len(t) >= Len(p)
BY DEF D!Leads

(* What is behind a part of a pattern is behind a part of the text.        *)
LEMMA LeadsRest ==
  ASSUME NEW t, IsSequence(t), NEW p, NEW q, IsSequence(p), IsSequence(q), D!Leads(t, p \o q)
  PROVE  D!Leads(From(t, Len(p) + 1), q)
<1>0. Len(t) \in Nat /\ Len(p) \in Nat /\ Len(q) \in Nat /\ DOMAIN q = 1 .. Len(q)
  BY SkipIs
<1>1. Len(t) >= Len(p) + Len(q) /\ \A k \in 1 .. Len(q) : t[Len(p) + k] \in q[k]
  BY <1>0, LeadsHead
<1> PICK s : s = From(t, Len(p) + 1)
  OBVIOUS
<1>2. Len(p) + 1 \in 1 .. Len(t) + 1
  BY <1>0, <1>1
<1>3. Len(s) = Len(t) - Len(p) /\ \A k \in 1 .. Len(t) - Len(p) : s[k] = t[Len(p) + k]
  <2>1. Len(s) = Len(t) - (Len(p) + 1) + 1 /\ \A k \in 1 .. Len(t) - (Len(p) + 1) + 1 : s[k] = t[(Len(p) + 1) + k - 1]
    BY <1>2, FromIs
  <2>2. Len(t) - (Len(p) + 1) + 1 = Len(t) - Len(p) /\ \A k \in 1 .. Len(t) - Len(p) : (Len(p) + 1) + k - 1 = Len(p) + k
    BY <1>0
  <2> QED BY <2>1, <2>2
<1>4. \A k \in 1 .. Len(q) : k \in 1 .. Len(t) - Len(p)
  BY <1>0, <1>1
<1> QED BY <1>0, <1>1, <1>3, <1>4 DEF D!Leads

(* The syslog family.                                                      *)

LEMMA EightAtMost ==
  ASSUME NEW S, S \subseteq 1 .. 8
  PROVE  Cardinality(S) \in 0 .. 8
<1>1. IsFiniteSet(1 .. 8) /\ Cardinality(1 .. 8) = 8
  <2>1. 1 \in Int /\ 8 \in Int /\ ~(1 > 8) /\ 8 - 1 + 1 = 8
    OBVIOUS
  <2>2. \A a, b \in Int : IsFiniteSet(a .. b) /\ Cardinality(a .. b) = IF a > b THEN 0 ELSE b - a + 1
    BY FS_Interval
  <2> QED BY <2>1, <2>2
<1>2. IsFiniteSet(S) /\ Cardinality(S) <= Cardinality(1 .. 8)
  BY <1>1, FS_Subset
<1>3. Cardinality(S) \in Nat
  BY <1>2, FS_CardinalityType
<1> QED BY <1>1, <1>2, <1>3

\* Eight bytes are at most eight cells and a part of one.
LEMMA BytesKeep ==
  ASSUME NEW t, EndsIn(t, 8)
  PROVE  EndsIn(D!DropBytes(t, 8), 3)
<1>0. Len(t) \in Nat /\ IsSequence(t) /\ Len(t) >= 15 /\ DOMAIN t = 1 .. Len(t)
  BY WordsType
<1> DEFINE cells == {i \in DOMAIN t : D!Size(D!Upto(t, i)) <= 8}
<1> PICK whole : whole = Cardinality(cells)
  OBVIOUS
<1>1. whole \in 0 .. 8
  <2>1. ASSUME NEW i \in 1 .. Len(t) PROVE D!Size(D!Upto(t, i)) >= i /\ D!Size(D!Upto(t, i)) \in Nat
    <3>1. t \in Seq({t[k] : k \in DOMAIN t})
      BY <1>0 DEF IsSequence
    <3>2. Len(D!Upto(t, i)) = i /\ i \in Nat
      BY <1>0, <3>1 DEF D!Upto
    <3> QED BY <3>2, SizeAtLeast, SizeType
  <2>2. cells \subseteq 1 .. 8
    BY <1>0, <2>1
  <2> HIDE DEF cells
  <2> PICK S : S = cells
    OBVIOUS
  <2>3. S \subseteq 1 .. 8 /\ whole = Cardinality(S)
    BY <2>2
  <2> QED BY <2>3, EightAtMost
<1> PICK rest : rest = D!From(t, whole + 1)
  OBVIOUS
<1>2. EndsIn(rest, 4) /\ Len(rest) = Len(t) - whole
  <2>1. whole + 1 \in 1 .. Len(t) /\ 4 \in 1 .. 8 /\ whole + 1 <= Len(t) - 2 * 4 + 2
    BY <1>0, <1>1
  <2>2. EndsIn(From(t, whole + 1), 4) /\ Len(From(t, whole + 1)) = Len(t) - (whole + 1) + 1
    BY <2>1, CutKeeps
  <2> QED BY <1>0, <1>1, <2>2, FromSame
<1>3. EndsIn(rest, 3)
  <2>1. 3 \in 1 .. 4
    OBVIOUS
  <2> QED BY <1>2, <2>1, FewerWords
<1>4. D!FirstIs(rest, D!DigitRun) => \A d : EndsIn(D!DropDigits(rest, d), 3)
  BY <1>3, DigitsKeep, DigitsAreForeign DEF D!FirstIs
<1>5. EndsIn(<<"word">> \o Tail(rest), 3)
  <2>0. Len(rest) \in Nat /\ IsSequence(rest) /\ rest # <<>> /\ Len(rest) >= 7
    BY <1>2, WordsType
  <2>1. 2 \in 1 .. Len(rest) /\ 3 \in 1 .. 4 /\ 2 <= Len(rest) - 2 * 3 + 2
    BY <2>0
  <2>2. EndsIn(From(rest, 2), 3) /\ Len(From(rest, 2)) = Len(rest) - 2 + 1
    BY <1>2, <2>1, CutKeeps
  <2>3. Tail(rest) = From(rest, 2)
    BY <2>0, TailIs
  <2> PICK s : s = Tail(rest)
    OBVIOUS
  <2>4. EndsIn(s, 3) /\ Len(s) = Len(rest) - 2 + 1
    BY <2>2, <2>3
  <2>6. Len(s) >= 2 * 3
    BY <2>0, <2>4
  <2>5. EndsIn(<<"word">> \o s, 3)
    BY <2>4, <2>6, PrependKeeps
  <2> QED BY <2>5
<1> DEFINE made(w, tail) ==
             IF 8 - D!Size(D!Upto(t, w)) = 0 THEN tail
             ELSE IF D!FirstIs(tail, D!DigitRun) THEN D!DropDigits(tail, 8 - D!Size(D!Upto(t, w))) ELSE <<"word">> \o Tail(tail)
<1>6. D!DropBytes(t, 8) = made(Cardinality(cells), D!From(t, Cardinality(cells) + 1))
  BY Zenon DEF D!DropBytes, D!Cardinality, Cardinality
<1>7. D!DropBytes(t, 8) = made(whole, rest)
  <2> HIDE DEF made, cells
  <2> QED BY <1>6
<1> HIDE DEF cells
<1> QED BY <1>3, <1>4, <1>5, <1>7

\* Whatever is taken for the clock, the words behind it are left.
LEMMA SyslogStampKeeps ==
  ASSUME NEW t, EndsIn(t, 8), D!IsBsdSyslogPrefix(t)
  PROVE  EndsIn(D!AfterStamp(t), 3)
<1>1. t[1] = "Mon" /\ Foreign(t[1])
  BY DEF D!IsBsdSyslogPrefix, D!FirstIs, Foreign
<1>2. EndsIn(Tail(t), 8) /\ Tail(t) = From(t, 2)
  BY <1>1, TailKeeps, TailIs, WordsType
<1> PICK day : day = D!Skip(From(t, 2))
  OBVIOUS
<1>3. EndsIn(day, 8)
  BY <1>2, SkipKeeps
<1>4. D!FirstIs(day, D!DigitRun)
  BY FromSame DEF D!IsBsdSyslogPrefix
<1>5. Foreign(day[1])
  BY <1>4, DigitsAreForeign DEF D!FirstIs
<1>6. EndsIn(Tail(day), 8)
  BY <1>3, <1>5, TailKeeps
<1> PICK walked : walked = D!Skip(Tail(day))
  OBVIOUS
<1>7. D!Walked(t) = walked /\ EndsIn(walked, 8)
  BY <1>2, <1>6, SkipKeeps DEF D!Walked
<1>8. D!AfterStamp(t) = IF D!Leads(walked, D!Clock) THEN D!AfterClock(walked) ELSE D!DropBytes(walked, 8)
  BY <1>7 DEF D!AfterStamp, D!kBsdTimeLen
<1>9. D!Leads(walked, D!Clock) => EndsIn(D!AfterClock(walked), 3)
  <2>1. 3 \in 1 .. 8
    OBVIOUS
  <2> QED BY <1>7, <2>1, ClockKeeps, FewerWords
<1> QED BY <1>7, <1>8, <1>9, BytesKeep

LEMMA HeaderKeeps ==
  ASSUME NEW rest, EndsIn(rest, 3), NEW header \in D!HeaderIn(rest)
  PROVE  EndsIn(header.body, 2)
<1> PICK host : host = D!TakeToken(rest)
  OBVIOUS
<1>1. EndsIn(host.rest, 2)
  <2>1. EndsIn(D!TakeToken(rest).rest, 3 - 1) /\ 3 - 1 = 2
    BY TokenKeeps
  <2> QED BY <2>1
<1>2. D!HeaderIn(rest) \subseteq {[tag |-> tag.tok, body |-> tag.rest] : tag \in D!TakeTag(host.rest)}
  BY DEF D!HeaderIn
<1>3. PICK tag \in D!TakeTag(host.rest) : header.body = tag.rest
  BY <1>2
<1> QED BY <1>1, <1>3, TagKeeps

LEMMA SyslogReaches ==
  ASSUME NEW t, EndsIn(t, 8), NEW r \in D!SyslogParse(t)
  PROVE  Reaches(r)
<1>1. PICK header \in D!SyslogHeader(t) : r = [D!Fields EXCEPT !.component = header.tag, !.content = header.body]
  BY DEF D!SyslogParse, D!SyslogRecords
<1>2. EndsIn(header.body, 2)
  <2>1. CASE D!IsBsdSyslogPrefix(t)
    <3>1. header \in D!HeaderIn(D!AfterStamp(t))
      BY <2>1 DEF D!SyslogHeader
    <3> QED BY <2>1, <3>1, SyslogStampKeeps, HeaderKeeps
  <2>2. CASE ~D!IsBsdSyslogPrefix(t)
    <3>1. header \in D!HeaderIn(D!TakeToken(t).rest)
      BY <2>2 DEF D!SyslogHeader
    <3>2. EndsIn(D!TakeToken(t).rest, 3)
      <4>1. EndsIn(D!TakeToken(t).rest, 8 - 1) /\ 8 - 1 = 7 /\ 3 \in 1 .. 7
        BY TokenKeeps
      <4> QED BY <4>1, FewerWords
    <3> QED BY <3>1, <3>2, HeaderKeeps
  <2> QED BY <2>1, <2>2
<1>3. r.content = header.body
  BY <1>1, ContentIs
<1> QED BY <1>2, <1>3, WordsReach

LEMMA Rfc3339TextReaches ==
  ASSUME NEW t, EndsIn(t, 8), NEW r \in D!Rfc3339TextParse(t)
  PROVE  Reaches(r)
<1>1. r = [D!Fields EXCEPT !.content = t]
  BY WhenIs, Zenon DEF D!Rfc3339TextParse
<1>2. r.content = t
  BY <1>1, ContentIs
<1> QED BY <1>2, WordsReach

LEMMA RFC5424Reaches ==
  ASSUME NEW t, EndsIn(t, 8), NEW r \in D!RFC5424Parse(t)
  PROVE  Reaches(r)
<1> DEFINE pri == D!TakeUntil(Tail(t), ">")
           hostname == D!TakeToken(D!AfterTokens(pri.rest, 2))
           appname == D!TakeToken(hostname.rest)
           component == IF appname.tok = <<"-">> THEN hostname.tok ELSE appname.tok
           content == D!WithoutStructuredData(D!AfterTokens(appname.rest, 2))
           fields == [D!Fields EXCEPT !.level = pri.tok, !.component = component, !.content = content]
<1>0. D!RFC5424Parse(t) = D!When(D!IsRfc5424Prefix(t), fields)
  BY Zenon DEF D!RFC5424Parse
<1>1. r = fields /\ D!IsRfc5424Prefix(t)
  <2> HIDE DEF fields
  <2> QED BY <1>0, WhenIs
<1>2. r.content = D!WithoutStructuredData(D!AfterTokens(appname.rest, 2))
  <2> HIDE DEF pri, component, content
  <2>1. r.content = content
    BY <1>1, ContentIs
  <2> QED BY <2>1 DEF content
<1>3. t[1] = "<" /\ t[3] = ">" /\ Len(t) >= 5
  <2> PICK N : N = D!Narrower(3)
    OBVIOUS
  <2>1. D!Leads(t, <<{"<"}, N, {">"}, {"d1"}, {"sp"}>>)
    BY <1>1, Zenon DEF D!IsRfc5424Prefix
  <2> PICK p : p = <<{"<"}, N, {">"}, {"d1"}, {"sp"}>>
    OBVIOUS
  <2>2. 1 \in DOMAIN p /\ 3 \in DOMAIN p /\ p[1] = {"<"} /\ p[3] = {">"} /\ Len(p) = 5
    OBVIOUS
  <2> QED BY <2>1, <2>2, LeadsCell
<1>4. Len(t) \in Nat /\ IsSequence(t) /\ t # <<>> /\ Foreign("<") /\ Foreign(">")
  BY WordsType DEF Foreign
<1> PICK s : s = Tail(t)
  OBVIOUS
<1>5. EndsIn(s, 8) /\ s = From(t, 2)
  BY <1>3, <1>4, TailKeeps, TailIs
<1>6. 2 \in 1 .. Len(s) /\ s[2] = ">"
  <2>1. 2 \in 1 .. Len(t) + 1 /\ 2 \in 1 .. Len(t) - 2 + 1 /\ 2 + 2 - 1 = 3
    BY <1>3, <1>4
  <2>2. Len(s) = Len(t) - 2 + 1 /\ s[2] = t[3]
    BY <1>4, <1>5, <2>1, FromIs
  <2> QED BY <1>3, <2>1, <2>2
<1>7. EndsIn(pri.rest, 8)
  <2>1. EndsIn(D!TakeUntil(s, ">").rest, 8)
    BY <1>4, <1>5, <1>6, UntilKeeps
  <2> QED BY <2>1
<1> HIDE DEF pri
<1>8. EndsIn(D!AfterTokens(pri.rest, 2), 8 - 2)
  BY <1>7, TwoTokensKeep
<1>9. EndsIn(hostname.rest, (8 - 2) - 1)
  BY <1>8, TokenKeeps
<1> HIDE DEF hostname
<1>10. EndsIn(appname.rest, ((8 - 2) - 1) - 1)
  BY <1>9, TokenKeeps
<1> HIDE DEF appname
<1>a. ((8 - 2) - 1) - 1 = 4 /\ 4 >= 3
  OBVIOUS
<1>11. EndsIn(D!AfterTokens(appname.rest, 2), 4 - 2)
  BY <1>10, <1>a, TwoTokensKeep
<1>12. EndsIn(r.content, 4 - 2)
  BY <1>2, <1>11, StructuredKeeps
<1> QED BY <1>12, WordsReach

(* The supercomputers' layouts.                                            *)
LEMMA HPCReaches ==
  ASSUME NEW t, EndsIn(t, 8), NEW r \in D!HPCParse(t)
  PROVE  Reaches(r)
<1> DEFINE facility == D!TakeToken(D!AfterTokens(t, 2))
           event_type == D!TakeToken(facility.rest)
           fields == [D!Fields EXCEPT !.component = facility.tok \o <<".">> \o event_type.tok,
                          !.content = D!AfterTokens(event_type.rest, 2)]
<1>1. r = fields
  BY WhenIs, Zenon DEF D!HPCParse
<1>2. r.content = D!AfterTokens(event_type.rest, 2)
  BY <1>1, ContentIs, Zenon
<1>3. EndsIn(D!AfterTokens(t, 2), 8 - 2)
  BY TwoTokensKeep
<1>4. EndsIn(facility.rest, (8 - 2) - 1)
  BY <1>3, TokenKeeps
<1> HIDE DEF facility
<1>5. EndsIn(event_type.rest, ((8 - 2) - 1) - 1)
  BY <1>4, TokenKeeps
<1> HIDE DEF event_type
<1>6. EndsIn(D!AfterTokens(event_type.rest, 2), (((8 - 2) - 1) - 1) - 2)
  BY <1>5, TwoTokensKeep
<1> QED BY <1>2, <1>6, WordsReach

\* An identifier, or a word of a level, is no word of the extra ones.
LEMMA NamesAreForeign ==
  /\ \A tok : D!IsIdentifier(tok) => tok # <<"unix">>
  /\ \A word \in D!LevelWord : <<word>> # <<"unix">>
  /\ <<"RAS">> # <<"unix">> /\ <<"GET">> # <<"unix">>
<1>1. ASSUME NEW tok, D!IsIdentifier(tok) PROVE tok # <<"unix">>
  <2>1. tok[1] \in D!AllUpper
    BY <1>1 DEF D!IsIdentifier, D!FirstIs
  <2>2. tok[1] # "unix"
    BY <2>1 DEF D!AllUpper
  <2>3. <<"unix">>[1] = "unix"
    OBVIOUS
  <2> QED BY <2>2, <2>3
<1>2. <<"RAS">>[1] = "RAS" /\ <<"GET">>[1] = "GET" /\ <<"unix">>[1] = "unix"
  OBVIOUS
<1>3. <<"RAS">> # <<"unix">> /\ <<"GET">> # <<"unix">>
  BY <1>2
<1>4. ASSUME NEW word \in D!LevelWord PROVE <<word>> # <<"unix">>
  <2>1. word = "LEVEL"
    BY DEF D!LevelWord
  <2>2. <<"LEVEL">>[1] = "LEVEL"
    OBVIOUS
  <2> QED BY <1>2, <2>1, <2>2
<1> QED BY <1>1, <1>3, <1>4

LEMMA RasReaches ==
  ASSUME NEW node, NEW t, EndsIn(t, 5), NEW r \in D!RasRecord(node, t)
  PROVE  Reaches(r)
<1> DEFINE tail == D!TakeToken(t).rest
           without_node2 == D!TakeToken(tail).rest
           opened == IF D!StartsWithFacility(without_node2) THEN without_node2 ELSE tail
           fields == D!TakeToken(opened).rest
           subsystem == D!TakeToken(fields)
           level == D!TakeToken(subsystem.rest)
           read == [level |-> level.tok, component |-> subsystem.tok, host |-> node, content |-> level.rest]
           holds == /\ D!StartsWithFacility(without_node2) \/ D!StartsWithFacility(tail)
                    /\ D!IsIdentifier(subsystem.tok)
                    /\ \E word \in D!LevelWord : level.tok = <<word>>
<1>1. D!RasRecord(node, t) = D!When(holds, read)
  BY Zenon DEF D!RasRecord
<1>2. r = read /\ holds
  <2> HIDE DEF read, holds
  <2> QED BY <1>1, WhenIs
<1>3. r.content = level.rest
  <2> HIDE DEF level, subsystem
  <2> QED BY <1>2, ContentIs
<1>4. D!IsIdentifier(subsystem.tok) /\ \E word \in D!LevelWord : level.tok = <<word>>
  BY <1>2
<1>5. EndsIn(tail, 5 - 1) /\ EndsIn(without_node2, (5 - 1) - 1)
  <2>1. EndsIn(tail, 5 - 1)
    BY TokenKeeps
  <2> HIDE DEF tail
  <2> QED BY <2>1, TokenKeeps
<1>6. EndsIn(opened, 3)
  <2>1. EndsIn(tail, 3) /\ EndsIn(without_node2, 3)
    <3> HIDE DEF tail, without_node2
    <3>1. 3 \in 1 .. 5 - 1 /\ (5 - 1) - 1 = 3
      OBVIOUS
    <3> QED BY <1>5, <3>1, FewerWords
  <2> HIDE DEF tail, without_node2
  <2> QED BY <2>1
<1> HIDE DEF opened
<1>7. EndsIn(fields, 3 - 1)
  BY <1>6, TokenKeeps
<1> HIDE DEF fields
<1>8. EndsIn(subsystem.rest, 3 - 1)
  BY <1>4, <1>7, NamesAreForeign, TokenKeeps
<1> HIDE DEF subsystem
<1>9. level.tok # <<"unix">>
  BY <1>4, NamesAreForeign
<1>10. EndsIn(level.rest, 3 - 1)
  BY <1>8, <1>9, TokenKeeps
<1> QED BY <1>3, <1>10, WordsReach

LEMMA ThunderbirdReaches ==
  ASSUME NEW node, NEW t, EndsIn(t, 5), NEW r \in D!ThunderbirdRecord(node, t)
  PROVE  Reaches(r)
<1> DEFINE host == D!TakeToken(D!AfterTokens(t, 3))
           daemon == IF D!TakeTag(host.rest) = {} THEN [tok |-> <<>>, rest |-> host.rest]
                     ELSE CHOOSE tag \in D!TakeTag(host.rest) : TRUE
           read == [D!Fields EXCEPT !.component = daemon.tok, !.host = node, !.content = daemon.rest]
           holds == D!IsBsdSyslogPrefix(t) /\ host.tok # <<>>
<1>1. D!ThunderbirdRecord(node, t) = D!When(holds, read)
  BY Zenon DEF D!ThunderbirdRecord
<1>2. r = read
  <2> HIDE DEF read, holds
  <2> QED BY <1>1, WhenIs
<1>3. r.content = daemon.rest
  <2> HIDE DEF daemon
  <2> QED BY <1>2, ContentIs
<1>4. EndsIn(D!AfterTokens(t, 3), 5 - 3)
  BY ThreeTokensKeep
<1>5. EndsIn(host.rest, (5 - 3) - 1)
  BY <1>4, TokenKeeps
<1> HIDE DEF host
<1>6. EndsIn(daemon.rest, (5 - 3) - 1)
  <2>1. CASE D!TakeTag(host.rest) = {}
    <3>1. daemon = [tok |-> <<>>, rest |-> host.rest]
      BY <2>1
    <3> QED BY <1>5, <3>1
  <2>2. CASE D!TakeTag(host.rest) # {}
    <3>1. daemon \in D!TakeTag(host.rest)
      BY <2>2
    <3> HIDE DEF daemon
    <3> QED BY <1>5, <3>1, TagKeeps
  <2> QED BY <2>1, <2>2
<1> QED BY <1>3, <1>6, WordsReach

LEMMA BGLReaches ==
  ASSUME NEW t, EndsIn(t, 8), NEW r \in D!BGLParse(t)
  PROVE  Reaches(r)
<1> DEFINE node == D!TakeToken(D!AfterTokens(t, 3))
           fields == node.rest
<1>1. D!BGLParse(t) = IF ~D!IsBglLabelledPrefix(t) \/ node.tok = <<>> \/ fields = <<>> THEN {}
                      ELSE IF D!FirstIs(fields, D!DigitRun) THEN D!RasRecord(node.tok, fields)
                      ELSE D!ThunderbirdRecord(node.tok, fields)
  BY Zenon DEF D!BGLParse
<1>2. D!IsBglLabelledPrefix(t) /\ (r \in D!RasRecord(node.tok, fields) \/ r \in D!ThunderbirdRecord(node.tok, fields))
  <2> HIDE DEF node
  <2> QED BY <1>1
<1>3. D!Skip(t) = t /\ t[1] # "unix"
  <2>1. D!Skip(t) = t /\ t[1] \in {"-"} \cup D!UpperFirst
    BY <1>2, BglOpens, WordsType
  <2>2. "unix" \notin {"-"} \cup D!UpperFirst
    BY DEF D!UpperFirst, D!AllUpper
  <2> QED BY <2>1, <2>2
<1>4. EndsIn(D!TakeToken(t).rest, 8)
  BY <1>3, TokenOpens, TokenKeeps
<1>5. EndsIn(D!AfterTokens(t, 3), 8 - 2)
  <2> PICK a : a = D!TakeToken(t).rest
    OBVIOUS
  <2>1. EndsIn(D!TakeToken(D!TakeToken(a).rest).rest, 8 - 2)
    BY <1>4, TwoTokensKeep, TokensAre
  <2> QED BY <2>1, TokensAre
<1>6. EndsIn(node.rest, (8 - 2) - 1)
  BY <1>5, TokenKeeps
<1> HIDE DEF node
<1>7. EndsIn(fields, 5)
  BY <1>6
<1> QED BY <1>2, <1>7, RasReaches, ThunderbirdReaches

(* The servers' layouts.                                                   *)
LEMMA ApacheErrorReaches ==
  ASSUME NEW t, EndsIn(t, 8), NEW r \in D!ApacheErrorParse(t)
  PROVE  Reaches(r)
<1> DEFINE bracket == D!TakeBracketedOrNone(D!Skip(D!TakeBracketedOrNone(t).rest))
           seat == D!SplitLevelSeat(bracket.tok)
           component == IF seat.module = <<>> THEN <<"httpd">> ELSE seat.module
           content == D!AfterSections(D!Skip(bracket.rest))
           read == [D!Fields EXCEPT !.level = seat.level, !.component = component, !.content = content]
<1>1. D!ApacheErrorParse(t) = D!When(D!IsApacheErrorPrefix(t), read)
  BY Zenon DEF D!ApacheErrorParse
<1>2. r = read
  <2> HIDE DEF read
  <2> QED BY <1>1, WhenIs
<1>3. r.content = content
  <2> HIDE DEF seat, component, content
  <2> QED BY <1>2, ContentIs
<1>4. EndsIn(D!Skip(D!TakeBracketedOrNone(t).rest), 8)
  BY BracketKeeps, SkipKeeps
<1>5. EndsIn(bracket.rest, 8)
  BY <1>4, BracketKeeps
<1> HIDE DEF bracket
<1>6. EndsIn(content, 8)
  BY <1>5, SkipKeeps, SectionsKeep
<1> HIDE DEF content
<1> QED BY <1>3, <1>6, WordsReach

LEMMA ProxifierReaches ==
  ASSUME NEW t, EndsIn(t, 8), NEW r \in D!ProxifierParse(t)
  PROVE  Reaches(r)
<1> DEFINE process == D!TakeToken(D!TakeBracketedOrNone(t).rest)
           content == D!DropOpening(process.rest, {"-", "*"})
           read == [D!Fields EXCEPT !.component = process.tok, !.content = content]
<1>1. D!ProxifierParse(t) = D!When(D!IsProxifierPrefix(t), read)
  BY Zenon DEF D!ProxifierParse
<1>2. r = read
  <2> HIDE DEF read
  <2> QED BY <1>1, WhenIs
<1>3. r.content = content
  <2> HIDE DEF process, content
  <2> QED BY <1>2, ContentIs
<1>4. EndsIn(process.rest, 8 - 1)
  BY BracketKeeps, TokenKeeps
<1> HIDE DEF process
<1>5. \A c \in {"-", "*"} : Foreign(c)
  BY DEF Foreign
<1>6. EndsIn(content, 8 - 1)
  BY <1>4, <1>5, OpeningKeeps
<1> HIDE DEF content
<1> QED BY <1>3, <1>6, WordsReach

\* The patterns that stand before a clock.
LEMMA DatesAre ==
  /\ \A sep : IsSequence(D!WholeDate(sep) \o <<{"sp"}>>) /\ Len(D!WholeDate(sep) \o <<{"sp"}>>) = 6
  /\ IsSequence(D!ShortDate \o <<{"sp"}>>) /\ Len(D!ShortDate \o <<{"sp"}>>) = 6
<1>1. IsSequence(<<{"sp"}>>) /\ Len(<<{"sp"}>>) = 1
  <2>1. <<{"sp"}>> \in Seq({{"sp"}}) /\ Len(<<{"sp"}>>) = 1
    OBVIOUS
  <2> QED BY <2>1, SeqIs
<1>2. IsSequence(D!ShortDate) /\ Len(D!ShortDate) = 5
  <2>1. D!ShortDate \in Seq({{"d2"}, {"/"}}) /\ Len(D!ShortDate) = 5
    BY DEF D!ShortDate
  <2> QED BY <2>1, SeqIs
<1>3. ASSUME NEW sep PROVE IsSequence(D!WholeDate(sep)) /\ Len(D!WholeDate(sep)) = 5
  <2>1. D!Date(sep) \in Seq({{"d4"}, {sep}, {"d2"}}) /\ Len(D!Date(sep)) = 4
    BY DEF D!Date
  <2>2. <<{"d2"}>> \in Seq({{"d2"}}) /\ Len(<<{"d2"}>>) = 1
    OBVIOUS
  <2> PICK a, b : a = D!Date(sep) /\ b = <<{"d2"}>>
    OBVIOUS
  <2>3. IsSequence(a) /\ IsSequence(b) /\ Len(a) = 4 /\ Len(b) = 1
    BY <2>1, <2>2, SeqIs
  <2> PICK u : u = a \o b
    OBVIOUS
  <2>4. IsSequence(u) /\ Len(u) = Len(a) + Len(b)
    BY <2>3, JoinIs
  <2>5. D!WholeDate(sep) = u
    BY DEF D!WholeDate
  <2> QED BY <2>3, <2>4, <2>5
<1>4. ASSUME NEW p, IsSequence(p), Len(p) = 5 PROVE IsSequence(p \o <<{"sp"}>>) /\ Len(p \o <<{"sp"}>>) = 6
  <2> PICK b : b = <<{"sp"}>>
    OBVIOUS
  <2>1. IsSequence(p \o b) /\ Len(p \o b) = Len(p) + Len(b)
    BY <1>1, <1>4, JoinIs
  <2> QED BY <1>1, <1>4, <2>1
<1> QED BY <1>2, <1>3, <1>4

\* A text cut behind a clock that stands behind a date.
LEMMA DatedClock ==
  ASSUME NEW t, NEW n, EndsIn(t, n), NEW p, IsSequence(p), Len(p) = 6, D!Leads(t, p \o D!Clock) \/ D!Leads(t, p \o D!WholeClock)
  PROVE  EndsIn(From(t, 12), n) /\ EndsIn(From(t, 7), n)
<1>1. Len(t) \in Nat /\ IsSequence(t)
  BY WordsType
<1>2. Len(t) >= 6 + 5 /\ t[6 + 5] \in D!Wider(2)
  BY <1>1, ClockCells
<1>3. 11 \in 1 .. Len(t) /\ 12 \in 1 .. 11 + 1 /\ 7 \in 1 .. 11 + 1 /\ t[11] \in D!Wider(2)
  BY <1>1, <1>2
<1>4. Foreign(t[11])
  BY <1>3, DigitsAreForeign, WidthsAreDigits
<1> QED BY <1>3, <1>4, CutBefore

LEMMA NginxErrorReaches ==
  ASSUME NEW t, EndsIn(t, 8), NEW r \in D!NginxErrorParse(t)
  PROVE  Reaches(r)
<1> DEFINE level == D!TakeBracketedOrNone(D!Skip(D!From(t, 12)))
           component == <<"nginx">>
           content == D!TakeToken(level.rest).rest
           read == [D!Fields EXCEPT !.level = level.tok, !.component = component, !.content = content]
<1>1. D!NginxErrorParse(t) = D!When(D!IsNginxErrorPrefix(t), read)
  BY Zenon DEF D!NginxErrorParse
<1>2. r = read /\ D!IsNginxErrorPrefix(t)
  <2> HIDE DEF read
  <2> QED BY <1>1, WhenIs
<1>3. r.content = content
  <2> HIDE DEF level, component, content
  <2> QED BY <1>2, ContentIs
<1> DEFINE p == D!WholeDate("/") \o <<{"sp"}>>
<1>4. D!Leads(t, p \o D!WholeClock)
  BY <1>2 DEF D!IsNginxErrorPrefix
<1>5. IsSequence(p) /\ Len(p) = 6
  BY DatesAre
<1> HIDE DEF p
<1>6. EndsIn(From(t, 12), 8)
  BY <1>4, <1>5, DatedClock
<1>7. EndsIn(level.rest, 8)
  BY <1>6, FromSame, SkipKeeps, BracketKeeps
<1> HIDE DEF level
<1>8. EndsIn(content, 8 - 1)
  BY <1>7, TokenKeeps
<1> HIDE DEF content
<1> QED BY <1>3, <1>8, WordsReach

(* The applications' layouts.                                              *)
LEMMA SparkHDFSReaches ==
  ASSUME NEW t, EndsIn(t, 8), NEW r \in D!SparkHDFSParse(t)
  PROVE  Reaches(r)
<1> DEFINE behind == IF D!IsSparkPrefix(t) THEN D!AfterClock(D!From(t, 7))
                     ELSE D!TakeToken(D!DropDigits(D!From(t, 3), 6)).rest
           level == D!TakeToken(behind)
           component == D!TakeUntilOrNone(level.rest, ":")
           content == D!Skip(component.rest)
           read == [D!Fields EXCEPT !.level = level.tok, !.component = component.tok, !.content = content]
           holds == D!IsSparkPrefix(t) \/ D!IsHdfsPrefix(t)
<1>1. D!SparkHDFSParse(t) = D!When(holds, read)
  BY Zenon DEF D!SparkHDFSParse
<1>2. r = read /\ holds
  <2> HIDE DEF read, holds
  <2> QED BY <1>1, WhenIs
<1>3. r.content = content
  <2> HIDE DEF level, component, content
  <2> QED BY <1>2, ContentIs
<1>4. EndsIn(behind, 7)
  <2>1. CASE D!IsSparkPrefix(t)
    <3> DEFINE p == D!ShortDate \o <<{"sp"}>>
    <3>1. D!Leads(t, p \o D!Clock)
      BY <2>1 DEF D!IsSparkPrefix
    <3>2. IsSequence(p) /\ Len(p) = 6
      BY DatesAre
    <3> HIDE DEF p
    <3>3. EndsIn(From(t, 7), 8)
      BY <3>1, <3>2, DatedClock
    <3>4. D!Leads(From(t, 6 + 1), D!Clock)
      BY <3>1, <3>2, WordsType, ClocksAre, LeadsRest
    <3>5. EndsIn(D!AfterClock(From(t, 7)), 8)
      BY <3>3, <3>4, ClockKeeps
    <3>6. behind = D!AfterClock(From(t, 7)) /\ 7 \in 1 .. 8
      BY <2>1, FromSame
    <3> HIDE DEF behind
    <3> QED BY <3>5, <3>6, FewerWords
  <2>2. CASE ~D!IsSparkPrefix(t)
    <3>1. D!IsHdfsPrefix(t)
      BY <1>2, <2>2
    <3> PICK R : R = D!DigitRun
      OBVIOUS
    <3>2. D!Leads(t, <<{"d6"}, {"sp"}, {"d6"}, {"sp"}, R>>)
      BY <3>1, Zenon DEF D!IsHdfsPrefix
    <3>3. t[3] = "d6" /\ Len(t) >= 5 /\ Foreign("d6")
      <4> PICK p : p = <<{"d6"}, {"sp"}, {"d6"}, {"sp"}, R>>
        OBVIOUS
      <4>1. 3 \in DOMAIN p /\ p[3] = {"d6"} /\ Len(p) = 5
        OBVIOUS
      <4>2. t[3] \in {"d6"} /\ Len(t) >= 5
        BY <3>2, <4>1, LeadsCell
      <4> QED BY <4>2 DEF Foreign
    <3>4. 3 \in 1 .. Len(t) /\ 3 \in 1 .. 3 + 1 /\ 3 \in 1 .. Len(t) + 1 /\ 1 \in 1 .. Len(t) - 3 + 1 /\ 3 + 1 - 1 = 3
      BY <3>3, WordsType
    <3>5. EndsIn(From(t, 3), 8) /\ From(t, 3)[1] = t[3]
      BY <3>3, <3>4, CutBefore, FromIs, WordsType
    <3>6. EndsIn(D!DropDigits(From(t, 3), 6), 8)
      BY <3>3, <3>5, DigitsKeep
    <3>7. EndsIn(D!TakeToken(D!DropDigits(From(t, 3), 6)).rest, 8 - 1)
      BY <3>6, TokenKeeps
    <3>8. behind = D!TakeToken(D!DropDigits(From(t, 3), 6)).rest /\ 8 - 1 = 7
      BY <2>2, FromSame
    <3> HIDE DEF behind
    <3> QED BY <3>7, <3>8
  <2> QED BY <2>1, <2>2
<1> HIDE DEF behind
<1>5. EndsIn(level.rest, 7 - 1)
  BY <1>4, TokenKeeps
<1> HIDE DEF level
<1>6. EndsIn(component.rest, 7 - 1)
  <2>1. Foreign(":")
    BY DEF Foreign
  <2> QED BY <1>5, <2>1, OrNoneKeeps
<1> HIDE DEF component
<1>7. EndsIn(content, 7 - 1)
  BY <1>6, SkipKeeps
<1> HIDE DEF content
<1> QED BY <1>3, <1>7, WordsReach

\* Behind a stamp's seconds stands the mark of its fraction.
LEMMA StampMark ==
  ASSUME NEW text, IsSequence(text), NEW i \in 1 .. Len(text), Stamped(text, i)
  PROVE  Foreign(text[After(text, i + 5, {"sp"}) + 5])
<1>0. Len(text) \in Nat /\ i + 5 <= Len(text) /\ After(text, i + 5, {"sp"}) \in i + 5 .. Len(text) /\ After(text, i + 5, {"sp"}) + 5 <= Len(text)
  BY StampRoom
<1>m. PICK M : M = {".", ","}
  OBVIOUS
<1>f. \A m \in M : Foreign(m)
  BY <1>m DEF Foreign
<1>p. PICK t, x, v : t = From(text, i) /\ x = From(text, i + 5) /\ v = D!Skip(x)
  OBVIOUS
<1>1. Shifts(text, t, i - 1) /\ Shifts(text, x, (i + 5) - 1)
  <2>1. i \in 1 .. Len(text) + 1 /\ i + 5 \in 1 .. Len(text) + 1
    BY <1>0
  <2> QED BY <1>p, <2>1, FromShiftsBack
<1>2. x = From(t, 6)
  <2>1. 6 \in 1 .. Len(t) + 1 /\ (i - 1) + 6 = i + 5
    BY <1>0, <1>1 DEF Shifts
  <2>2. From(text, (i - 1) + 6) = From(t, 6)
    BY <1>1, <2>1, FromShifts
  <2> QED BY <1>p, <2>1, <2>2
<1>3. D!Leads(v, D!WholeClock \o <<M>>)
  <2>1. D!IsIsoDatetimeSpacePrefix(t, TRUE)
    BY <1>p, FromSame DEF Stamped
  <2>2. D!Leads(D!Skip(D!From(t, 6)), D!WholeClock \o <<{".", ","}>>)
    BY <2>1 DEF D!IsIsoDatetimeSpacePrefix
  <2> QED BY <1>m, <1>p, <1>2, <2>2, FromSame
<1>4. PICK c \in 0 .. Len(x) : IsSequence(v) /\ Len(v) = Len(x) - c /\ (\A k \in 1 .. Len(x) - c : v[k] = x[c + k]) /\ After(x, 1, {"sp"}) = c + 1
  BY <1>p, <1>1, SkipIs DEF Shifts
<1>z. Len(x) \in Nat /\ Len(v) \in Nat
  <2>1. Len(x) \in Nat
    BY <1>1 DEF Shifts
  <2> QED BY <1>4, <2>1
<1>5. Len(v) >= 6 /\ v[6] \in M
  <2>1. <<M>> \in Seq({M}) /\ Len(<<M>>) = 1 /\ <<M>>[1] = M
    OBVIOUS
  <2>q. PICK q : q = <<M>>
    OBVIOUS
  <2>2. IsSequence(q) /\ Len(q) = 1 /\ q[1] = M
    BY <2>1, <2>q, SeqIs
  <2>k. PICK w : w = D!WholeClock
    OBVIOUS
  <2>w. IsSequence(w) /\ Len(w) = 5
    BY <2>k, ClocksAre
  <2>3. Len(v) >= 5 + 1 /\ v[5 + 1] \in q[1]
    <3>1. D!Leads(v, w \o q)
      BY <1>3, <2>q, <2>k, Zenon
    <3>2. Len(v) >= Len(w) + Len(q) /\ \A k \in 1 .. Len(q) : v[Len(w) + k] \in q[k]
      BY <1>z, <2>2, <2>w, <3>1, LeadsHead
    <3>3. 1 \in 1 .. Len(q)
      BY <2>2
    <3> QED BY <2>2, <2>w, <3>2, <3>3
  <2> QED BY <2>2, <2>3
<1>a. 1 \in 1 .. Len(x) + 1
  BY <1>z
<1>6. After(text, ((i + 5) - 1) + 1, {"sp"}) = ((i + 5) - 1) + (c + 1)
  <2>1. After(text, ((i + 5) - 1) + 1, {"sp"}) = ((i + 5) - 1) + After(x, 1, {"sp"})
    BY <1>1, <1>a, AfterShifts
  <2>2. After(x, 1, {"sp"}) = c + 1
    BY <1>4
  <2> QED BY <2>1, <2>2, Zenon
<1>7. c + 6 \in 1 .. Len(x) /\ v[6] = x[c + 6]
  <2>1. 6 \in 1 .. Len(x) - c
    BY <1>z, <1>4, <1>5
  <2>2. c + 6 \in 1 .. Len(x)
    BY <1>z, <1>4, <2>1
  <2> QED BY <1>4, <2>1, <2>2
<1>8. x[c + 6] = text[((i + 5) - 1) + (c + 6)]
  BY <1>1, <1>7 DEF Shifts
<1>9. After(text, i + 5, {"sp"}) + 5 = ((i + 5) - 1) + (c + 6)
  <2>1. ((i + 5) - 1) + 1 = i + 5
    BY <1>0
  <2> QED BY <1>0, <1>4, <1>6, <2>1
<1> QED BY <1>f, <1>5, <1>7, <1>8, <1>9

LEMMA StampKeeps ==
  ASSUME NEW t, NEW n, EndsIn(t, n), NEW stamp \in D!FindLog4jStamp(t)
  PROVE  EndsIn(From(t, stamp.end), n)
<1>0. IsSequence(t) /\ Len(t) \in Nat
  BY WordsType
<1>1. PICK i \in 1 .. Len(t) : Stamped(t, i) /\ stamp.end = D!Log4jStampEnd(t, i)
  <2> DEFINE first == D!After(t, 1, {"sp"})
             chosen == {k \in Later(t) : (\A m \in Later(t) : k <= m) /\ HasPid(t, k)}
             one == [start |-> first, end |-> D!Log4jStampEnd(t, first), prefixed |-> FALSE]
             all == {[start |-> i, end |-> D!Log4jStampEnd(t, i), prefixed |-> TRUE] : i \in chosen}
  <2>1. D!FindLog4jStamp(t) = IF Stamped(t, first) THEN {one} ELSE all
    BY Zenon DEF D!FindLog4jStamp, Stamped, Later, Within, HasPid, D!kIsoTimestampMinLen, D!kLog4jPrefixScanLimit
  <2>2. first \in 1 .. Len(t)
    <3>1. PICK b \in 0 .. Len(t) : After(t, 1, {"sp"}) = b + 1 /\ Len(D!Skip(t)) = Len(t) - b
      BY <1>0, SkipIs
    <3>2. EndsIn(D!Skip(t), n)
      BY SkipKeeps
    <3>3. Len(D!Skip(t)) >= 1
      BY <3>2, WordsType
    <3> QED BY <1>0, <3>1, <3>3, FromSame
  <2>3. CASE Stamped(t, first)
    <3>1. stamp = one
      <4> HIDE DEF one, all
      <4> QED BY <2>1, <2>3
    <3>2. stamp.end = D!Log4jStampEnd(t, first)
      <4> HIDE DEF first
      <4> QED BY <3>1
    <3> QED BY <2>2, <2>3, <3>2
  <2>4. CASE ~Stamped(t, first)
    <3>1. stamp \in all
      <4> HIDE DEF one, all
      <4> QED BY <2>1, <2>4
    <3>2. PICK i \in chosen : stamp = [start |-> i, end |-> D!Log4jStampEnd(t, i), prefixed |-> TRUE]
      <4> HIDE DEF chosen
      <4> QED BY <3>1
    <3>3. stamp.end = D!Log4jStampEnd(t, i) /\ i \in Later(t)
      BY <3>2
    <3>4. i \in D!After(t, 1, {"sp"}) + 1 .. Len(t) /\ Stamped(t, i)
      BY <3>3 DEF Later
    <3>5. i \in 1 .. Len(t)
      BY <1>0, <2>2, <3>4
    <3> QED BY <3>3, <3>4, <3>5
  <2> QED BY <2>3, <2>4
<1> PICK c : c = After(t, i + 5, {"sp"})
  OBVIOUS
<1>2. c \in 1 .. Len(t) /\ c + 5 <= Len(t) /\ Foreign(t[c + 5])
  <2>1. c \in i + 5 .. Len(t) /\ c + 5 <= Len(t)
    BY <1>0, <1>1, StampRoom
  <2> QED BY <1>0, <1>1, <2>1, StampMark
<1> PICK e : e = After(t, c + 6, D!DigitRun)
  OBVIOUS
<1>3. e \in c + 6 .. Len(t) + 1 /\ \A k \in c + 6 .. e - 1 : t[k] \in D!DigitRun
  <2>1. c + 6 \in Nat /\ c + 6 <= Len(t) + 1
    BY <1>0, <1>2
  <2> QED BY <1>0, <2>1, AfterType
<1>4. stamp.end = e
  <2>1. D!Log4jStampEnd(t, i) = After(t, After(t, i + 5, {"sp"}) + 6, D!DigitRun)
    BY DEF D!Log4jStampEnd, D!After, After
  <2> QED BY <1>1, <2>1
<1>5. e - 1 \in 1 .. Len(t) /\ e \in 1 .. (e - 1) + 1
  BY <1>0, <1>2, <1>3
<1>6. Foreign(t[e - 1])
  <2>1. CASE e = c + 6
    BY <1>2, <2>1
  <2>2. CASE e # c + 6
    <3>1. e - 1 \in c + 6 .. e - 1
      BY <1>2, <1>3, <2>2
    <3> QED BY <1>3, <3>1, DigitsAreForeign
  <2> QED BY <2>1, <2>2
<1> QED BY <1>4, <1>5, <1>6, CutBefore

\* The three layouts behind a stamp.
LEMMA StampedReaches ==
  ASSUME NEW t, EndsIn(t, 8)
  PROVE  Reaches(D!Log4jDash(t)) /\ Reaches(D!Log4jPrefixed(t)) /\ Reaches(D!Log4jStandard(t))
<1>0. \A c \in {"-"} : Foreign(c)
  BY DEF Foreign
<1>a. EndsIn(D!TakeToken(t).rest, 8 - 1)
  BY TokenKeeps
<1>b. EndsIn(D!TakeToken(D!TakeToken(t).rest).rest, (8 - 1) - 1)
  BY <1>a, TokenKeeps
<1>1. Reaches(D!Log4jDash(t))
  <2> DEFINE level == D!TakeToken(D!TakeToken(t).rest)
             thread == D!TakeBalancedOrNone(level.rest)
             content == D!DropOpening(D!Skip(thread.rest), {"-"})
  <2>1. D!Log4jDash(t) = [D!Fields EXCEPT !.level = level.tok, !.component = thread.tok, !.content = content]
    BY Zenon DEF D!Log4jDash
  <2>2. EndsIn(thread.rest, (8 - 1) - 1)
    BY <1>b, BalancedKeeps
  <2>3. EndsIn(content, (8 - 1) - 1)
    <3> HIDE DEF thread
    <3> QED BY <1>0, <2>2, SkipKeeps, OpeningKeeps
  <2> HIDE DEF level, thread, content
  <2>4. D!Log4jDash(t).content = content
    BY <2>1, ContentIs
  <2> QED BY <2>3, <2>4, WordsReach
<1>2. Reaches(D!Log4jPrefixed(t))
  <2> DEFINE level == D!TakeToken(D!TakeToken(t).rest)
             component == D!TakeToken(level.rest)
             content == D!TakeBracketedOrNone(component.rest).rest
  <2>1. D!Log4jPrefixed(t) = [D!Fields EXCEPT !.level = level.tok, !.component = component.tok, !.content = content]
    BY Zenon DEF D!Log4jPrefixed
  <2>2. EndsIn(component.rest, ((8 - 1) - 1) - 1)
    BY <1>b, TokenKeeps
  <2>3. EndsIn(content, ((8 - 1) - 1) - 1)
    <3> HIDE DEF component
    <3> QED BY <2>2, BracketKeeps
  <2> HIDE DEF level, component, content
  <2>4. D!Log4jPrefixed(t).content = content
    BY <2>1, ContentIs
  <2> QED BY <2>3, <2>4, WordsReach
<1>3. Reaches(D!Log4jStandard(t))
  <2> DEFINE level == D!TakeToken(t)
             component == D!TakeUntilOrNone(D!Skip(D!TakeBalancedOrNone(level.rest).rest), ":")
             content == D!DropOpening(D!Skip(component.rest), {"-"})
  <2>1. D!Log4jStandard(t) = [D!Fields EXCEPT !.level = level.tok, !.component = component.tok, !.content = content]
    BY Zenon DEF D!Log4jStandard
  <2>2. EndsIn(D!Skip(D!TakeBalancedOrNone(level.rest).rest), 8 - 1)
    BY <1>a, BalancedKeeps, SkipKeeps
  <2>3. EndsIn(component.rest, 8 - 1)
    <3>1. Foreign(":")
      BY DEF Foreign
    <3> QED BY <2>2, <3>1, OrNoneKeeps
  <2>4. EndsIn(content, 8 - 1)
    <3> HIDE DEF component
    <3> QED BY <1>0, <2>3, SkipKeeps, OpeningKeeps
  <2> HIDE DEF level, component, content
  <2>5. D!Log4jStandard(t).content = content
    BY <2>1, ContentIs
  <2> QED BY <2>4, <2>5, WordsReach
<1> QED BY <1>1, <1>2, <1>3

LEMMA Log4jReaches ==
  ASSUME NEW t, EndsIn(t, 8), NEW r \in D!Log4jParse(t)
  PROVE  Reaches(r)
<1> DEFINE read(stamp, rest) ==
             IF rest = <<>> THEN {}
             ELSE IF D!TakeToken(rest).tok = <<"-">> THEN {D!Log4jDash(rest)}
             ELSE IF stamp.prefixed THEN {D!Log4jPrefixed(rest)}
             ELSE {D!Log4jStandard(rest)}
<1>1. D!Log4jParse(t) = UNION {read(stamp, D!Skip(D!From(t, stamp.end))) : stamp \in D!FindLog4jStamp(t)}
  BY Zenon DEF D!Log4jParse
<1>2. PICK stamp \in D!FindLog4jStamp(t) : r \in read(stamp, D!Skip(D!From(t, stamp.end)))
  <2> HIDE DEF read
  <2> QED BY <1>1
<1> PICK rest : rest = D!Skip(D!From(t, stamp.end))
  OBVIOUS
<1>3. r \in {D!Log4jDash(rest), D!Log4jPrefixed(rest), D!Log4jStandard(rest)}
  BY <1>2
<1>4. EndsIn(rest, 8)
  BY StampKeeps, SkipKeeps, FromSame
<1> QED BY <1>3, <1>4, StampedReaches

\* The text without its first cells.
Behind(t, u, at) == Len(u) = Len(t) - at /\ \A k \in 1 .. Len(t) - at : u[k] = t[at + k]

LEMMA FromBehind ==
  ASSUME NEW t, IsSequence(t), Len(t) \in Nat, NEW at \in 1 .. Len(t), NEW u, u = From(t, at + 1)
  PROVE  Behind(t, u, at)
<1>1. at + 1 \in 1 .. Len(t) + 1 /\ Len(t) - (at + 1) + 1 = Len(t) - at /\ \A k \in 1 .. Len(t) - at : (at + 1) + k - 1 = at + k
  OBVIOUS
<1>2. Len(From(t, at + 1)) = Len(t) - (at + 1) + 1 /\ \A k \in 1 .. Len(t) - (at + 1) + 1 : From(t, at + 1)[k] = t[(at + 1) + k - 1]
  BY <1>1, FromIs
<1> QED BY <1>1, <1>2 DEF Behind

(* A text cut behind the first of a delimiter has the others still.        *)
LEMMA UntilRest ==
  ASSUME NEW t, NEW n, EndsIn(t, n), NEW d, Foreign(d), NEW i \in 1 .. Len(t), t[i] = d, NEW u, u = D!TakeUntil(t, d).rest
  PROVE  EndsIn(u, n) /\ \E at \in 1 .. i : Behind(t, u, at)
<1>1. Len(t) \in Nat /\ IsSequence(t) /\ DOMAIN t = 1 .. Len(t)
  BY WordsType
<1>2. PICK at \in 1 .. i : D!TakeUntil(t, d) = [tok |-> D!Upto(t, at - 1), rest |-> D!From(t, at + 1)]
  BY <1>1, UntilIs
<1>3. at \in 1 .. Len(t)
  BY <1>1
<1>4. u = From(t, at + 1)
  BY <1>2, FromSame
<1>5. Behind(t, u, at)
  BY <1>1, <1>3, <1>4, FromBehind, Zenon
<1>6. EndsIn(u, n)
  BY UntilKeeps
<1> QED BY <1>5, <1>6, Zenon

LEMMA ThreeBars ==
  ASSUME NEW t, Len(t) \in Nat, NEW d, D!Count(t, Len(t), d) >= 3
  PROVE  \E a, b, c \in 1 .. Len(t) : a < b /\ b < c /\ t[a] = d /\ t[b] = d /\ t[c] = d
<1> DEFINE S == {k \in 1 .. Len(t) : t[k] = d}
<1>1. IsFiniteSet(S)
  <2>1. PICK m \in Int : m = Len(t)
    OBVIOUS
  <2>2. IsFiniteSet(1 .. m)
    <3>1. 1 \in Int
      OBVIOUS
    <3> QED BY <3>1, FS_Interval, Zenon
  <2>3. S \subseteq 1 .. m
    BY <2>1
  <2> HIDE DEF S
  <2> QED BY <2>2, <2>3, FS_Subset
<1>2. D!Count(t, Len(t), d) = Cardinality(S)
  BY Zenon DEF D!Count, D!Cardinality, Cardinality
<1>3. S \subseteq Nat
  OBVIOUS
<1>4. \A k \in S : k \in 1 .. Len(t) /\ t[k] = d
  OBVIOUS
<1> HIDE DEF S
<1>5. Cardinality(S) >= 3 /\ Cardinality(S) \in Nat
  BY <1>1, <1>2, FS_CardinalityType
<1>6. ASSUME NEW T \in SUBSET S, IsFiniteSet(T), NEW k \in Nat, Cardinality(T) >= k + 1, Cardinality(T) \in Nat
      PROVE  \E x \in T : (\A y \in T : x <= y) /\ IsFiniteSet(T \ {x}) /\ Cardinality(T \ {x}) >= k /\ Cardinality(T \ {x}) \in Nat
  <2>1. T # {}
    <3>1. Cardinality({}) = 0
      BY FS_EmptySet
    <3> QED BY <1>6, <3>1
  <2>2. T \in SUBSET Nat
    BY <1>3
  <2>3. PICK x \in T : \A y \in T : x <= y
    BY <2>1, <2>2, Least
  <2>4. IsFiniteSet(T \ {x}) /\ Cardinality(T \ {x}) = Cardinality(T) - 1
    BY <1>6, FS_RemoveElement
  <2>5. Cardinality(T \ {x}) \in Nat /\ Cardinality(T \ {x}) >= k
    BY <1>6, <2>4
  <2> QED BY <2>3, <2>4, <2>5
<1>7. PICK a \in S : (\A y \in S : a <= y) /\ IsFiniteSet(S \ {a}) /\ Cardinality(S \ {a}) >= 2 /\ Cardinality(S \ {a}) \in Nat
  <2>1. 2 \in Nat /\ 3 >= 2 + 1 /\ S \in SUBSET S /\ Cardinality(S) >= 2 + 1
    BY <1>5
  <2> QED BY <1>1, <1>5, <1>6, <2>1
<1>8. PICK b \in S \ {a} : (\A y \in S \ {a} : b <= y) /\ IsFiniteSet((S \ {a}) \ {b}) /\ Cardinality((S \ {a}) \ {b}) >= 1 /\ Cardinality((S \ {a}) \ {b}) \in Nat
  <2>1. 1 \in Nat /\ S \ {a} \in SUBSET S /\ Cardinality(S \ {a}) >= 1 + 1
    BY <1>7
  <2> QED BY <1>6, <1>7, <2>1
<1>9. PICK c \in (S \ {a}) \ {b} : TRUE
  <2>1. Cardinality({}) = 0
    BY FS_EmptySet
  <2> QED BY <1>8, <2>1
<1>10. a \in Nat /\ b \in Nat /\ c \in Nat /\ a <= b /\ a # b /\ b <= c /\ b # c
  BY <1>3, <1>7, <1>8, <1>9
<1>11. a \in S /\ b \in S /\ c \in S /\ a < b /\ b < c
  BY <1>8, <1>9, <1>10
<1> QED BY <1>4, <1>11

LEMMA HealthAppReaches ==
  ASSUME NEW t, EndsIn(t, 8), NEW r \in D!HealthAppParse(t)
  PROVE  Reaches(r)
<1> DEFINE component == D!TakeUntil(D!TakeUntil(t, "|").rest, "|")
           content == D!TakeUntil(component.rest, "|").rest
           read == [D!Fields EXCEPT !.component = component.tok, !.content = content]
<1>1. D!HealthAppParse(t) = D!When(D!IsHealthAppPrefix(t), read)
  BY Zenon DEF D!HealthAppParse
<1>2. r = read /\ D!IsHealthAppPrefix(t)
  <2> HIDE DEF read
  <2> QED BY <1>1, WhenIs
<1>3. r.content = content
  <2> HIDE DEF component, content
  <2> QED BY <1>2, ContentIs
<1>b. PICK bar : bar = "|"
  OBVIOUS
<1>4. Len(t) \in Nat /\ Foreign(bar)
  BY <1>b, WordsType DEF Foreign
<1>5. PICK a, b, c \in 1 .. Len(t) : a < b /\ b < c /\ t[a] = bar /\ t[b] = bar /\ t[c] = bar
  <2>1. D!Count(t, Len(t), bar) >= 3
    BY <1>b, <1>2 DEF D!IsHealthAppPrefix
  <2> QED BY <1>4, <2>1, ThreeBars
<1>u. PICK u : u = D!TakeUntil(t, bar).rest
  OBVIOUS
<1>6. PICK at \in 1 .. a : EndsIn(u, 8) /\ Behind(t, u, at)
  <2>1. t[a] = bar
    BY <1>5
  <2> QED BY <1>u, <1>4, <2>1, UntilRest
<1>7. b - at \in 1 .. Len(u) /\ u[b - at] = bar /\ c - at \in 1 .. Len(u) /\ u[c - at] = bar /\ Len(u) \in Nat
  <2>1. b - at \in 1 .. Len(t) - at /\ c - at \in 1 .. Len(t) - at /\ at + (b - at) = b /\ at + (c - at) = c
    BY <1>4, <1>5, <1>6 DEF Behind
  <2>2. u[b - at] = t[at + (b - at)] /\ u[c - at] = t[at + (c - at)]
    BY <1>6, <2>1 DEF Behind
  <2>3. Len(u) \in Nat
    BY <1>6, WordsType
  <2> QED BY <1>5, <1>6, <2>1, <2>2, <2>3 DEF Behind
<1>v. PICK v : v = D!TakeUntil(u, bar).rest
  OBVIOUS
<1>8. PICK next \in 1 .. b - at : EndsIn(v, 8) /\ Behind(u, v, next)
  <2>1. EndsIn(u, 8) /\ b - at \in 1 .. Len(u) /\ u[b - at] = bar
    BY <1>6, <1>7
  <2> QED BY <1>v, <1>4, <2>1, UntilRest
<1>9. (c - at) - next \in 1 .. Len(v) /\ v[(c - at) - next] = bar
  <2>1. (c - at) - next \in 1 .. Len(u) - next /\ next + ((c - at) - next) = c - at
    BY <1>5, <1>6, <1>7, <1>8 DEF Behind
  <2>2. v[(c - at) - next] = u[next + ((c - at) - next)]
    BY <1>8, <2>1 DEF Behind
  <2> QED BY <1>7, <1>8, <2>1, <2>2 DEF Behind
<1>10. EndsIn(D!TakeUntil(v, bar).rest, 8)
  BY <1>4, <1>8, <1>9, UntilKeeps
<1>11. content = D!TakeUntil(v, bar).rest
  BY <1>b, <1>u, <1>v, Zenon
<1> HIDE DEF content
<1> QED BY <1>3, <1>10, <1>11, WordsReach

----------------------------------------------------------------------------
LEMMA LogcatOpening ==
  ASSUME NEW t, IsSequence(t), D!HasLogcatPrefix(t)
  PROVE  Len(t) >= 11 /\ Foreign(t[10]) /\ Foreign(t[11])
<1> PICK wide : wide = D!Wider(3)
  OBVIOUS
<1> PICK p, q, w : p = <<{"d2"}, {"-"}, {"d2"}, {"sp"}>> /\ q = <<{"."}, wide>> /\ w = D!WholeClock
  OBVIOUS
<1>0. Len(t) \in Nat
  BY SkipIs
<1>1. IsSequence(p) /\ IsSequence(q) /\ Len(p) = 4 /\ Len(q) = 2 /\ q[1] = {"."} /\ q[2] = wide
  <2>1. p \in Seq({{"d2"}, {"-"}, {"sp"}}) /\ q \in Seq({{"."}, wide})
    OBVIOUS
  <2> QED BY <2>1, SeqIs
<1>2. IsSequence(w) /\ Len(w) = 5
  BY ClocksAre
<1>3. D!Leads(t, p \o w \o q)
  BY DEF D!HasLogcatPrefix
<1> PICK pw : pw = p \o w
  OBVIOUS
<1>4. IsSequence(pw) /\ Len(pw) = 9
  <2>1. IsJoin(pw, p, w)
    BY <1>1, <1>2, JoinCells
  <2> QED BY <1>1, <1>2, <2>1 DEF IsJoin
<1>5. D!Leads(t, pw \o q)
  BY <1>3
<1>6. Len(t) >= 9 + 2 /\ \A k \in 1 .. 2 : t[9 + k] \in q[k]
  BY <1>0, <1>1, <1>4, <1>5, LeadsHead
<1>7. t[10] \in {"."} /\ t[11] \in wide
  <2>1. 1 \in 1 .. 2 /\ 2 \in 1 .. 2 /\ 9 + 1 = 10 /\ 9 + 2 = 11
    OBVIOUS
  <2> QED BY <1>1, <1>6, <2>1
<1>8. Foreign(".")
  BY DEF Foreign
<1> QED BY <1>6, <1>7, <1>8, WidthsAreDigits, DigitsAreForeign

LEMMA AndroidLogcatReaches ==
  ASSUME NEW t, EndsIn(t, 8), NEW r \in D!AndroidLogcatParse(t)
  PROVE  Reaches(r)
<1> DEFINE padless(tag) == D!Upto(tag, CHOOSE n \in 0 .. Len(tag) : /\ n = 0 \/ tag[n] # "sp"
                                                                  /\ \A i \in n + 1 .. Len(tag) : tag[i] = "sp")
           read(part) == [D!Fields EXCEPT !.level = <<"I">>, !.component = padless(part.tok),
                            !.content = IF D!FirstIs(part.rest, {"sp"}) THEN Tail(part.rest) ELSE part.rest]
           parts == IF D!HasLogcatPrefix(t) THEN D!LogcatTagAndMessage(t) ELSE {}
           pid == D!Skip(D!DropDigits(From(t, 11), 3))
           tid == D!Skip(Tail(pid))
           level == D!Skip(Tail(tid))
<1>0. IsSequence(t) /\ Len(t) \in Nat
  BY WordsType
<1>1. D!AndroidLogcatParse(t) = {read(part) : part \in {p \in parts : padless(p.tok) # <<>>}}
  BY Zenon DEF D!AndroidLogcatParse
<1>2. PICK part \in parts : r = read(part)
  <2> HIDE DEF read, parts, padless
  <2> QED BY <1>1
<1>3. r.content = IF D!FirstIs(part.rest, {"sp"}) THEN Tail(part.rest) ELSE part.rest
  <2> PICK c, l, x : c = padless(part.tok) /\ l = <<"I">> /\ x = IF D!FirstIs(part.rest, {"sp"}) THEN Tail(part.rest) ELSE part.rest
    OBVIOUS
  <2>1. r = [D!Fields EXCEPT !.level = l, !.component = c, !.content = x]
    <3> HIDE DEF padless
    <3> QED BY <1>2
  <2> QED BY <2>1, ContentIs
<1> HIDE DEF read, padless
<1>4. D!HasLogcatPrefix(t) /\ part \in D!LogcatTagAndMessage(t)
  BY <1>2
<1> HIDE DEF parts
<1>5. /\ D!FirstIs(pid, D!DigitRun) /\ D!FirstIs(tid, D!DigitRun)
      /\ D!Leads(level, <<D!LogcatLevel, {"sp"}>>) /\ D!Has(level, {":"})
      /\ part = D!TakeUntil(From(level, 3), ":")
  <2> DEFINE numbered == D!FirstIs(pid, D!DigitRun) /\ D!FirstIs(tid, D!DigitRun)
             opens == D!Leads(level, <<D!LogcatLevel, {"sp"}>>) /\ D!Has(level, {":"})
  <2>1. D!LogcatTagAndMessage(t) = IF numbered /\ opens THEN {D!TakeUntil(From(level, 3), ":")} ELSE {}
    BY FromSame, Zenon DEF D!LogcatTagAndMessage
  <2>2. numbered /\ opens /\ part = D!TakeUntil(From(level, 3), ":")
    <3> HIDE DEF numbered, opens, level
    <3> QED BY <1>4, <2>1
  <2> QED BY <2>2
<1>6. EndsIn(From(t, 11), 8) /\ From(t, 11)[1] = t[11] /\ Foreign(t[11])
  <2>1. Len(t) >= 11 /\ Foreign(t[10]) /\ Foreign(t[11])
    BY <1>0, <1>4, LogcatOpening
  <2>2. 10 \in 1 .. Len(t) /\ 11 \in 1 .. 10 + 1 /\ 11 \in 1 .. Len(t) + 1 /\ 1 \in 1 .. Len(t) - 11 + 1 /\ 11 + 1 - 1 = 11
    BY <1>0, <2>1
  <2>3. From(t, 11)[1] = t[11]
    BY <1>0, <2>2, FromIs
  <2> QED BY <2>1, <2>2, <2>3, CutBefore
<1>7. EndsIn(pid, 8)
  BY <1>6, DigitsKeep, SkipKeeps
<1>8. Foreign(pid[1]) /\ Foreign(tid[1])
  <2> HIDE DEF pid, tid
  <2> QED BY <1>5, DigitsAreForeign DEF D!FirstIs
<1> HIDE DEF pid
<1>9. EndsIn(tid, 8)
  BY <1>7, <1>8, TailKeeps, SkipKeeps
<1> HIDE DEF tid
<1>10. EndsIn(level, 8)
  BY <1>8, <1>9, TailKeeps, SkipKeeps
<1> HIDE DEF level
<1> PICK body, colon : body = From(level, 3) /\ colon = ":"
  OBVIOUS
<1>11. Len(level) \in Nat /\ Foreign(colon) /\ IsSequence(level)
  BY <1>10, WordsType DEF Foreign
<1>12. level[1] = "I" /\ level[2] = "sp" /\ Len(level) >= 2
  <2> PICK p : p = <<D!LogcatLevel, {"sp"}>>
    OBVIOUS
  <2>1. D!LogcatLevel = {"I"}
    BY DEF D!LogcatLevel
  <2>2. 1 \in DOMAIN p /\ 2 \in DOMAIN p /\ p[1] = {"I"} /\ p[2] = {"sp"} /\ Len(p) = 2
    BY <2>1
  <2>3. D!Leads(level, p)
    BY <1>5
  <2> QED BY <2>2, <2>3, LeadsCell
<1>13. 1 <= Len(level) - 2 * 8
  <2>1. 1 \in 1 .. Len(level) /\ Foreign(level[1])
    BY <1>11, <1>12 DEF Foreign
  <2> QED BY <1>10, <2>1, BeforeWords
<1>14. EndsIn(body, 8) /\ Len(body) = Len(level) - 2 /\ \A k \in 1 .. Len(level) - 2 : body[k] = level[k + 2]
  <2>1. 3 \in 1 .. Len(level) /\ 3 <= Len(level) - 2 * 8 + 2 /\ 8 \in 1 .. 8 /\ 3 \in 1 .. Len(level) + 1 /\ Len(level) - 3 + 1 = Len(level) - 2
        /\ \A k \in 1 .. Len(level) - 2 : 3 + k - 1 = k + 2
    BY <1>11, <1>13
  <2>2. EndsIn(body, 8)
    BY <1>10, <2>1, CutKeeps
  <2>3. Len(body) = Len(level) - 3 + 1 /\ \A k \in 1 .. Len(level) - 3 + 1 : body[k] = level[3 + k - 1]
    BY <1>11, <2>1, FromIs
  <2> QED BY <2>1, <2>2, <2>3
<1>15. PICK i \in 1 .. Len(level) : level[i] = colon
  BY <1>5, <1>10, HasCell
<1>16. i - 2 \in 1 .. Len(body) /\ body[i - 2] = colon
  <2>1. i # 1 /\ i # 2
    BY <1>12, <1>15
  <2>2. i - 2 \in 1 .. Len(level) - 2 /\ (i - 2) + 2 = i
    BY <1>11, <2>1
  <2> QED BY <1>14, <1>15, <2>2
<1> PICK rest : rest = part.rest
  OBVIOUS
<1>17. EndsIn(rest, 8)
  <2>1. EndsIn(D!TakeUntil(body, colon).rest, 8)
    BY <1>11, <1>14, <1>16, UntilKeeps
  <2> QED BY <1>5, <2>1
<1>18. EndsIn(Tail(rest), 7)
  <2>1. Len(rest) \in Nat /\ Len(rest) >= 15 /\ IsSequence(rest) /\ rest # <<>>
    BY <1>17, WordsType
  <2>2. 2 \in 1 .. Len(rest) /\ 2 <= Len(rest) - 2 * 7 + 2 /\ 7 \in 1 .. 8
    BY <2>1
  <2> QED BY <1>17, <2>1, <2>2, CutKeeps, TailIs
<1>19. EndsIn(r.content, 7) \/ EndsIn(r.content, 8)
  BY <1>3, <1>17, <1>18
<1> QED BY <1>19, WordsReach

LEMMA WidthNonzero == \A c : D!Width(c) \in Nat \ {0} /\ D!Width(",") = 1
<1>1. \A c \in D!DigitRun : D!DigitWidth[c] \in Nat \ {0}
  BY DEF D!DigitRun, D!DigitWidth
<1>2. \A c \in D!Words : D!WordWidth[c] \in Nat \ {0}
  BY DEF D!Words, D!WordWidth
<1>3. \A c \in DOMAIN D!MemberWidth : D!MemberWidth[c] \in Nat \ {0}
  BY DEF D!MemberWidth
<1>4. "," \notin D!DigitRun /\ "," \notin D!Words /\ "," \notin DOMAIN D!MemberWidth
  BY DEF D!DigitRun, D!DigitWidth, D!Words, D!WordWidth, D!MemberWidth
<1>5. D!Width(",") = 1
  BY <1>4 DEF D!Width
<1>6. ASSUME NEW c PROVE D!Width(c) \in Nat \ {0}
  BY <1>1, <1>2, <1>3 DEF D!Width
<1> QED BY <1>5, <1>6

\* A cell is one byte at least, so the widths rise by one at least.
LEMMA SizesRise ==
  ASSUME NEW text, Len(text) \in Nat, NEW f, IsSizes(f, text), NEW j \in 0 .. Len(text), NEW k \in 0 .. Len(text), j <= k
  PROVE  f[j] + (k - j) <= f[k]
<1> DEFINE S == {m \in 0 .. k - j : f[j] + m <= f[j + m]}
<1>0. k - j \in Nat /\ j + (k - j) = k /\ j + 0 = j /\ f[j] \in Nat
  BY DEF IsSizes
<1>1. 0 \in S
  BY <1>0
<1>2. ASSUME NEW m \in 0 .. (k - j) - 1, m \in S PROVE m + 1 \in S
  <2>1. j + (m + 1) \in 1 .. Len(text) /\ (j + (m + 1)) - 1 = j + m /\ j + m \in 0 .. Len(text) /\ m + 1 \in 0 .. k - j
    OBVIOUS
  <2>2. f[j + (m + 1)] = f[j + m] + D!Width(text[j + (m + 1)])
    BY <2>1 DEF IsSizes
  <2>3. f[j + m] \in Nat /\ f[j] \in Nat /\ D!Width(text[j + (m + 1)]) \in Nat \ {0}
    BY <2>1, WidthNonzero DEF IsSizes
  <2> QED BY <1>2, <2>1, <2>2, <2>3
<1>3. k - j \in S
  <2> HIDE DEF S
  <2> QED BY <1>0, <1>1, <1>2, InductUpTo
<1> QED BY <1>0, <1>3

(* The text past a byte opens at the cell that the bytes before it end at. *)
LEMMA PastByteIs ==
  ASSUME NEW t, IsSequence(t), NEW f, IsSizes(f, t), NEW n, NEW k \in 1 .. Len(t), f[k - 1] = n
  PROVE  D!PastByte(t, n) = From(t, k)
<1>0. Len(t) \in Nat /\ DOMAIN t = 1 .. Len(t)
  BY SkipIs
<1>1. \A i \in DOMAIN t : D!Size(D!Upto(t, i - 1)) = f[i - 1]
  <2>1. \A i \in DOMAIN t : i - 1 \in 0 .. Len(t)
    BY <1>0
  <2> QED BY <2>1, SizeUpto
<1> DEFINE at == CHOOSE i \in DOMAIN t : D!Size(D!Upto(t, i - 1)) = n
<1>2. at \in DOMAIN t /\ D!Size(D!Upto(t, at - 1)) = n
  <2>1. \E i \in DOMAIN t : D!Size(D!Upto(t, i - 1)) = n
    BY <1>0, <1>1
  <2> QED BY <2>1
<1>3. D!PastByte(t, n) = D!From(t, at)
  BY DEF D!PastByte
<1> HIDE DEF at
<1>4. f[at - 1] = n /\ at \in 1 .. Len(t) /\ n \in Nat
  <2>1. k - 1 \in 0 .. Len(t)
    BY <1>0
  <2> QED BY <1>0, <1>1, <1>2, <2>1 DEF IsSizes
<1>5. at = k
  <2>1. CASE at < k
    <3>1. at - 1 \in 0 .. Len(t) /\ k - 1 \in 0 .. Len(t) /\ at - 1 <= k - 1
      BY <1>0, <1>4, <2>1
    <3>2. f[at - 1] + ((k - 1) - (at - 1)) <= f[k - 1]
      BY <1>0, <3>1, SizesRise
    <3> QED BY <1>0, <1>4, <2>1, <3>2
  <2>2. CASE k < at
    <3>1. at - 1 \in 0 .. Len(t) /\ k - 1 \in 0 .. Len(t) /\ k - 1 <= at - 1
      BY <1>0, <1>4, <2>2
    <3>2. f[k - 1] + ((at - 1) - (k - 1)) <= f[at - 1]
      BY <1>0, <3>1, SizesRise
    <3> QED BY <1>0, <1>4, <2>2, <3>2
  <2> QED BY <1>4, <2>1, <2>2
<1> QED BY <1>3, <1>5, FromSame

LEMMA AtByteIs ==
  ASSUME NEW t, IsSequence(t), NEW f, IsSizes(f, t), NEW n, NEW cell, D!AtByte(t, n, cell)
  PROVE  \E k \in 1 .. Len(t) : t[k] = cell /\ f[k - 1] = n
<1>0. Len(t) \in Nat /\ DOMAIN t = 1 .. Len(t)
  BY SkipIs
<1>1. PICK k \in DOMAIN t : t[k] = cell /\ D!Size(D!Upto(t, k - 1)) = n
  BY DEF D!AtByte
<1>2. k - 1 \in 0 .. Len(t)
  BY <1>0
<1> QED BY <1>0, <1>1, <1>2, SizeUpto

LEMMA WindowsCBSReaches ==
  ASSUME NEW t, EndsIn(t, 8), NEW r \in D!WindowsCBSParse(t)
  PROVE  Reaches(r)
<1> DEFINE level == D!TakeToken(D!PastByte(t, 20))
           component == D!TakeToken(level.rest)
           holds == level.tok # <<>> /\ component.tok # <<>>
           read == [D!Fields EXCEPT !.level = level.tok, !.component = component.tok, !.content = component.rest]
           at == D!AtByte(t, 19, ",") /\ D!AtByte(t, 20, "sp")
<1>1. D!WindowsCBSParse(t) = IF ~at THEN {} ELSE D!When(holds, read)
  BY Zenon DEF D!WindowsCBSParse
<1>2. r = read /\ at
  <2>1. at /\ r \in D!When(holds, read)
    <3> HIDE DEF at, holds, read
    <3> QED BY <1>1
  <2> HIDE DEF at, holds, read
  <2> QED BY <2>1, WhenIs
<1>3. r.content = component.rest
  <2> HIDE DEF level, component, at, holds
  <2> QED BY <1>2, ContentIs
<1>c. PICK comma : comma = ","
  OBVIOUS
<1>4. D!AtByte(t, 19, comma) /\ D!AtByte(t, 20, "sp") /\ D!Width(comma) = 1 /\ Foreign(comma)
  BY <1>2, <1>c, WidthNonzero DEF Foreign
<1>5. IsSequence(t) /\ Len(t) \in Nat
  BY WordsType
<1>6. PICK f : IsSizes(f, t)
  BY <1>5, SizeIs
<1>7. PICK k \in 1 .. Len(t) : t[k] = comma /\ f[k - 1] = 19
  BY <1>4, <1>5, <1>6, AtByteIs
<1>8. PICK j \in 1 .. Len(t) : t[j] = "sp" /\ f[j - 1] = 20
  BY <1>4, <1>5, <1>6, AtByteIs
<1>9. f[k] = 20 /\ k \in 1 .. Len(t)
  <2>1. f[k] = f[k - 1] + D!Width(t[k])
    BY <1>6, <1>7 DEF IsSizes
  <2>2. D!Width(t[k]) = 1
    BY <1>4, <1>7
  <2> QED BY <1>7, <2>1, <2>2
<1>10. k < Len(t)
  <2>1. 1 \in 1 .. Len(t)
    BY <1>5, <1>9
  <2>2. k <= Len(t) - 2 * 8
    BY <1>4, <1>7, BeforeWords
  <2> QED BY <1>5, <1>9, <2>2
<1>11. k + 1 \in 1 .. Len(t) /\ (k + 1) - 1 = k /\ k + 1 \in 1 .. k + 1
  BY <1>5, <1>9, <1>10
<1>12. D!PastByte(t, 20) = From(t, k + 1)
  BY <1>5, <1>6, <1>9, <1>11, PastByteIs
<1>13. EndsIn(D!PastByte(t, 20), 8)
  BY <1>4, <1>7, <1>11, <1>12, CutBefore
<1>14. EndsIn(level.rest, 8 - 1)
  BY <1>13, TokenKeeps
<1> HIDE DEF level
<1>15. EndsIn(component.rest, (8 - 1) - 1)
  BY <1>14, TokenKeeps
<1> QED BY <1>3, <1>15, WordsReach

\* A text with words behind it ends as they do.
LEMMA JoinEnds ==
  ASSUME NEW p, NEW q, IsSequence(p), IsSequence(q), q # <<>>, q[Len(q)] = "unix"
  PROVE  IsSequence(p \o q) /\ p \o q # <<>> /\ (p \o q)[Len(p \o q)] = "unix"
<1> PICK u : u = p \o q
  OBVIOUS
<1>1. IsJoin(u, p, q)
  BY JoinCells
<1>2. Len(q) >= 1 /\ Len(q) \in Nat
  <2>1. Len(q) \in Nat /\ q \in Seq({q[i] : i \in DOMAIN q})
    BY DEF IsSequence
  <2> QED BY <2>1
<1>3. Len(q) \in 1 .. Len(q) /\ Len(u) = Len(p) + Len(q) /\ Len(u) >= 1 /\ IsSequence(u)
  BY <1>1, <1>2 DEF IsJoin
<1>4. u[Len(u)] = "unix"
  BY <1>1, <1>3 DEF IsJoin
<1>5. u # <<>>
  BY <1>3
<1> QED BY <1>3, <1>4, <1>5

LEMMA TokenType ==
  ASSUME NEW t, NEW n, EndsIn(t, n)
  PROVE  IsSequence(D!TakeToken(t).tok)
<1> PICK s : s = D!Skip(t)
  OBVIOUS
<1>1. PICK e \in 2 .. Len(s) + 1 : D!TakeToken(t).tok = SubSeq(s, 1, e - 1)
  BY TokenIs
<1>2. s \in Seq({s[i] : i \in DOMAIN s}) /\ Len(s) \in Nat
  <2>1. IsSequence(s)
    BY SkipKeeps, WordsType
  <2> QED BY <2>1 DEF IsSequence
<1> DEFINE A == {s[i] : i \in DOMAIN s}
<1>3. SubSeq(s, 1, e - 1) \in Seq(A)
  <2> HIDE DEF A
  <2>1. s \in Seq(A)
    BY <1>2 DEF A
  <2>2. 1 \in 1 .. Len(s) + 1 /\ e - 1 \in 0 .. Len(s)
    BY <1>2
  <2>3. \A i \in 1 .. e - 1 : s[i] \in A
    BY <1>2, <2>1, <2>2
  <2> QED BY <2>1, <2>2, <2>3
<1> HIDE DEF A
<1> QED BY <1>1, <1>3, SeqIs

(* A stamp has its date and its clock before the words.                    *)
LEMMA IsoRoom ==
  ASSUME NEW t, EndsIn(t, 8), D!IsIsoDatetimeSpacePrefix(t, FALSE)
  PROVE  Len(t) >= 27
<1>0. Len(t) \in Nat /\ IsSequence(t)
  BY WordsType
<1> PICK x, y, p : x = From(t, 6) /\ y = D!Skip(x) /\ p = D!WholeDate("-") \o <<{"sp"}>>
  OBVIOUS
<1>1. D!Leads(t, p) /\ D!Leads(y, D!Clock)
  BY FromSame DEF D!IsIsoDatetimeSpacePrefix
<1>2. Len(t) >= 6 /\ t[5] = "d2" /\ t[6] = "sp"
  <2>1. DOMAIN p = 1 .. 6 /\ Len(p) = 6 /\ p[5] = {"d2"} /\ p[6] = {"sp"}
    BY DEF D!WholeDate, D!Date
  <2>2. 5 \in DOMAIN p /\ 6 \in DOMAIN p
    BY <2>1
  <2> QED BY <1>1, <2>1, <2>2, LeadsCell
<1>3. EndsIn(x, 8) /\ Len(x) = Len(t) - 5 /\ x[1] = "sp"
  <2>1. 5 \in 1 .. Len(t) /\ 6 \in 1 .. 5 + 1 /\ 6 \in 1 .. Len(t) + 1 /\ 1 \in 1 .. Len(t) - 6 + 1 /\ 6 + 1 - 1 = 6 /\ Len(t) - 6 + 1 = Len(t) - 5
    BY <1>0, <1>2
  <2>2. Foreign(t[5])
    BY <1>2 DEF Foreign
  <2>3. Len(x) = Len(t) - 6 + 1 /\ x[1] = t[6 + 1 - 1]
    BY <1>0, <2>1, FromIs
  <2> QED BY <1>2, <2>1, <2>2, <2>3, CutBefore
<1>4. EndsIn(y, 8) /\ IsSequence(x)
  BY <1>3, SkipKeeps, WordsType
<1>5. PICK b \in 0 .. Len(x) : Len(y) = Len(x) - b /\ (b < Len(x) => x[b + 1] # "sp")
  BY <1>4, SkipIs
<1>6. b >= 1
  BY <1>0, <1>2, <1>3, <1>5
<1>7. Len(y) >= 5 /\ Foreign(y[5])
  BY <1>1, <1>4, WordsType, ClockAlone
<1>8. 5 <= Len(y) - 2 * 8 /\ Len(y) \in Nat
  <2>1. 5 \in 1 .. Len(y)
    BY <1>4, <1>7, WordsType
  <2> QED BY <1>4, <1>7, <2>1, BeforeWords
<1> QED BY <1>0, <1>3, <1>5, <1>6, <1>8

LEMMA IISW3CReaches ==
  ASSUME NEW t, EndsIn(t, 8), D!IISW3CConfidence(t) > 0, NEW r \in D!IISW3CParse(t)
  PROVE  Reaches(r)
<1> DEFINE first == D!TakeToken(D!PastByte(t, 19))
           server == D!TakeToken(first.rest)
           method == D!TakeToken(server.rest)
           requested == D!TakeToken(method.rest)
           read(component, verb, uri) ==
             [D!Fields EXCEPT !.level = uri.rest, !.component = component,
                !.content = verb \o <<"sp">> \o uri.tok \o (IF uri.rest = <<>> THEN <<>> ELSE <<"sp">> \o uri.rest)]
           other == method.tok = <<"GET">> /\ requested.tok # <<>>
<1>0. Len(t) \in Nat /\ IsSequence(t)
  BY WordsType
<1>1. D!IsIsoDatetimeSpacePrefix(t, FALSE) /\ D!AtByte(t, 19, "sp")
  <2> DEFINE holds == D!IsIsoDatetimeSpacePrefix(t, FALSE) /\ D!AtByte(t, 19, "sp")
  <2>1. D!IISW3CConfidence(t) = IF D!Size(t) >= 22 /\ holds THEN 87 ELSE 0
    BY Zenon DEF D!IISW3CConfidence, D!Score
  <2>2. holds
    <3> HIDE DEF holds
    <3> QED BY <2>1
  <2> QED BY <2>2
<1>2. PICK f : IsSizes(f, t)
  BY <1>0, SizeIs
<1>3. PICK k \in 1 .. Len(t) : f[k - 1] = 19
  BY <1>0, <1>1, <1>2, AtByteIs
<1>4. k <= 20
  <2>1. k - 1 \in 0 .. Len(t) /\ 0 \in 0 .. Len(t) /\ 0 <= k - 1
    BY <1>0
  <2>2. f[0] + ((k - 1) - 0) <= f[k - 1]
    BY <1>0, <1>2, <2>1, SizesRise
  <2>3. f[0] = 0
    BY <1>2 DEF IsSizes
  <2> QED BY <1>0, <1>3, <2>2, <2>3
<1>5. EndsIn(D!PastByte(t, 19), 4)
  <2>1. Len(t) >= 27
    BY <1>1, IsoRoom
  <2>2. k <= Len(t) - 2 * 4 + 2 /\ 4 \in 1 .. 8
    BY <1>0, <1>4, <2>1
  <2>3. D!PastByte(t, 19) = From(t, k)
    BY <1>0, <1>2, <1>3, PastByteIs
  <2> QED BY <2>2, <2>3, CutKeeps
<1>6. ASSUME NEW c, NEW uri, IsSequence(uri.tok), NEW n, EndsIn(uri.rest, n), r = read(c, <<"GET">>, uri)
      PROVE  Reaches(r)
  <2>a. PICK verb, sp, tok, rest : verb = <<"GET">> /\ sp = <<"sp">> /\ tok = uri.tok /\ rest = uri.rest
    OBVIOUS
  <2>1. IsSequence(verb) /\ IsSequence(sp)
    <3>1. verb \in Seq({"GET"}) /\ sp \in Seq({"sp"})
      BY <2>a
    <3> QED BY <3>1, SeqIs
  <2>2. IsSequence(rest) /\ rest # <<>> /\ rest[Len(rest)] = "unix"
    BY <1>6, <2>a, WordsType
  <2>b. PICK end, v, w, x : end = sp \o rest /\ v = verb \o sp /\ w = v \o tok /\ x = w \o end
    OBVIOUS
  <2>3. IsSequence(end) /\ end # <<>> /\ end[Len(end)] = "unix"
    BY <2>1, <2>2, <2>b, JoinEnds
  <2>4. IsSequence(v)
    BY <2>1, <2>b, JoinIs
  <2>5. IsSequence(w)
    BY <1>6, <2>4, <2>a, <2>b, JoinIs
  <2>6. x # <<>> /\ x[Len(x)] = "unix"
    BY <2>3, <2>5, <2>b, JoinEnds
  <2>7. r = [D!Fields EXCEPT !.level = rest, !.component = c, !.content = x]
    BY <1>6, <2>2, <2>a, <2>b
  <2>8. r.content = x
    <3> HIDE DEF first, server, method, requested, read, other
    <3> QED BY <2>7 DEF D!Fields
  <2> QED BY <2>6, <2>8 DEF Reaches
<1>7. D!IISW3CParse(t) = IF D!FirstIs(t, {"#"}) \/ D!Size(t) < 20 THEN {}
                         ELSE IF first.tok = <<"GET">> THEN {read(<<"IIS">>, first.tok, server)}
                         ELSE D!When(other, read(server.tok, method.tok, requested))
  BY Zenon DEF D!IISW3CParse
<1>8. \/ first.tok = <<"GET">> /\ r = read(<<"IIS">>, first.tok, server)
      \/ r \in D!When(other, read(server.tok, method.tok, requested))
  <2> HIDE DEF first, server, method, requested, other, read
  <2> QED BY <1>7
<1>9. EndsIn(first.rest, 4 - 1) /\ (first.tok = <<"GET">> => EndsIn(first.rest, 4))
  BY <1>5, NamesAreForeign, TokenKeeps
<1> HIDE DEF first
<1>10. CASE first.tok = <<"GET">> /\ r = read(<<"IIS">>, first.tok, server)
  <2>1. EndsIn(server.rest, 4 - 1) /\ IsSequence(server.tok)
    BY <1>9, <1>10, TokenKeeps, TokenType
  <2>2. r = read(<<"IIS">>, <<"GET">>, server)
    <3> HIDE DEF read, server
    <3> QED BY <1>10
  <2> HIDE DEF read, server
  <2> QED BY <1>6, <2>1, <2>2
<1>11. CASE r \in D!When(other, read(server.tok, method.tok, requested))
  <2>1. r = read(server.tok, method.tok, requested) /\ other
    <3> HIDE DEF read, other
    <3> QED BY <1>11, WhenIs
  <2>2. r = read(server.tok, <<"GET">>, requested) /\ method.tok # <<"unix">>
    <3>1. method.tok = <<"GET">>
      BY <2>1
    <3> HIDE DEF read, other, method, requested, server
    <3> QED BY <2>1, <3>1, NamesAreForeign
  <2>3. EndsIn(server.rest, (4 - 1) - 1)
    BY <1>9, TokenKeeps
  <2> HIDE DEF server, read
  <2>4. EndsIn(method.rest, (4 - 1) - 1)
    BY <2>2, <2>3, TokenKeeps
  <2> HIDE DEF method
  <2>5. EndsIn(requested.rest, ((4 - 1) - 1) - 1) /\ IsSequence(requested.tok)
    BY <2>4, TokenKeeps, TokenType
  <2> HIDE DEF requested
  <2> QED BY <1>6, <2>2, <2>5
<1> QED BY <1>8, <1>10, <1>11

(* A strategy that claims the line with its words reads them.              *)
LEMMA LayoutsReach ==
  ASSUME NEW t, EndsIn(t, 8), NEW f \in DOMAIN D!ConfidenceOf(t) \ {"CLF", "KeyValue", "JSON", "CloudWatch", "SystemdJournal"},
         D!ConfidenceOf(t)[f] > 0, NEW r \in D!ParseOf(f, t)
  PROVE  Reaches(r)
<1>1. f # "RawText"
  BY ScoreOf
<1>2. f \in {"Syslog", "Rfc3339Text", "HealthApp", "BGL", "AndroidLogcat", "Proxifier", "ApacheError", "WindowsCBS", "SparkHDFS", "Log4j", "HPC", "NginxError", "IISW3C", "RFC5424"}
  BY <1>1, ScoreOf
<1>3. /\ D!ParseOf("AndroidLogcat", t) = D!AndroidLogcatParse(t) /\ D!ParseOf("WindowsCBS", t) = D!WindowsCBSParse(t)
      /\ D!ParseOf("Log4j", t) = D!Log4jParse(t) /\ D!ParseOf("IISW3C", t) = D!IISW3CParse(t)
  BY DEF D!ParseOf
<1>c1. CASE f = "Syslog"
  BY <1>c1, ReadingOf, SyslogReaches
<1>c2. CASE f = "Rfc3339Text"
  BY <1>c2, ReadingOf, Rfc3339TextReaches
<1>c3. CASE f = "HealthApp"
  BY <1>c3, ReadingOf, HealthAppReaches
<1>c4. CASE f = "BGL"
  BY <1>c4, ReadingOf, BGLReaches
<1>c5. CASE f = "AndroidLogcat"
  BY <1>c5, <1>3, AndroidLogcatReaches
<1>c6. CASE f = "Proxifier"
  BY <1>c6, ReadingOf, ProxifierReaches
<1>c7. CASE f = "ApacheError"
  BY <1>c7, ReadingOf, ApacheErrorReaches
<1>c8. CASE f = "WindowsCBS"
  BY <1>c8, <1>3, WindowsCBSReaches
<1>c9. CASE f = "SparkHDFS"
  BY <1>c9, ReadingOf, SparkHDFSReaches
<1>c10. CASE f = "Log4j"
  BY <1>c10, <1>3, Log4jReaches
<1>c11. CASE f = "HPC"
  BY <1>c11, ReadingOf, HPCReaches
<1>c12. CASE f = "NginxError"
  BY <1>c12, ReadingOf, NginxErrorReaches
<1>c13. CASE f = "IISW3C"
  BY <1>c13, <1>3, ScoreOf, IISW3CReaches
<1>c14. CASE f = "RFC5424"
  BY <1>c14, ReadingOf, RFC5424Reaches
<1> QED BY <1>2, <1>c1, <1>c2, <1>c3, <1>c4, <1>c5, <1>c6, <1>c7, <1>c8, <1>c9, <1>c10, <1>c11, <1>c12, <1>c13, <1>c14

(* Whatever header a strategy recognises, the words behind the line reach  *)
(* the content of the record, and no field takes them for want of its      *)
(* terminator.                                                             *)
THEOREM ReachHolds == SpecRecord => []MessageReachesContent
<1>1. LineIsScored => MessageReachesContent
  <2> SUFFICES ASSUME LineIsScored, Scored
      PROVE ContentEndsWith(line.text \o Extra, "unix", D!ConfidenceOf(line.text \o Extra))
    BY DEF MessageReachesContent
  <2>1. line.text \in TextLines
    BY DEF LineIsScored, Scored, LinesRead
  <2>2. IsSequence(line.text)
    BY <2>1, TextLinesAssumption
  <2>3. PICK t : t = line.text \o Extra
    OBVIOUS
  <2>4. EndsIn(t, 8)
    BY <2>2, <2>3, ExtraEnds
  <2>5. ContentEndsWith(t, "unix", D!ConfidenceOf(t))
    BY <2>4, LayoutsReach DEF ContentEndsWith, Reaches
  <2> QED BY <2>3, <2>5
<1> QED BY <1>1, LineIsScoredHolds, PTL

----------------------------------------------------------------------------
Separates(one, other) ==
  one.class = other.class /\ one.around = other.around /\ one.hidden = other.hidden => one.within = other.within

LEMMA IdentitiesAre ==
  ASSUME NEW introducer \in Introducers, NEW declared \in RunSets
  PROVE  Identities[introducer][declared] = {IdentityOf(name, introducer, declared) : name \in IntentNames}
BY DEF Identities

(* Two names of one class, masked in one place and with one discriminant,  *)
(* are one name but for the declared values that it leaves out             *)
(* (intent_identity.cpp:195): whatever the names, what introduces their    *)
(* versions and the runs that are declared.  The class keeps what stands   *)
(* before the envelope and behind it, the discriminant all that is inside. *)
THEOREM IdentityHolds == SpecRecord => []IdentitySeparates
<1>1. ASSUME NEW introducer \in Introducers, NEW declared \in RunSets, NEW name \in IntentNames, NEW named \in IntentNames,
             NEW one, one = IdentityOf(name, introducer, declared), NEW other, other = IdentityOf(named, introducer, declared)
      PROVE  Separates(one, other)
  <2> SUFFICES ASSUME one.class = other.class, one.around = other.around, one.hidden = other.hidden
               PROVE  one.within = other.within
    BY DEF Separates
  <2> DEFINE Cells(text) == {text[i] : i \in DOMAIN text}
             C == Cells(name) \cup Cells(named) \cup MaskCells
  <2>1. name \in Seq(Cells(name)) /\ named \in Seq(Cells(named)) /\ introducer \in Seq(Cells(introducer))
    BY NamesAssumption, Zenon DEF IsSequence
  <2>2. AreMarked(declared)
    <3> SUFFICES ASSUME NEW run \in declared, NEW k \in DOMAIN run.markers PROVE Len(run.markers[k]) \in Nat
      BY DEF AreMarked, HasMarkers
    <3>1. IsSequence(run.markers[k])
      BY NamesAssumption
    <3> QED BY <3>1, LenProperties DEF IsSequence
  <2>3. Len(introducer) \in Nat
    <3> HIDE DEF Cells
    <3> QED BY <2>1, LenProperties
  <2>4. MaskCells \subseteq C /\ Cells(name) \subseteq C /\ Cells(named) \subseteq C
    <3> HIDE DEF Cells
    <3> QED OBVIOUS
  <2>5. kMaskWildcard \in Seq(C)
    <3>1. kMaskWildcard \in Seq(MaskCells)
      BY DEF kMaskWildcard, MaskCells
    <3> HIDE DEF C
    <3> QED BY <2>4, <3>1, WiderText
  <2> HIDE DEF Cells, C
  <2>6. name \in Seq(C) /\ named \in Seq(C)
    BY <2>1, <2>4, WiderText
  <2>7. IsShaped(C, one)
    BY <1>1, <2>2, <2>3, <2>4, <2>5, <2>6, IdentityShape, Zenon
  <2>8. IsShaped(C, other)
    BY <1>1, <2>2, <2>3, <2>4, <2>5, <2>6, IdentityShape, Zenon
  <2>9. \A id, before, behind, masked, hidden : IsMasked(id, before, behind, masked, hidden) => id.around # {}
    BY DEF IsMasked
  <2>10. CASE one.around = {}
    BY <1>1, <2>7, <2>8, <2>9, <2>10, Zenon DEF IsShaped
  <2>11. CASE one.around # {}
    BY <1>1, <2>7, <2>8, <2>11, MaskedAlike, Zenon DEF IsShaped
  <2> QED BY <2>10, <2>11
<1>2. IdentitySeparates
  <2> SUFFICES ASSUME NEW introducer \in Introducers, NEW declared \in RunSets,
                      NEW one \in Identities[introducer][declared], NEW other \in Identities[introducer][declared],
                      one.class = other.class, one.around = other.around, one.hidden = other.hidden
               PROVE  one.within = other.within
    BY Zenon DEF IdentitySeparates
  <2>1. Identities[introducer][declared] = {IdentityOf(name, introducer, declared) : name \in IntentNames}
    BY IdentitiesAre, Zenon
  <2>2. PICK name \in IntentNames : one = IdentityOf(name, introducer, declared)
    BY <2>1, Zenon
  <2>3. PICK named \in IntentNames : other = IdentityOf(named, introducer, declared)
    BY <2>1, Zenon
  <2>4. Separates(one, other)
    BY <1>1, <2>2, <2>3, Zenon
  <2> QED BY <2>4, Zenon DEF Separates
<1> QED BY <1>2, PTL
==============================================================================
