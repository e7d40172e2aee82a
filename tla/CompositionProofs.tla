------------------------- MODULE CompositionProofs -------------------------
(***************************************************************************)
(* What the fence buys (Composition): in every view of every composition   *)
(* that is not refused a key names one row, so no answer depends on which  *)
(* of two rows is met first.  What it buys the verdict (RunOutcome): a     *)
(* token means one thing in a vocabulary, so the ladder is a function; and *)
(* the verdict kept is that of the last line that has one.                 *)
(***************************************************************************)
EXTENDS RunOutcome, SequenceTheorems, FiniteSetTheorems, Induction

(* The view holds rows of an accepted composition that the dialect admits. *)
ViewIsAdmitted ==
  /\ view # {} => ~Conflict(args)
  /\ all = {} \/ (all = Composed(args) /\ ~Conflict(args))
  /\ view \subseteq {e \in all : Admits(e.row.gate, dialect)}

(* Two rows that one declaration admits have gates that intersect.         *)
LEMMA AdmittedIntersect ==
  ASSUME NEW g, NEW h, NEW d, Admits(g, d), Admits(h, d)
  PROVE  GatesIntersect(g, h)
  BY DEF Admits, GatesIntersect

LEMMA InitAdmitted == Init => ViewIsAdmitted
  BY DEF Init, ViewIsAdmitted

LEMMA NextAdmitted == ViewIsAdmitted /\ [Next]_vars => ViewIsAdmitted'
<1> SUFFICES ASSUME ViewIsAdmitted, [Next]_vars PROVE ViewIsAdmitted'
  OBVIOUS
<1>1. CASE Compose
  <2>1. CASE Refused(args)
    BY <1>1, <2>1 DEF Compose, ViewIsAdmitted
  <2>2. CASE ~Refused(args)
    <3>1. /\ all' = Composed(args) /\ view' = Filtered(Composed(args), kAny, kAny)
          /\ args' = args /\ dialect' = dialect
      BY <1>1, <2>2 DEF Compose
    <3>2. ~Conflict(args)
      BY <2>2 DEF Refused
    <3>3. \A e \in view' : Admits(e.row.gate, dialect')
      BY <3>1 DEF Filtered, Admits
    <3>4. view' \subseteq all'
      BY <3>1 DEF Filtered
    <3>5. Composed(args)' = Composed(args) /\ Conflict(args)' = Conflict(args)
      BY <3>1
    <3> QED BY <3>1, <3>2, <3>3, <3>4, <3>5 DEF ViewIsAdmitted
  <2> QED BY <2>1, <2>2
<1>2. ASSUME NEW d \in Dialects, NEW c \in Channels, ForStream(d, c) PROVE ViewIsAdmitted'
  BY <1>2 DEF ForStream, ViewIsAdmitted, Resolved, Filtered
<1>3. CASE UNCHANGED vars
  BY <1>3 DEF vars, ViewIsAdmitted
<1> QED BY <1>1, <1>2, <1>3 DEF Next

LEMMA AdmittedIsUnique == ViewIsAdmitted => OneRulePerKey
<1> SUFFICES ASSUME ViewIsAdmitted, NEW e \in view, NEW f \in view,
                    e.row.table = f.row.table, e.row.key = f.row.key, e.row.match = f.row.match,
                    e # f
             PROVE  FALSE
  BY DEF OneRulePerKey
<1>1. GatesIntersect(e.row.gate, f.row.gate)
  BY AdmittedIntersect DEF ViewIsAdmitted
<1>2. Collide(e.row, f.row)
  BY <1>1 DEF Collide
<1>3. e \in Composed(args) /\ f \in Composed(args) /\ ~Conflict(args)
  BY DEF ViewIsAdmitted
<1>4. PICK i \in DOMAIN args : \E q \in args[i].rows : e = [row |-> q, place |-> Place(args, i)]
  BY <1>3 DEF Composed
<1>5. PICK j \in DOMAIN args : \E q \in args[j].rows : f = [row |-> q, place |-> Place(args, j)]
  BY <1>3 DEF Composed
<1>6. e.row \in args[i].rows /\ e = [row |-> e.row, place |-> Place(args, i)]
  BY <1>4
<1>7. f.row \in args[j].rows /\ f = [row |-> f.row, place |-> Place(args, j)]
  BY <1>5
<1>8. i # j \/ e.row # f.row
  BY <1>6, <1>7
<1> QED BY <1>2, <1>3, <1>6, <1>7, <1>8 DEF Conflict

(* "a duplicate rule has no deterministic resolution" (compose.cpp:212):   *)
(* after the fence, no view of any stream holds two rows of one table      *)
(* under one key, whatever packages were given in whatever order.          *)
THEOREM UniqueRules == Spec => []OneRulePerKey
  BY AdmittedIsUnique, InitAdmitted, NextAdmitted, PTL DEF Spec

----------------------------------------------------------------------------
(* The verdict.                                                            *)

Single(s) == \A x, y \in s : x = y

(* A resolution was made from the composition, by what was declared, and   *)
(* nothing has changed since; a scan keeps at most one verdict.            *)
OutcomeInv ==
  /\ args \in Arguments
  /\ ViewIsAdmitted
  /\ status = "ready" => all = Composed(args)
  /\ Single(scan.verdict)
  /\ \A r \in resolution :
       /\ r = Resolution(side)
       /\ all = Composed(args)

(* A token row of a composition is a row of one of its packages.           *)
LEMMA ComposedRow ==
  ASSUME NEW e \in Composed(args)
  PROVE  \E i \in DOMAIN args : e.row \in args[i].rows /\ e = [row |-> e.row, place |-> Place(args, i)]
<1>1. PICK i \in DOMAIN args : \E q \in args[i].rows : e = [row |-> q, place |-> Place(args, i)]
  BY DEF Composed
<1> QED BY <1>1

LEMMA InitFresh == Init => ViewIsFresh
  BY DEF Init, ViewIsFresh

AllIsComposed ==
  /\ status = "ready" => all = Composed(args)
  /\ status = "new" => dialect = kAny /\ channel = kAny

LEMMA NextFresh == AllIsComposed /\ ViewIsFresh /\ [Next]_vars => (AllIsComposed /\ ViewIsFresh)'
<1> SUFFICES ASSUME AllIsComposed, ViewIsFresh, [Next]_vars PROVE (AllIsComposed /\ ViewIsFresh)'
  OBVIOUS
<1>1. CASE Compose
  BY <1>1 DEF Compose, AllIsComposed, ViewIsFresh, Noted
<1>2. ASSUME NEW d \in Dialects, NEW c \in Channels, ForStream(d, c) PROVE (AllIsComposed /\ ViewIsFresh)'
  BY <1>2 DEF ForStream, Resolved, AllIsComposed, ViewIsFresh
<1>3. CASE UNCHANGED vars
  BY <1>3 DEF vars, AllIsComposed, ViewIsFresh
<1> QED BY <1>1, <1>2, <1>3 DEF Next

(* No view outlives its declaration: after any sequence of compositions    *)
(* and declarations the resolved rules are the filter of all the composed  *)
(* rows (stream_view of compose.cpp), and the report is the composition's. *)
THEOREM ViewsAreFresh == Spec => []ViewIsFresh
<1>1. Init => AllIsComposed
  BY DEF Init, AllIsComposed
<1> QED BY <1>1, InitFresh, NextFresh, PTL DEF Spec

----------------------------------------------------------------------------
(* The caller's order.                                                     *)

LEMMA InjectionIsOnto ==
  ASSUME NEW S, IsFiniteSet(S), NEW f \in [S -> S], \A i, j \in S : f[i] = f[j] => i = j
  PROVE  \A j \in S : \E i \in S : f[i] = j
<1>1. f \in Injection(S, S)
  BY DEF Injection, IsInjective
<1>2. f \in Surjection(S, S)
  BY <1>1, FS_Injection
<1> QED BY <1>2 DEF Surjection

(* A package's place counts the packages named before it, wherever the     *)
(* caller puts them.                                                       *)
LEMMA PlaceFollowsThePackage ==
  ASSUME NEW S, IsFiniteSet(S), NEW given, NEW other, DOMAIN given = S, DOMAIN other = S,
         NEW f \in [S -> S], \A i, j \in S : f[i] = f[j] => i = j,
         \A i \in S : other[i] = given[f[i]],
         NEW k \in S
  PROVE  Place(other, k) = Place(given, f[k])
<1> DEFINE mine == {j \in S : other[j].name < other[k].name}
           theirs == {j \in S : given[j].name < given[f[k]].name}
           g == [j \in mine |-> f[j]]
<1>1. g \in [mine -> theirs]
  OBVIOUS
<1>2. \A t \in theirs : \E j \in mine : g[j] = t
  BY InjectionIsOnto
<1>3. \A i, j \in mine : g[i] = g[j] => i = j
  OBVIOUS
<1>4. IsFiniteSet(mine)
  BY FS_Subset
<1> HIDE DEF g
<1>5. g \in Bijection(mine, theirs)
  BY <1>1, <1>2, <1>3 DEF Bijection, Injection, Surjection, IsInjective
<1>6. Cardinality(mine) = Cardinality(theirs)
  <2>1. ExistsBijection(mine, theirs)
    BY <1>5 DEF ExistsBijection
  <2> HIDE DEF mine, theirs
  <2> QED BY <1>4, <2>1, FS_Bijection
<1> QED BY <1>6 DEF Place

LEMMA ComposedInAnyOrder ==
  ASSUME args \in Arguments, NEW given \in Reordered
  PROVE  Composed(given) = Composed(args)
<1> DEFINE S == DOMAIN args
<1>1. PICK f \in [S -> S] : /\ \A i, j \in S : f[i] = f[j] => i = j
                            /\ given = [i \in S |-> args[f[i]]]
  BY DEF Reordered
<1>2. IsFiniteSet(S)
  BY CompositionAssumption
<1>3. DOMAIN given = S /\ \A i \in S : given[i] = args[f[i]]
  BY <1>1
<1>4. \A k \in S : Place(given, k) = Place(args, f[k])
  BY <1>1, <1>2, <1>3, PlaceFollowsThePackage
<1>5. \A j \in S : \E i \in S : f[i] = j
  BY <1>1, <1>2, InjectionIsOnto
<1>6. ASSUME NEW e \in Composed(given) PROVE e \in Composed(args)
  <2>1. PICK k \in S : \E r \in given[k].rows : e = [row |-> r, place |-> Place(given, k)]
    BY <1>3 DEF Composed
  <2>2. f[k] \in S /\ given[k].rows = args[f[k]].rows /\ Place(given, k) = Place(args, f[k])
    BY <1>3, <1>4
  <2> QED BY <2>1, <2>2 DEF Composed
<1>7. ASSUME NEW e \in Composed(args) PROVE e \in Composed(given)
  <2>1. PICK j \in S : \E r \in args[j].rows : e = [row |-> r, place |-> Place(args, j)]
    BY DEF Composed
  <2>2. PICK k \in S : f[k] = j
    BY <1>5
  <2>3. given[k].rows = args[j].rows /\ Place(given, k) = Place(args, j)
    BY <1>3, <1>4, <2>2
  <2> QED BY <1>3, <2>1, <2>3 DEF Composed
<1> QED BY <1>6, <1>7

(* The rows unfiltered are those of packages that were given.              *)
Given == args \in Arguments /\ AllIsComposed

LEMMA GivenInv == (Init => Given) /\ (Given /\ [Next]_vars => Given')
<1>1. Init => Given
  BY DEF Init, Given, AllIsComposed
<1>2. ASSUME Given, Compose PROVE Given'
  BY <1>2 DEF Compose, Given, AllIsComposed
<1>3. ASSUME Given, NEW d \in Dialects, NEW c \in Channels, ForStream(d, c) PROVE Given'
  BY <1>3 DEF ForStream, Given, AllIsComposed
<1>4. ASSUME Given, UNCHANGED vars PROVE Given'
  BY <1>4 DEF vars, Given, AllIsComposed
<1> QED BY <1>1, <1>2, <1>3, <1>4 DEF Next

(* "independent of the caller's argument order" (canon.compose.cppm:361):  *)
(* compose sorts the packages by name, so a permutation of the arguments   *)
(* gives the same rows in the same places, and every answer the walkers    *)
(* read off a view is the same.                                            *)
THEOREM OrderNeverShows == Spec => []OrderInvisible
<1>1. args \in Arguments /\ ViewIsFresh => OrderInvisible
  <2> SUFFICES ASSUME args \in Arguments, ViewIsFresh, status = "ready",
                      NEW given \in Reordered, NEW line \in Lines
               PROVE  Answers(Filtered(Composed(given), dialect, channel), line) = Answers(view, line)
    BY DEF OrderInvisible
  <2>1. Filtered(Composed(given), dialect, channel) = view
    BY ComposedInAnyOrder DEF ViewIsFresh
  <2> QED BY <2>1
<1>2. Given => args \in Arguments
  BY DEF Given
<1> QED BY <1>1, <1>2, GivenInv, ViewsAreFresh, PTL DEF Spec

(* withholds_markers_for (compose.cpp:455) answers, on any view, whether a *)
(* stream of that channel loses a marker that another declaration keeps.   *)
(* The marker's own channel is the other declaration: its package names it.*)
THEOREM WithholdingIsRight == Spec => []WithholdingIsTrue
<1>1. Given => WithholdingIsTrue
  <2> SUFFICES ASSUME args \in Arguments, all = Composed(args), NEW c \in ChannelNames \cup {kAny}
               PROVE  WithholdsMarkersFor(c) <=>
                        \E other \in ChannelNames \cup {kAny} :
                          ~ (Filtered(all, dialect, other) \subseteq Filtered(all, dialect, c))
    BY DEF WithholdingIsTrue, Given, AllIsComposed
  <2>1. ASSUME WithholdsMarkersFor(c)
        PROVE  \E other \in ChannelNames \cup {kAny} :
                 ~ (Filtered(all, dialect, other) \subseteq Filtered(all, dialect, c))
    <3>1. PICK e \in all : /\ e.row.table = "marker"
                           /\ Admits(e.row.gate, dialect) /\ ~Admits(e.row.channel, c)
      BY <2>1 DEF WithholdsMarkersFor, Of
    <3>2. PICK i \in DOMAIN args : e.row \in args[i].rows
      BY ComposedRow
    <3>3. e.row.channel \in ChannelNames \cup {kAny}
      BY <3>1, <3>2, ChannelAssumption DEF ChannelNames
    <3>4. e \in Filtered(all, dialect, e.row.channel) /\ e \notin Filtered(all, dialect, c)
      BY <3>1 DEF Filtered, Admits
    <3> QED BY <3>3, <3>4
  <2>2. ASSUME NEW other \in ChannelNames \cup {kAny},
               ~ (Filtered(all, dialect, other) \subseteq Filtered(all, dialect, c))
        PROVE  WithholdsMarkersFor(c)
    BY <2>2 DEF WithholdsMarkersFor, Of, Filtered
  <2> QED BY <2>1, <2>2
<1> QED BY <1>1, GivenInv, PTL DEF Spec

----------------------------------------------------------------------------
(* The report of shadows.                                                  *)

LEMMA PrefixesNest ==
  ASSUME NEW line \in Seq(Nat), NEW k \in Seq(Nat), NEW l \in Seq(Nat),
         StartsWith(line, k), StartsWith(line, l), Len(k) <= Len(l)
  PROVE  StartsWith(l, k)
<1>1. Len(k) \in Nat /\ Len(l) \in Nat /\ Len(line) \in Nat /\ Len(l) <= Len(line)
  BY DEF StartsWith
<1>2. k = SubSeq(line, 1, Len(k)) /\ l = SubSeq(line, 1, Len(l))
  BY DEF StartsWith
<1>3. SubSeq(l, 1, Len(k)) \in Seq(Nat) /\ Len(SubSeq(l, 1, Len(k))) = Len(k)
  BY <1>1
<1>4. ASSUME NEW i \in 1 .. Len(k) PROVE SubSeq(l, 1, Len(k))[i] = k[i]
  <2>1. SubSeq(l, 1, Len(k))[i] = l[i]
    BY <1>1
  <2>2. l[i] = line[i] /\ k[i] = line[i]
    BY <1>1, <1>2
  <2> QED BY <2>1, <2>2
<1>5. SubSeq(l, 1, Len(k)) = k
  BY <1>1, <1>3, <1>4, SeqEqual
<1> QED BY <1>1, <1>5 DEF StartsWith

(* The report is made of every row, and stays with the composition.        *)
ReportIsWhole == args \in Arguments /\ shadows = Shadows(all)

LEMMA ReportInv == (Init => ReportIsWhole) /\ (ReportIsWhole /\ [Next]_vars => ReportIsWhole')
<1>1. Init => ReportIsWhole
  BY DEF Init, ReportIsWhole, Shadows
<1>2. ASSUME ReportIsWhole, Compose PROVE ReportIsWhole'
  BY <1>2 DEF Compose, ReportIsWhole, Noted, Shadows
<1>3. ASSUME ReportIsWhole, NEW d \in Dialects, NEW c \in Channels, ForStream(d, c) PROVE ReportIsWhole'
  BY <1>3 DEF ForStream, ReportIsWhole, Shadows
<1>4. ASSUME ReportIsWhole, UNCHANGED vars PROVE ReportIsWhole'
  BY <1>4 DEF vars, ReportIsWhole, Shadows
<1> QED BY <1>1, <1>2, <1>3, <1>4 DEF Next

(* A row of a prefix table is one of bytes.                                *)
LEMMA KeyType ==
  ASSUME args \in Arguments, ViewIsAdmitted, NEW e \in view,
         e.row.table \in PrefixTables, e.row.match = "prefix"
  PROVE  e \in all /\ e.row.key \in Seq(Nat) /\ Admits(e.row.gate, dialect)
<1>1. e \in all /\ e \in Composed(args) /\ Admits(e.row.gate, dialect)
  BY DEF ViewIsAdmitted
<1>2. \E i \in DOMAIN args : e.row \in args[i].rows
  BY <1>1, ComposedRow
<1> QED BY <1>1, <1>2, BytesAssumption

LEMMA ShorterIsNoted ==
  ASSUME args \in Arguments, ViewIsAdmitted, ReportIsWhole,
         NEW line \in Lines, NEW e \in view, NEW f \in view,
         e.row.table = f.row.table, e.row.table \in PrefixTables,
         e.row.match = "prefix", f.row.match = "prefix",
         Hits(e, line), Hits(f, line), Len(e.row.key) < Len(f.row.key)
  PROVE  <<e.row.key, f.row.key>> \in shadows
<1>1. line \in Seq(Nat) /\ e.row.key \in Seq(Nat) /\ f.row.key \in Seq(Nat) /\ e \in all /\ f \in all
  BY KeyType, BytesAssumption
<1>2. StartsWith(line, e.row.key) /\ StartsWith(line, f.row.key)
  BY DEF Hits
<1>3. StartsWith(f.row.key, e.row.key)
  BY <1>1, <1>2, PrefixesNest
<1>4. GatesIntersect(e.row.gate, f.row.gate)
  BY KeyType, AdmittedIntersect
<1>5. IsShadow(e.row, f.row)
  BY <1>3, <1>4 DEF IsShadow
<1>6. <<e, f>> \in {q \in all \X all : IsShadow(q[1].row, q[2].row)}
  BY <1>1, <1>5
<1> QED BY <1>6 DEF ReportIsWhole, Shadows

(* Two prefix rows of one table that can claim one line in one view are    *)
(* both in the report (note_shadows, compose.cpp:180): the longer nests    *)
(* the shorter, and rows of one length have two keys and cannot both hit.  *)
THEOREM ShadowsAreNoted == Spec => []NoSilentShadow
<1>1. ViewIsAdmitted /\ ReportIsWhole /\ OneRulePerKey => NoSilentShadow
  <2> SUFFICES ASSUME ViewIsAdmitted, ReportIsWhole, OneRulePerKey,
                      NEW line \in Lines, NEW e \in view, NEW f \in view,
                      e # f, e.row.table = f.row.table, e.row.table \in PrefixTables,
                      e.row.match = "prefix", f.row.match = "prefix",
                      Hits(e, line), Hits(f, line)
               PROVE  <<e.row.key, f.row.key>> \in shadows \/ <<f.row.key, e.row.key>> \in shadows
    BY DEF NoSilentShadow
  <2>1. args \in Arguments
    BY DEF ReportIsWhole
  <2>2. Len(e.row.key) \in Nat /\ Len(f.row.key) \in Nat
    BY <2>1, KeyType
  <2>3. CASE Len(e.row.key) < Len(f.row.key)
    BY <2>1, <2>3, ShorterIsNoted
  <2>4. CASE Len(f.row.key) < Len(e.row.key)
    BY <2>1, <2>4, ShorterIsNoted
  <2>5. CASE Len(e.row.key) = Len(f.row.key)
    <3>1. StartsWith(line, e.row.key) /\ StartsWith(line, f.row.key)
      BY DEF Hits
    <3>2. e.row.key = f.row.key
      BY <2>5, <3>1 DEF StartsWith
    <3> QED BY <3>2 DEF OneRulePerKey
  <2> QED BY <2>2, <2>3, <2>4, <2>5
<1> QED
  BY <1>1, InitAdmitted, NextAdmitted, ReportInv, UniqueRules, PTL DEF Spec

(* Two rows that map one token and that one declaration admits are one.    *)
LEMMA OneMeaning ==
  ASSUME ~Conflict(args), args \in Arguments, NEW d,
         NEW e \in Composed(args), NEW f \in Composed(args),
         e.row.table = "token", f.row.table = "token", e.row.key = f.row.key,
         Admits(e.row.gate, d), Admits(f.row.gate, d)
  PROVE  e.row = f.row
<1>1. PICK i \in DOMAIN args : e.row \in args[i].rows /\ e = [row |-> e.row, place |-> Place(args, i)]
  BY ComposedRow
<1>2. PICK j \in DOMAIN args : f.row \in args[j].rows /\ f = [row |-> f.row, place |-> Place(args, j)]
  BY ComposedRow
<1>3. e.row.match = f.row.match
  BY <1>1, <1>2, OutcomeAssumption
<1>4. GatesIntersect(e.row.gate, f.row.gate)
  BY AdmittedIntersect
<1>5. Collide(e.row, f.row)
  BY <1>3, <1>4 DEF Collide
<1> QED BY <1>1, <1>2, <1>5 DEF Conflict

LEMMA MappedIsSingle ==
  ASSUME ~Conflict(args), args \in Arguments, NEW d, NEW token,
         NEW rows, rows \subseteq {e \in Composed(args) : Admits(e.row.gate, d)}
  PROVE  Single(Mapped(token, rows))
<1> SUFFICES ASSUME NEW e \in rows, NEW f \in rows,
                    e.row.table = "token", f.row.table = "token", e.row.key = token, f.row.key = token
             PROVE  e.row.outcome = f.row.outcome
  BY DEF Single, Mapped, Of
<1> QED BY OneMeaning

(* What a declaration maps to is what its supplier's rows say, whatever    *)
(* the stream declared.                                                    *)
LEMMA MappedIsDeclared ==
  ASSUME all = Composed(args)
  PROVE  MappedIn(side) = Declared
<1>1. ASSUME NEW x \in MappedIn(side) PROVE x \in Declared
  <2>1. PICK e \in all : /\ e.row.table = "token" /\ e.row.key = side.token /\ x = e.row.outcome
                         /\ Admits(e.row.gate, side.vocabulary)
    BY <1>1 DEF MappedIn, Mapped, Of, Filtered
  <2>2. PICK i \in DOMAIN args : e.row \in args[i].rows
    BY <2>1, ComposedRow
  <2>3. e.row \in UNION {args[k].rows : k \in DOMAIN args}
    BY <2>2
  <2> QED BY <2>1, <2>3 DEF Declared, Admits
<1>2. ASSUME NEW x \in Declared PROVE x \in MappedIn(side)
  <2>0. PICK r \in UNION {args[k].rows : k \in DOMAIN args} :
          /\ r.table = "token" /\ r.key = side.token /\ x = r.outcome
          /\ r.gate \in {kAny, side.vocabulary}
    BY <1>2 DEF Declared
  <2>1. PICK i \in DOMAIN args : r \in args[i].rows
    BY <2>0
  <2> DEFINE e == [row |-> r, place |-> Place(args, i)]
  <2>2. e \in all
    BY <2>1 DEF Composed
  <2>3. e.row = r
    OBVIOUS
  <2>4. e \in Filtered(all, side.vocabulary, kAny)
    BY <2>0, <2>2, <2>3 DEF Filtered, Admits
  <2> HIDE DEF e
  <2> QED BY <2>0, <2>3, <2>4 DEF MappedIn, Mapped, Of
<1> QED BY <1>1, <1>2

LEMMA InitOutcomeInv == InitOutcome => OutcomeInv
  BY InitAdmitted DEF InitOutcome, Init, OutcomeInv, NoScan, Single

LEMMA NextOutcomeInv == OutcomeInv /\ [NextOutcome]_<<vars, outcomeVars>> => OutcomeInv'
<1> SUFFICES ASSUME OutcomeInv, [NextOutcome]_<<vars, outcomeVars>> PROVE OutcomeInv'
  OBVIOUS
<1>1. CASE Prepare
  <2>1. ViewIsAdmitted'
    BY <1>1, NextAdmitted DEF Prepare, OutcomeInv
  <2>2. args' = args
    BY <1>1 DEF Prepare, Next, Compose, ForStream
  <2>3. (status = "ready" => all = Composed(args))'
    <3>1. CASE Compose
      BY <3>1 DEF Compose
    <3>2. ASSUME NEW d \in Dialects, NEW c \in Channels, ForStream(d, c)
          PROVE  (status = "ready" => all = Composed(args))'
      BY <3>2 DEF ForStream, OutcomeInv
    <3> QED BY <1>1, <3>1, <3>2 DEF Prepare, Next
  <2>4. scan' = scan /\ resolution' = {}
    BY <1>1 DEF Prepare, outcomeVars
  <2> QED BY <2>1, <2>2, <2>3, <2>4 DEF OutcomeInv
<1>2. ASSUME NEW line \in LogLines, ScanLine(line) PROVE OutcomeInv'
  <2>1. UNCHANGED vars /\ resolution' = {}
    BY <1>2 DEF ScanLine
  <2>2. ViewIsAdmitted' /\ args' \in Arguments /\ (status = "ready" => all = Composed(args))'
    BY <2>1 DEF vars, ViewIsAdmitted, OutcomeInv
  <2>3. Single(scan'.verdict)
    <3>1. ASSUME NEW row, NEW token PROVE Single(Taken(row, token).verdict)
      BY DEF Taken, Single
    <3> QED BY <1>2, <3>1 DEF ScanLine, OutcomeInv
  <2> QED BY <2>1, <2>2, <2>3 DEF OutcomeInv
<1>3. ASSUME NEW declared \in SideInputs \cup {NoSide}, ResolveRunOutcome(declared) PROVE OutcomeInv'
  <2>1. UNCHANGED <<args, all, shadows, view, dialect, channel, read, scan>> /\ side' = declared
    BY <1>3 DEF ResolveRunOutcome
  <2>2. ViewIsAdmitted'
    BY <2>1 DEF ViewIsAdmitted, OutcomeInv
  <2>3. (status = "ready" => all = Composed(args))'
    BY <1>3, <2>1 DEF ResolveRunOutcome, OutcomeInv
  <2>4. \A r \in resolution' : r = Resolution(side)' /\ all' = Composed(args')
    <3>1. Resolution(side)' = Resolution(declared)
      BY <2>1 DEF Resolution, MappedIn, Mapped, Of, Filtered, Authoritative, Fallen, Console, ConsoleMiss
    <3> QED BY <1>3, <2>1, <3>1 DEF ResolveRunOutcome, OutcomeInv
  <2> QED BY <2>1, <2>2, <2>3, <2>4 DEF OutcomeInv
<1>4. CASE UNCHANGED <<vars, outcomeVars>>
  <2>1. Resolution(side)' = Resolution(side)
    BY <1>4 DEF vars, outcomeVars, Resolution, MappedIn, Mapped, Of, Filtered, Authoritative, Fallen, Console, ConsoleMiss
  <2> QED BY <1>4, <2>1 DEF vars, outcomeVars, OutcomeInv, ViewIsAdmitted
<1> QED BY <1>1, <1>2, <1>3, <1>4 DEF NextOutcome

(* "STRICT and TOTAL, never a reconciliation" (canon.cppm:270), whatever   *)
(* packages are composed: a declared verdict is its supplier's, read as    *)
(* one meaning; without one the outcome is what the bytes alone give; and  *)
(* divergent tells exactly that a verdict in the bytes was overruled.      *)
THEOREM LadderIsStrict == SpecOutcome => []StrictLadder
<1>1. OutcomeInv => StrictLadder
  <2> SUFFICES ASSUME OutcomeInv, NEW r \in resolution
               PROVE  IF side.token # NoToken /\ Declared # {}
                      THEN /\ r.authoritative /\ Declared = {r.outcome}
                           /\ r.divergent <=> Console # {} /\ r.outcome \notin Console
                      ELSE /\ ~r.authoritative /\ ~r.divergent
                           /\ r.outcome = Resolution(NoSide).outcome
    BY DEF StrictLadder
  <2>1. r = Resolution(side) /\ MappedIn(side) = Declared
    BY MappedIsDeclared DEF OutcomeInv
  <2>2. CASE side.token # NoToken /\ Declared # {}
    <3>1. all # {} /\ all = Composed(args) /\ ~Conflict(args) /\ args \in Arguments
      BY <2>1, <2>2 DEF OutcomeInv, ViewIsAdmitted, MappedIn, Mapped, Of, Filtered
    <3>2. Single(Declared)
      BY <2>1, <3>1, MappedIsSingle DEF MappedIn, Filtered
    <3>3. Single(Console)
      BY <3>1, MappedIsSingle DEF Console, OutcomeInv, ViewIsAdmitted, Single
    <3> DEFINE mapped == ValueOr(Declared, "Unknown")
    <3>4. Declared = {mapped}
      BY <2>2, <3>2 DEF Single, ValueOr
    <3>5. r = Authoritative(mapped)
      BY <2>1, <2>2 DEF Resolution
    <3>6. r.outcome = mapped /\ r.authoritative /\ r.divergent = (Console # {} /\ Console # {mapped})
      BY <3>5 DEF Authoritative
    <3>7. Console # {} /\ Console # {mapped} <=> Console # {} /\ mapped \notin Console
      BY <3>3 DEF Single
    <3> QED BY <2>2, <3>4, <3>6, <3>7
  <2>3. CASE ~(side.token # NoToken /\ Declared # {})
    <3>1. r = Fallen(side)
      BY <2>1, <2>3 DEF Resolution
    <3>2. Resolution(NoSide) = Fallen(NoSide)
      BY DEF Resolution, NoSide
    <3> QED BY <2>3, <3>1, <3>2 DEF Fallen
  <2> QED BY <2>2, <2>3
<1> QED BY <1>1, InitOutcomeInv, NextOutcomeInv, PTL DEF SpecOutcome

(* "a token that is provided but does not map is never a silent            *)
(* misclassification" (canon.cppm:275), whatever packages are composed and *)
(* whatever is declared.                                                   *)
THEOREM NoMissIsSilent == SpecOutcome => []NoSilentMiss
<1>1. OutcomeInv => NoSilentMiss
  <2> SUFFICES ASSUME OutcomeInv, NEW r \in resolution, r.note = {}
               PROVE  /\ side.token # NoToken => Declared # {}
                      /\ scan.present => Console # {}
    BY DEF NoSilentMiss
  <2>1. r = Resolution(side) /\ MappedIn(side) = Declared
    BY MappedIsDeclared DEF OutcomeInv
  <2>2. ConsoleMiss = {} => (scan.present => Console # {})
    BY DEF ConsoleMiss
  <2>3. CASE side.token # NoToken /\ Declared # {}
    BY <2>1, <2>2, <2>3 DEF Resolution, Authoritative
  <2>4. CASE ~(side.token # NoToken /\ Declared # {})
    BY <2>1, <2>2, <2>4 DEF Resolution, Fallen
  <2> QED BY <2>3, <2>4
<1> QED BY <1>1, InitOutcomeInv, NextOutcomeInv, PTL DEF SpecOutcome

----------------------------------------------------------------------------
(* The scan: what a line yields, then what the log does.                   *)

Rows == Of(view, "outcome")

LEMMA RowType ==
  ASSUME OutcomeInv, NEW e \in Rows
  PROVE  e.row.key \in Seq(Nat) /\ e.row.shape \in {"remainder", "prefix"}
<1>1. e \in Composed(args) /\ e.row.table = "outcome"
  BY DEF Rows, Of, OutcomeInv, ViewIsAdmitted
<1>2. PICK i \in DOMAIN args : e.row \in args[i].rows
  BY <1>1, ComposedRow
<1> QED BY <1>1, <1>2, OutcomeAssumption, BytesAssumption DEF OutcomeInv, PrefixTables

(* Two rows whose prefixes begin a segment, equally long, are one.         *)
LEMMA OneRowPerLength ==
  ASSUME OutcomeInv, NEW content, NEW e \in Rows, NEW f \in Rows,
         Claims(e.row, content), Claims(f.row, content), Len(e.row.key) = Len(f.row.key)
  PROVE  e = f
<1>1. e.row.key = f.row.key
  BY DEF Claims, StartsWith
<1>2. e.row.match = "prefix" /\ f.row.match = "prefix"
  <2>1. \A r \in Rows : \E i \in DOMAIN args : r.row \in args[i].rows /\ r.row.table = "outcome"
    BY ComposedRow DEF Rows, Of, OutcomeInv, ViewIsAdmitted
  <2> QED BY <2>1, OutcomeAssumption DEF OutcomeInv
<1>3. OneRulePerKey
  BY AdmittedIsUnique DEF OutcomeInv
<1> QED BY <1>1, <1>2, <1>3 DEF OneRulePerKey, Rows, Of

(* improve_match keeps the one row of the longest prefix.                  *)
LEMMA LongestClaim ==
  ASSUME OutcomeInv, NEW content \in Seq(Nat),
         NEW M, M = {e \in Rows : Claims(e.row, content)}
  PROVE  \/ M = {} /\ Best(M, Longer) = {}
         \/ \E e \in M : /\ Best(M, Longer) = {e}
                         /\ \A f \in M : e = f \/ Len(e.row.key) > Len(f.row.key)
<1>1. CASE M = {}
  BY <1>1 DEF Best
<1>2. CASE M # {}
  <2> DEFINE lengths == {Len(e.row.key) : e \in M}
  <2>1. \A e \in M : e.row.key \in Seq(Nat) /\ Len(e.row.key) \in 0 .. Len(content)
    BY RowType DEF Claims, StartsWith
  <2>2. lengths \in SUBSET (0 .. Len(content)) /\ lengths # {}
    BY <1>2, <2>1
  <2>3. PICK top \in lengths : \A n \in lengths : n <= top
    <3>1. Len(content) \in Nat
      OBVIOUS
    <3> HIDE DEF lengths
    <3> QED BY <2>2, <3>1, Greatest
  <2>4. PICK e \in M : Len(e.row.key) = top
    OBVIOUS
  <2>5. \A f \in M : Len(f.row.key) <= Len(e.row.key)
    BY <2>3, <2>4
  <2>6. \A f \in M : Len(f.row.key) = Len(e.row.key) => e = f
    BY OneRowPerLength
  <2>7. \A f \in M : Len(f.row.key) \in Nat
    BY <2>1
  <2>8. \A f \in M : e = f \/ Len(e.row.key) > Len(f.row.key)
    BY <2>5, <2>6, <2>7
  <2> DEFINE Wins(w) == \A f \in M : Longer(w, f) \/ (~Longer(f, w) /\ (w = f \/ Before(w, f)))
  <2>9. Wins(e)
    BY <2>7, <2>8 DEF Longer
  <2>10. ASSUME NEW w \in M, Wins(w) PROVE w = e
    <3>1. Longer(w, e) \/ ~Longer(e, w)
      BY <2>10
    <3> QED BY <2>7, <2>8, <3>1 DEF Longer
  <2>11. (CHOOSE w \in M : Wins(w)) = e
    <3> HIDE DEF Wins
    <3> QED BY <2>9, <2>10
  <2>12. Best(M, Longer) = {e}
    BY <1>2, <2>11 DEF Best
  <2> QED BY <2>8, <2>12
<1> QED BY <1>1, <1>2

(* The claims of a line's first n segments, and the one that stands.       *)
ClaimsUpTo(line, n) == {c \in (1 .. n) \X Rows : Claims(c[2].row, line[c[1]])}

Stands(c, claims) ==
  \A d \in claims :
    \/ Len(c[2].row.key) > Len(d[2].row.key)
    \/ Len(c[2].row.key) = Len(d[2].row.key) /\ c[1] <= d[1]

IsBest(line, n, b) ==
  \/ ClaimsUpTo(line, n) = {} /\ b = {}
  \/ \E c \in ClaimsUpTo(line, n) :
       /\ Stands(c, ClaimsUpTo(line, n))
       /\ b = {<<c[2].row, Remainder(c[2].row, line[c[1]])>>}

LEMMA ImproveIsBest ==
  ASSUME OutcomeInv, NEW line \in Seq(Seq(Nat)), NEW n \in Nat, n + 1 \in DOMAIN line,
         NEW b, IsBest(line, n, b)
  PROVE  IsBest(line, n + 1, Improve(b, line[n + 1]))
<1> DEFINE content == line[n + 1]
           M == {e \in Rows : Claims(e.row, content)}
           before == ClaimsUpTo(line, n)
           after == ClaimsUpTo(line, n + 1)
           longer == {e \in Best(M, Longer) : \A m \in b : Len(e.row.key) > Len(m[1].key)}
<1>1. content \in Seq(Nat)
  OBVIOUS
<1>2. after = before \cup {<<n + 1, e>> : e \in M}
  <2>1. (1 .. n + 1) = (1 .. n) \cup {n + 1}
    OBVIOUS
  <2> QED BY <2>1 DEF ClaimsUpTo
<1>3. Improve(b, content) =
        IF longer = {} THEN b ELSE {<<e.row, Remainder(e.row, content)>> : e \in longer}
  BY DEF Improve, Rows
<1>4. \A c \in before : c[1] \in 1 .. n /\ c[2] \in Rows
  BY DEF ClaimsUpTo
<1>5. \A e \in Rows : Len(e.row.key) \in Nat
  BY RowType
<1>6. \A e \in M : e \in Rows
  OBVIOUS
<1> HIDE DEF content, before, after, longer, M
<1>7. CASE M = {}
  <2>1. Best(M, Longer) = {}
    BY <1>7 DEF Best
  <2>2. longer = {} /\ after = before
    BY <1>2, <1>7, <2>1 DEF longer
  <2> QED BY <1>3, <2>2 DEF IsBest, content, before, after
<1>8. CASE M # {}
  <2>1. PICK e \in M : Best(M, Longer) = {e} /\ \A f \in M : e = f \/ Len(e.row.key) > Len(f.row.key)
    BY <1>1, <1>8, LongestClaim DEF M
  <2>2. longer = IF \A m \in b : Len(e.row.key) > Len(m[1].key) THEN {e} ELSE {}
    BY <2>1 DEF longer
  <2> DEFINE new == <<n + 1, e>>
  <2>3. new \in after /\ new[1] = n + 1 /\ new[2] = e
    BY <1>2
  <2>4. \A d \in after : d \in before \/ (d[1] = n + 1 /\ d[2] \in M)
    BY <1>2
  <2>5. CASE before = {}
    <3>1. b = {}
      BY <2>5 DEF IsBest, before
    <3>2. Improve(b, content) = {<<e.row, Remainder(e.row, content)>>}
      BY <1>3, <2>2, <3>1
    <3>3. Stands(new, after)
      BY <1>5, <1>6, <2>1, <2>3, <2>4, <2>5 DEF Stands
    <3> QED BY <2>3, <3>2, <3>3 DEF IsBest, after, content
  <2>6. CASE before # {}
    <3>1. PICK c \in before : Stands(c, before) /\ b = {<<c[2].row, Remainder(c[2].row, line[c[1]])>>}
      BY <2>6 DEF IsBest, before
    <3>2. c \in after /\ c[1] \in 1 .. n /\ c[2] \in Rows
      BY <1>2, <1>4
    <3>3. CASE Len(e.row.key) > Len(c[2].row.key)
      <4>1. Improve(b, content) = {<<e.row, Remainder(e.row, content)>>}
        BY <1>3, <2>2, <3>1, <3>3
      <4>2. Stands(new, after)
        <5>1. ASSUME NEW d \in before PROVE Len(e.row.key) > Len(d[2].row.key)
          <6> DEFINE x == Len(e.row.key)
                     y == Len(c[2].row.key)
                     z == Len(d[2].row.key)
          <6>1. x \in Nat /\ y \in Nat /\ z \in Nat
            BY <1>4, <1>5, <1>6, <3>2
          <6>2. y > z \/ y = z
            BY <3>1 DEF Stands
          <6>3. x > y
            BY <3>3
          <6> HIDE DEF x, y, z
          <6>4. x > z
            BY <6>1, <6>2, <6>3
          <6> QED BY <6>4 DEF x, z
        <5>2. ASSUME NEW d, d[1] = n + 1, d[2] \in M
              PROVE  \/ Len(e.row.key) > Len(d[2].row.key)
                     \/ Len(e.row.key) = Len(d[2].row.key) /\ n + 1 <= d[1]
          BY <1>5, <1>6, <2>1, <5>2
        <5> QED BY <2>3, <2>4, <5>1, <5>2 DEF Stands
      <4> QED BY <2>3, <4>1, <4>2 DEF IsBest, after, content
    <3>4. CASE ~(Len(e.row.key) > Len(c[2].row.key))
      <4>1. Improve(b, content) = b
        <5>1. ~\A m \in b : Len(e.row.key) > Len(m[1].key)
          BY <3>1, <3>4
        <5> QED BY <1>3, <2>2, <5>1
      <4>2. Stands(c, after)
        <5>1. ASSUME NEW d, d[1] = n + 1, d[2] \in M
              PROVE  \/ Len(c[2].row.key) > Len(d[2].row.key)
                     \/ Len(c[2].row.key) = Len(d[2].row.key) /\ c[1] <= d[1]
          <6> DEFINE x == Len(e.row.key)
                     y == Len(c[2].row.key)
                     z == Len(d[2].row.key)
          <6>1. x \in Nat /\ y \in Nat /\ z \in Nat
            BY <1>5, <1>6, <3>2, <5>1
          <6>2. x = z \/ x > z
            BY <2>1, <5>1
          <6>3. ~(x > y)
            BY <3>4
          <6>4. c[1] <= d[1]
            BY <3>2, <5>1
          <6> HIDE DEF x, y, z
          <6>5. y > z \/ y = z
            BY <6>1, <6>2, <6>3
          <6> QED BY <6>4, <6>5 DEF y, z
        <5> QED BY <2>4, <3>1, <5>1 DEF Stands
      <4> QED BY <3>1, <3>2, <4>1, <4>2 DEF IsBest, after, content
    <3> QED BY <3>3, <3>4
  <2> QED BY <2>5, <2>6
<1> QED BY <1>7, <1>8 DEF content

LEMMA BestOfLineIsBest ==
  ASSUME OutcomeInv, NEW line \in Seq(Seq(Nat))
  PROVE  IsBest(line, Len(line), BestOfLine(line))
<1> PICK n \in Nat : n = Len(line)
  OBVIOUS
<1> DEFINE T == SUBSET ({e.row : e \in Rows} \X Seq(Nat))
           step == [i \in 1 .. n |-> [t \in T |-> Improve(t, line[i])]]
           Pass(g) == g = [i \in 0 .. n |-> IF i = 0 THEN {} ELSE Improve(g[i - 1], line[i])]
<1>1. n \in Nat /\ \A i \in 1 .. n : line[i] \in Seq(Nat)
  OBVIOUS
<1>2. ASSUME NEW t \in T, NEW content \in Seq(Nat) PROVE Improve(t, content) \in T
  <2> DEFINE M == {e \in Rows : Claims(e.row, content)}
             longer == {e \in Best(M, Longer) : \A m \in t : Len(e.row.key) > Len(m[1].key)}
  <2>1. longer \subseteq Rows
    BY LongestClaim
  <2>2. \A e \in Rows : Remainder(e.row, content) \in Seq(Nat)
    BY RowType DEF Remainder
  <2>3. Improve(t, content) =
          IF longer = {} THEN t ELSE {<<e.row, Remainder(e.row, content)>> : e \in longer}
    BY DEF Improve, Rows
  <2> HIDE DEF longer
  <2> QED BY <2>1, <2>2, <2>3
<1>3. \A i \in 1 .. n : \A t \in T : step[i][t] = Improve(t, line[i]) /\ step[i][t] \in T
  BY <1>1, <1>2
<1>4. \E g : Pass(g)
  <2> HIDE DEF T, step
  <2>1. {} \in T
    BY DEF T
  <2>2. Steps(n, T, step)
    BY <1>3 DEF Steps
  <2>3. PICK g : IsPass(g, n, T, {}, step)
    BY <2>1, <2>2, PassExists
  <2>4. ASSUME NEW i \in 1 .. n PROVE g[i] = Improve(g[i - 1], line[i])
    <3>1. i - 1 \in 0 .. n
      OBVIOUS
    <3>2. g[i - 1] \in T
      BY <2>3, <3>1 DEF IsPass
    <3> QED BY <1>3, <2>3, <3>2 DEF IsPass
  <2>5. \A i \in 0 .. n : i = 0 \/ i \in 1 .. n
    OBVIOUS
  <2> HIDE DEF Pass
  <2>6. \A i \in 0 .. n : g[i] = IF i = 0 THEN {} ELSE Improve(g[i - 1], line[i])
    BY <2>3, <2>4, <2>5 DEF IsPass
  <2>7. Pass(g)
    BY <2>3, <2>6 DEF Pass, IsPass
  <2> QED BY <2>7
<1> DEFINE best == CHOOSE g : Pass(g)
<1>5. Pass(best)
  <2> HIDE DEF Pass
  <2> QED BY <1>4
<1>6. BestOfLine(line) = best[n]
  BY DEF BestOfLine
<1> HIDE DEF best
<1>7. best[0] = {} /\ \A i \in 1 .. n : best[i] = Improve(best[i - 1], line[i])
  <2>1. DOMAIN best = 0 .. n
    BY <1>5
  <2>2. \A i \in 0 .. n : best[i] = IF i = 0 THEN {} ELSE Improve(best[i - 1], line[i])
    BY <1>5
  <2>3. 0 \in 0 .. n /\ \A i \in 1 .. n : i \in 0 .. n /\ i # 0
    OBVIOUS
  <2> HIDE DEF Pass
  <2> QED BY <2>2, <2>3
<1> DEFINE S == {i \in 0 .. n : IsBest(line, i, best[i])}
<1>8. 0 \in S
  BY <1>1, <1>7 DEF IsBest, ClaimsUpTo
<1>9. ASSUME NEW i \in 0 .. n - 1, i \in S PROVE i + 1 \in S
  <2>1. i \in Nat /\ i + 1 \in DOMAIN line /\ i + 1 \in 1 .. n /\ (i + 1) - 1 = i
    BY <1>1
  <2>2. best[i + 1] = Improve(best[i], line[i + 1])
    BY <1>7, <2>1
  <2>3. IsBest(line, i + 1, best[i + 1])
    BY <1>9, <2>1, <2>2, ImproveIsBest
  <2> QED BY <2>1, <2>3
<1>10. n \in S
  <2>1. \A i \in 0 .. n - 1 : i \in S => i + 1 \in S
    BY <1>9
  <2> HIDE DEF S
  <2> QED BY <1>8, <2>1, InductUpTo
<1> QED BY <1>6, <1>10

LEMMA ClaimsOnIs ==
  ASSUME NEW line \in Seq(Seq(Nat))
  PROVE  ClaimsOn(line) = ClaimsUpTo(line, Len(line))
  BY DEF ClaimsOn, ClaimsUpTo, Rows

(* What the scan holds when it holds this line's verdict.                  *)
HoldsVerdictOf(line) ==
  \E c \in ClaimsOn(line) :
    /\ Stands(c, ClaimsOn(line))
    /\ scan.present
    /\ c[2].row.shape = "prefix" => scan.verdict = {c[2].row.outcome}
    /\ c[2].row.shape = "remainder" =>
         scan.verdict = {} /\ scan.token = Remainder(c[2].row, line[c[1]])

VerdictInv ==
  /\ OutcomeInv
  /\ read \in Seq(LogLines)
  /\ \/ VerdictLines = {} /\ scan = NoScan
     \/ \E i \in VerdictLines : (\A j \in VerdictLines : j <= i) /\ HoldsVerdictOf(read[i])

LEMMA VerdictInvIsEnough == VerdictInv => LastVerdictLineWins
<1> SUFFICES ASSUME VerdictInv PROVE LastVerdictLineWins
  OBVIOUS
<1>1. CASE VerdictLines = {}
  BY <1>1 DEF VerdictInv, LastVerdictLineWins
<1>2. CASE VerdictLines # {}
  <2>1. PICK i \in VerdictLines : (\A j \in VerdictLines : j <= i) /\ HoldsVerdictOf(read[i])
    BY <1>2 DEF VerdictInv
  <2>2. VerdictLines \subseteq Nat
    BY DEF VerdictLines, VerdictInv
  <2>3. \A k \in VerdictLines : (\A j \in VerdictLines : j <= k) => k = i
    BY <2>1, <2>2
  <2>4. (CHOOSE k \in VerdictLines : \A j \in VerdictLines : j <= k) = i
    BY <2>1, <2>3
  <2> QED BY <1>2, <2>1, <2>4 DEF LastVerdictLineWins, HoldsVerdictOf, Stands
<1> QED BY <1>1, <1>2

LEMMA ScanLineVerdict ==
  ASSUME VerdictInv, OutcomeInv', NEW line \in LogLines, ScanLine(line)
  PROVE  VerdictInv'
<1>1. /\ read' = Append(read, line) /\ view' = view /\ line \in Seq(Seq(Nat))
      /\ read \in Seq(LogLines) /\ read' \in Seq(LogLines)
  BY LogAssumption DEF ScanLine, vars, VerdictInv
<1>2. \A l : ClaimsOn(l)' = ClaimsOn(l)
  BY <1>1 DEF ClaimsOn, Of
<1> PICK n \in Nat : n = Len(read)
  BY <1>1
<1>3. /\ n \in Nat /\ DOMAIN read = 1 .. n /\ DOMAIN read' = 1 .. n + 1
      /\ read'[n + 1] = line /\ \A i \in 1 .. n : read'[i] = read[i]
  BY <1>1
<1>4. VerdictLines \subseteq 1 .. n /\ VerdictLines' \subseteq 1 .. n + 1
      /\ (\A i \in 1 .. n : i \in VerdictLines' <=> i \in VerdictLines)
      /\ (n + 1 \in VerdictLines' <=> ClaimsOn(line) # {})
  BY <1>2, <1>3 DEF VerdictLines
<1>5. IsBest(line, Len(line), BestOfLine(line)) /\ ClaimsOn(line) = ClaimsUpTo(line, Len(line))
  BY <1>1, BestOfLineIsBest, ClaimsOnIs DEF VerdictInv
<1>6. CASE ClaimsOn(line) = {}
  <2>1. scan' = scan
    BY <1>5, <1>6 DEF IsBest, ScanLine
  <2>2. VerdictLines' = VerdictLines
    <3>1. \A i \in 1 .. n + 1 : i \in 1 .. n \/ i = n + 1
      BY <1>3
    <3>2. \A i : i \in VerdictLines' <=> i \in VerdictLines
      BY <1>4, <1>6, <3>1
    <3> QED BY <3>2
  <2>3. ASSUME NEW i \in VerdictLines, HoldsVerdictOf(read[i]) PROVE HoldsVerdictOf(read[i])'
    <3>1. read'[i] = read[i]
      BY <1>3, <1>4
    <3> QED BY <1>2, <2>1, <2>3, <3>1 DEF HoldsVerdictOf, Stands
  <2> QED BY <1>1, <2>1, <2>2, <2>3 DEF VerdictInv, NoScan, NoToken
<1>7. CASE ClaimsOn(line) # {}
  <2>1. PICK c \in ClaimsOn(line) : /\ Stands(c, ClaimsOn(line))
                                    /\ BestOfLine(line) = {<<c[2].row, Remainder(c[2].row, line[c[1]])>>}
    BY <1>5, <1>7 DEF IsBest
  <2>2. scan' = Taken(c[2].row, Remainder(c[2].row, line[c[1]]))
    <3>1. BestOfLine(line) # {}
      BY <2>1
    <3>2. PICK b \in BestOfLine(line) : scan' = Taken(b[1], b[2])
      BY <3>1 DEF ScanLine
    <3>3. b = <<c[2].row, Remainder(c[2].row, line[c[1]])>>
      BY <2>1, <3>2
    <3> QED BY <3>2, <3>3
  <2>3. /\ scan'.present
        /\ c[2].row.shape = "prefix" => scan'.verdict = {c[2].row.outcome}
        /\ c[2].row.shape = "remainder" =>
             scan'.verdict = {} /\ scan'.token = Remainder(c[2].row, line[c[1]])
    BY <2>2 DEF Taken
  <2>4. HoldsVerdictOf(line)'
    BY <1>2, <2>1, <2>3 DEF HoldsVerdictOf, Stands, Remainder
  <2>5. n + 1 \in VerdictLines' /\ \A j \in VerdictLines' : j <= n + 1
    BY <1>3, <1>4, <1>7
  <2> QED BY <1>1, <1>3, <2>4, <2>5 DEF VerdictInv
<1> QED BY <1>6, <1>7

LEMMA NextVerdict == VerdictInv /\ [NextOutcome]_<<vars, outcomeVars>> => VerdictInv'
<1> SUFFICES ASSUME VerdictInv, [NextOutcome]_<<vars, outcomeVars>> PROVE VerdictInv'
  OBVIOUS
<1>1. OutcomeInv'
  BY NextOutcomeInv DEF VerdictInv
<1>2. CASE Prepare
  <2>1. read = <<>> /\ read' = <<>> /\ scan' = scan
    BY <1>2 DEF Prepare, outcomeVars
  <2>2. VerdictLines = {} /\ VerdictLines' = {}
    BY <2>1 DEF VerdictLines
  <2> QED BY <1>1, <2>1, <2>2 DEF VerdictInv, NoScan, NoToken
<1>3. ASSUME NEW line \in LogLines, ScanLine(line) PROVE VerdictInv'
  BY <1>1, <1>3, ScanLineVerdict
<1>4. CASE UNCHANGED <<view, read, scan>>
  <2>1. VerdictLines' = VerdictLines /\ \A i : HoldsVerdictOf(read[i])' <=> HoldsVerdictOf(read[i])
    BY <1>4 DEF VerdictLines, HoldsVerdictOf, ClaimsOn, Of, Stands, Claims, Remainder
  <2> QED BY <1>1, <1>4, <2>1 DEF VerdictInv, NoScan, NoToken
<1>5. ASSUME NEW declared \in SideInputs \cup {NoSide}, ResolveRunOutcome(declared) PROVE VerdictInv'
  BY <1>4, <1>5 DEF ResolveRunOutcome
<1>6. CASE UNCHANGED <<vars, outcomeVars>>
  BY <1>4, <1>6 DEF vars, outcomeVars
<1> QED BY <1>2, <1>3, <1>5, <1>6 DEF NextOutcome

(* "the LONGEST matching prefix wins within a line and the LAST such line  *)
(* wins across the log" (canon.cppm:242), for every vocabulary of rows and *)
(* every log: the fold over a line's segments yields the one claim that    *)
(* stands among all of them, and nothing of an earlier line survives in    *)
(* the scan when a later one has a verdict.                                *)
THEOREM LastLineWins == SpecOutcome => []LastVerdictLineWins
<1>1. InitOutcome => VerdictInv
  BY InitOutcomeInv DEF InitOutcome, VerdictInv, VerdictLines
<1> QED BY <1>1, NextVerdict, VerdictInvIsEnough, PTL DEF SpecOutcome
=============================================================================
