---------------------------- MODULE Composition ----------------------------
(***************************************************************************)
(* Composing semantic packages and resolving a stream's view of them       *)
(* (core/src/compose/compose.cpp, core/api/canon.compose.cppm), and the    *)
(* walkers that ask a view about a line (semantic_walkers.cpp,             *)
(* level_lift.cpp).  Bytes are sequences over a small alphabet; a name is  *)
(* a number, ordered as the names are, and 0 is the empty one.             *)
(***************************************************************************)
EXTENDS Integers, Sequences, FiniteSets

CONSTANTS
  Arguments,  \* the sequences of manifests given to compose
  Malformed,  \* the rows whose own shape the fence refuses
  ShapeHits,  \* <<shape, line>>: the shape matches the whole line
  Declines,   \* <<prefix, line>>: the marker's extractor or exclusions refuse the line
  Lines,      \* the bytes the walkers are asked about
  Dialects, Channels  \* the declarations tried

kAny == 0  \* kAnyDialect, kAnyChannel

PrefixTables == {"role", "marker", "lift", "outcome"}
Tables == PrefixTables \cup {"token", "value", "class"}

StartsWith(line, key) == Len(key) <= Len(line) /\ SubSeq(line, 1, Len(key)) = key

\* A manifest is a name, its channel names and its rows; pos is a row's place in its table.
IsRow(r) ==
  /\ r.table \in Tables /\ r.match \in {"prefix", "shape"} /\ r.part \in {"Names", "Opens", "Closes"}
  /\ r.gate \in Nat /\ r.channel \in Nat /\ r.pos \in Nat

ASSUME CompositionAssumption ==
  \A given \in Arguments :
    /\ IsFiniteSet(DOMAIN given)
    /\ \A i \in DOMAIN given : given[i].name \in Nat /\ \A r \in given[i].rows : IsRow(r)

\* "every row's channel_gate is kAnyChannel or one of the package's DECLARED channels".
ASSUME ChannelAssumption ==
  \A given \in Arguments : \A i \in DOMAIN given : \A r \in given[i].rows :
    r.table = "marker" => r.channel \in given[i].channels \cup {kAny}

\* The keys of a prefix table and the lines are bytes.
ASSUME BytesAssumption ==
  /\ Lines \subseteq Seq(Nat)
  /\ \A given \in Arguments : \A i \in DOMAIN given : \A r \in given[i].rows :
       r.table \in PrefixTables /\ r.match = "prefix" => r.key \in Seq(Nat)

VARIABLES
  args,              \* the manifests, in the caller's order
  status,            \* "new", "ready" or "terminated"
  all,               \* the composition's rows, unfiltered
  shadows,           \* the pairs of prefixes the report names
  view,              \* the rows of the resolved stream
  dialect, channel   \* what the stream declared

vars == <<args, status, all, shadows, view, dialect, channel>>

----------------------------------------------------------------------------
(* Gates.                                                                  *)

Admits(gate, declared) == gate = kAny \/ gate = declared

\* Fault: a gate answers for its own dialect only.
SameGate(g, h) == g = h

GatesIntersect(g, h) == g = h \/ g = kAny \/ h = kAny

----------------------------------------------------------------------------
(* The rows of a composition: each with its package's canonical place.     *)

\* Fault: rows keep the caller's order.
PlaceGiven(given, i) == i

Place(given, i) == Cardinality({j \in DOMAIN given : given[j].name < given[i].name})

Composed(given) ==
  UNION {{[row |-> r, place |-> Place(given, i)] : r \in given[i].rows} : i \in DOMAIN given}

Before(e, f) == e.place < f.place \/ (e.place = f.place /\ e.row.pos < f.row.pos)

(* prefix_rows_collide, and its variants for the other tables.             *)
Collide(r, s) ==
  /\ r.table = s.table
  /\ r.key = s.key
  /\ r.match = s.match
  /\ r.table # "class" => GatesIntersect(r.gate, s.gate)

Conflict(given) ==
  \E i, j \in DOMAIN given :
    \/ i # j /\ given[i].name = given[j].name
    \/ \E r \in given[i].rows, s \in given[j].rows : (i # j \/ r # s) /\ Collide(r, s)

(* fence_manifests: what compose refuses.                                  *)
Refused(given) ==
  \/ \E i \in DOMAIN given : given[i].name = kAny
  \/ Conflict(given)
  \/ \E i \in DOMAIN given : given[i].rows \cap Malformed # {}

(* note_shadows.                                                           *)
IsShadow(r, s) ==
  /\ r.table \in PrefixTables /\ r.table = s.table
  /\ r.match = "prefix" /\ s.match = "prefix"
  /\ Len(r.key) < Len(s.key) /\ StartsWith(s.key, r.key)
  /\ GatesIntersect(r.gate, s.gate)

Shadows(rows) ==
  {<<p[1].row.key, p[2].row.key>> : p \in {q \in rows \X rows : IsShadow(q[1].row, q[2].row)}}

----------------------------------------------------------------------------
(* Resolving a stream.                                                     *)

Filtered(rows, d, c) ==
  {e \in rows : Admits(e.row.gate, d) /\ (e.row.table = "marker" => Admits(e.row.channel, c))}

\* Fault: only the rows of the fresh view are looked at.
NotedOfView(rows) == Filtered(rows, kAny, kAny)

\* The rows whose shadows the report notes.
Noted(rows) == rows

PackageNames == {args[i].name : i \in DOMAIN args}
ChannelNames == UNION {args[i].channels : i \in DOMAIN args}

Init ==
  /\ args \in Arguments
  /\ status = "new"
  /\ all = {} /\ shadows = {} /\ view = {}
  /\ dialect = kAny /\ channel = kAny

Compose ==
  /\ status = "new"
  /\ IF Refused(args)
     THEN /\ status' = "terminated"
          /\ UNCHANGED <<all, shadows, view>>
     ELSE /\ status' = "ready"
          /\ all' = Composed(args)
          /\ shadows' = Shadows(Noted(Composed(args)))
          /\ view' = Filtered(Composed(args), kAny, kAny)
  /\ UNCHANGED <<args, dialect, channel>>

\* Fault: a view is resolved from the view before it.
ResolvedFromView(d, c) == Filtered(view, d, c)

Resolved(d, c) == Filtered(all, d, c)

Known(d, c) == d \in PackageNames \cup {kAny} /\ c \in ChannelNames \cup {kAny}

(* for_stream on the last view: an unknown name is a mistake, an empty one *)
(* a choice.                                                               *)
ForStream(d, c) ==
  /\ status = "ready"
  /\ IF Known(d, c)
     THEN /\ view' = Resolved(d, c)
          /\ dialect' = d /\ channel' = c
          /\ UNCHANGED status
     ELSE /\ status' = "terminated"
          /\ UNCHANGED <<view, dialect, channel>>
  /\ UNCHANGED <<args, all, shadows>>

Next == Compose \/ \E d \in Dialects, c \in Channels : ForStream(d, c)

Spec == Init /\ [][Next]_vars

----------------------------------------------------------------------------
(* The walkers.                                                            *)

Of(rows, table) == {e \in rows : e.row.table = table}

Hits(e, line) ==
  IF e.row.match = "shape" THEN <<e.row.key, line>> \in ShapeHits ELSE StartsWith(line, e.row.key)

\* What a walker keeps: a row is displaced by a better one that comes after it.
Best(rows, Better(_, _)) ==
  IF rows = {} THEN {}
  ELSE {CHOOSE e \in rows : \A f \in rows : Better(e, f) \/ (~Better(f, e) /\ (e = f \/ Before(e, f)))}

Longer(e, f) == Len(e.row.key) > Len(f.row.key)

\* A shape is a claim on the whole line.
Stronger(e, f) ==
  \/ e.row.match = "shape" /\ f.row.match = "prefix"
  \/ e.row.match = f.row.match /\ Longer(e, f)

Classify(rows, line) == Best({e \in Of(rows, "role") : Hits(e, line)}, Stronger)

Recognize(rows, line) ==
  Best({e \in Of(rows, "marker") : e.row.part = "Names" /\ Hits(e, line)
                                   /\ <<e.row.key, line>> \notin Declines}, Longer)

RecognizeOpener(rows, line) ==
  Best({e \in Of(rows, "marker") : e.row.part = "Opens" /\ Hits(e, line)}, Longer)

RecognizeCloser(rows, line) ==
  \E e \in Of(rows, "marker") : e.row.part = "Closes" /\ Hits(e, line)

\* The level of the first row that matches.
LiftLevel(rows, line) == Best({e \in Of(rows, "lift") : Hits(e, line)}, LAMBDA e, f : FALSE)

\* Fault: the channel gate is asked of the rows the view kept.
WithholdsOfView(c) ==
  \E e \in Of(view, "marker") : Admits(e.row.gate, dialect) /\ ~Admits(e.row.channel, c)

WithholdsMarkersFor(c) ==
  \E e \in Of(all, "marker") : Admits(e.row.gate, dialect) /\ ~Admits(e.row.channel, c)

----------------------------------------------------------------------------
(* "a duplicate rule has no deterministic resolution" (compose.cpp:212):   *)
(* after the fence, no view of any stream holds two rows of one table      *)
(* under one key.                                                          *)
OneRulePerKey ==
  \A e, f \in view :
    /\ e.row.table = f.row.table
    /\ e.row.key = f.row.key
    /\ e.row.match = f.row.match
    => e = f

(* The order packages are given in shows in no answer about any line       *)
(* ("independent of the caller's argument order", canon.compose.cppm:361): *)
(* a view of the same packages in another order gives the same rows.       *)
Answers(rows, line) ==
  LET rowsOf(answer) == {e.row : e \in answer}
  IN  <<rowsOf(Classify(rows, line)), rowsOf(Recognize(rows, line)),
        rowsOf(RecognizeOpener(rows, line)), RecognizeCloser(rows, line),
        rowsOf(LiftLevel(rows, line))>>

Reordered ==
  {[i \in DOMAIN args |-> args[order[i]]] : order \in
     {f \in [DOMAIN args -> DOMAIN args] : \A i, j \in DOMAIN args : f[i] = f[j] => i = j}}

OrderInvisible ==
  status = "ready" =>
    \A given \in Reordered, line \in Lines :
      Answers(Filtered(Composed(given), dialect, channel), line) = Answers(view, line)

(* A view can be resolved again: it is that of a fresh composition ("every *)
(* table is re-derived from the UNFILTERED sets, so this is idempotent and *)
(* order-free", compose.cpp:467), and the report has not moved.            *)
ViewIsFresh ==
  status = "ready" =>
    /\ view = Filtered(Composed(args), dialect, channel)
    /\ shadows = Shadows(Composed(args))

(* Two prefix rows of one table that can claim one line in one view are    *)
(* both in the report: nothing shadows silently.                           *)
NoSilentShadow ==
  \A line \in Lines, e, f \in view :
    /\ e # f /\ e.row.table = f.row.table /\ e.row.table \in PrefixTables
    /\ e.row.match = "prefix" /\ f.row.match = "prefix"
    /\ Hits(e, line) /\ Hits(f, line)
    => <<e.row.key, f.row.key>> \in shadows \/ <<f.row.key, e.row.key>> \in shadows

(* withholds_markers_for tells the caller, on any view, whether declaring  *)
(* that channel loses a marker another declaration would keep.             *)
WithholdingIsTrue ==
  status = "ready" =>
    \A c \in ChannelNames \cup {kAny} :
      WithholdsMarkersFor(c) <=>
        \E other \in ChannelNames \cup {kAny} :
          ~ (Filtered(all, dialect, other) \subseteq Filtered(all, dialect, c))
============================================================================
