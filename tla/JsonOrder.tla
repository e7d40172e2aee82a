------------------------------ MODULE JsonOrder ------------------------------
(***************************************************************************)
(* The member-order normal form of a line that is, whole, one JSON object  *)
(* or array (core/src/mask/mask.cpp, namespace json_order).  A value is a  *)
(* tree with its blanks: a separator is what stands between the end of one *)
(* member or item and the start of the next, or the closing bracket.       *)
(***************************************************************************)
EXTENDS Naturals, Sequences, FiniteSets

LOCAL INSTANCE SequencesExt
LOCAL INSTANCE FiniteSetsExt

CONSTANTS
  kMaxDepth,   \* nesting past which a line is left as it is
  CodeOf       \* the code point or surrogate that a cell of a name stands for

Scalar(text) == [kind |-> "scalar", text |-> text]
Array(items, seps) == [kind |-> "array", items |-> items, seps |-> seps]
Object(members, seps) == [kind |-> "object", members |-> members, seps |-> seps]
Member(name, value) == [name |-> name, value |-> value]

Values(v) ==
  CASE v.kind = "scalar" -> <<>>
    [] v.kind = "array" -> v.items
    [] v.kind = "object" -> [i \in DOMAIN v.members |-> v.members[i].value]

\* The nesting that value_end counts.
RECURSIVE Depth(_)
Depth(v) ==
  IF v.kind = "scalar" THEN 0
  ELSE 1 + Max({0} \cup {Depth(Values(v)[i]) : i \in DOMAIN Values(v)})

RECURSIVE Source(_)
Source(v) ==
  LET text(i) == Source(Values(v)[i]) \o v.seps[i]
      named(i) == <<"\"">> \o v.members[i].name \o <<"\"", ":">>
  IN  CASE v.kind = "scalar" -> v.text
        [] v.kind = "array" -> <<"[">> \o FlattenSeq([i \in DOMAIN v.items |-> text(i)]) \o <<"]">>
        [] v.kind = "object" ->
             <<"{">> \o FlattenSeq([i \in DOMAIN v.members |-> named(i) \o text(i)]) \o <<"}">>

----------------------------------------------------------------------------
(* unescaped: the code points a name stands for.  A high surrogate and the *)
(* low one after it are one; a lone one stands for itself.  Their UTF-8    *)
(* bytes are in the order of the code points.                              *)
High == 55296 .. 56319
Low == 56320 .. 57343

Unescaped(name) ==
  LET read[i \in 1 .. Len(name) + 1] ==
        IF i > Len(name) THEN <<>>
        ELSE IF i < Len(name) /\ CodeOf[name[i]] \in High /\ CodeOf[name[i + 1]] \in Low
             THEN <<65536 + (CodeOf[name[i]] - 55296) * 1024 + (CodeOf[name[i + 1]] - 56320)>> \o read[i + 2]
        ELSE <<CodeOf[name[i]]>> \o read[i + 1]
  IN  read[1]

Before(a, b) ==
  \E n \in 0 .. Len(a) :
    /\ \A i \in 1 .. n : i <= Len(b) /\ a[i] = b[i]
    /\ IF n = Len(a) THEN Len(b) > n ELSE n < Len(b) /\ a[n + 1] < b[n + 1]

----------------------------------------------------------------------------
(* emit: each member moves whole, each separator stays where it is.        *)

RECURSIVE Ordered(_)
Ordered(v) ==
  CASE v.kind = "scalar" -> v
    [] v.kind = "array" -> Array([i \in DOMAIN v.items |-> Ordered(v.items[i])], v.seps)
    [] v.kind = "object" ->
         Object(SortSeq([i \in DOMAIN v.members |-> Member(v.members[i].name, Ordered(v.members[i].value))],
                        LAMBDA m, n : Before(Unescaped(m.name), Unescaped(n.name))),
                v.seps)

\* An object, at any depth, names a member twice.
RECURSIVE Repeats(_)
Repeats(v) ==
  \/ \E i \in DOMAIN Values(v) : Repeats(Values(v)[i])
  \/ /\ v.kind = "object"
     /\ \E i, j \in DOMAIN v.members : i # j /\ Unescaped(v.members[i].name) = Unescaped(v.members[j].name)

\* Fault: a repeated name is not looked for.
RewrittenAnyway(v) == v.kind # "scalar" /\ Depth(v) <= kMaxDepth

\* json_member_order: the line's normal form, which is the line when it has none of its own.
Rewritten(v) == v.kind # "scalar" /\ Depth(v) <= kMaxDepth /\ ~Repeats(v)

JsonMemberOrder(v) == IF Rewritten(v) THEN Source(Ordered(v)) ELSE Source(v)

----------------------------------------------------------------------------
(* Every tree that differs from v only in the order of its members.        *)
RECURSIVE Reorderings(_)
Reorderings(v) ==
  CASE v.kind = "scalar" -> {v}
    [] v.kind = "array" ->
         {Array(items, v.seps) : items \in
            {f \in [DOMAIN v.items -> UNION {Reorderings(v.items[i]) : i \in DOMAIN v.items}] :
               \A i \in DOMAIN f : f[i] \in Reorderings(v.items[i])}}
    [] v.kind = "object" ->
         LET moved == {f \in [DOMAIN v.members -> UNION {{Member(v.members[i].name, w) : w \in Reorderings(v.members[i].value)} : i \in DOMAIN v.members}] :
                         \A i \in DOMAIN f : f[i].name = v.members[i].name /\ f[i].value \in Reorderings(v.members[i].value)}
         IN  {Object([i \in DOMAIN v.members |-> m[p[i]]], v.seps) : m \in moved, p \in Permutations(DOMAIN v.members)}
==============================================================================
