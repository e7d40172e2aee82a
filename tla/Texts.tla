-------------------------------- MODULE Texts --------------------------------
(***************************************************************************)
(* Reading a text: a sequence of cells, each a byte or a run of bytes.     *)
(***************************************************************************)
EXTENDS Naturals, Sequences, FiniteSets

Upto(text, n) == SubSeq(text, 1, n)
From(text, n) == SubSeq(text, n, Len(text))
Over(text, cells) == \A i \in DOMAIN text : text[i] \in cells
Has(text, cells) == \E i \in DOMAIN text : text[i] \in cells
StartsAt(text, i, prefix) ==
  i + Len(prefix) <= Len(text) + 1 /\ \A k \in DOMAIN prefix : text[i + k - 1] = prefix[k]

\* The position after the longest run of these cells at i.
After(text, i, cells) ==
  CHOOSE j \in i .. Len(text) + 1 :
    /\ \A k \in i .. j - 1 : text[k] \in cells
    /\ j > Len(text) \/ text[j] \notin cells

\* The first position of a cell, or none.
First(text, cell) == {i \in DOMAIN text : text[i] = cell /\ \A k \in 1 .. i - 1 : text[k] # cell}

Ascending(S) == [k \in 1 .. Cardinality(S) |-> CHOOSE i \in S : Cardinality({j \in S : j < i}) = k - 1]

\* The pieces between the separators, as the positions they run over.
Pieces(text, separators) ==
  LET starts == {i \in 1 .. Len(text) + 1 : i = 1 \/ text[i - 1] \in separators}
      others == {text[i] : i \in DOMAIN text} \ separators
  IN  [k \in 1 .. Cardinality(starts) |->
         LET first == Ascending(starts)[k]
         IN  [first |-> first, last |-> After(text, first, others) - 1]]
==============================================================================
