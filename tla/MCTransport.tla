----------------------------- MODULE MCTransport -----------------------------
(* Short lines under every layering and declaration of up to two or three  *)
(* rows, and a rendered prefix at the turn of every month and year.        *)
EXTENDS Transport

Text == Cell("text")
Unreadable == [year |-> 2024, month |-> 13, day |-> 1, slot |-> 0]
LeapSecond == [year |-> 2016, month |-> 12, day |-> 31, slot |-> SlotsPerDay]

MCPayloads == {
  <<>>, <<Text>>, <<Cell("space"), Text>>, <<Text, Cell("space"), Cell("cr"), Cell("cr")>>,
  <<Cell("esc"), Cell("space"), Text>>, <<Cell("mark"), Cell("mark"), Text>>,
  <<Text, Cell("cr"), Cell("esc")>>, <<StampCell(20, DateOf(1)), Text>>, <<StampCell(28, Unreadable), Text>>,
  <<Cell("["), StampCell(20, LeapSecond), Cell("]"), Text>>, <<Cell("["), Text, Cell("]")>>,
  <<Cell("["), StampCell(24, DateOf(-1)), Text>>}

Rows == {"api", "bracket", "bom"}
MCInstants == <<3, -3>>
MCLayers == UNION {[1 .. n -> Rows] : n \in 0 .. 2}

Short == {[layers |-> l, instants |-> SubSeq(MCInstants, 1, Len(l)), colour |-> c, payload |-> p] :
            l \in MCLayers, c \in BOOLEAN, p \in MCPayloads}

\* The days at whose turn a field of a date carries: where the parser's years begin and end,
\* around 1970, and around every century, which one of four is a leap year.
Years == 1678 .. 1680 \cup 1967 .. 1973 \cup 2260 .. 2262 \cup UNION {{c - 1, c, c + 1} : c \in {1700, 1800, 1900, 2000, 2100, 2200}}
Days == UNION {{DaysToYear(y) + d : d \in {-1, 0, 31, 58, 59, 60, 90, 305, 306}} : y \in Years}
Rendered == {[layers |-> <<"bracket">>, instants |-> <<d * TicksPerDay + k>>, colour |-> FALSE, payload |-> <<Text>>] :
               d \in Days, k \in {0, TicksPerDay - 1}}

MCDeliveries == Short \cup Rendered
MCStacks == {<<"bracket">>} \cup UNION {[1 .. n -> Rows] : n \in 0 .. 2} \cup {<<"bom", "none">>, <<"bom", "api", "bracket">>}
==============================================================================
