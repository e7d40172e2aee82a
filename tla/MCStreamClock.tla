--------------------------- MODULE MCStreamClock ---------------------------
(* Half-day slots over nine years with two leap years; the moves reach     *)
(* from a slot to past half a year, both ways.                             *)
EXTENDS StreamClock

Noon(y, m, d) == At([month |-> m, day |-> d, slot |-> 1], y)
MCStart == {Noon(2024, 2, 29), Noon(2025, 12, 31), Noon(2026, 1, 1), Noon(2023, 7, 2)}
MCMoves == {0, 1, 60, 365, -1, -364, -365}
=============================================================================
