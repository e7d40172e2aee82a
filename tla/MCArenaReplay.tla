--------------------------- MODULE MCArenaReplay ---------------------------
(* The whole next-state relation of the arena warms the subject up.        *)
EXTENDS ArenaReplay
============================================================================
