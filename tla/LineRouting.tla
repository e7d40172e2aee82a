---------------------------- MODULE LineRouting ----------------------------
(***************************************************************************)
(* What the parser's routing promises, without the cache that makes it     *)
(* cheap: the strategy a line goes to is a function of the line's bytes    *)
(* and of what the caller declared (technical_docs/masking.md:13,          *)
(* README.md:37), never of the lines before it.                            *)
(***************************************************************************)
CONSTANTS
  Lines,
  Strategies,
  Empty,   \* the lines that reach no strategy at all
  Detect,  \* the strategy detection gives each line, by its bytes alone
  None,    \* no strategy
  NoLine

VARIABLES
  mode,   \* "auto", "latch" (the first strategy found is kept), or a strategy
  routed  \* the last line and the strategy it went to

Route(m, l) ==
  IF l \in Empty THEN None
  ELSE IF m \in {"auto", "latch"} THEN Detect[l]
  ELSE m

Init ==
  /\ mode = "auto"
  /\ routed = [line |-> NoLine, strategy |-> None]

Declare ==
  /\ mode' \in {"auto", "latch"} \cup Strategies
  /\ UNCHANGED routed

Read(l) ==
  /\ routed' = [line |-> l, strategy |-> Route(mode, l)]
  /\ mode' = IF mode = "latch" /\ Route(mode, l) # None THEN Route(mode, l) ELSE mode

Next == Declare \/ \E l \in Lines : Read(l)

Spec == Init /\ [][Next]_<<mode, routed>>
============================================================================
