---------------------------- MODULE ArenaProofs ----------------------------
(***************************************************************************)
(* The arena's safety for every set of arenas, sizes, alignments and base  *)
(* addresses: an inductive invariant of Arena's Spec, and what it implies; *)
(* and that a replay after a reset (ArenaReplay) gets its addresses back.  *)
(***************************************************************************)
EXTENDS ArenaReplay, TLAPS

(* The strengthening.  Bump relies on the active index naming a block;     *)
(* Advance on TailRewound, to overwrite nothing; Grow on ViewsInAllocated, *)
(* for the fresh piece to hold no view; Release and the moves on pieces    *)
(* being held once.                                                        *)
ActiveIsABlock ==
  /\ \A x \in Arenas : blocks[x] # <<>> => active[x] \in DOMAIN blocks[x]
  /\ \A x \in Arenas \ built : blocks[x] = <<>>
  /\ call.in => call.arena \in built /\ blocks[call.arena] # <<>>

OffsetsBounded == \A h \in HeapBlocks : block[h].offset <= block[h].size

FlagsMatch == \A h \in HeapBlocks : block[h].numa <=> heap[h] = "numa"

HeldOnce ==
  \A x, y \in Arenas : \A i \in DOMAIN blocks[x], j \in DOMAIN blocks[y] :
    blocks[x][i] = blocks[y][j] => x = y /\ i = j

AllocatedIsHeld ==
  \A h \in HeapBlocks :
    /\ heap[h] # "corrupt"
    /\ heap[h] # "free" <=> \E x \in built : h \in Held(x)

IInv ==
  /\ TypeOK
  /\ ActiveIsABlock
  /\ OffsetsBounded
  /\ FlagsMatch
  /\ HeldOnce
  /\ AllocatedIsHeld
  /\ TailRewound
  /\ HandedOutExtent
  /\ ViewsDisjoint
  /\ GrowsAtMostOnce

----------------------------------------------------------------------------
(* align_up skips less than one alignment.                                 *)
LEMMA PaddingType ==
  ASSUME TypeOK, NEW h \in HeapBlocks, NEW a \in Alignments
  PROVE  Padding(h, a) \in 0 .. a - 1
<1>1. a \in Nat /\ a > 0
  BY ArenaAssumption
<1>2. block[h].base + block[h].offset \in Int
  BY DEF TypeOK, Blocks
<1>3. \A n \in Int : n % a \in 0 .. a - 1
  BY <1>1, SMT
<1> QED
  BY <1>1, <1>2, <1>3 DEF Padding

(* The block a call looks at is one of its arena's.                        *)
LEMMA CallType ==
  ASSUME IInv, call.in
  PROVE  /\ call.arena \in built /\ call.arena \in Arenas
         /\ call.size \in Sizes /\ call.size \in Nat
         /\ call.align \in Alignments /\ call.align \in Nat \ {0}
         /\ call.grown \in BOOLEAN
         /\ active[call.arena] \in DOMAIN blocks[call.arena]
         /\ ActiveBlock(call.arena) \in HeapBlocks
         /\ ActiveBlock(call.arena) \in Held(call.arena)
<1>1. call \in Calls
  BY DEF IInv, TypeOK, Idle
<1>2. call.arena \in Arenas /\ call.size \in Sizes /\ call.align \in Alignments
      /\ call.grown \in BOOLEAN
  BY <1>1 DEF Calls
<1>3. call.size \in Nat /\ call.align \in Nat \ {0}
  BY <1>2, ArenaAssumption
<1>4. call.arena \in built /\ active[call.arena] \in DOMAIN blocks[call.arena]
  BY <1>2 DEF IInv, ActiveIsABlock
<1>5. ActiveBlock(call.arena) \in HeapBlocks /\ ActiveBlock(call.arena) \in Held(call.arena)
  BY <1>2, <1>4 DEF ActiveBlock, Held, IInv, TypeOK
<1> QED
  BY <1>2, <1>3, <1>4, <1>5

----------------------------------------------------------------------------
LEMMA InitInv == Init => IInv
<1> SUFFICES ASSUME Init PROVE IInv
  OBVIOUS
<1> USE DEF Init
<1>1. TypeOK
  BY ArenaAssumption DEF TypeOK, Blocks, NoBlock, Idle
<1>2. ActiveIsABlock /\ HeldOnce /\ TailRewound /\ GrowsAtMostOnce
  BY DEF ActiveIsABlock, HeldOnce, TailRewound, GrowsAtMostOnce, Idle
<1>3. OffsetsBounded /\ FlagsMatch
  BY DEF OffsetsBounded, FlagsMatch, NoBlock
<1>4. AllocatedIsHeld /\ HandedOutExtent /\ ViewsDisjoint
  BY DEF AllocatedIsHeld, HandedOutExtent, ViewsDisjoint
<1> QED
  BY <1>1, <1>2, <1>3, <1>4 DEF IInv

LEMMA AllocateInv ==
  ASSUME IInv, NEW x \in Arenas, NEW s \in Sizes, NEW a \in Alignments, Allocate(x, s, a)
  PROVE  IInv'
<1> USE DEF Allocate
<1>1. TypeOK'
  BY DEF IInv, TypeOK, Calls
<1>2. ActiveIsABlock'
  BY DEF IInv, ActiveIsABlock
<1>3. GrowsAtMostOnce'
  BY DEF GrowsAtMostOnce
<1>4. (OffsetsBounded /\ FlagsMatch /\ HeldOnce /\ AllocatedIsHeld /\ TailRewound
        /\ HandedOutExtent /\ ViewsDisjoint)'
  BY DEF IInv, OffsetsBounded, FlagsMatch, HeldOnce, AllocatedIsHeld, TailRewound,
         HandedOutExtent, ViewsDisjoint, Held
<1> QED
  BY <1>1, <1>2, <1>3, <1>4 DEF IInv

LEMMA BumpInv ==
  ASSUME IInv, Bump
  PROVE  IInv'
<1> DEFINE x == call.arena
           h == ActiveBlock(x)
           pad == Padding(h, call.align)
           new == [id |-> h, start |-> block[h].offset + pad,
                   size |-> call.size, align |-> call.align]
<1>1. x \in Arenas /\ h \in HeapBlocks /\ h \in Held(x) /\ x \in built
      /\ call.size \in Sizes /\ call.size \in Nat /\ call.align \in Alignments
  BY CallType DEF Bump
<1>2. pad \in Nat
  <2>1. TypeOK /\ call.align \in Nat
    BY <1>1, ArenaAssumption DEF IInv
  <2>2. pad \in 0 .. call.align - 1
    BY <1>1, <2>1, PaddingType
  <2> QED
    BY <2>1, <2>2
<1>3. /\ block[h].offset + pad + call.size <= block[h].size
      /\ block' = [block EXCEPT ![h].offset = @ + pad + call.size]
      /\ used' = [used EXCEPT ![x] = @ + pad + call.size]
      /\ views' = views \cup {new}
      /\ call' = Idle
      /\ UNCHANGED <<heap, built, blocks, active, policy>>
  BY DEF Bump, Fits
<1> HIDE DEF h, pad
<1>4. TypeOK'
  <2>1. new \in Views
    BY <1>1, <1>2 DEF Views, IInv, TypeOK, Blocks
  <2>2. block' \in [HeapBlocks -> Blocks]
    <3>1. block[h].offset + pad + call.size \in Nat
      BY <1>1, <1>2 DEF IInv, TypeOK, Blocks
    <3>2. [block[h] EXCEPT !.offset = @ + pad + call.size] \in Blocks
      BY <1>1, <3>1 DEF IInv, TypeOK, Blocks
    <3> QED
      BY <1>1, <1>3, <3>2 DEF IInv, TypeOK
  <2>3. used' \in [Arenas -> Nat]
    BY <1>1, <1>2, <1>3 DEF IInv, TypeOK
  <2> QED
    BY <1>3, <2>1, <2>2, <2>3 DEF IInv, TypeOK
<1>5. ActiveIsABlock' /\ GrowsAtMostOnce'
  BY <1>3 DEF IInv, ActiveIsABlock, GrowsAtMostOnce, Idle
<1>6. OffsetsBounded'
  BY <1>1, <1>2, <1>3 DEF IInv, TypeOK, Blocks, OffsetsBounded
<1>7. FlagsMatch'
  BY <1>1, <1>3 DEF IInv, TypeOK, Blocks, FlagsMatch
<1>8. HeldOnce' /\ AllocatedIsHeld'
  BY <1>3 DEF IInv, HeldOnce, AllocatedIsHeld, Held
<1>9. TailRewound'
  <2> SUFFICES ASSUME NEW y \in built, NEW i \in DOMAIN blocks[y], i > active[y]
               PROVE  block[blocks[y][i]].offset = 0 /\ blocks[y][i] # h
                      /\ blocks[y][i] \in HeapBlocks
    BY <1>1, <1>3 DEF TailRewound, IInv, TypeOK, Blocks
  <2>1. block[blocks[y][i]].offset = 0 /\ blocks[y][i] \in HeapBlocks
    BY DEF IInv, TailRewound, TypeOK
  <2>2. active[x] \in DOMAIN blocks[x] /\ h = blocks[x][active[x]]
    BY CallType DEF Bump, h, ActiveBlock
  <2>3. blocks[y][i] # h
    BY <1>1, <2>2 DEF IInv, HeldOnce, TypeOK
  <2> QED
    BY <2>1, <2>3
<1>10. HandedOutExtent'
  <2> SUFFICES ASSUME NEW v \in views'
               PROVE  /\ heap[v.id] # "free"
                      /\ v.start + v.size <= block'[v.id].offset
                      /\ block'[v.id].offset <= block'[v.id].size
    BY <1>3 DEF HandedOutExtent
  <2>1. CASE v = new
    <3>1. heap[h] # "free"
      BY <1>1 DEF IInv, AllocatedIsHeld
    <3>2. v.id = h /\ v.start = block[h].offset + pad /\ v.size = call.size
      BY <2>1
    <3>3. block'[h].offset = block[h].offset + pad + call.size
          /\ block'[h].size = block[h].size
      BY <1>1, <1>3 DEF IInv, TypeOK, Blocks
    <3>4. block[h].offset \in Nat
      BY <1>1 DEF IInv, TypeOK, Blocks
    <3> QED
      BY <1>1, <1>2, <1>3, <3>1, <3>2, <3>3, <3>4
  <2>2. CASE v \in views
    <3>1. v.id \in HeapBlocks /\ v.start \in Nat /\ v.size \in Nat
      BY <2>2, ArenaAssumption DEF IInv, TypeOK, Views
    <3>2. heap[v.id] # "free" /\ v.start + v.size <= block[v.id].offset
          /\ block[v.id].offset <= block[v.id].size
      BY <2>2 DEF IInv, HandedOutExtent
    <3>3. CASE v.id # h
      <4>1. block'[v.id] = block[v.id]
        BY <1>1, <1>3, <3>1, <3>3 DEF IInv, TypeOK
      <4> QED
        BY <3>2, <4>1
    <3>4. CASE v.id = h
      <4>1. block'[h].offset = block[h].offset + pad + call.size
            /\ block'[h].size = block[h].size /\ block[h].offset \in Nat
        BY <1>1, <1>3 DEF IInv, TypeOK, Blocks
      <4> QED
        BY <1>1, <1>2, <1>3, <3>1, <3>2, <3>4, <4>1
    <3> QED
      BY <3>3, <3>4
  <2> QED
    BY <1>3, <2>1, <2>2
<1>11. ViewsDisjoint'
  <2> SUFFICES ASSUME NEW v \in views, v.id = h
               PROVE  v.start + v.size <= new.start
    BY <1>3 DEF IInv, ViewsDisjoint
  <2>1. v.start + v.size <= block[h].offset
    BY DEF IInv, HandedOutExtent
  <2>2. v.start \in Nat /\ v.size \in Nat /\ block[h].offset \in Nat
    BY <1>1, ArenaAssumption DEF IInv, TypeOK, Views, Blocks
  <2> QED
    BY <1>2, <2>1, <2>2
<1> QED
  BY <1>4, <1>5, <1>6, <1>7, <1>8, <1>9, <1>10, <1>11 DEF IInv

(* A retained block is already rewound, so entering it changes no block.   *)
LEMMA AdvanceInv ==
  ASSUME IInv, Advance
  PROVE  IInv'
<1> DEFINE x == call.arena
           next == blocks[x][active[x] + 1]
<1>1. x \in Arenas /\ x \in built /\ active[x] \in DOMAIN blocks[x]
  BY CallType DEF Advance, Overflows
<1>2. /\ Overflows
      /\ active[x] < Len(blocks[x])
      /\ active' = [active EXCEPT ![x] = @ + 1]
      /\ block' = [block EXCEPT ![next].offset = 0]
      /\ UNCHANGED <<heap, built, blocks, used, policy, call, views>>
  BY DEF Advance
<1>3. active[x] \in Nat /\ blocks[x] \in Seq(HeapBlocks)
  BY <1>1 DEF IInv, TypeOK
<1>4. active[x] + 1 \in DOMAIN blocks[x]
  BY <1>2, <1>3
<1>5. next \in HeapBlocks /\ block[next].offset = 0
  BY <1>1, <1>3, <1>4 DEF IInv, TailRewound
<1>6. block' = block
  <2>1. block \in [HeapBlocks -> Blocks]
    BY DEF IInv, TypeOK
  <2>2. [block[next] EXCEPT !.offset = 0] = block[next]
    BY <1>5, <2>1 DEF Blocks
  <2> QED
    BY <1>2, <1>5, <2>1, <2>2
<1> HIDE DEF next
<1>7. TypeOK'
  <2>1. active' \in [Arenas -> Nat \ {0}]
    BY <1>1, <1>2, <1>3 DEF IInv, TypeOK
  <2>2. call' \in Calls \cup {Idle}
    BY <1>2 DEF IInv, TypeOK
  <2> QED
    BY <1>2, <1>6, <2>1, <2>2 DEF IInv, TypeOK
<1>8. ActiveIsABlock'
  BY <1>1, <1>2, <1>4 DEF IInv, TypeOK, ActiveIsABlock
<1>9. TailRewound'
  BY <1>1, <1>2, <1>3, <1>6 DEF IInv, TypeOK, TailRewound
<1>10. GrowsAtMostOnce'
  BY <1>2 DEF IInv, GrowsAtMostOnce
<1>11. OffsetsBounded' /\ FlagsMatch' /\ HandedOutExtent' /\ ViewsDisjoint'
  BY <1>2, <1>6 DEF IInv, OffsetsBounded, FlagsMatch, HandedOutExtent, ViewsDisjoint
<1>12. HeldOnce' /\ AllocatedIsHeld'
  BY <1>2 DEF IInv, HeldOnce, AllocatedIsHeld, Held
<1> QED
  BY <1>7, <1>8, <1>9, <1>10, <1>11, <1>12 DEF IInv

LEMMA GrowFailsInv ==
  ASSUME IInv, GrowFails
  PROVE  IInv'
<1> USE DEF GrowFails
<1>1. TypeOK' /\ ActiveIsABlock' /\ GrowsAtMostOnce'
  BY DEF IInv, TypeOK, ActiveIsABlock, GrowsAtMostOnce, Idle
<1>2. (OffsetsBounded /\ FlagsMatch /\ HeldOnce /\ AllocatedIsHeld /\ TailRewound
        /\ HandedOutExtent /\ ViewsDisjoint)'
  BY DEF IInv, OffsetsBounded, FlagsMatch, HeldOnce, AllocatedIsHeld, TailRewound,
         HandedOutExtent, ViewsDisjoint, Held
<1> QED
  BY <1>1, <1>2 DEF IInv

(* What make_block leaves behind: an empty block of the size asked for     *)
(* over the piece, flagged with its allocator, every other piece as it was.*)
LEMMA MakeBlockShape ==
  ASSUME TypeOK, NEW h \in HeapBlocks, NEW p \in BOOLEAN, NEW n \in Nat,
         NEW a \in Nat \ {0}, MakeBlock(h, p, n, a)
  PROVE  /\ heap' \in [HeapBlocks -> {"free", "portable", "numa", "corrupt"}]
         /\ block' \in [HeapBlocks -> Blocks]
         /\ heap'[h] \in {"portable", "numa"}
         /\ block'[h].size = n /\ block'[h].offset = 0
         /\ block'[h].numa <=> heap'[h] = "numa"
         /\ \A k \in HeapBlocks \ {h} : heap'[k] = heap[k] /\ block'[k] = block[k]
<1>1. PICK fromNuma \in BOOLEAN, base \in Nat :
        /\ heap' = [heap EXCEPT ![h] = IF fromNuma THEN "numa" ELSE "portable"]
        /\ block' = [block EXCEPT ![h] = [size |-> n, offset |-> 0, align |-> a,
                                          base |-> base, numa |-> fromNuma]]
  <2>1. PICK fromNuma \in IF NumaEligible(p, n, a) THEN BOOLEAN ELSE {FALSE} :
             \E base \in IF fromNuma THEN {0} ELSE {b \in 0 .. BaseSpan - 1 : b % a = 0} :
               /\ heap' = [heap EXCEPT ![h] = IF fromNuma THEN "numa" ELSE "portable"]
               /\ block' = [block EXCEPT ![h] = [size |-> n, offset |-> 0, align |-> a,
                                                 base |-> base, numa |-> fromNuma]]
    BY DEF MakeBlock
  <2>2. fromNuma \in BOOLEAN
    OBVIOUS
  <2>3. \A b \in IF fromNuma THEN {0} ELSE {b \in 0 .. BaseSpan - 1 : b % a = 0} : b \in Nat
    BY ArenaAssumption
  <2> QED
    BY <2>1, <2>2, <2>3
<1>2. [size |-> n, offset |-> 0, align |-> a, base |-> base, numa |-> fromNuma] \in Blocks
  BY DEF Blocks
<1> QED
  BY <1>1, <1>2 DEF TypeOK

LEMMA NewSizeType ==
  ASSUME IInv, Overflows
  PROVE  /\ NewSize(call.arena, call.size, call.align) \in Nat
         /\ NewSize(call.arena, call.size, call.align) >= call.size + call.align
         /\ MaxOf(DefaultAlignment, call.align) \in Nat \ {0}
<1>1. call.in
  BY DEF Overflows
<1>2. blocks[call.arena] \in Seq(HeapBlocks) /\ Len(blocks[call.arena]) \in DOMAIN blocks[call.arena]
  BY <1>1, CallType DEF IInv, TypeOK
<1>3. block[blocks[call.arena][Len(blocks[call.arena])]].size \in Nat
  BY <1>2 DEF IInv, TypeOK, Blocks
<1>4. call.size \in Nat /\ call.align \in Nat \ {0} /\ DefaultAlignment \in Nat \ {0}
  BY <1>1, CallType, ArenaAssumption
<1>5. \A m, n \in Nat : MaxOf(m, n) \in Nat /\ MaxOf(m, n) >= m /\ MaxOf(m, n) >= n
  BY DEF MaxOf
<1>6. 2 * block[blocks[call.arena][Len(blocks[call.arena])]].size \in Nat
  BY <1>3
<1>7. call.size + call.align \in Nat
  BY <1>4
<1>8. MaxOf(DefaultAlignment, call.align) \in Nat \ {0}
  BY <1>4 DEF MaxOf
<1> QED
  BY <1>5, <1>6, <1>7, <1>8 DEF NewSize

LEMMA GrowInv ==
  ASSUME IInv, NEW h \in HeapBlocks, Grow(h)
  PROVE  IInv'
<1> PICK x \in Arenas : x = call.arena
  BY CallType DEF Grow, Overflows
<1> DEFINE n == NewSize(x, call.size, call.align)
<1>1. /\ x \in Arenas /\ x \in built /\ active[x] \in DOMAIN blocks[x]
      /\ call.size \in Nat /\ call.align \in Alignments /\ call.align \in Nat \ {0}
  BY CallType DEF Grow, Overflows
<1>2. /\ Overflows /\ call.in
      /\ active[x] = Len(blocks[x])
      /\ heap[h] = "free"
      /\ MakeBlock(h, policy[x], n, MaxOf(DefaultAlignment, call.align))
      /\ blocks' = [blocks EXCEPT ![x] = Append(@, h)]
      /\ active' = [active EXCEPT ![x] = @ + 1]
      /\ call' = [call EXCEPT !.grown = TRUE]
      /\ UNCHANGED <<built, used, policy, views>>
  BY DEF Grow, Overflows
<1>3. n \in Nat /\ n >= call.size + call.align
      /\ MaxOf(DefaultAlignment, call.align) \in Nat \ {0}
  BY <1>2, NewSizeType
<1> HIDE DEF n
<1>4. /\ heap' \in [HeapBlocks -> {"free", "portable", "numa", "corrupt"}]
      /\ block' \in [HeapBlocks -> Blocks]
      /\ heap'[h] \in {"portable", "numa"}
      /\ block'[h].size = n /\ block'[h].offset = 0
      /\ block'[h].numa <=> heap'[h] = "numa"
      /\ \A k \in HeapBlocks \ {h} : heap'[k] = heap[k] /\ block'[k] = block[k]
  <2>1. TypeOK /\ policy[x] \in BOOLEAN
    BY <1>1 DEF IInv, TypeOK
  <2> QED
    BY <1>2, <1>3, <2>1, MakeBlockShape
<1>5. blocks[x] \in Seq(HeapBlocks) /\ active[x] \in Nat
      /\ \A y \in Arenas : blocks[y] \in Seq(HeapBlocks)
  BY <1>1 DEF IInv, TypeOK
<1>6. blocks' \in [Arenas -> Seq(HeapBlocks)]
      /\ blocks'[x] = Append(blocks[x], h)
      /\ \A y \in Arenas \ {x} : blocks'[y] = blocks[y]
  BY <1>1, <1>2, <1>5 DEF IInv, TypeOK
<1>7. /\ DOMAIN blocks'[x] = DOMAIN blocks[x] \cup {active[x] + 1}
      /\ blocks'[x][active[x] + 1] = h
      /\ \A i \in DOMAIN blocks[x] : blocks'[x][i] = blocks[x][i]
      /\ active[x] + 1 \notin DOMAIN blocks[x]
  BY <1>2, <1>5, <1>6
<1>8. \A y \in Arenas : \A i \in DOMAIN blocks[y] : blocks[y][i] # h
  <2> SUFFICES ASSUME NEW y \in Arenas, NEW i \in DOMAIN blocks[y], blocks[y][i] = h
               PROVE  FALSE
    OBVIOUS
  <2>1. h \in Held(y) /\ y \in built
    BY DEF Held, IInv, ActiveIsABlock
  <2> QED
    BY <1>2, <2>1 DEF IInv, AllocatedIsHeld
<1>9. TypeOK'
  <2>1. call' \in Calls /\ call'.in /\ call'.arena = x /\ call'.size = call.size
        /\ call'.align = call.align /\ call'.grown
    <3>1. call \in Calls
      BY <1>2 DEF IInv, TypeOK, Idle
    <3> QED
      BY <1>2, <3>1 DEF Calls
  <2>2. active' \in [Arenas -> Nat \ {0}]
    BY <1>1, <1>2, <1>5 DEF IInv, TypeOK
  <2> QED
    BY <1>2, <1>4, <1>6, <2>1, <2>2 DEF IInv, TypeOK
<1>10. call'.arena = x /\ call'.size = call.size /\ call'.align = call.align /\ call'.in
  BY <1>2 DEF IInv, TypeOK, Idle, Calls
<1>11. active'[x] = active[x] + 1 /\ \A y \in Arenas \ {x} : active'[y] = active[y]
  BY <1>1, <1>2 DEF IInv, TypeOK
<1>12. ActiveIsABlock'
  <2>1. \A y \in Arenas : blocks'[y] # <<>> => active'[y] \in DOMAIN blocks'[y]
    BY <1>6, <1>7, <1>11 DEF IInv, ActiveIsABlock
  <2>2. \A y \in Arenas \ built' : blocks'[y] = <<>>
    BY <1>1, <1>2, <1>6 DEF IInv, ActiveIsABlock
  <2>3. blocks'[x] # <<>>
    BY <1>7
  <2> QED
    BY <1>1, <1>2, <1>10, <2>1, <2>2, <2>3 DEF ActiveIsABlock
<1>13. OffsetsBounded' /\ FlagsMatch'
  BY <1>3, <1>4 DEF IInv, OffsetsBounded, FlagsMatch
<1>14. HeldOnce'
  <2> SUFFICES ASSUME NEW y \in Arenas, NEW z \in Arenas,
                      NEW i \in DOMAIN blocks'[y], NEW j \in DOMAIN blocks'[z],
                      blocks'[y][i] = blocks'[z][j]
               PROVE  y = z /\ i = j
    BY DEF HeldOnce
  <2>1. \/ i \in DOMAIN blocks[y] /\ blocks'[y][i] = blocks[y][i]
        \/ y = x /\ i = active[x] + 1 /\ blocks'[y][i] = h
    BY <1>6, <1>7
  <2>2. \/ j \in DOMAIN blocks[z] /\ blocks'[z][j] = blocks[z][j]
        \/ z = x /\ j = active[x] + 1 /\ blocks'[z][j] = h
    BY <1>6, <1>7
  <2> QED
    BY <1>8, <2>1, <2>2 DEF IInv, HeldOnce
<1>15. AllocatedIsHeld'
  <2> SUFFICES ASSUME NEW k \in HeapBlocks
               PROVE  /\ heap'[k] # "corrupt"
                      /\ heap'[k] # "free" <=> \E y \in built : k \in Held(y)'
    BY <1>2 DEF AllocatedIsHeld
  <2>1. k \in Held(x)' <=> k \in Held(x) \/ k = h
    BY <1>7 DEF Held
  <2>2. \A y \in Arenas \ {x} : Held(y)' = Held(y)
    BY <1>6 DEF Held
  <2>3. built \subseteq Arenas
    BY DEF IInv, TypeOK
  <2>4. heap[k] # "corrupt" /\ (heap[k] # "free" <=> \E y \in built : k \in Held(y))
    BY DEF IInv, AllocatedIsHeld
  <2>5. CASE k = h
    BY <1>1, <1>4, <2>1, <2>5
  <2>6. CASE k # h
    BY <1>1, <1>4, <2>1, <2>2, <2>3, <2>4, <2>6
  <2> QED
    BY <2>5, <2>6
<1>16. TailRewound'
  <2> SUFFICES ASSUME NEW y \in built, NEW i \in DOMAIN blocks'[y], i > active'[y]
               PROVE  block'[blocks'[y][i]].offset = 0
    BY <1>2 DEF TailRewound
  <2>1. CASE y = x
    BY <1>2, <1>5, <1>7, <1>11, <2>1
  <2>2. CASE y # x
    <3>1. y \in Arenas
      BY DEF IInv, TypeOK
    <3>2. blocks[y][i] \in HeapBlocks \ {h} /\ blocks'[y] = blocks[y] /\ active'[y] = active[y]
      BY <1>5, <1>6, <1>8, <1>11, <2>2, <3>1
    <3> QED
      BY <1>4, <3>2 DEF IInv, TailRewound
  <2> QED
    BY <2>1, <2>2
<1>17. HandedOutExtent' /\ ViewsDisjoint'
  <2>1. \A v \in views : v.id \in HeapBlocks \ {h}
    BY <1>2 DEF IInv, TypeOK, Views, HandedOutExtent
  <2> QED
    BY <1>2, <1>4, <2>1 DEF IInv, HandedOutExtent, ViewsDisjoint
<1>18. GrowsAtMostOnce'
  <2>1. ActiveBlock(x)' = h
    BY <1>7, <1>11 DEF ActiveBlock
  <2>2. Padding(h, call.align)' \in 0 .. call.align - 1
    <3>1. block'[h].base + block'[h].offset \in Int
      BY <1>4 DEF Blocks
    <3>2. \A m \in Int : m % call.align \in 0 .. call.align - 1
      BY <1>1, SMT
    <3>3. Padding(h, call.align)' = (call.align
             - ((block'[h].base + block'[h].offset) % call.align)) % call.align
      BY <1>10 DEF Padding
    <3> QED
      BY <1>1, <3>1, <3>2, <3>3
  <2>3. Fits(h, call.size, call.align)'
    BY <1>1, <1>3, <1>4, <1>10, <2>2 DEF Fits
  <2> QED
    BY <1>10, <2>1, <2>3 DEF GrowsAtMostOnce, Overflows
<1> QED
  BY <1>9, <1>12, <1>13, <1>14, <1>15, <1>16, <1>17, <1>18 DEF IInv

LEMMA ConstructInv ==
  ASSUME IInv, NEW x \in Arenas, NEW n \in InitialSizes, NEW p \in BOOLEAN,
         NEW h \in HeapBlocks, Construct(x, n, p, h)
  PROVE  IInv'
<1>1. /\ call = Idle /\ x \notin built /\ heap[h] = "free"
      /\ MakeBlock(h, p, n, DefaultAlignment)
      /\ built' = built \cup {x}
      /\ blocks' = [blocks EXCEPT ![x] = <<h>>]
      /\ active' = [active EXCEPT ![x] = 1]
      /\ used' = [used EXCEPT ![x] = 0]
      /\ policy' = [policy EXCEPT ![x] = p]
      /\ UNCHANGED <<call, views>>
  BY DEF Construct
<1>2. /\ heap' \in [HeapBlocks -> {"free", "portable", "numa", "corrupt"}]
      /\ block' \in [HeapBlocks -> Blocks]
      /\ heap'[h] \in {"portable", "numa"}
      /\ block'[h].size = n /\ block'[h].offset = 0
      /\ block'[h].numa <=> heap'[h] = "numa"
      /\ \A k \in HeapBlocks \ {h} : heap'[k] = heap[k] /\ block'[k] = block[k]
  <2>1. TypeOK /\ n \in Nat /\ DefaultAlignment \in Nat \ {0}
    BY ArenaAssumption DEF IInv
  <2> QED
    BY <1>1, <2>1, MakeBlockShape
<1>3. /\ blocks' \in [Arenas -> Seq(HeapBlocks)]
      /\ blocks'[x] = <<h>> /\ blocks[x] = <<>> /\ active'[x] = 1
      /\ \A y \in Arenas \ {x} : blocks'[y] = blocks[y] /\ active'[y] = active[y]
  BY <1>1 DEF IInv, TypeOK, ActiveIsABlock
<1>4. \A y \in Arenas : \A i \in DOMAIN blocks[y] : blocks[y][i] # h
  BY <1>1 DEF IInv, AllocatedIsHeld, ActiveIsABlock, Held
<1>5. \A y \in Arenas : blocks[y] \in Seq(HeapBlocks)
  BY DEF IInv, TypeOK
<1>6. TypeOK'
  BY <1>1, <1>2, <1>3 DEF IInv, TypeOK
<1>7. ActiveIsABlock' /\ GrowsAtMostOnce'
  BY <1>1, <1>3 DEF IInv, ActiveIsABlock, GrowsAtMostOnce, Idle
<1>8. OffsetsBounded' /\ FlagsMatch'
  BY <1>2, ArenaAssumption DEF IInv, OffsetsBounded, FlagsMatch
<1>9. HeldOnce'
  <2> SUFFICES ASSUME NEW y \in Arenas, NEW z \in Arenas,
                      NEW i \in DOMAIN blocks'[y], NEW j \in DOMAIN blocks'[z],
                      blocks'[y][i] = blocks'[z][j]
               PROVE  y = z /\ i = j
    BY DEF HeldOnce
  <2>1. y = x => i = 1 /\ blocks'[y][i] = h
    BY <1>3
  <2>2. z = x => j = 1 /\ blocks'[z][j] = h
    BY <1>3
  <2>3. y # x => i \in DOMAIN blocks[y] /\ blocks'[y][i] = blocks[y][i]
    BY <1>3
  <2>4. z # x => j \in DOMAIN blocks[z] /\ blocks'[z][j] = blocks[z][j]
    BY <1>3
  <2> QED
    BY <1>4, <2>1, <2>2, <2>3, <2>4 DEF IInv, HeldOnce
<1>10. AllocatedIsHeld'
  <2>1. Held(x)' = {h} /\ \A y \in Arenas \ {x} : Held(y)' = Held(y)
    BY <1>3 DEF Held
  <2>2. built \subseteq Arenas /\ Held(x) = {}
    BY <1>3 DEF IInv, TypeOK, Held
  <2> QED
    BY <1>1, <1>2, <2>1, <2>2 DEF IInv, AllocatedIsHeld
<1>11. TailRewound'
  <2> SUFFICES ASSUME NEW y \in built', NEW i \in DOMAIN blocks'[y], i > active'[y]
               PROVE  block'[blocks'[y][i]].offset = 0
    BY DEF TailRewound
  <2>1. CASE y = x
    BY <1>2, <1>3, <2>1
  <2>2. CASE y # x
    <3>1. y \in Arenas /\ y \in built
      BY <1>1, <2>2 DEF IInv, TypeOK
    <3>2. blocks[y][i] \in HeapBlocks \ {h} /\ blocks'[y] = blocks[y] /\ active'[y] = active[y]
      BY <1>3, <1>4, <1>5, <2>2, <3>1
    <3> QED
      BY <1>2, <3>1, <3>2 DEF IInv, TailRewound
  <2> QED
    BY <2>1, <2>2
<1>12. HandedOutExtent' /\ ViewsDisjoint'
  <2>1. \A v \in views : v.id \in HeapBlocks \ {h}
    BY <1>1 DEF IInv, TypeOK, Views, HandedOutExtent
  <2> QED
    BY <1>1, <1>2, <2>1 DEF IInv, HandedOutExtent, ViewsDisjoint
<1> QED
  BY <1>6, <1>7, <1>8, <1>9, <1>10, <1>11, <1>12 DEF IInv

(* reset keeps every block, rewinds those of x and takes back their views. *)
LEMMA ResetInv ==
  ASSUME IInv, NEW x \in Arenas, Reset(x)
  PROVE  IInv'
<1>1. /\ call = Idle /\ x \in built
      /\ block' = [h \in HeapBlocks |->
                     IF h \in Held(x) THEN [block[h] EXCEPT !.offset = 0] ELSE block[h]]
      /\ active' = [active EXCEPT ![x] = 1]
      /\ used' = [used EXCEPT ![x] = 0]
      /\ views' = {v \in views : v.id \notin Held(x)}
      /\ UNCHANGED <<heap, built, blocks, policy, call>>
  BY DEF Reset
<1>2. /\ block' \in [HeapBlocks -> Blocks]
      /\ \A h \in HeapBlocks :
           /\ block'[h].size = block[h].size /\ block'[h].numa = block[h].numa
           /\ block'[h].offset \in {0, block[h].offset}
           /\ h \in Held(x) => block'[h].offset = 0
           /\ h \notin Held(x) => block'[h] = block[h]
  BY <1>1 DEF IInv, TypeOK, Blocks
<1>3. TypeOK'
  <2>1. active' \in [Arenas -> Nat \ {0}] /\ used' \in [Arenas -> Nat]
    BY <1>1 DEF IInv, TypeOK
  <2> QED
    BY <1>1, <1>2, <2>1 DEF IInv, TypeOK
<1>4. ActiveIsABlock'
  <2>1. \A y \in Arenas : blocks[y] \in Seq(HeapBlocks) /\ active[y] \in Nat
    BY DEF IInv, TypeOK
  <2>2. blocks[x] # <<>> => 1 \in DOMAIN blocks[x]
    BY <2>1
  <2> QED
    BY <1>1, <2>1, <2>2 DEF IInv, TypeOK, ActiveIsABlock
<1>5. GrowsAtMostOnce'
  BY <1>1 DEF GrowsAtMostOnce, Idle
<1>6. OffsetsBounded' /\ FlagsMatch'
  BY <1>1, <1>2 DEF IInv, TypeOK, Blocks, OffsetsBounded, FlagsMatch
<1>7. HeldOnce' /\ AllocatedIsHeld'
  BY <1>1 DEF IInv, HeldOnce, AllocatedIsHeld, Held
<1>8. TailRewound'
  <2> SUFFICES ASSUME NEW y \in built, NEW i \in DOMAIN blocks[y], i > active'[y]
               PROVE  block'[blocks[y][i]].offset = 0
    <3>1. blocks' = blocks /\ built' = built
      BY <1>1
    <3> QED
      BY <3>1 DEF TailRewound
  <2>1. y \in Arenas /\ blocks[y][i] \in HeapBlocks
    BY DEF IInv, TypeOK
  <2>2. CASE y = x
    BY <1>2, <2>1, <2>2 DEF Held
  <2>3. CASE y # x
    <3>1. block[blocks[y][i]].offset = 0
      BY <1>1, <2>1, <2>3 DEF IInv, TypeOK, TailRewound
    <3> QED
      BY <1>2, <2>1, <3>1
  <2> QED
    BY <2>2, <2>3
<1>9. HandedOutExtent' /\ ViewsDisjoint'
  <2>1. \A v \in views' : v \in views /\ v.id \in HeapBlocks /\ v.id \notin Held(x)
    BY <1>1 DEF IInv, TypeOK, Views
  <2> QED
    BY <1>1, <1>2, <2>1 DEF IInv, HandedOutExtent, ViewsDisjoint
<1> QED
  BY <1>3, <1>4, <1>5, <1>6, <1>7, <1>8, <1>9 DEF IInv

----------------------------------------------------------------------------
(* Memory once the blocks of S are freed: free indeed, as each flag names  *)
(* the right deallocator, with no view left into them.                     *)
MemoryWithout(S) ==
  /\ heap' \in [HeapBlocks -> {"free", "portable", "numa", "corrupt"}]
  /\ block' \in [HeapBlocks -> Blocks]
  /\ \A h \in HeapBlocks \ S : heap'[h] = heap[h] /\ block'[h] = block[h]
  /\ \A h \in S : heap'[h] = "free"
  /\ OffsetsBounded' /\ FlagsMatch'
  /\ views' \subseteq Views /\ HandedOutExtent' /\ ViewsDisjoint'

LEMMA ReleaseShape ==
  ASSUME IInv, NEW S \in SUBSET HeapBlocks, Release(S)
  PROVE  MemoryWithout(S)
<1>1. /\ heap' = [h \in HeapBlocks |->
                    IF h \notin S THEN heap[h]
                    ELSE IF block[h].numa = (heap[h] = "numa") THEN "free" ELSE "corrupt"]
      /\ block' = [h \in HeapBlocks |-> IF h \in S THEN NoBlock ELSE block[h]]
      /\ views' = {v \in views : v.id \notin S}
  BY DEF Release
<1>2. NoBlock \in Blocks /\ NoBlock.offset = 0 /\ NoBlock.size = 0 /\ NoBlock.numa = FALSE
  BY ArenaAssumption DEF NoBlock, Blocks
<1>3. \A h \in HeapBlocks : block[h].numa \in BOOLEAN /\ (block[h].numa <=> heap[h] = "numa")
  BY DEF IInv, TypeOK, Blocks, FlagsMatch
<1>4. \A h \in S : block[h].numa = (heap[h] = "numa")
  BY <1>3
<1>5. \A h \in HeapBlocks \ S : heap'[h] = heap[h] /\ block'[h] = block[h]
  BY <1>1
<1>6. \A h \in S : heap'[h] = "free" /\ block'[h] = NoBlock
  BY <1>1, <1>4
<1>7. heap' \in [HeapBlocks -> {"free", "portable", "numa", "corrupt"}]
  BY <1>1, <1>4 DEF IInv, TypeOK
<1>8. block' \in [HeapBlocks -> Blocks]
  BY <1>1, <1>2 DEF IInv, TypeOK
<1>9. OffsetsBounded'
  BY <1>2, <1>5, <1>6 DEF IInv, OffsetsBounded
<1>10. FlagsMatch'
  BY <1>2, <1>5, <1>6 DEF IInv, FlagsMatch
<1>11. views' \subseteq Views /\ HandedOutExtent' /\ ViewsDisjoint'
  <2>1. \A v \in views' : v \in views /\ v.id \in HeapBlocks \ S
    BY <1>1 DEF IInv, TypeOK, Views
  <2> QED
    BY <1>1, <1>5, <2>1 DEF IInv, TypeOK, HandedOutExtent, ViewsDisjoint
<1> QED
  BY <1>5, <1>6, <1>7, <1>8, <1>9, <1>10, <1>11 DEF MemoryWithout

LEMMA HeldType ==
  ASSUME IInv, NEW x \in Arenas
  PROVE  /\ Held(x) \in SUBSET HeapBlocks
         /\ \A y \in Arenas \ {x} : Held(x) \cap Held(y) = {}
BY DEF IInv, TypeOK, HeldOnce, Held

LEMMA DestroyInv ==
  ASSUME IInv, NEW x \in Arenas, Destroy(x)
  PROVE  IInv'
<1>1. /\ call = Idle /\ x \in built
      /\ Release(Held(x))
      /\ built' = built \ {x}
      /\ blocks' = [blocks EXCEPT ![x] = <<>>]
      /\ active' = [active EXCEPT ![x] = 1]
      /\ used' = [used EXCEPT ![x] = 0]
      /\ policy' = [policy EXCEPT ![x] = FALSE]
      /\ call' = Idle
  BY DEF Destroy
<1>2. MemoryWithout(Held(x))
  BY <1>1, HeldType, ReleaseShape
<1>3. /\ blocks' \in [Arenas -> Seq(HeapBlocks)]
      /\ blocks'[x] = <<>>
      /\ \A y \in Arenas \ {x} : blocks'[y] = blocks[y] /\ active'[y] = active[y]
  BY <1>1 DEF IInv, TypeOK
<1>4. \A y \in Arenas \ {x} : Held(y)' = Held(y)
  BY <1>3 DEF Held
<1>5. built \subseteq Arenas
  BY DEF IInv, TypeOK
<1>6. TypeOK'
  <2>1. active' \in [Arenas -> Nat \ {0}] /\ used' \in [Arenas -> Nat]
        /\ policy' \in [Arenas -> BOOLEAN]
    BY <1>1 DEF IInv, TypeOK
  <2> QED
    BY <1>1, <1>2, <1>3, <1>5, <2>1 DEF TypeOK, MemoryWithout
<1>7. ActiveIsABlock' /\ GrowsAtMostOnce'
  BY <1>1, <1>3 DEF IInv, ActiveIsABlock, GrowsAtMostOnce, Idle
<1>8. HeldOnce'
  <2> SUFFICES ASSUME NEW y \in Arenas, NEW z \in Arenas,
                      NEW i \in DOMAIN blocks'[y], NEW j \in DOMAIN blocks'[z],
                      blocks'[y][i] = blocks'[z][j]
               PROVE  y = z /\ i = j
    BY DEF HeldOnce
  <2>1. y # x /\ z # x
    BY <1>3
  <2> QED
    BY <1>3, <2>1 DEF IInv, HeldOnce
<1>9. AllocatedIsHeld'
  <2> SUFFICES ASSUME NEW h \in HeapBlocks
               PROVE  /\ heap'[h] # "corrupt"
                      /\ heap'[h] # "free" <=> \E y \in built \ {x} : h \in Held(y)
    BY <1>1, <1>4, <1>5 DEF AllocatedIsHeld
  <2>1. heap[h] # "corrupt" /\ (heap[h] # "free" <=> \E y \in built : h \in Held(y))
    BY DEF IInv, AllocatedIsHeld
  <2>2. CASE h \in Held(x)
    BY <1>2, <1>5, <2>2, HeldType DEF MemoryWithout
  <2>3. CASE h \notin Held(x)
    BY <1>2, <2>1, <2>3 DEF MemoryWithout
  <2> QED
    BY <2>2, <2>3
<1>10. TailRewound'
  <2> SUFFICES ASSUME NEW y \in built \ {x}, NEW i \in DOMAIN blocks[y], i > active[y]
               PROVE  block'[blocks[y][i]].offset = 0
    BY <1>1, <1>3, <1>5 DEF TailRewound
  <2>1. blocks[y][i] \in Held(y) /\ blocks[y][i] \in HeapBlocks /\ y \in Arenas
    BY <1>5 DEF Held, IInv, TypeOK
  <2>2. blocks[y][i] \notin Held(x)
    BY <2>1, HeldType
  <2> QED
    BY <1>2, <2>1, <2>2 DEF MemoryWithout, IInv, TailRewound
<1> QED
  BY <1>2, <1>6, <1>7, <1>8, <1>9, <1>10 DEF IInv, MemoryWithout

(* Both moves: dst's own blocks are gone (none, when it is being built)    *)
(* and it holds src's, which holds none.                                   *)
LEMMA MoveInv ==
  ASSUME IInv, NEW dst \in Arenas, NEW src \in Arenas, dst # src, src \in built,
         call = Idle, call' = Idle, built' = built \cup {dst},
         Transfer(dst, src), MemoryWithout(Held(dst))
  PROVE  IInv'
<1>1. /\ blocks' \in [Arenas -> Seq(HeapBlocks)]
      /\ blocks'[dst] = blocks[src] /\ blocks'[src] = <<>>
      /\ active'[dst] = active[src]
      /\ \A y \in Arenas \ {dst, src} : blocks'[y] = blocks[y] /\ active'[y] = active[y]
  <2>1. blocks \in [Arenas -> Seq(HeapBlocks)] /\ active \in [Arenas -> Nat \ {0}]
        /\ <<>> \in Seq(HeapBlocks)
    BY DEF IInv, TypeOK
  <2>2. /\ blocks' = [blocks EXCEPT ![dst] = blocks[src], ![src] = <<>>]
        /\ active' = [active EXCEPT ![dst] = active[src], ![src] = 1]
    BY DEF Transfer
  <2>3. blocks' \in [Arenas -> Seq(HeapBlocks)]
    BY <2>1, <2>2
  <2> QED
    BY <2>1, <2>2, <2>3
<1>2. /\ Held(dst)' = Held(src) /\ Held(src)' = {}
      /\ \A y \in Arenas \ {dst, src} : Held(y)' = Held(y)
  BY <1>1 DEF Held
<1>3. built \subseteq Arenas
  BY DEF IInv, TypeOK
<1>4. TypeOK'
  <2>1. /\ active \in [Arenas -> Nat \ {0}] /\ used \in [Arenas -> Nat]
        /\ policy \in [Arenas -> BOOLEAN]
    BY DEF IInv, TypeOK
  <2>2. /\ active' = [active EXCEPT ![dst] = active[src], ![src] = 1]
        /\ used' = [used EXCEPT ![dst] = used[src], ![src] = 0]
        /\ policy' = [policy EXCEPT ![dst] = policy[src], ![src] = FALSE]
    BY DEF Transfer
  <2>3. active' \in [Arenas -> Nat \ {0}]
    BY <2>1, <2>2
  <2>4. used' \in [Arenas -> Nat] /\ policy' \in [Arenas -> BOOLEAN]
    BY <2>1, <2>2
  <2> QED
    BY <1>1, <1>3, <2>3, <2>4 DEF TypeOK, MemoryWithout
<1>5. ActiveIsABlock' /\ GrowsAtMostOnce'
  BY <1>1, <1>3 DEF IInv, ActiveIsABlock, GrowsAtMostOnce, Idle
<1>6. HeldOnce'
  <2> SUFFICES ASSUME NEW y \in Arenas, NEW z \in Arenas,
                      NEW i \in DOMAIN blocks'[y], NEW j \in DOMAIN blocks'[z],
                      blocks'[y][i] = blocks'[z][j]
               PROVE  y = z /\ i = j
    BY DEF HeldOnce
  <2>1. \/ y = dst /\ blocks'[y] = blocks[src]
        \/ y \notin {dst, src} /\ blocks'[y] = blocks[y]
    BY <1>1
  <2>2. \/ z = dst /\ blocks'[z] = blocks[src]
        \/ z \notin {dst, src} /\ blocks'[z] = blocks[z]
    BY <1>1
  <2> QED
    BY <2>1, <2>2 DEF IInv, HeldOnce
<1>7. AllocatedIsHeld'
  <2> SUFFICES ASSUME NEW h \in HeapBlocks
               PROVE  /\ heap'[h] # "corrupt"
                      /\ heap'[h] # "free" <=> \E y \in built' : h \in Held(y)'
    BY DEF AllocatedIsHeld
  <2>1. heap[h] # "corrupt" /\ (heap[h] # "free" <=> \E y \in built : h \in Held(y))
    BY DEF IInv, AllocatedIsHeld
  <2>2. dst \notin built => Held(dst) = {}
    BY DEF IInv, ActiveIsABlock, Held
  <2>3. CASE h \in Held(dst)
    <3>1. h \notin Held(src) /\ \A y \in Arenas \ {dst} : h \notin Held(y)
      BY <2>3, HeldType
    <3> QED
      BY <1>2, <1>3, <2>3, <3>1 DEF MemoryWithout
  <2>4. CASE h \notin Held(dst)
    BY <1>2, <1>3, <2>1, <2>4 DEF MemoryWithout
  <2> QED
    BY <2>3, <2>4
<1>8. TailRewound'
  <2> SUFFICES ASSUME NEW y \in built', NEW i \in DOMAIN blocks'[y], i > active'[y]
               PROVE  block'[blocks'[y][i]].offset = 0
    BY DEF TailRewound
  <2>1. PICK z \in built \ {dst} : blocks'[y] = blocks[z] /\ active'[y] = active[z]
    <3>1. y \in Arenas /\ y # src
      BY <1>1, <1>3
    <3>2. CASE y = dst
      BY <1>1, <3>2
    <3>3. CASE y # dst
      BY <1>1, <3>1, <3>3
    <3> QED
      BY <3>2, <3>3
  <2>2. blocks[z][i] \in Held(z) /\ blocks[z][i] \in HeapBlocks /\ z \in Arenas
    BY <1>3, <2>1 DEF Held, IInv, TypeOK
  <2>3. blocks[z][i] \notin Held(dst)
    BY <2>2, HeldType
  <2> QED
    BY <2>1, <2>2, <2>3 DEF MemoryWithout, IInv, TailRewound
<1> QED
  BY <1>4, <1>5, <1>6, <1>7, <1>8 DEF IInv, MemoryWithout

LEMMA MoveConstructInv ==
  ASSUME IInv, NEW dst \in Arenas, NEW src \in Arenas, MoveConstruct(dst, src)
  PROVE  IInv'
<1>1. /\ call = Idle /\ src \in built /\ dst \notin built /\ dst # src
      /\ Transfer(dst, src) /\ built' = built \cup {dst}
      /\ call' = Idle /\ UNCHANGED <<heap, block, views>>
  BY DEF MoveConstruct
<1>2. Held(dst) = {}
  BY <1>1 DEF IInv, ActiveIsABlock, Held
<1>3. MemoryWithout(Held(dst))
  BY <1>1, <1>2 DEF MemoryWithout, IInv, TypeOK, OffsetsBounded, FlagsMatch,
                    HandedOutExtent, ViewsDisjoint
<1> QED
  BY <1>1, <1>3, MoveInv

LEMMA MoveAssignInv ==
  ASSUME IInv, NEW dst \in Arenas, NEW src \in Arenas, MoveAssign(dst, src)
  PROVE  IInv'
<1>1. /\ call = Idle /\ src \in built /\ dst \in built /\ dst # src
      /\ Transfer(dst, src) /\ Release(Held(dst)) /\ built' = built \cup {dst}
      /\ call' = Idle
  BY DEF MoveAssign
<1>2. MemoryWithout(Held(dst))
  BY <1>1, HeldType, ReleaseShape
<1> QED
  BY <1>1, <1>2, MoveInv

----------------------------------------------------------------------------
LEMMA StutterInv == IInv /\ UNCHANGED vars => IInv'
<1> SUFFICES ASSUME IInv, UNCHANGED vars PROVE IInv'
  OBVIOUS
<1>1. /\ heap' = heap /\ block' = block /\ built' = built /\ blocks' = blocks /\ active' = active
      /\ used' = used /\ policy' = policy /\ call' = call /\ views' = views
  BY DEF vars
<1>2. TypeOK'
  BY <1>1 DEF IInv, TypeOK
<1>3. ActiveIsABlock' /\ OffsetsBounded' /\ FlagsMatch' /\ HeldOnce'
  BY <1>1 DEF IInv, ActiveIsABlock, OffsetsBounded, FlagsMatch, HeldOnce, Held
<1>4. AllocatedIsHeld' /\ TailRewound' /\ HandedOutExtent'
  BY <1>1 DEF IInv, AllocatedIsHeld, TailRewound, HandedOutExtent, Held, ActiveBlock
<1>5. ViewsDisjoint' /\ GrowsAtMostOnce'
  BY <1>1 DEF IInv, ViewsDisjoint, GrowsAtMostOnce, Overflows, Fits, Padding, ActiveBlock
<1> QED BY <1>2, <1>3, <1>4, <1>5 DEF IInv

LEMMA NextInv == IInv /\ [Next]_vars => IInv'
<1> SUFFICES ASSUME IInv, [Next]_vars PROVE IInv'
  OBVIOUS
<1>1. ASSUME NEW x \in Arenas, NEW n \in InitialSizes, NEW p \in BOOLEAN,
             NEW h \in HeapBlocks, Construct(x, n, p, h)
      PROVE  IInv'
  BY <1>1, ConstructInv
<1>2. ASSUME NEW x \in Arenas, Destroy(x) PROVE IInv'
  BY <1>2, DestroyInv
<1>3. ASSUME NEW x \in Arenas, Reset(x) PROVE IInv'
  BY <1>3, ResetInv
<1>4. ASSUME NEW dst \in Arenas, NEW src \in Arenas, MoveConstruct(dst, src) PROVE IInv'
  BY <1>4, MoveConstructInv
<1>5. ASSUME NEW dst \in Arenas, NEW src \in Arenas, MoveAssign(dst, src) PROVE IInv'
  BY <1>5, MoveAssignInv
<1>6. ASSUME NEW x \in Arenas, NEW s \in Sizes, NEW a \in Alignments, Allocate(x, s, a)
      PROVE  IInv'
  BY <1>6, AllocateInv
<1>7. CASE Bump
  BY <1>7, BumpInv
<1>8. CASE Advance
  BY <1>8, AdvanceInv
<1>9. ASSUME NEW h \in HeapBlocks, Grow(h) PROVE IInv'
  BY <1>9, GrowInv
<1>10. CASE GrowFails
  BY <1>10, GrowFailsInv
<1>11. CASE UNCHANGED vars
  BY <1>11, StutterInv
<1> QED
  BY <1>1, <1>2, <1>3, <1>4, <1>5, <1>6, <1>7, <1>8, <1>9, <1>10, <1>11 DEF Next

THEOREM Invariance == Spec => []IInv
BY InitInv, NextInv, PTL DEF Spec

(* The types of the arena's state.                                         *)
THEOREM TypeCorrect == Spec => []TypeOK
<1>1. IInv => TypeOK
  BY DEF IInv
<1> QED
  BY <1>1, Invariance, PTL

(* A view stays inside allocated memory, below its block's offset, until   *)
(* the arena takes it back: what reset poisons is all that was handed out. *)
THEOREM ViewsStayInside == Spec => []HandedOutExtent
<1>1. IInv => HandedOutExtent
  BY DEF IInv
<1> QED
  BY <1>1, Invariance, PTL

(* No two live views overlap, whatever was reset, moved or freed between.  *)
THEOREM ViewsNeverOverlap == Spec => []ViewsDisjoint
<1>1. IInv => ViewsDisjoint
  BY DEF IInv
<1> QED
  BY <1>1, Invariance, PTL

(* Every allocated piece has one owner and goes back where it came from.   *)
THEOREM OneOwner == Spec => []BlocksOwnedOnce
<1>1. IInv => BlocksOwnedOnce
  BY DEF IInv, HeldOnce, AllocatedIsHeld, BlocksOwnedOnce
<1> QED
  BY <1>1, Invariance, PTL

(* Blocks past the active one are empty.                                   *)
THEOREM TailStaysRewound == Spec => []TailRewound
<1>1. IInv => TailRewound
  BY DEF IInv
<1> QED
  BY <1>1, Invariance, PTL

(* One new block is enough for any request.                                *)
THEOREM OneGrowthSuffices == Spec => []GrowsAtMostOnce
<1>1. IInv => GrowsAtMostOnce
  BY DEF IInv
<1> QED
  BY <1>1, Invariance, PTL
----------------------------------------------------------------------------
(* Alignment: align_up of any address is a multiple of the alignment.      *)
LEMMA Remainder ==
  ASSUME NEW a \in Nat \ {0}, NEW q \in Int, NEW r \in 0 .. a - 1
  PROVE  (q * a + r) % a = r
  BY SMTT(30)

LEMMA AlignUp ==
  ASSUME NEW a \in Nat \ {0}, NEW n \in Int
  PROVE  (n + ((a - (n % a)) % a)) % a = 0
<1> DEFINE q == n \div a
           r == n % a
<1>1. n = q * a + r /\ q \in Int /\ r \in 0 .. a - 1
  BY SMTT(30)
<1> HIDE DEF q, r
<1>2. CASE r = 0
  <2>1. (1 * a + 0) % a = 0 /\ (q * a + 0) % a = 0
    BY <1>1, Remainder
  <2>2. (a - r) % a = 0
    BY <2>1, <1>2
  <2>3. n + ((a - r) % a) = q * a + 0
    BY <1>1, <1>2, <2>2
  <2> QED BY <2>1, <2>3 DEF r
<1>3. CASE r # 0
  <2>1. a - r \in 0 .. a - 1
    BY <1>1, <1>3
  <2>2. (0 * a + (a - r)) % a = a - r
    BY <2>1, Remainder
  <2>3. (a - r) % a = a - r
    BY <2>1, <2>2
  <2>4. n + ((a - r) % a) = (q + 1) * a + 0
    BY <1>1, <2>3
  <2>5. ((q + 1) * a + 0) % a = 0
    BY <1>1, Remainder
  <2> QED BY <2>4, <2>5 DEF r
<1> QED BY <1>2, <1>3

(* Each live view of the next state lives in this one, at the same base.   *)
ViewsStay == \A v \in views' : v \in views /\ block'[v.id].base = block[v.id].base

LEMMA StayAligned == ViewsStay /\ ViewsAligned => ViewsAligned'
  BY DEF ViewsStay, ViewsAligned

LEMMA BumpAligned ==
  ASSUME IInv, ViewsAligned, Bump
  PROVE  ViewsAligned'
<1> DEFINE h == ActiveBlock(call.arena)
           n == block[h].base + block[h].offset
           pad == Padding(h, call.align)
           new == [id |-> h, start |-> block[h].offset + pad,
                   size |-> call.size, align |-> call.align]
<1>1. h \in HeapBlocks /\ call.align \in Nat \ {0}
  BY CallType DEF Bump
<1>2. block[h].base \in Int /\ block[h].offset \in Int /\ block \in [HeapBlocks -> Blocks]
  BY <1>1 DEF IInv, TypeOK, Blocks
<1>3. views' = views \cup {new} /\ block' = [block EXCEPT ![h].offset = @ + pad + call.size]
  BY DEF Bump
<1>4. \A g \in HeapBlocks : block'[g].base = block[g].base
  BY <1>2, <1>3 DEF Blocks
<1>5. pad = (call.align - (n % call.align)) % call.align /\ pad \in Int
  <2>1. pad = (call.align - (n % call.align)) % call.align
    BY DEF Padding
  <2>2. n \in Int
    BY <1>2
  <2> HIDE DEF n, pad
  <2>3. \A m \in Int : m % call.align \in Int
    BY <1>1, SMT
  <2> QED BY <1>1, <2>1, <2>2, <2>3
<1>6. (n + pad) % call.align = 0
  <2>1. n \in Int
    BY <1>2
  <2> HIDE DEF n, pad
  <2>2. (n + ((call.align - (n % call.align)) % call.align)) % call.align = 0
    BY <1>1, <2>1, AlignUp
  <2> QED BY <1>5, <2>2
<1>7. block[h].base + (block[h].offset + pad) = n + pad
  BY <1>2, <1>5
<1>8. (block'[new.id].base + new.start) % new.align = 0
  BY <1>1, <1>4, <1>6, <1>7
<1>9. \A v \in views : v.id \in HeapBlocks
  BY DEF IInv, TypeOK, Views
<1> QED
  BY <1>3, <1>4, <1>8, <1>9 DEF ViewsAligned

LEMMA NextAligned == IInv /\ ViewsAligned /\ [Next]_vars => ViewsAligned'
<1> SUFFICES ASSUME IInv, ViewsAligned, [Next]_vars PROVE ViewsAligned'
  OBVIOUS
<1>0. /\ block \in [HeapBlocks -> Blocks]
      /\ \A v \in views : v.id \in HeapBlocks /\ heap[v.id] # "free"
  BY DEF IInv, TypeOK, Views, HandedOutExtent
<1>1. ASSUME NEW x \in Arenas, NEW n \in InitialSizes, NEW p \in BOOLEAN, NEW h \in HeapBlocks,
             Construct(x, n, p, h)
      PROVE  ViewsAligned'
  <2>1. views' = views /\ heap[h] = "free" /\ \E b : block' = [block EXCEPT ![h] = b]
    BY <1>1 DEF Construct, MakeBlock
  <2> QED BY <1>0, <2>1, StayAligned DEF ViewsStay
<1>2. ASSUME NEW h \in HeapBlocks, Grow(h) PROVE ViewsAligned'
  <2>1. views' = views /\ heap[h] = "free" /\ \E b : block' = [block EXCEPT ![h] = b]
    BY <1>2 DEF Grow, MakeBlock
  <2> QED BY <1>0, <2>1, StayAligned DEF ViewsStay
<1>3. ASSUME NEW S, Release(S) PROVE ViewsAligned'
  BY <1>0, <1>3, StayAligned DEF Release, ViewsStay
<1>4. ASSUME NEW x \in Arenas, Reset(x) PROVE ViewsAligned'
  BY <1>0, <1>4, StayAligned DEF Reset, ViewsStay
<1>5. CASE Advance
  <2>1. \A g \in HeapBlocks : block'[g].base = block[g].base
    BY <1>0, <1>5 DEF Advance, Blocks
  <2> QED BY <1>0, <1>5, <2>1, StayAligned DEF Advance, ViewsStay
<1>6. CASE UNCHANGED <<block, views>>
  BY <1>6, StayAligned DEF ViewsStay
<1>7. ASSUME NEW x \in Arenas, Destroy(x) PROVE ViewsAligned'
  BY <1>3, <1>7 DEF Destroy
<1>8. ASSUME NEW dst \in Arenas, NEW src \in Arenas, MoveAssign(dst, src) PROVE ViewsAligned'
  BY <1>3, <1>8 DEF MoveAssign
<1>9. ASSUME NEW dst \in Arenas, NEW src \in Arenas, MoveConstruct(dst, src) PROVE ViewsAligned'
  BY <1>6, <1>9 DEF MoveConstruct
<1>10. ASSUME NEW x \in Arenas, NEW s \in Sizes, NEW a \in Alignments, Allocate(x, s, a) PROVE ViewsAligned'
  BY <1>6, <1>10 DEF Allocate
<1>11. CASE GrowFails \/ UNCHANGED vars
  BY <1>6, <1>11 DEF GrowFails, vars
<1> QED
  BY <1>1, <1>2, <1>4, <1>5, <1>7, <1>8, <1>9, <1>10, <1>11, BumpAligned DEF Next

(* Every live view starts at a multiple of the alignment it was asked for, *)
(* counted from address zero and not from its block ("align_up" of the     *)
(* address, arena_allocator.cpp:214), whatever bases the system gives.     *)
THEOREM ViewsStartAligned == Spec => []ViewsAligned
<1>1. Init => ViewsAligned
  BY DEF Init, ViewsAligned
<1> QED
  BY <1>1, NextAligned, Invariance, PTL DEF Spec

----------------------------------------------------------------------------
(* The replay.  Allocation is a search: from the block and the offset the  *)
(* last answer left, the first block the request fits in.  The invariant   *)
(* says so of every answer recorded, in terms of what a reset keeps (the   *)
(* blocks, their order, sizes and bases), so the replay's search ends      *)
(* where the recording's did, though more blocks may follow by then.       *)

Row == blocks[Subject]

\* The place in the row of the i-th answer's block, and where the answer ends.
PlaceOf(i) == IF i = 0 THEN 1 ELSE CHOOSE p \in DOMAIN Row : Row[p] = log[i].id
EndOf(i) == IF i = 0 THEN 0 ELSE log[i].start + log[i].size

\* The offset at which a request made after the i-th answer meets the block at p.
OffsetAfter(i, p) == IF p = PlaceOf(i) THEN EndOf(i) ELSE 0

PadFrom(h, o, a) == (a - ((block[h].base + o) % a)) % a
FitsFrom(h, o, s, a) == o + PadFrom(h, o, a) + s <= block[h].size

\* A request made after the i-th answer fits in no block before the one at p.
NoneBefore(i, p, s, a) ==
  /\ PlaceOf(i) <= p
  /\ \A q \in PlaceOf(i) .. p - 1 : ~FitsFrom(Row[q], OffsetAfter(i, q), s, a)

AnswerFollows(i) ==
  LET p == PlaceOf(i)
      o == OffsetAfter(i - 1, p)
  IN  /\ log[i].id \in Held(Subject)
      /\ NoneBefore(i - 1, p, log[i].size, log[i].align)
      /\ FitsFrom(Row[p], o, log[i].size, log[i].align)
      /\ log[i].start = o + PadFrom(Row[p], o, log[i].align)

StandsAfter(n) ==
  /\ block[ActiveBlock(Subject)].offset = OffsetAfter(n, active[Subject])
  /\ call = Idle => active[Subject] = PlaceOf(n)
  /\ call.in => call.arena = Subject /\ NoneBefore(n, active[Subject], call.size, call.align)

Recorded ==
  /\ Row # <<>> /\ Subject \in built
  /\ \A i \in DOMAIN log : AnswerFollows(i)

RequestIs(v) == call.size = v.size /\ call.align = v.align

ReplayInv ==
  /\ IInv
  /\ log \in Seq(Views)
  /\ phase \in {"warm", "record"} => cursor = 0
  /\ phase = "warm" => log = <<>>
  /\ phase = "record" => Recorded /\ StandsAfter(Len(log))
  /\ phase = "replay" =>
       /\ Recorded
       /\ cursor \in 0 .. Len(log)
       /\ StandsAfter(cursor)
       /\ call.in => cursor < Len(log) /\ RequestIs(log[cursor + 1])
       /\ {v \in views : v.id \in Held(Subject)} = {log[i] : i \in 1 .. cursor}

(* What reset keeps, and every step of the two passes.                     *)
Kept ==
  /\ \A p \in DOMAIN Row :
       /\ p \in DOMAIN Row' /\ Row'[p] = Row[p]
       /\ block'[Row[p]].base = block[Row[p]].base
       /\ block'[Row[p]].size = block[Row[p]].size
  /\ \A i \in DOMAIN log : i \in DOMAIN log' /\ log'[i] = log[i]

LEMMA RowType ==
  ASSUME IInv
  PROVE  /\ Row \in Seq(HeapBlocks)
         /\ \A p \in DOMAIN Row : p \in Nat /\ Row[p] \in Held(Subject) /\ Row[p] \in HeapBlocks
         /\ \A p, q \in DOMAIN Row : Row[p] = Row[q] => p = q
  BY ReplayAssumption DEF IInv, TypeOK, HeldOnce, Row, Held

LEMMA PlaceType ==
  ASSUME IInv, Recorded, log \in Seq(Views), NEW i \in 0 .. Len(log)
  PROVE  /\ PlaceOf(i) \in DOMAIN Row /\ PlaceOf(i) \in Nat
         /\ i # 0 => Row[PlaceOf(i)] = log[i].id
         /\ EndOf(i) \in Nat
<1>1. CASE i = 0
  BY <1>1, RowType DEF PlaceOf, EndOf, Recorded
<1>2. CASE i # 0
  <2>1. i \in DOMAIN log /\ log[i] \in Views
    BY <1>2
  <2>2. \E p \in DOMAIN Row : Row[p] = log[i].id
    BY <2>1 DEF Recorded, AnswerFollows, Held, Row
  <2>3. PlaceOf(i) \in DOMAIN Row /\ Row[PlaceOf(i)] = log[i].id
    BY <1>2, <2>2 DEF PlaceOf
  <2>4. log[i].start \in Nat /\ log[i].size \in Nat
    BY <2>1, ArenaAssumption DEF Views
  <2> QED BY <1>2, <2>3, <2>4, RowType DEF EndOf
<1> QED BY <1>1, <1>2

LEMMA PlaceKept ==
  ASSUME IInv, IInv', Recorded, log \in Seq(Views), Kept, NEW i \in 0 .. Len(log)
  PROVE  /\ PlaceOf(i)' = PlaceOf(i) /\ EndOf(i)' = EndOf(i)
         /\ \A p : OffsetAfter(i, p)' = OffsetAfter(i, p)
<1>1. CASE i = 0
  BY <1>1 DEF PlaceOf, EndOf, OffsetAfter
<1>2. CASE i # 0
  <2>1. i \in DOMAIN log /\ log'[i] = log[i]
    BY <1>2 DEF Kept
  <2>2. PlaceOf(i) \in DOMAIN Row' /\ Row'[PlaceOf(i)] = log'[i].id
    BY <1>2, <2>1, PlaceType DEF Kept
  <2>3. \A p, q \in DOMAIN Row' : Row'[p] = Row'[q] => p = q
    BY ReplayAssumption DEF IInv, HeldOnce, Row
  <2>4. (CHOOSE p \in DOMAIN Row' : Row'[p] = log'[i].id) = PlaceOf(i)
    BY <2>2, <2>3
  <2> QED BY <1>2, <2>1, <2>4 DEF PlaceOf, EndOf, OffsetAfter
<1> QED BY <1>1, <1>2

LEMMA FitsKept ==
  ASSUME Kept, NEW p \in DOMAIN Row, NEW o, NEW s, NEW a
  PROVE  /\ PadFrom(Row[p], o, a)' = PadFrom(Row[p], o, a)
         /\ FitsFrom(Row[p], o, s, a)' = FitsFrom(Row[p], o, s, a)
  BY DEF Kept, PadFrom, FitsFrom

LEMMA NoneBeforeKept ==
  ASSUME IInv, IInv', Recorded, log \in Seq(Views), Kept, NEW i \in 0 .. Len(log),
         NEW p \in DOMAIN Row, NEW s, NEW a
  PROVE  NoneBefore(i, p, s, a)' <=> NoneBefore(i, p, s, a)
<1>1. PlaceOf(i)' = PlaceOf(i) /\ \A q : OffsetAfter(i, q)' = OffsetAfter(i, q)
  BY PlaceKept
<1>2. PlaceOf(i) \in DOMAIN Row /\ DOMAIN Row = 1 .. Len(Row) /\ Len(Row) \in Nat
  BY PlaceType, RowType
<1>3. \A q \in PlaceOf(i) .. p - 1 : q \in DOMAIN Row
  BY <1>2
<1>4. ASSUME NEW q \in PlaceOf(i) .. p - 1
      PROVE  FitsFrom(Row[q], OffsetAfter(i, q), s, a)' = FitsFrom(Row[q], OffsetAfter(i, q), s, a)
  <2>1. \A o : FitsFrom(Row[q], o, s, a)' = FitsFrom(Row[q], o, s, a)
    BY <1>3, FitsKept
  <2> QED BY <1>1, <2>1 DEF FitsFrom, PadFrom
<1> QED BY <1>1, <1>4 DEF NoneBefore

LEMMA AnswersKept ==
  ASSUME IInv, IInv', Recorded, log \in Seq(Views), Kept, NEW i \in DOMAIN log
  PROVE  AnswerFollows(i)'
<1>1. i \in 0 .. Len(log) /\ i - 1 \in 0 .. Len(log) /\ log'[i] = log[i]
  BY DEF Kept
<1> DEFINE p == PlaceOf(i)
           o == OffsetAfter(i - 1, PlaceOf(i))
<1>2. p \in DOMAIN Row /\ p' = p /\ o' = o
  BY <1>1, PlaceType, PlaceKept DEF OffsetAfter
<1>3. AnswerFollows(i)
  BY DEF Recorded
<1>4. log'[i].id \in Held(Subject)'
  <2>1. p \in DOMAIN Row' /\ Row'[p] = log[i].id
    BY <1>1, <1>2, PlaceType DEF Kept
  <2> QED BY <1>1, <2>1 DEF Held, Row
<1>5. NoneBefore(i - 1, p, log[i].size, log[i].align)'
  <2>1. \A s, a : NoneBefore(i - 1, p, s, a)' <=> NoneBefore(i - 1, p, s, a)
    BY <1>1, <1>2, NoneBeforeKept DEF NoneBefore
  <2> QED BY <1>1, <1>2, <1>3, <2>1 DEF AnswerFollows
<1>6. /\ FitsFrom(Row[p], o, log[i].size, log[i].align)'
      /\ log'[i].start = o' + PadFrom(Row[p], o, log[i].align)'
  <2>1. /\ Row'[p] = Row[p]
        /\ block'[Row[p]].base = block[Row[p]].base
        /\ block'[Row[p]].size = block[Row[p]].size
    BY <1>2 DEF Kept
  <2>2. /\ FitsFrom(Row[p], o, log[i].size, log[i].align)
        /\ log[i].start = o + PadFrom(Row[p], o, log[i].align)
    BY <1>3 DEF AnswerFollows
  <2> HIDE DEF p, o, Row
  <2>3. PadFrom(Row[p], o, log[i].align)' = PadFrom(Row[p], o, log[i].align)
    BY <1>1, <1>2, <2>1 DEF PadFrom
  <2>4. FitsFrom(Row[p], o, log[i].size, log[i].align)'
          = FitsFrom(Row[p], o, log[i].size, log[i].align)
    BY <1>1, <1>2, <2>1, <2>3 DEF FitsFrom
  <2> QED BY <1>1, <1>2, <2>2, <2>3, <2>4
<1> QED BY <1>4, <1>5, <1>6 DEF AnswerFollows

LEMMA RecordedKept ==
  ASSUME IInv, IInv', Recorded, log \in Seq(Views), Kept, log' = log, built' = built
  PROVE  Recorded'
<1>1. Row' # <<>>
  <2>1. 1 \in DOMAIN Row
    BY RowType DEF Recorded
  <2> QED BY <2>1 DEF Kept
<1>2. ASSUME NEW i \in DOMAIN log PROVE AnswerFollows(i)'
  BY AnswersKept
<1> QED BY <1>1, <1>2 DEF Recorded

(* Where the call stands: at a block of the row, at the offset the search  *)
(* has there, and Fits is FitsFrom at that offset.                         *)
LEMMA Standing ==
  ASSUME IInv, Recorded, log \in Seq(Views), NEW n \in 0 .. Len(log), StandsAfter(n), call.in
  PROVE  /\ call.arena = Subject /\ active[Subject] \in DOMAIN Row
         /\ ActiveBlock(Subject) = Row[active[Subject]]
         /\ Padding(ActiveBlock(Subject), call.align)
              = PadFrom(Row[active[Subject]], OffsetAfter(n, active[Subject]), call.align)
         /\ Fits(ActiveBlock(Subject), call.size, call.align)
              <=> FitsFrom(Row[active[Subject]], OffsetAfter(n, active[Subject]),
                           call.size, call.align)
<1>1. call.arena = Subject /\ active[Subject] \in DOMAIN Row
  BY ReplayAssumption DEF StandsAfter, IInv, ActiveIsABlock, Recorded, Row
<1>2. ActiveBlock(Subject) = Row[active[Subject]]
  BY DEF ActiveBlock, Row
<1> QED
  BY <1>1, <1>2 DEF StandsAfter, Padding, PadFrom, Fits, FitsFrom

\* The active block does not take the request: none up to it does.
LEMMA NoneUpToHere ==
  ASSUME IInv, Recorded, log \in Seq(Views), NEW n \in 0 .. Len(log), StandsAfter(n), Overflows
  PROVE  /\ NoneBefore(n, active[Subject] + 1, call.size, call.align)
         /\ OffsetAfter(n, active[Subject] + 1) = 0
<1> DEFINE p == active[Subject]
<1>0. call.in
  BY DEF Overflows
<1>1. ~FitsFrom(Row[p], OffsetAfter(n, p), call.size, call.align)
  BY <1>0, Standing DEF Overflows
<1>2. NoneBefore(n, p, call.size, call.align)
  BY <1>0 DEF StandsAfter
<1>3. p \in Nat /\ PlaceOf(n) \in Nat
  BY <1>0, Standing, RowType, PlaceType
<1>4. PlaceOf(n) <= p
  BY <1>2 DEF NoneBefore
<1> HIDE DEF p
<1>5. \A q \in PlaceOf(n) .. (p + 1) - 1 : q = p \/ q \in PlaceOf(n) .. p - 1
  BY <1>3
<1>6. NoneBefore(n, p + 1, call.size, call.align)
  BY <1>1, <1>2, <1>3, <1>4, <1>5 DEF NoneBefore
<1>7. OffsetAfter(n, p + 1) = 0
  BY <1>3, <1>4 DEF OffsetAfter
<1> QED BY <1>6, <1>7 DEF p

LEMMA AdvanceReplays ==
  ASSUME IInv, IInv', Recorded, log \in Seq(Views), log' = log,
         NEW n \in 0 .. Len(log), StandsAfter(n), Advance
  PROVE  Kept /\ StandsAfter(n)' /\ call' = call
<1> PICK p \in Nat : p = active[Subject]
  BY Standing, RowType DEF Advance, Overflows
<1>1. call.in /\ call.arena = Subject /\ p \in DOMAIN Row
  BY Standing DEF Advance, Overflows
<1>2. p + 1 \in DOMAIN Row
  BY <1>1, RowType DEF Advance, Row
<1>3. /\ Row' = Row /\ call' = call
      /\ active'[Subject] = p + 1
      /\ block' = [block EXCEPT ![Row[p + 1]].offset = 0]
  BY <1>1, ReplayAssumption DEF Advance, Row, IInv, TypeOK
<1>4. block \in [HeapBlocks -> Blocks] /\ \A q \in DOMAIN Row : Row[q] \in HeapBlocks
  BY RowType DEF IInv, TypeOK
<1>5. \A h \in HeapBlocks : block'[h].base = block[h].base /\ block'[h].size = block[h].size
  BY <1>3, <1>4 DEF Blocks
<1>6. Kept
  BY <1>3, <1>4, <1>5 DEF Kept
<1>7. block'[Row[p + 1]].offset = 0
  BY <1>2, <1>3, <1>4 DEF Blocks
<1>8. NoneBefore(n, p + 1, call.size, call.align) /\ OffsetAfter(n, p + 1) = 0
  BY NoneUpToHere DEF Advance
<1>9. /\ \A q : OffsetAfter(n, q)' = OffsetAfter(n, q)
      /\ \A s, a : NoneBefore(n, p + 1, s, a)' <=> NoneBefore(n, p + 1, s, a)
  <2> PICK r \in DOMAIN Row : r = p + 1
    BY <1>2
  <2>1. \A s, a : NoneBefore(n, r, s, a)' <=> NoneBefore(n, r, s, a)
    BY <1>6, NoneBeforeKept
  <2>2. \A q : OffsetAfter(n, q)' = OffsetAfter(n, q)
    BY <1>6, PlaceKept
  <2> QED BY <2>1, <2>2
<1>10. (block[ActiveBlock(Subject)].offset = OffsetAfter(n, active[Subject]))'
  BY <1>3, <1>7, <1>8, <1>9 DEF ActiveBlock, Row
<1>11. NoneBefore(n, active[Subject], call.size, call.align)'
  <2>1. NoneBefore(n, p + 1, call.size, call.align)'
    BY <1>3, <1>8, <1>9
  <2> QED BY <1>3, <2>1 DEF NoneBefore
<1>12. call' # Idle
  BY <1>1, <1>3 DEF Idle
<1> QED
  BY <1>1, <1>3, <1>6, <1>10, <1>11, <1>12 DEF StandsAfter

LEMMA GrowReplays ==
  ASSUME IInv, IInv', Recorded, log \in Seq(Views), log' = log,
         NEW n \in 0 .. Len(log), StandsAfter(n), NEW h \in HeapBlocks, Grow(h)
  PROVE  /\ Kept /\ StandsAfter(n)'
         /\ call'.in /\ call'.size = call.size /\ call'.align = call.align
         /\ Held(Subject)' = Held(Subject) \cup {h}
<1> PICK p \in Nat : p = active[Subject]
  BY Standing, RowType DEF Grow, Overflows
<1>1. call.in /\ call.arena = Subject /\ p \in DOMAIN Row /\ p = Len(Row)
  BY Standing DEF Grow, Overflows, Row
<1>2. call.size \in Nat /\ call.align \in Nat /\ call \in Calls
  BY <1>1, CallType DEF IInv, TypeOK, Idle
<1>3. /\ blocks' = [blocks EXCEPT ![Subject] = Append(@, h)]
      /\ active' = [active EXCEPT ![Subject] = @ + 1]
      /\ call' = [call EXCEPT !.grown = TRUE]
      /\ block'[h].offset = 0
      /\ \A k \in HeapBlocks \ {h} : block'[k] = block[k]
  <2>1. /\ NewSize(call.arena, call.size, call.align) \in Nat
        /\ MaxOf(DefaultAlignment, call.align) \in Nat \ {0}
        /\ policy[call.arena] \in BOOLEAN
    BY <1>1, NewSizeType, ReplayAssumption DEF Grow, IInv, TypeOK
  <2> QED BY <1>1, <2>1, MakeBlockShape, ZenonT(30) DEF Grow, IInv
<1>4. Row' = Append(Row, h) /\ active'[Subject] = p + 1
  BY <1>3, ReplayAssumption DEF Row, IInv, TypeOK
<1>5. call'.in /\ call'.size = call.size /\ call'.align = call.align /\ call'.arena = Subject
  BY <1>1, <1>2, <1>3 DEF Calls
<1>6. h \notin Held(Subject)
  BY <1>1, CallType DEF Grow, IInv, AllocatedIsHeld
<1>7. \A q \in DOMAIN Row : q \in DOMAIN Row' /\ Row'[q] = Row[q] /\ Row[q] # h
  BY <1>4, <1>6, RowType
<1>8. block \in [HeapBlocks -> Blocks] /\ \A q \in DOMAIN Row : Row[q] \in HeapBlocks
  BY RowType DEF IInv, TypeOK
<1>9. Kept
  BY <1>3, <1>7, <1>8 DEF Kept
<1>10. p + 1 \in DOMAIN Row' /\ Row'[p + 1] = h
  BY <1>1, <1>4, RowType
<1>11. Held(Subject)' = Held(Subject) \cup {h}
  <2>1. DOMAIN Row' = DOMAIN Row \cup {p + 1}
    BY <1>1, <1>4, RowType
  <2> QED BY <1>7, <1>10, <2>1 DEF Held, Row
<1>12. NoneBefore(n, p + 1, call.size, call.align) /\ OffsetAfter(n, p + 1) = 0
  BY NoneUpToHere DEF Grow
<1>13. \A q : OffsetAfter(n, q)' = OffsetAfter(n, q)
  BY <1>9, PlaceKept
<1>14. NoneBefore(n, p + 1, call.size, call.align)'
  <2>1. PlaceOf(n)' = PlaceOf(n) /\ PlaceOf(n) \in Nat
    BY <1>9, PlaceKept, PlaceType
  <2>2. ASSUME NEW q \in PlaceOf(n) .. (p + 1) - 1
        PROVE  ~FitsFrom(Row[q], OffsetAfter(n, q), call.size, call.align)'
    <3>1. q \in DOMAIN Row
      BY <1>1, <2>1, <2>2, PlaceType, RowType
    <3>2. ~FitsFrom(Row[q], OffsetAfter(n, q), call.size, call.align)
      BY <1>12, <2>2 DEF NoneBefore
    <3> PICK o, s, a : o = OffsetAfter(n, q) /\ s = call.size /\ a = call.align
      OBVIOUS
    <3>3. FitsFrom(Row[q], o, s, a)' = FitsFrom(Row[q], o, s, a)
      BY <1>9, <3>1, FitsKept
    <3>4. o = OffsetAfter(n, q)' /\ s = call'.size /\ a = call'.align
      BY <1>5, <1>13
    <3> QED BY <3>2, <3>3, <3>4 DEF FitsFrom, PadFrom
  <2> QED BY <1>12, <2>1, <2>2 DEF NoneBefore
<1>15. (block[ActiveBlock(Subject)].offset = OffsetAfter(n, active[Subject]))'
  BY <1>3, <1>4, <1>10, <1>12, <1>13 DEF ActiveBlock, Row
<1>16. NoneBefore(n, active[Subject], call.size, call.align)'
  BY <1>4, <1>14 DEF NoneBefore
<1>17. call' # Idle
  BY <1>5 DEF Idle
<1> QED
  BY <1>5, <1>9, <1>11, <1>15, <1>16, <1>17 DEF StandsAfter

(* The answer of a call made after the n-th one.                           *)
LEMMA BumpReplays ==
  ASSUME IInv, IInv', Recorded, log \in Seq(Views), NEW n \in 0 .. Len(log), StandsAfter(n), Bump
  PROVE  \E v \in Views :
           /\ v \notin views /\ views' = views \cup {v}
           /\ v.id = Row[active[Subject]] /\ v.id \in Held(Subject)
           /\ RequestIs(v)
           /\ NoneBefore(n, active[Subject], v.size, v.align)
           /\ FitsFrom(Row[active[Subject]], OffsetAfter(n, active[Subject]), v.size, v.align)
           /\ v.start = OffsetAfter(n, active[Subject])
                          + PadFrom(Row[active[Subject]], OffsetAfter(n, active[Subject]), v.align)
           /\ block' = [block EXCEPT ![Row[active[Subject]]].offset = v.start + v.size]
           /\ blocks' = blocks /\ built' = built /\ active' = active /\ call' = Idle
<1> DEFINE h == Row[active[Subject]]
           pad == Padding(h, call.align)
           o == block[h].offset
           v == [id |-> h, start |-> o + pad, size |-> call.size, align |-> call.align]
<1>1. /\ call.in /\ call.arena = Subject /\ active[Subject] \in DOMAIN Row
      /\ ActiveBlock(Subject) = h /\ h \in HeapBlocks /\ h \in Held(Subject)
  BY Standing, RowType DEF Bump
<1>2. call.size \in Nat \ {0} /\ call.align \in Nat /\ call \in Calls
  <2>1. call.size \in Sizes /\ call.align \in Nat \ {0} /\ call \in Calls
    BY <1>1, CallType DEF IInv, TypeOK, Idle
  <2> QED BY <2>1, ArenaAssumption
<1>3. o \in Nat /\ block \in [HeapBlocks -> Blocks]
  BY <1>1 DEF IInv, TypeOK, Blocks
<1>4. /\ views' = views \cup {v}
      /\ block' = [block EXCEPT ![h].offset = o + pad + call.size]
      /\ Fits(h, call.size, call.align)
      /\ blocks' = blocks /\ built' = built /\ active' = active /\ call' = Idle
  BY <1>1 DEF Bump
<1>5. call.align \in Alignments /\ pad \in 0 .. call.align - 1
  BY <1>1, <1>2, PaddingType DEF Calls, IInv
<1>6. v \in Views
  BY <1>1, <1>2, <1>3, <1>5 DEF Views, Calls
<1>7. v \notin views
  <2>1. ASSUME v \in views PROVE v.start + v.size <= block[v.id].offset
    BY <2>1 DEF IInv, HandedOutExtent
  <2>2. pad \in Nat
    BY <1>2, <1>5
  <2> HIDE DEF o, pad, h
  <2> QED BY <1>2, <1>3, <2>1, <2>2 DEF o
<1>8. /\ o = OffsetAfter(n, active[Subject])
      /\ pad = PadFrom(h, OffsetAfter(n, active[Subject]), call.align)
      /\ FitsFrom(h, OffsetAfter(n, active[Subject]), call.size, call.align)
      /\ NoneBefore(n, active[Subject], call.size, call.align)
  BY <1>1, <1>4, Standing DEF StandsAfter
<1> HIDE DEF h, pad, o
<1>9. RequestIs(v)
  BY DEF RequestIs
<1> QED
  BY <1>1, <1>4, <1>6, <1>7, <1>8, <1>9 DEF h

LEMMA ResetReplays ==
  ASSUME IInv, IInv', Recorded, log \in Seq(Views), log' = log, Reset(Subject)
  PROVE  /\ Recorded' /\ StandsAfter(0)' /\ ~call'.in
         /\ {v \in views : v.id \in Held(Subject)}' = {}
<1>1. /\ Row' = Row /\ built' = built /\ call' = Idle
      /\ active'[Subject] = 1
      /\ views' = {v \in views : v.id \notin Held(Subject)}
      /\ \A h \in HeapBlocks : block'[h] = IF h \in Held(Subject)
                                           THEN [block[h] EXCEPT !.offset = 0] ELSE block[h]
  BY ReplayAssumption DEF Reset, Row, IInv, TypeOK
<1>2. block \in [HeapBlocks -> Blocks] /\ \A q \in DOMAIN Row : Row[q] \in HeapBlocks
  BY RowType DEF IInv, TypeOK
<1>3. \A h \in HeapBlocks : /\ block'[h].base = block[h].base /\ block'[h].size = block[h].size
                            /\ h \in Held(Subject) => block'[h].offset = 0
  BY <1>1, <1>2 DEF Blocks
<1>4. Kept
  BY <1>1, <1>2, <1>3 DEF Kept
<1>5. Recorded'
  BY <1>1, <1>4, RecordedKept
<1>6. 1 \in DOMAIN Row
  BY RowType DEF Recorded
<1>7. block'[Row[1]].offset = 0
  BY <1>3, <1>6, RowType
<1>8. (block[ActiveBlock(Subject)].offset = OffsetAfter(0, active[Subject]))'
  BY <1>1, <1>7 DEF ActiveBlock, Row, OffsetAfter, PlaceOf, EndOf
<1>9. ~call'.in
  BY <1>1 DEF Idle
<1>10. StandsAfter(0)'
  BY <1>1, <1>8, <1>9 DEF StandsAfter, PlaceOf
<1>11. {v \in views : v.id \in Held(Subject)}' = {}
  BY <1>1 DEF Held, Row
<1> QED BY <1>5, <1>9, <1>10, <1>11

LEMMA AllocateReplays ==
  ASSUME IInv, IInv', Recorded, log \in Seq(Views), log' = log,
         NEW n \in 0 .. Len(log), StandsAfter(n),
         NEW s, NEW a, Allocate(Subject, s, a)
  PROVE  /\ Recorded' /\ StandsAfter(n)'
         /\ call'.in /\ call'.size = s /\ call'.align = a
         /\ views' = views /\ Held(Subject)' = Held(Subject)
<1>1. /\ blocks' = blocks /\ block' = block /\ built' = built /\ active' = active
      /\ views' = views /\ call = Idle
      /\ call' = [in |-> TRUE, arena |-> Subject, size |-> s, align |-> a, grown |-> FALSE]
  BY DEF Allocate
<1>2. Row' = Row /\ Held(Subject)' = Held(Subject)
  BY <1>1 DEF Row, Held
<1>3. Kept
  BY <1>1, <1>2 DEF Kept
<1>4. Recorded'
  BY <1>1, <1>3, RecordedKept
<1>5. active[Subject] = PlaceOf(n) /\ PlaceOf(n) \in Nat
  BY <1>1, PlaceType DEF StandsAfter
<1>6. PlaceOf(n)' = PlaceOf(n) /\ \A p : OffsetAfter(n, p)' = OffsetAfter(n, p)
  BY <1>3, PlaceKept
<1>7. NoneBefore(n, active[Subject], call.size, call.align)'
  BY <1>1, <1>5, <1>6 DEF NoneBefore
<1>8. (block[ActiveBlock(Subject)].offset = OffsetAfter(n, active[Subject]))'
  BY <1>1, <1>6 DEF StandsAfter, ActiveBlock
<1>9. call'.in /\ call'.arena = Subject /\ call' # Idle
  BY <1>1 DEF Idle
<1>10. StandsAfter(n)'
  BY <1>7, <1>8, <1>9 DEF StandsAfter
<1> QED BY <1>1, <1>2, <1>4, <1>10

\* A place that has a name of its own in the state: where the log ends, and
\* where the second pass has come to.
LEMMA StandsAtLog ==
  ASSUME NEW n, n = Len(log'), StandsAfter(n)'
  PROVE  StandsAfter(Len(log))'
  BY DEF StandsAfter, OffsetAfter, PlaceOf, EndOf, NoneBefore

LEMMA StandsAtCursor ==
  ASSUME NEW n, n = cursor', StandsAfter(n)'
  PROVE  StandsAfter(cursor)'
  BY DEF StandsAfter, OffsetAfter, PlaceOf, EndOf, NoneBefore

LEMMA RecordAnswerReplays ==
  ASSUME IInv, IInv', Recorded, log \in Seq(Views), StandsAfter(Len(log)), RecordAnswer
  PROVE  log' \in Seq(Views) /\ Recorded' /\ StandsAfter(Len(log))'
<1> PICK n \in Nat : n = Len(log)
  OBVIOUS
<1>0. n \in 0 .. Len(log) /\ StandsAfter(n)
  OBVIOUS
<1> PICK m \in Nat : m = n + 1 /\ m # 0 /\ m - 1 = n
  OBVIOUS
<1> PICK p \in Nat : p = active[Subject]
  BY <1>0, Standing, RowType DEF RecordAnswer, Bump
<1>1. PICK v \in Views :
        /\ v \notin views /\ views' = views \cup {v}
        /\ v.id = Row[p] /\ v.id \in Held(Subject)
        /\ NoneBefore(n, p, v.size, v.align)
        /\ FitsFrom(Row[p], OffsetAfter(n, p), v.size, v.align)
        /\ v.start = OffsetAfter(n, p) + PadFrom(Row[p], OffsetAfter(n, p), v.align)
        /\ block' = [block EXCEPT ![Row[p]].offset = v.start + v.size]
        /\ blocks' = blocks /\ built' = built /\ active' = active /\ call' = Idle
  BY <1>0, BumpReplays DEF RecordAnswer
<1>2. LastView = v
  BY <1>1 DEF LastView
<1>3. log' = Append(log, v)
  BY <1>2 DEF RecordAnswer
<1>4. log' \in Seq(Views) /\ Len(log') = m /\ log'[m] = v
      /\ \A i \in DOMAIN log : i \in DOMAIN log' /\ log'[i] = log[i]
  BY <1>3
<1>5. Row' = Row /\ p \in DOMAIN Row /\ Row[p] \in HeapBlocks
  <2>1. p \in DOMAIN Row
    BY <1>0, Standing DEF RecordAnswer, Bump
  <2> QED BY <1>1, <2>1, RowType DEF Row
<1>6. block \in [HeapBlocks -> Blocks] /\ \A q \in DOMAIN Row : Row[q] \in HeapBlocks
  BY RowType DEF IInv, TypeOK
<1>7. \A h \in HeapBlocks : block'[h].base = block[h].base /\ block'[h].size = block[h].size
  BY <1>1, <1>6 DEF Blocks
<1>8. Kept
  BY <1>4, <1>5, <1>6, <1>7 DEF Kept
<1>9. \A i \in DOMAIN log : AnswerFollows(i)'
  BY <1>8, AnswersKept
<1>10. PlaceOf(m)' = p
  <2>1. p \in DOMAIN Row' /\ Row'[p] = log'[m].id
    BY <1>1, <1>4, <1>5
  <2>2. \A q, r \in DOMAIN Row' : Row'[q] = Row'[r] => q = r
    BY <1>5, RowType
  <2>3. (CHOOSE q \in DOMAIN Row' : Row'[q] = log'[m].id) = p
    BY <2>1, <2>2
  <2> QED BY <2>3 DEF PlaceOf
<1>11. AnswerFollows(m)'
  <2> PICK o, s, a : o = OffsetAfter(n, p) /\ s = v.size /\ a = v.align
    OBVIOUS
  <2>1. OffsetAfter(n, p)' = o
    BY <1>0, <1>8, PlaceKept
  <2>2. NoneBefore(n, p, s, a)'
    BY <1>0, <1>1, <1>5, <1>8, NoneBeforeKept
  <2>3. FitsFrom(Row[p], o, s, a)' /\ PadFrom(Row[p], o, a)' = PadFrom(Row[p], o, a)
    BY <1>1, <1>5, <1>8, FitsKept
  <2>5. Held(Subject)' = Held(Subject)
    BY <1>1 DEF Held
  <2>6. NoneBefore(n, p, log[m].size, log[m].align)'
    BY <1>4, <2>2 DEF NoneBefore
  <2>7. FitsFrom(Row[p], OffsetAfter(n, p), log[m].size, log[m].align)'
    BY <1>4, <1>5, <2>1, <2>3 DEF FitsFrom, PadFrom
  <2>8. log'[m].start = OffsetAfter(n, p)' + PadFrom(Row[p], OffsetAfter(n, p), log[m].align)'
    BY <1>1, <1>4, <1>5, <2>1, <2>3 DEF PadFrom
  <2>9. log'[m].id \in Held(Subject)'
    BY <1>1, <1>4, <2>5
  <2> QED
    BY <1>10, <2>6, <2>7, <2>8, <2>9 DEF AnswerFollows, NoneBefore, FitsFrom, PadFrom
<1>12. Recorded'
  <2>1. DOMAIN log' = DOMAIN log \cup {m}
    BY <1>3
  <2> QED BY <1>1, <1>5, <1>9, <1>11, <2>1 DEF Recorded
<1>13. StandsAfter(m)'
  <2>1. block'[Row[p]].offset = v.start + v.size
    BY <1>1, <1>5, <1>6 DEF Blocks
  <2>2. OffsetAfter(m, p)' = v.start + v.size
    BY <1>4, <1>10 DEF OffsetAfter, EndOf
  <2>3. (block[ActiveBlock(Subject)].offset = OffsetAfter(m, active[Subject]))'
    BY <1>1, <1>5, <2>1, <2>2 DEF ActiveBlock, Row, OffsetAfter
  <2>4. ~call'.in
    BY <1>1 DEF Idle
  <2> QED BY <1>1, <1>10, <2>3, <2>4 DEF StandsAfter
<1> QED BY <1>4, <1>12, <1>13 DEF StandsAfter

(* The replay's search and the recorded one end in the same block: each    *)
(* stops at the first the request fits in.                                 *)
LEMMA SameFirstFit ==
  ASSUME NEW i \in Nat, NEW p \in Nat, NEW q \in Nat, NEW s, NEW a, PlaceOf(i) \in Nat,
         NoneBefore(i, p, s, a), FitsFrom(Row[p], OffsetAfter(i, p), s, a),
         NoneBefore(i, q, s, a), FitsFrom(Row[q], OffsetAfter(i, q), s, a)
  PROVE  p = q
<1>1. ~(p < q)
  <2>1. p < q => p \in PlaceOf(i) .. q - 1
    BY DEF NoneBefore
  <2> QED BY <2>1 DEF NoneBefore
<1>2. ~(q < p)
  <2>1. q < p => q \in PlaceOf(i) .. p - 1
    BY DEF NoneBefore
  <2> QED BY <2>1 DEF NoneBefore
<1> QED BY <1>1, <1>2

LEMMA ReplayAnswerReplays ==
  ASSUME ReplayInv, IInv', ReplayAnswer
  PROVE  /\ Recorded' /\ cursor' \in 0 .. Len(log) /\ StandsAfter(cursor)' /\ ~call'.in
         /\ {v \in views : v.id \in Held(Subject)}' = {log[i] : i \in 1 .. cursor'}
<1> PICK n \in Nat, m \in Nat : n = cursor /\ m = n + 1 /\ m # 0 /\ m - 1 = n
  BY DEF ReplayInv, ReplayAnswer
<1>0. /\ IInv /\ Recorded /\ log \in Seq(Views) /\ StandsAfter(n) /\ n \in 0 .. Len(log)
      /\ n < Len(log) /\ RequestIs(log[m]) /\ m \in DOMAIN log /\ m \in 0 .. Len(log)
      /\ {v \in views : v.id \in Held(Subject)} = {log[i] : i \in 1 .. n}
  BY DEF ReplayInv, ReplayAnswer, Bump
<1>a. cursor' = m /\ log' = log
  BY DEF ReplayAnswer
<1> PICK p \in Nat : p = active[Subject]
  BY <1>0, Standing, RowType DEF ReplayAnswer, Bump
<1>1. PICK v \in Views :
        /\ v \notin views /\ views' = views \cup {v}
        /\ v.id = Row[p] /\ v.id \in Held(Subject)
        /\ RequestIs(v)
        /\ NoneBefore(n, p, v.size, v.align)
        /\ FitsFrom(Row[p], OffsetAfter(n, p), v.size, v.align)
        /\ v.start = OffsetAfter(n, p) + PadFrom(Row[p], OffsetAfter(n, p), v.align)
        /\ block' = [block EXCEPT ![Row[p]].offset = v.start + v.size]
        /\ blocks' = blocks /\ built' = built /\ active' = active /\ call' = Idle
  BY <1>0, BumpReplays DEF ReplayAnswer
<1>2. v.size = log[m].size /\ v.align = log[m].align
  BY <1>0, <1>1 DEF RequestIs
<1>3. AnswerFollows(m)
  BY <1>0 DEF Recorded
<1>4. /\ PlaceOf(m) \in Nat /\ Row[PlaceOf(m)] = log[m].id /\ PlaceOf(n) \in Nat
  BY <1>0, PlaceType
<1>5. /\ NoneBefore(n, PlaceOf(m), log[m].size, log[m].align)
      /\ FitsFrom(Row[PlaceOf(m)], OffsetAfter(n, PlaceOf(m)), log[m].size, log[m].align)
      /\ log[m].start = OffsetAfter(n, PlaceOf(m))
                          + PadFrom(Row[PlaceOf(m)], OffsetAfter(n, PlaceOf(m)), log[m].align)
  BY <1>3 DEF AnswerFollows
<1>6. PlaceOf(m) = p
  BY <1>1, <1>2, <1>4, <1>5, SameFirstFit
<1>7. v = log[m]
  <2>1. v.id = log[m].id /\ v.start = log[m].start
    BY <1>1, <1>2, <1>4, <1>5, <1>6
  <2>2. log[m] \in Views
    BY <1>0
  <2> QED BY <1>2, <2>1, <2>2 DEF Views
<1>8. Row' = Row /\ p \in DOMAIN Row /\ Row[p] \in HeapBlocks /\ Held(Subject)' = Held(Subject)
  <2>1. p \in DOMAIN Row
    BY <1>0, Standing DEF ReplayAnswer, Bump
  <2> QED BY <1>0, <1>1, <2>1, RowType DEF Row, Held
<1>9. block \in [HeapBlocks -> Blocks] /\ \A q \in DOMAIN Row : Row[q] \in HeapBlocks
  BY <1>0, RowType DEF IInv, TypeOK
<1>10. Kept
  <2>1. \A h \in HeapBlocks : block'[h].base = block[h].base /\ block'[h].size = block[h].size
    BY <1>1, <1>9 DEF Blocks
  <2> QED BY <1>a, <1>8, <1>9, <2>1 DEF Kept
<1>11. Recorded'
  BY <1>0, <1>1, <1>a, <1>10, RecordedKept
<1>12. {w \in views : w.id \in Held(Subject)}' = {log[i] : i \in 1 .. m}
  <2>1. {w \in views : w.id \in Held(Subject)}' = {w \in views : w.id \in Held(Subject)} \cup {v}
    BY <1>1, <1>8
  <2>2. 1 .. m = 1 .. n \cup {m}
    OBVIOUS
  <2> QED BY <1>0, <1>7, <2>1, <2>2
<1>13. StandsAfter(m)'
  <2>1. block'[Row[p]].offset = v.start + v.size
    BY <1>1, <1>8, <1>9 DEF Blocks
  <2>2. PlaceOf(m)' = PlaceOf(m) /\ OffsetAfter(m, p)' = OffsetAfter(m, p)
    BY <1>0, <1>10, PlaceKept
  <2>3. OffsetAfter(m, p) = v.start + v.size
    BY <1>6, <1>7 DEF OffsetAfter, EndOf
  <2>4. (block[ActiveBlock(Subject)].offset = OffsetAfter(m, active[Subject]))'
    BY <1>1, <1>8, <2>1, <2>2, <2>3 DEF ActiveBlock, Row, OffsetAfter
  <2>5. ~call'.in
    BY <1>1 DEF Idle
  <2> QED BY <1>1, <1>6, <2>2, <2>4, <2>5 DEF StandsAfter
<1>14. ~call'.in
  BY <1>1 DEF Idle
<1>15. StandsAfter(cursor)'
  BY <1>a, <1>13, StandsAtCursor
<1> QED BY <1>0, <1>a, <1>11, <1>12, <1>14, <1>15

\* Every step of the client is a step of the arena.
LEMMA ReplayStepInv == ReplayInv /\ [ReplayNext]_rvars => IInv'
<1> SUFFICES ASSUME ReplayInv, [ReplayNext]_rvars PROVE [Next]_vars
  BY NextInv DEF ReplayInv
<1>1. CASE Warm \/ Loop \/ RecordAnswer \/ RecordingFails \/ ReplayAnswer
  BY <1>1 DEF Warm, Loop, RecordAnswer, RecordingFails, ReplayAnswer, Next
<1>2. CASE StartRecord \/ StartReplay
  BY <1>2, ReplayAssumption DEF StartRecord, StartReplay, Next
<1>3. CASE RecordRequest
  BY <1>3, ReplayAssumption DEF RecordRequest, Next
<1>4. CASE ReplayRequest
  <2>1. log[cursor + 1] \in Views
    BY <1>4 DEF ReplayInv, ReplayRequest
  <2>2. log[cursor + 1].size \in Sizes /\ log[cursor + 1].align \in Alignments
    BY <2>1 DEF Views
  <2> QED BY <1>4, <2>2, ReplayAssumption DEF ReplayRequest, Next
<1>5. CASE UNCHANGED rvars
  BY <1>5 DEF rvars
<1> QED BY <1>1, <1>2, <1>3, <1>4, <1>5 DEF ReplayNext

\* The steps of the two passes that neither ask nor answer.
LEMMA LoopReplays == ReplayInv /\ IInv' /\ (Loop \/ UNCHANGED rvars) => ReplayInv'
<1> SUFFICES ASSUME ReplayInv, IInv', Loop \/ UNCHANGED rvars PROVE ReplayInv'
  OBVIOUS
<1>1. CASE UNCHANGED rvars
  <2>1. /\ blocks' = blocks /\ block' = block /\ built' = built /\ active' = active
        /\ views' = views /\ call' = call /\ phase' = phase /\ log' = log /\ cursor' = cursor
    BY <1>1 DEF rvars, vars
  <2>2. /\ Recorded' = Recorded /\ StandsAfter(cursor)' = StandsAfter(cursor)
        /\ StandsAfter(Len(log))' = StandsAfter(Len(log))
    BY <2>1 DEF Recorded, Row, AnswerFollows, PlaceOf, EndOf, OffsetAfter, PadFrom, FitsFrom,
                NoneBefore, Held, StandsAfter, ActiveBlock
  <2> QED BY <2>1, <2>2 DEF ReplayInv, RequestIs, Held
<1>2. CASE Loop
  <2>1. /\ phase' = phase /\ log' = log /\ cursor' = cursor
        /\ phase \in {"record", "replay"} /\ Overflows /\ call.in
        /\ built' = built /\ views' = views
    BY <1>2 DEF Loop, Advance, Grow, Overflows
  <2>2. IInv /\ Recorded /\ log \in Seq(Views)
    BY <2>1 DEF ReplayInv
  <2> PICK n \in 0 .. Len(log) :
          /\ StandsAfter(n)
          /\ phase = "record" => n = Len(log)
          /\ phase = "replay" => n = cursor
    BY <2>1, <2>2 DEF ReplayInv
  <2>3. /\ Kept /\ StandsAfter(n)' /\ call'.size = call.size /\ call'.align = call.align
        /\ {v \in views : v.id \in Held(Subject)}' = {v \in views : v.id \in Held(Subject)}
    <3>1. CASE Advance
      BY <2>1, <2>2, <3>1, AdvanceReplays DEF Advance, Held
    <3>2. ASSUME NEW h \in HeapBlocks, Grow(h)
          PROVE  /\ Kept /\ StandsAfter(n)' /\ call'.size = call.size /\ call'.align = call.align
                 /\ {v \in views : v.id \in Held(Subject)}'
                      = {v \in views : v.id \in Held(Subject)}
      <4>1. \A v \in views : v.id # h
        BY <2>2, <3>2 DEF Grow, IInv, HandedOutExtent
      <4>2. /\ Kept /\ StandsAfter(n)' /\ call'.size = call.size /\ call'.align = call.align
            /\ Held(Subject)' = Held(Subject) \cup {h}
        BY <2>1, <2>2, <3>2, GrowReplays
      <4> QED BY <2>1, <4>1, <4>2
    <3> QED BY <1>2, <3>1, <3>2 DEF Loop
  <2>4. Recorded'
    BY <2>1, <2>2, <2>3, RecordedKept
  <2>5. ASSUME phase = "record" PROVE StandsAfter(Len(log))'
    <3>1. n = Len(log') /\ StandsAfter(n)'
      BY <2>1, <2>3, <2>5
    <3> QED
      BY <3>1, StandsAtLog
  <2>6. ASSUME phase = "replay" PROVE StandsAfter(cursor)'
    <3>1. n = cursor' /\ StandsAfter(n)'
      BY <2>1, <2>3, <2>6
    <3> QED
      BY <3>1, StandsAtCursor
  <2> QED BY <2>1, <2>2, <2>3, <2>4, <2>5, <2>6 DEF ReplayInv, RequestIs
<1> QED BY <1>1, <1>2

LEMMA ReplayNextInv == ReplayInv /\ [ReplayNext]_rvars => ReplayInv'
<1> SUFFICES ASSUME ReplayInv, [ReplayNext]_rvars PROVE ReplayInv'
  OBVIOUS
<1>0. IInv' /\ IInv /\ log \in Seq(Views)
  BY ReplayStepInv DEF ReplayInv
<1>1. CASE Warm
  BY <1>0, <1>1 DEF Warm, ReplayInv
<1>2. CASE StartRecord
  <2>1. log = <<>> /\ cursor = 0 /\ phase' = "record" /\ log' = log /\ cursor' = cursor
    BY <1>2 DEF StartRecord, ReplayInv
  <2>2. Recorded
    BY <1>2, <2>1 DEF StartRecord, Recorded, Row, Reset
  <2>3. Recorded' /\ StandsAfter(0)'
    BY <1>0, <1>2, <2>1, <2>2, ResetReplays DEF StartRecord
  <2>4. StandsAfter(Len(log))'
    BY <2>1, <2>3, StandsAtLog
  <2> QED BY <1>0, <2>1, <2>3, <2>4 DEF ReplayInv
<1>3. CASE Loop \/ UNCHANGED rvars
  BY <1>0, <1>3, LoopReplays
<1>4. CASE RecordRequest
  <2>1. /\ phase = "record" /\ phase' = "record" /\ log' = log /\ cursor' = cursor
        /\ Recorded /\ StandsAfter(Len(log)) /\ cursor = 0
    BY <1>4 DEF RecordRequest, ReplayInv
  <2> PICK s, a : Allocate(Subject, s, a)
    BY <1>4 DEF RecordRequest
  <2> PICK n \in Nat : n = Len(log)
    BY <1>0
  <2>2. Recorded' /\ StandsAfter(n)'
    BY <1>0, <2>1, AllocateReplays
  <2>3. StandsAfter(Len(log))'
    BY <2>1, <2>2, StandsAtLog
  <2> QED BY <1>0, <2>1, <2>2, <2>3 DEF ReplayInv
<1>5. CASE RecordAnswer
  <2>1. phase = "record" /\ phase' = "record" /\ cursor' = cursor /\ cursor = 0
    BY <1>5 DEF RecordAnswer, ReplayInv
  <2>2. log' \in Seq(Views) /\ Recorded' /\ StandsAfter(Len(log))'
    BY <1>0, <1>5, <2>1, RecordAnswerReplays DEF ReplayInv
  <2> QED BY <1>0, <2>1, <2>2 DEF ReplayInv
<1>6. CASE RecordingFails
  BY <1>0, <1>6 DEF RecordingFails, ReplayInv
<1>7. CASE StartReplay
  <2>1. /\ phase = "record" /\ phase' = "replay" /\ log' = log /\ cursor' = cursor
        /\ Recorded /\ cursor = 0
    BY <1>7 DEF StartReplay, ReplayInv
  <2>2. /\ Recorded' /\ StandsAfter(0)' /\ ~call'.in
        /\ {v \in views : v.id \in Held(Subject)}' = {}
    BY <1>0, <1>7, <2>1, ResetReplays DEF StartReplay
  <2>3. StandsAfter(cursor)'
    BY <2>1, <2>2, StandsAtCursor
  <2>4. {log'[i] : i \in 1 .. cursor'} = {} /\ cursor' \in 0 .. Len(log')
    BY <1>0, <2>1
  <2> QED BY <1>0, <2>1, <2>2, <2>3, <2>4 DEF ReplayInv
<1>8. CASE ReplayRequest
  <2>1. /\ phase = "replay" /\ phase' = "replay" /\ log' = log /\ cursor' = cursor
        /\ Recorded /\ cursor \in 0 .. Len(log) /\ StandsAfter(cursor) /\ cursor < Len(log)
        /\ {v \in views : v.id \in Held(Subject)} = {log[i] : i \in 1 .. cursor}
    BY <1>8 DEF ReplayRequest, ReplayInv
  <2> PICK n \in 0 .. Len(log) : n = cursor /\ Allocate(Subject, log[n + 1].size, log[n + 1].align)
    BY <1>8, <2>1 DEF ReplayRequest
  <2> PICK s : s = log[n + 1].size
    OBVIOUS
  <2> PICK a : a = log[n + 1].align
    OBVIOUS
  <2>0. Allocate(Subject, s, a)
    OBVIOUS
  <2>2. /\ Recorded' /\ StandsAfter(n)' /\ call'.size = s /\ call'.align = a
        /\ views' = views /\ Held(Subject)' = Held(Subject)
    BY <1>0, <2>1, AllocateReplays
  <2>3. StandsAfter(cursor)'
    BY <2>1, <2>2, StandsAtCursor
  <2>4. RequestIs(log[cursor + 1])'
    BY <2>1, <2>2 DEF RequestIs
  <2> QED BY <1>0, <2>1, <2>2, <2>3, <2>4 DEF ReplayInv
<1>9. CASE ReplayAnswer
  <2>1. phase' = "replay" /\ log' = log
    BY <1>9 DEF ReplayAnswer
  <2> QED BY <1>0, <1>9, <2>1, ReplayAnswerReplays DEF ReplayInv
<1> QED BY <1>1, <1>2, <1>3, <1>4, <1>5, <1>6, <1>7, <1>8, <1>9 DEF ReplayNext

(* A client that repeats its requests after a reset is answered with the   *)
(* addresses it got the first time, one by one and in order, whatever it   *)
(* did with the arena before and however many requests it makes (reset and *)
(* grow_to_fit, arena_allocator.cpp): the retained blocks are walked as    *)
(* they were grown.                                                        *)
THEOREM ReplayGetsItsAddressesBack == ReplaySpec => []ReplayRepeatsAddresses
<1>1. ReplayInit => ReplayInv
  BY InitInv DEF ReplayInit, ReplayInv
<1>2. ReplayInv => ReplayRepeatsAddresses
  BY DEF ReplayInv, ReplayRepeatsAddresses
<1> QED
  BY <1>1, <1>2, ReplayNextInv, PTL DEF ReplaySpec

(* A replay's call never reaches the last block's end: some block of the   *)
(* row takes it, because one took the recorded request.                    *)
NeverOutOfBlocks ==
  phase = "replay" => ~(Overflows /\ active[call.arena] = Len(blocks[call.arena]))

LEMMA RowTakesIt == ReplayInv => NeverOutOfBlocks
<1> SUFFICES ASSUME ReplayInv, phase = "replay", Overflows,
                    active[call.arena] = Len(blocks[call.arena])
             PROVE  FALSE
  BY DEF NeverOutOfBlocks
<1> PICK n \in Nat, m \in Nat : n = cursor /\ m = n + 1 /\ m # 0 /\ m - 1 = n
  BY DEF ReplayInv
<1>1. /\ IInv /\ Recorded /\ log \in Seq(Views) /\ StandsAfter(n) /\ n \in 0 .. Len(log)
      /\ RequestIs(log[m]) /\ m \in DOMAIN log /\ m \in 0 .. Len(log) /\ call.in
  BY DEF ReplayInv, Overflows
<1>2. call.arena = Subject /\ active[Subject] = Len(Row)
  BY <1>1, Standing DEF Row
<1>3. AnswerFollows(m)
  BY <1>1 DEF Recorded
<1>4. /\ NoneBefore(n, PlaceOf(m), call.size, call.align)
      /\ FitsFrom(Row[PlaceOf(m)], OffsetAfter(n, PlaceOf(m)), call.size, call.align)
  BY <1>1, <1>3 DEF AnswerFollows, RequestIs
<1>5. NoneBefore(n, active[Subject] + 1, call.size, call.align)
  BY <1>1, NoneUpToHere
<1>6. PlaceOf(m) \in 1 .. Len(Row) /\ PlaceOf(n) \in Nat /\ Len(Row) \in Nat
  BY <1>1, PlaceType, RowType
<1>7. PlaceOf(m) \in PlaceOf(n) .. (active[Subject] + 1) - 1
  BY <1>2, <1>4, <1>6 DEF NoneBefore
<1> QED BY <1>4, <1>5, <1>7 DEF NoneBefore

(* Once it has served its requests, an arena serves them after a reset out *)
(* of the blocks it has: grow_to_fit never asks the system for another     *)
(* (arena_allocator.cpp, grow_to_fit), so make_block's bad_alloc cannot    *)
(* end a replayed call.                                                    *)
THEOREM ReplayTakesNothing == ReplaySpec => []NeverOutOfBlocks
<1>1. ReplayInit => ReplayInv
  BY InitInv DEF ReplayInit, ReplayInv
<1> QED
  BY <1>1, RowTakesIt, ReplayNextInv, PTL DEF ReplaySpec
============================================================================
