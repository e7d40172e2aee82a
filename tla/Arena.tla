------------------------------- MODULE Arena -------------------------------
(***************************************************************************)
(* The bump allocator every tokenized line borrows its bytes from          *)
(* (core/src/arena/arena_allocator.cpp).  One thread uses a set of arena   *)
(* objects; each owns a growing sequence of blocks, hands out byte regions *)
(* ("views") by bumping the active block's offset, and takes them all back *)
(* in one reset.                                                           *)
(*                                                                         *)
(* A Block object and the storage it owns are one-to-one, so both are      *)
(* indexed by the name h of a piece of the heap.  A view is a region       *)
(* [start, start + size) of such a piece, as a pointer is: it does not     *)
(* name the arena, and outlives a move of the arena it came from.          *)
(***************************************************************************)
EXTENDS Integers, Sequences, FiniteSets, SequencesExt

CONSTANTS
  Arenas,            \* the arena objects of the program
  HeapBlocks,        \* the pieces the system allocator can hand out
  InitialSizes,      \* initial_block_size arguments
  Sizes,             \* allocate's size arguments, zero left out (it returns at once)
  Alignments,        \* allocate's alignment arguments: powers of two
  DefaultAlignment,  \* kDefaultBlockAlignment
  BaseSpan,          \* block base addresses are known modulo this
  NumaMinimum,       \* kMinimumBlockBytes
  NumaMaximumAlign,  \* kPageAlignment
  MaxViews           \* bound: views alive at once

ASSUME ArenaAssumption ==
  /\ InitialSizes \subseteq Nat \ {0}
  /\ Sizes \subseteq Nat \ {0}
  /\ Alignments \subseteq Nat \ {0}
  /\ DefaultAlignment \in Nat \ {0}
  /\ BaseSpan \in Nat \ {0}
  /\ NumaMinimum \in Nat
  /\ NumaMaximumAlign \in Nat

VARIABLES
  heap,    \* what each piece of memory is: "free", or which allocator gave it out
  block,   \* the Block object over each piece
  built,   \* the arena objects alive
  blocks,  \* blocks_: each arena's pieces, oldest first
  active,  \* active_index_, counted from 1
  used,    \* bytes_used_
  policy,  \* policy_.active() as resolved at construction
  call,    \* the allocate call in its loop, or Idle
  views    \* ghost: the regions handed out and not yet taken back

vars == <<heap, block, built, blocks, active, used, policy, call, views>>

Blocks == [size : Nat, offset : Nat, align : Nat \ {0}, base : Nat, numa : BOOLEAN]

NoBlock == [size |-> 0, offset |-> 0, align |-> DefaultAlignment, base |-> 0,
            numa |-> FALSE]

Idle == [in |-> FALSE]

Calls == [in : {TRUE}, arena : Arenas, size : Sizes, align : Alignments, grown : BOOLEAN]

Views == [id : HeapBlocks, start : Nat, size : Sizes, align : Alignments]

TypeOK ==
  /\ heap \in [HeapBlocks -> {"free", "portable", "numa", "corrupt"}]
  /\ block \in [HeapBlocks -> Blocks]
  /\ built \subseteq Arenas
  /\ blocks \in [Arenas -> Seq(HeapBlocks)]
  /\ active \in [Arenas -> Nat \ {0}]
  /\ used \in [Arenas -> Nat]
  /\ policy \in [Arenas -> BOOLEAN]
  /\ call \in Calls \cup {Idle}
  /\ views \subseteq Views

----------------------------------------------------------------------------
(* align_up as the distance it adds: the bytes skipped to reach an address *)
(* that is a multiple of the alignment.                                    *)

\* Fault: align_down for align_up.
PaddingDown(h, a) == 0 - ((block[h].base + block[h].offset) % a)

Padding(h, a) == (a - ((block[h].base + block[h].offset) % a)) % a

\* Fault: the bound check forgets the padding.
FitsUnpadded(h, s, a) == block[h].offset + s <= block[h].size

Fits(h, s, a) == block[h].offset + Padding(h, a) + s <= block[h].size

Held(x) == {blocks[x][i] : i \in DOMAIN blocks[x]}

ActiveBlock(x) == blocks[x][active[x]]

MaxOf(m, n) == IF m >= n THEN m ELSE n

NewSize(x, s, a) == MaxOf(2 * block[blocks[x][Len(blocks[x])]].size, s + a)

(* libnuma is asked first, under an active policy, for blocks neither too  *)
(* small nor too aligned; it may still answer null.                        *)
NumaEligible(p, n, a) == p /\ a <= NumaMaximumAlign /\ n >= NumaMinimum

(* make_block: piece h becomes a block of n bytes aligned to a.  The base  *)
(* address is any multiple of a (libnuma's are page-aligned).              *)
MakeBlock(h, p, n, a) ==
  \E fromNuma \in IF NumaEligible(p, n, a) THEN BOOLEAN ELSE {FALSE} :
  \E base \in IF fromNuma THEN {0} ELSE {b \in 0 .. BaseSpan - 1 : b % a = 0} :
    /\ heap' = [heap EXCEPT ![h] = IF fromNuma THEN "numa" ELSE "portable"]
    /\ block' = [block EXCEPT ![h] = [size |-> n, offset |-> 0, align |-> a,
                                      base |-> base, numa |-> fromNuma]]

(* Block::reset on every block of S: the flag picks the deallocator, and   *)
(* the views into a freed block dangle, so they are no longer the arena's. *)
Release(S) ==
  /\ heap' = [h \in HeapBlocks |->
               IF h \notin S THEN heap[h]
               ELSE IF block[h].numa = (heap[h] = "numa") THEN "free" ELSE "corrupt"]
  /\ block' = [h \in HeapBlocks |-> IF h \in S THEN NoBlock ELSE block[h]]
  /\ views' = {v \in views : v.id \notin S}

----------------------------------------------------------------------------
Init ==
  /\ heap = [h \in HeapBlocks |-> "free"]
  /\ block = [h \in HeapBlocks |-> NoBlock]
  /\ built = {}
  /\ blocks = [x \in Arenas |-> <<>>]
  /\ active = [x \in Arenas |-> 1]
  /\ used = [x \in Arenas |-> 0]
  /\ policy = [x \in Arenas |-> FALSE]
  /\ call = Idle
  /\ views = {}

(* The constructor.  A zero size throws before any block exists, and a     *)
(* failed make_block leaves no object: neither changes this state.         *)
Construct(x, n, p, h) ==
  /\ call = Idle
  /\ x \notin built
  /\ heap[h] = "free"
  /\ MakeBlock(h, p, n, DefaultAlignment)
  /\ built' = built \cup {x}
  /\ blocks' = [blocks EXCEPT ![x] = <<h>>]
  /\ active' = [active EXCEPT ![x] = 1]
  /\ used' = [used EXCEPT ![x] = 0]
  /\ policy' = [policy EXCEPT ![x] = p]
  /\ UNCHANGED <<call, views>>

Destroy(x) ==
  /\ call = Idle
  /\ x \in built
  /\ Release(Held(x))
  /\ built' = built \ {x}
  /\ blocks' = [blocks EXCEPT ![x] = <<>>]
  /\ active' = [active EXCEPT ![x] = 1]
  /\ used' = [used EXCEPT ![x] = 0]
  /\ policy' = [policy EXCEPT ![x] = FALSE]
  /\ UNCHANGED call

\* Fault: the source keeps its blocks.
TransferKeepingSource(dst, src) ==
  /\ blocks' = [blocks EXCEPT ![dst] = blocks[src]]
  /\ active' = [active EXCEPT ![dst] = active[src], ![src] = 1]
  /\ used' = [used EXCEPT ![dst] = used[src], ![src] = 0]
  /\ policy' = [policy EXCEPT ![dst] = policy[src], ![src] = FALSE]

(* What both moves do with the fields: dst takes src's, and src is left    *)
(* the empty, Disabled shell.                                              *)
Transfer(dst, src) ==
  /\ blocks' = [blocks EXCEPT ![dst] = blocks[src], ![src] = <<>>]
  /\ active' = [active EXCEPT ![dst] = active[src], ![src] = 1]
  /\ used' = [used EXCEPT ![dst] = used[src], ![src] = 0]
  /\ policy' = [policy EXCEPT ![dst] = policy[src], ![src] = FALSE]

MoveConstruct(dst, src) ==
  /\ call = Idle
  /\ src \in built
  /\ dst \notin built
  /\ Transfer(dst, src)
  /\ built' = built \cup {dst}
  /\ UNCHANGED <<heap, block, call, views>>

(* The vector's move assignment frees dst's own blocks.  Self-assignment   *)
(* returns at once.                                                        *)
MoveAssign(dst, src) ==
  /\ call = Idle
  /\ {dst, src} \subseteq built
  /\ dst # src
  /\ Release(Held(dst))
  /\ Transfer(dst, src)
  /\ UNCHANGED <<built, call>>

(* allocate enters its loop.  A size of zero and a bad alignment return or *)
(* throw here; a moved-from arena has no block to index, so the caller may *)
(* not ask one.                                                            *)
Allocate(x, s, a) ==
  /\ call = Idle
  /\ x \in built
  /\ blocks[x] # <<>>
  /\ Cardinality(views) < MaxViews
  /\ call' = [in |-> TRUE, arena |-> x, size |-> s, align |-> a, grown |-> FALSE]
  /\ UNCHANGED <<heap, block, built, blocks, active, used, policy, views>>

(* The request fits in the active block: bump its offset and return.       *)
Bump ==
  /\ call.in
  /\ LET x == call.arena
         h == ActiveBlock(x)
         pad == Padding(h, call.align)
     IN /\ Fits(h, call.size, call.align)
        /\ block' = [block EXCEPT ![h].offset = @ + pad + call.size]
        /\ used' = [used EXCEPT ![x] = @ + pad + call.size]
        /\ views' = views \cup {[id |-> h, start |-> block[h].offset + pad,
                                 size |-> call.size, align |-> call.align]}
  /\ call' = Idle
  /\ UNCHANGED <<heap, built, blocks, active, policy>>

Overflows == call.in /\ ~Fits(ActiveBlock(call.arena), call.size, call.align)

\* Fault: the retained block is never made the active one.
AdvanceForgotten ==
  /\ Overflows
  /\ active[call.arena] < Len(blocks[call.arena])
  /\ UNCHANGED vars

(* grow_to_fit, when a retained block follows the active one.              *)
Advance ==
  /\ Overflows
  /\ active[call.arena] < Len(blocks[call.arena])
  /\ active' = [active EXCEPT ![call.arena] = @ + 1]
  /\ block' = [block EXCEPT ![blocks[call.arena][active[call.arena] + 1]].offset = 0]
  /\ UNCHANGED <<heap, built, blocks, used, policy, call, views>>

(* grow_to_fit, when the active block is the last one: append a block.     *)
Grow(h) ==
  /\ Overflows
  /\ active[call.arena] = Len(blocks[call.arena])
  /\ heap[h] = "free"
  /\ LET x == call.arena
     IN /\ MakeBlock(h, policy[x], NewSize(x, call.size, call.align),
                     MaxOf(DefaultAlignment, call.align))
        /\ blocks' = [blocks EXCEPT ![x] = Append(@, h)]
        /\ active' = [active EXCEPT ![x] = @ + 1]
  /\ call' = [call EXCEPT !.grown = TRUE]
  /\ UNCHANGED <<built, used, policy, views>>

(* make_block throws bad_alloc: the call ends with the arena as it stood,  *)
(* the blocks it advanced over included.                                   *)
GrowFails ==
  /\ Overflows
  /\ active[call.arena] = Len(blocks[call.arena])
  /\ call' = Idle
  /\ UNCHANGED <<heap, block, built, blocks, active, used, policy, views>>

\* Fault: only the active block is rewound.
ResetActiveBlockOnly(x) ==
  /\ call = Idle
  /\ x \in built
  /\ block' = [h \in HeapBlocks |->
                 IF blocks[x] # <<>> /\ h = ActiveBlock(x)
                 THEN [block[h] EXCEPT !.offset = 0] ELSE block[h]]
  /\ active' = [active EXCEPT ![x] = 1]
  /\ used' = [used EXCEPT ![x] = 0]
  /\ views' = {v \in views : v.id \notin Held(x)}
  /\ UNCHANGED <<heap, built, blocks, policy, call>>

(* reset: every block rewinds and is retained.  A poisoning build first    *)
(* overwrites each block up to its offset; HandedOutExtent says that is    *)
(* every byte handed out.                                                  *)
Reset(x) ==
  /\ call = Idle
  /\ x \in built
  /\ block' = [h \in HeapBlocks |->
                 IF h \in Held(x) THEN [block[h] EXCEPT !.offset = 0] ELSE block[h]]
  /\ active' = [active EXCEPT ![x] = 1]
  /\ used' = [used EXCEPT ![x] = 0]
  /\ views' = {v \in views : v.id \notin Held(x)}
  /\ UNCHANGED <<heap, built, blocks, policy, call>>

AllocatorStep == Bump \/ Advance \/ (\E h \in HeapBlocks : Grow(h)) \/ GrowFails

Next ==
  \/ \E x \in Arenas, n \in InitialSizes, p \in BOOLEAN, h \in HeapBlocks : Construct(x, n, p, h)
  \/ \E x \in Arenas : Destroy(x) \/ Reset(x)
  \/ \E dst, src \in Arenas : MoveConstruct(dst, src) \/ MoveAssign(dst, src)
  \/ \E x \in Arenas, s \in Sizes, a \in Alignments : Allocate(x, s, a)
  \/ Bump
  \/ Advance
  \/ \E h \in HeapBlocks : Grow(h)
  \/ GrowFails

Spec == Init /\ [][Next]_vars

(* One thread runs the allocate loop and nothing suspends it.              *)
FairSpec == Spec /\ WF_vars(AllocatorStep)

----------------------------------------------------------------------------
(* Safety: what every view borrowed from the arena relies on.              *)

(* Each live view lies in allocated memory, below its block's offset: the  *)
(* bump never walks past it, and the extent reset poisons covers it        *)
(* ("offset still holds the handed-out extent", arena_allocator.cpp:244).  *)
HandedOutExtent ==
  \A v \in views :
    /\ heap[v.id] # "free"
    /\ v.start + v.size <= block[v.id].offset
    /\ block[v.id].offset <= block[v.id].size

(* No two live views share a byte, whatever resets, moves and growths lie  *)
(* between the two allocations.                                            *)
ViewsDisjoint ==
  \A v, w \in views :
    \/ v = w
    \/ v.id # w.id
    \/ v.start + v.size <= w.start
    \/ w.start + w.size <= v.start

(* Every returned address is a multiple of the alignment asked for, in     *)
(* blocks made for a smaller one too.                                      *)
ViewsAligned == \A v \in views : (block[v.id].base + v.start) % v.align = 0

(* Ownership: each piece of allocated memory is held by exactly one arena  *)
(* at one place of its vector, nothing leaks, and the deallocator a piece  *)
(* goes back to is the allocator it came from.                             *)
BlocksOwnedOnce ==
  /\ \A h \in HeapBlocks :
       /\ heap[h] # "corrupt"
       /\ heap[h] # "free" <=> \E x \in built : h \in Held(x)
  /\ \A x, y \in Arenas : \A i \in DOMAIN blocks[x], j \in DOMAIN blocks[y] :
       blocks[x][i] = blocks[y][j] => x = y /\ i = j

(* The blocks after the active one are empty, so re-entering a retained    *)
(* block never rewinds over live views.                                    *)
TailRewound ==
  \A x \in built : \A i \in DOMAIN blocks[x] :
    i > active[x] => block[blocks[x][i]].offset = 0

(* A call that appended a block fits in it: it never appends two, so the   *)
(* arena takes at most one block from the system per allocate.             *)
GrowsAtMostOnce == call.in /\ call.grown => ~Overflows

(* Liveness: every allocate call returns or throws.                        *)
CallsReturn == call.in ~> call = Idle
============================================================================
