-------------------------------- MODULE Heap --------------------------------
(***************************************************************************)
(* The kernel heap, kernel/src/x86_64/heap.c, one step per iteration of    *)
(* its loops.  Addresses and sizes are in a common unit; the code's Hdr is *)
(* 24 bytes and its Align 16 (3 and 2 words).  size_t wraps at SizeMod.    *)
(*                                                                         *)
(* hdr is the memory that holds the block headers: its domain is the set   *)
(* of addresses on the chain, and a header an absorbed block leaves behind *)
(* is dropped, since no walk can reach it.  The model starts where         *)
(* aurelion_heap_init has returned: kernel_main calls it before any other. *)
(***************************************************************************)
EXTENDS Integers

CONSTANTS HeapStart, HeapEnd,   \* the arena given to aurelion_heap_init
          Hdr,                  \* HEAP_HEADER_SIZE
          Align,                \* HEAP_ALIGN
          SizeMod,              \* number of values of size_t
          Sizes                 \* request sizes of callers

NULL == 0
Capacity == HeapEnd - HeapStart - Hdr

ASSUME HeapAssumption ==
  /\ HeapStart \in Nat \ {0}
  /\ HeapEnd \in Nat /\ SizeMod \in Nat
  /\ Hdr \in Nat \ {0} /\ Align \in Nat \ {0}
  /\ HeapStart + Hdr <= HeapEnd
  /\ HeapEnd < SizeMod
  /\ Sizes \subseteq Nat \ {0}
  /\ \A n \in Sizes : n + Align <= SizeMod   \* rounding does not wrap

VARIABLES hdr,          \* block headers: address |-> [size, is_free, next]
          heap_used,
          pc,           \* which loop runs: "search", "coalesce", or "idle"
          current,      \* the loop's cursor
          req, size,    \* the size asked for, and rounded up
          ret,          \* result of the latest aurelion_heap_alloc
          answered,     \* history: the size asked for that ret answers
          live          \* history: pointer |-> size asked for

vars == <<hdr, heap_used, pc, current, req, size, ret, answered, live>>

Blocks == DOMAIN hdr
BlockEnd(a) == a + Hdr + hdr[a].size

\* heap_align_up, in size_t.
AlignUp(n) == LET x == (n + Align - 1) % SizeMod IN x - (x % Align)

Init ==
  /\ hdr = [a \in {HeapStart} |->
              [size |-> HeapEnd - HeapStart - Hdr, is_free |-> TRUE, next |-> NULL]]
  /\ heap_used = 0
  /\ pc = "idle" /\ current = NULL
  /\ req = 0 /\ size = 0 /\ ret = NULL /\ answered = 0
  /\ live = [p \in {} |-> 0]

\* A call returns, and its locals are gone.
Leave == pc' = "idle" /\ current' = NULL /\ req' = 0 /\ size' = 0

\* aurelion_heap_alloc(n): a request for nothing returns at once ...
AllocZero ==
  /\ pc = "idle"
  /\ ret' = NULL
  /\ answered' = 0
  /\ UNCHANGED <<hdr, heap_used, pc, current, req, size, live>>

\* A plausible bug: the search begun behind the first block.
AllocCallSkipsFirst(n) ==
  /\ pc = "idle"
  /\ pc' = "search"
  /\ req' = n
  /\ size' = AlignUp(n)
  /\ current' = hdr[HeapStart].next
  /\ UNCHANGED <<hdr, heap_used, ret, answered, live>>

\* ... any other starts the first-fit search at heap_first.
AllocCall(n) ==
  /\ pc = "idle"
  /\ pc' = "search"
  /\ req' = n
  /\ size' = AlignUp(n)
  /\ current' = HeapStart
  /\ UNCHANGED <<hdr, heap_used, ret, answered, live>>

Fits(a) == hdr[a].is_free /\ hdr[a].size >= size

SearchNext ==
  /\ pc = "search" /\ current # NULL
  /\ ~Fits(current)
  /\ current' = hdr[current].next
  /\ UNCHANGED <<hdr, heap_used, pc, req, size, ret, answered, live>>

SearchFails ==
  /\ pc = "search" /\ current = NULL
  /\ ret' = NULL
  /\ answered' = req
  /\ Leave
  /\ UNCHANGED <<hdr, heap_used, live>>

\* Is what the request leaves of block a enough for a block of its own?
Splits(a) == hdr[a].size >= size + Hdr + Align

\* A plausible bug: the rest of a split block left out of the chain.
SplitLosesNext(a) ==
  LET new == a + Hdr + size
  IN  [b \in Blocks \cup {new} |->
         CASE b = new -> [size |-> hdr[a].size - size - Hdr, is_free |-> TRUE,
                          next |-> NULL]
           [] b = a   -> [size |-> size, is_free |-> FALSE, next |-> new]
           [] OTHER   -> hdr[b]]

\* The headers once block a has been cut after the request ...
Split(a) ==
  LET new == a + Hdr + size
  IN  [b \in Blocks \cup {new} |->
         CASE b = new -> [size |-> hdr[a].size - size - Hdr, is_free |-> TRUE,
                          next |-> hdr[a].next]
           [] b = a   -> [size |-> size, is_free |-> FALSE, next |-> new]
           [] OTHER   -> hdr[b]]

\* A plausible bug: is_free cleared only where a block is split.
TakeWholeUnmarked(a) == hdr

\* ... and once it has been taken whole.
TakeWhole(a) == [hdr EXCEPT ![a].is_free = FALSE]

Take ==
  /\ pc = "search" /\ current # NULL
  /\ Fits(current)
  /\ hdr' = IF Splits(current) THEN Split(current) ELSE TakeWhole(current)
  /\ heap_used' = (heap_used + size) % SizeMod
  /\ ret' = current + Hdr
  /\ answered' = req
  /\ live' = [q \in DOMAIN live \cup {current + Hdr} |->
                IF q = current + Hdr THEN req ELSE live[q]]
  /\ Leave

\* aurelion_heap_free(ptr): mark the block, account, start to coalesce.
FreeCall(ptr) ==
  /\ pc = "idle"
  /\ hdr' = [hdr EXCEPT ![ptr - Hdr].is_free = TRUE]
  /\ heap_used' = (heap_used + SizeMod - hdr[ptr - Hdr].size) % SizeMod
  /\ live' = [q \in DOMAIN live \ {ptr} |-> live[q]]
  /\ pc' = "coalesce"
  /\ current' = HeapStart
  /\ UNCHANGED <<req, size, ret, answered>>

Mergeable(a) ==
  /\ hdr[a].next # NULL
  /\ hdr[a].is_free
  /\ hdr[hdr[a].next].is_free

\* A plausible bug: the header of the absorbed block not regained.
AbsorbSansHeader(a) ==
  LET n == hdr[a].next
  IN  [b \in Blocks \ {n} |->
         IF b = a THEN [size |-> hdr[a].size + hdr[n].size,
                        is_free |-> TRUE, next |-> hdr[n].next]
                  ELSE hdr[b]]

\* The headers once block a has absorbed the one after it.
Absorb(a) ==
  LET n == hdr[a].next
  IN  [b \in Blocks \ {n} |->
         IF b = a THEN [size |-> hdr[a].size + Hdr + hdr[n].size,
                        is_free |-> TRUE, next |-> hdr[n].next]
                  ELSE hdr[b]]

\* The cursor stays, to merge a run of free blocks into its first.
CoalesceMerge ==
  /\ pc = "coalesce"
  /\ Mergeable(current)
  /\ hdr' = Absorb(current)
  /\ UNCHANGED <<heap_used, pc, current, req, size, ret, answered, live>>

\* A plausible bug: the cursor left where it is.
CoalesceNextStuck ==
  /\ pc = "coalesce"
  /\ hdr[current].next # NULL
  /\ ~Mergeable(current)
  /\ UNCHANGED vars

CoalesceNext ==
  /\ pc = "coalesce"
  /\ hdr[current].next # NULL
  /\ ~Mergeable(current)
  /\ current' = hdr[current].next
  /\ UNCHANGED <<hdr, heap_used, pc, req, size, ret, answered, live>>

CoalesceDone ==
  /\ pc = "coalesce"
  /\ hdr[current].next = NULL
  /\ Leave
  /\ UNCHANGED <<hdr, heap_used, ret, answered, live>>

\* The steps of a call that has begun, and all steps.
Step == \/ SearchNext \/ SearchFails \/ Take
        \/ CoalesceMerge \/ CoalesceNext \/ CoalesceDone

Next == \/ AllocZero
        \/ \E n \in Sizes : AllocCall(n)
        \/ \E ptr \in DOMAIN live : FreeCall(ptr)
        \/ Step

Spec == Init /\ [][Next]_vars
FairSpec == Spec /\ WF_vars(Step)
-----------------------------------------------------------------------------
TypeOK ==
  /\ hdr \in [Blocks -> [size : Nat, is_free : BOOLEAN, next : Nat]]
  /\ Blocks \subseteq Nat
  /\ heap_used \in Nat
  /\ pc \in {"idle", "search", "coalesce"}
  /\ current \in Nat /\ ret \in Nat
  /\ req \in Nat /\ size \in Nat /\ answered \in Nat
  /\ live \in [DOMAIN live -> Nat]

\* The chain tiles the arena: each block ends where the next begins, the last
\* at the end of the arena, and no two blocks overlap.  A split or a merge
\* that measures a header wrongly leaves a gap or an overlap.
Tiled ==
  /\ HeapStart \in Blocks
  /\ \A a \in Blocks :
       /\ HeapStart <= a /\ BlockEnd(a) <= HeapEnd
       /\ IF hdr[a].next = NULL THEN BlockEnd(a) = HeapEnd
          ELSE hdr[a].next \in Blocks /\ hdr[a].next = BlockEnd(a)
       /\ \A b \in Blocks : a < b => BlockEnd(a) <= b

\* What callers hold are exactly the blocks not marked free, and each block is
\* long enough for what was asked.  With Tiled: no two callers' ranges meet,
\* and none meets a header.
LiveExact ==
  /\ DOMAIN live = {a + Hdr : a \in {b \in Blocks : ~hdr[b].is_free}}
  /\ \A p \in DOMAIN live : live[p] <= hdr[p - Hdr].size

\* Between calls no two neighbouring blocks are free: one pass of the
\* coalescing loop merges every run, wherever the freed block was.
NoAdjacentFree ==
  pc # "coalesce" => \A a \in Blocks : ~Mergeable(a)

\* The heap is sound at every iteration of its loops: chain, owners and merging.
Inv == TypeOK /\ Tiled /\ LiveExact /\ NoAdjacentFree

\* When everything has been returned the arena is one free block again: no
\* history of calls fragments it for good.
FullRecovery ==
  pc = "idle" /\ DOMAIN live = {} =>
    /\ Blocks = {HeapStart}
    /\ hdr[HeapStart] = [size |-> Capacity, is_free |-> TRUE, next |-> NULL]

\* A request is refused only when no free block is large enough for it.
RefusalHonest ==
  [][pc = "search" /\ pc' = "idle" /\ ret' = NULL =>
       \A a \in Blocks : ~Fits(a)]_vars

\* Every call returns: neither loop runs round the chain for ever.
CallReturns == pc # "idle" ~> pc = "idle"

\* The heap implements the abstract allocator; a request takes effect when its
\* search ends.
Abstract == INSTANCE HeapSpec WITH Slack <- Align, asked <- answered, out <- ret
Implements == Abstract!Spec
=============================================================================
