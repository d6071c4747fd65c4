----------------------------- MODULE HeapProofs -----------------------------
(***************************************************************************)
(* Proofs about the kernel heap, for every arena, header size, alignment   *)
(* and set of request sizes.                                               *)
(***************************************************************************)
EXTENDS Heap, TLAPS

\* The search has passed over no block that fits; it asks for at least what
\* the caller did, and for less than Align more.
SearchInv ==
  pc = "search" =>
    /\ req \in Sizes /\ req <= size /\ size < req + Align
    /\ current # NULL => current \in Blocks
    /\ \A a \in Blocks : current = NULL \/ a < current => ~Fits(a)

\* The coalescing pass has left no pair to merge behind its cursor.
CoalesceInv ==
  pc = "coalesce" =>
    /\ current \in Blocks
    /\ \A a \in Blocks : a < current => ~Mergeable(a)

\* The inductive invariant.
IInv == /\ TypeOK /\ Tiled /\ LiveExact /\ NoAdjacentFree
        /\ SearchInv /\ CoalesceInv

Header == [size : Nat, is_free : BOOLEAN, next : Nat]

\* Rounding up adds less than Align.
LEMMA AlignUpBounds ==
  ASSUME HeapAssumption, NEW n \in Sizes
  PROVE  AlignUp(n) \in Nat /\ n <= AlignUp(n) /\ AlignUp(n) < n + Align
<1> DEFINE x == n + Align - 1
<1>1. n \in Nat \ {0} /\ Align \in Nat \ {0} /\ SizeMod \in Nat /\ n + Align <= SizeMod
  BY DEF HeapAssumption
<1>2. x \in Nat /\ x < SizeMod
  BY <1>1
<1>3. x % SizeMod = x
  BY <1>2, <1>1
<1>4. x % Align \in 0 .. Align - 1
  BY <1>1, <1>2
<1>5. AlignUp(n) = x - (x % Align)
  BY <1>3 DEF AlignUp
<1> QED
  BY <1>1, <1>4, <1>5

\* What splitting block a does to the headers.
LEMMA SplitEffect ==
  ASSUME HeapAssumption, TypeOK, Tiled, NEW a \in Blocks, Fits(a), Splits(a),
         hdr' = Split(a)
  PROVE  LET new == a + Hdr + size
         IN  /\ new \in Nat /\ a < new /\ new < BlockEnd(a) /\ new \notin Blocks
             /\ Blocks' = Blocks \cup {new}
             /\ hdr'[a] = [size |-> size, is_free |-> FALSE, next |-> new]
             /\ hdr'[new] = [size |-> hdr[a].size - size - Hdr, is_free |-> TRUE,
                             next |-> hdr[a].next]
             /\ hdr[a].size - size - Hdr \in Nat
             /\ \A b \in Blocks \ {a} : hdr'[b] = hdr[b]
             /\ hdr' \in [Blocks' -> Header]
<1> DEFINE new == a + Hdr + size
<1>1. /\ a \in Nat /\ hdr[a] \in Header /\ size \in Nat
      /\ Hdr \in Nat \ {0} /\ Align \in Nat \ {0}
  BY DEF TypeOK, HeapAssumption, Header
<1>2. hdr[a].size \in Nat /\ hdr[a].next \in Nat /\ hdr[a].size >= size + Hdr + Align
  BY <1>1 DEF Header, Splits
<1>3. hdr[a].size - size - Hdr \in Nat
  BY <1>1, <1>2
<1>4. new \in Nat /\ a < new /\ new < BlockEnd(a)
  BY <1>1, <1>2 DEF BlockEnd
<1>5. new \notin Blocks
  <2>1. SUFFICES ASSUME new \in Blocks PROVE FALSE
    OBVIOUS
  <2>2. BlockEnd(a) <= new
    BY <2>1, <1>4 DEF Tiled
  <2> QED
    BY <1>1, <1>2, <1>4, <2>2 DEF BlockEnd
<1>6. Blocks' = Blocks \cup {new}
  BY DEF Split, Blocks
<1>7. /\ hdr'[a] = [size |-> size, is_free |-> FALSE, next |-> new]
      /\ hdr'[new] = [size |-> hdr[a].size - size - Hdr, is_free |-> TRUE,
                      next |-> hdr[a].next]
      /\ \A b \in Blocks \ {a} : hdr'[b] = hdr[b]
  BY <1>5 DEF Split
<1>8. hdr' \in [Blocks' -> Header]
  <2>1. hdr' = [b \in Blocks' |-> hdr'[b]]
    BY <1>6 DEF Split
  <2>2. \A b \in Blocks : hdr[b] \in Header
    BY DEF TypeOK, Header
  <2>3. hdr'[a] \in Header /\ hdr'[new] \in Header
    BY <1>1, <1>2, <1>3, <1>4, <1>7 DEF Header
  <2>4. \A b \in Blocks' : hdr'[b] \in Header
    BY <1>6, <1>7, <2>2, <2>3
  <2> QED
    BY <2>1, <2>4
<1> QED
  BY <1>3, <1>4, <1>5, <1>6, <1>7, <1>8

\* What merging block a with the one after it does to the headers.
LEMMA AbsorbEffect ==
  ASSUME HeapAssumption, TypeOK, Tiled, NEW a \in Blocks, Mergeable(a),
         hdr' = Absorb(a)
  PROVE  LET n == hdr[a].next
         IN  /\ n \in Blocks /\ n = BlockEnd(a) /\ a < n
             /\ Blocks' = Blocks \ {n}
             /\ hdr'[a] = [size |-> hdr[a].size + Hdr + hdr[n].size,
                           is_free |-> TRUE, next |-> hdr[n].next]
             /\ \A b \in Blocks \ {a, n} : hdr'[b] = hdr[b]
             /\ hdr' \in [Blocks' -> Header]
<1> DEFINE n == hdr[a].next
<1>1. n \in Blocks /\ n = BlockEnd(a)
  BY DEF Tiled, Mergeable
<1>2. /\ a \in Nat /\ n \in Nat /\ Hdr \in Nat \ {0}
      /\ hdr[a] \in Header /\ hdr[n] \in Header
  BY <1>1 DEF TypeOK, HeapAssumption, Header
<1>3. a < n
  BY <1>1, <1>2 DEF BlockEnd, Header
<1>4. Blocks' = Blocks \ {n}
  BY DEF Absorb, Blocks
<1>5. /\ hdr'[a] = [size |-> hdr[a].size + Hdr + hdr[n].size,
                    is_free |-> TRUE, next |-> hdr[n].next]
      /\ \A b \in Blocks \ {a, n} : hdr'[b] = hdr[b]
  BY <1>2, <1>3 DEF Absorb
<1>6. hdr' \in [Blocks' -> Header]
  <2>1. hdr' = [b \in Blocks' |-> hdr'[b]]
    BY <1>4 DEF Absorb
  <2>2. \A b \in Blocks : hdr[b] \in Header
    BY DEF TypeOK, Header
  <2>3. hdr'[a] \in Header
    BY <1>2, <1>5 DEF Header
  <2>4. \A b \in Blocks' : hdr'[b] \in Header
    BY <1>4, <1>5, <2>2, <2>3
  <2> QED
    BY <2>1, <2>4
<1> QED
  BY <1>1, <1>3, <1>4, <1>5, <1>6

\* A split block and its remainder tile what the block did.
LEMMA SplitTiled ==
  ASSUME HeapAssumption, TypeOK, Tiled, NEW a \in Blocks, Fits(a), Splits(a),
         hdr' = Split(a)
  PROVE  Tiled'
<1>0. PICK new : new = a + Hdr + size
  OBVIOUS
<1>1. /\ new \in Nat /\ a < new /\ new < BlockEnd(a) /\ new \notin Blocks
      /\ Blocks' = Blocks \cup {new}
      /\ hdr'[a] = [size |-> size, is_free |-> FALSE, next |-> new]
      /\ hdr'[new] = [size |-> hdr[a].size - size - Hdr, is_free |-> TRUE,
                      next |-> hdr[a].next]
      /\ hdr[a].size - size - Hdr \in Nat
      /\ \A b \in Blocks \ {a} : hdr'[b] = hdr[b]
  BY <1>0, SplitEffect
<1>2. /\ \A b \in Blocks : b \in Nat /\ hdr[b] \in Header
      /\ size \in Nat /\ Hdr \in Nat \ {0} /\ HeapStart \in Nat \ {0} /\ HeapEnd \in Nat
  BY DEF TypeOK, HeapAssumption, Header
<1>3. BlockEnd(a)' = new /\ BlockEnd(new)' = BlockEnd(a)
  BY <1>0, <1>1, <1>2 DEF BlockEnd, Header
<1>4. \A b \in Blocks \ {a} : BlockEnd(b)' = BlockEnd(b)
  BY <1>1 DEF BlockEnd
<1>5. \A b \in Blocks : BlockEnd(b) \in Nat
  BY <1>2 DEF BlockEnd, Header
<1>6. \A b \in Blocks' : HeapStart <= b /\ BlockEnd(b)' <= HeapEnd
  <2>1. \A b \in Blocks : HeapStart <= b /\ BlockEnd(b) <= HeapEnd
    BY DEF Tiled
  <2>2. \A b \in Blocks \ {a} : HeapStart <= b /\ BlockEnd(b)' <= HeapEnd
    BY <1>4, <2>1
  <2>3. HeapStart <= a /\ BlockEnd(a) <= HeapEnd
    BY <2>1
  <2>4. HeapStart <= new /\ BlockEnd(new)' <= HeapEnd /\ BlockEnd(a)' <= HeapEnd
    BY <1>1, <1>2, <1>3, <1>5, <2>3
  <2> QED
    BY <1>1, <2>2, <2>3, <2>4
<1>7. \A b \in Blocks' : IF hdr'[b].next = NULL THEN BlockEnd(b)' = HeapEnd
                         ELSE hdr'[b].next \in Blocks' /\ hdr'[b].next = BlockEnd(b)'
  <2>1. new # NULL
    BY <1>1, <1>2 DEF NULL
  <2>2. IF hdr'[a].next = NULL THEN BlockEnd(a)' = HeapEnd
        ELSE hdr'[a].next \in Blocks' /\ hdr'[a].next = BlockEnd(a)'
    BY <1>1, <1>3, <2>1
  <2>3. IF hdr'[new].next = NULL THEN BlockEnd(new)' = HeapEnd
        ELSE hdr'[new].next \in Blocks' /\ hdr'[new].next = BlockEnd(new)'
    BY <1>1, <1>3 DEF Tiled
  <2>4. \A b \in Blocks \ {a} :
          IF hdr'[b].next = NULL THEN BlockEnd(b)' = HeapEnd
          ELSE hdr'[b].next \in Blocks' /\ hdr'[b].next = BlockEnd(b)'
    BY <1>1, <1>4 DEF Tiled
  <2> QED
    BY <1>1, <2>2, <2>3, <2>4
<1>8. \A b, c \in Blocks' : b < c => BlockEnd(b)' <= c
  <2>1. \A b, c \in Blocks : b < c => BlockEnd(b) <= c
    BY DEF Tiled
  <2>2. \A b \in Blocks' : b = new \/ b = a \/ b \in Blocks \ {a}
    BY <1>1
  <2>3. SUFFICES ASSUME NEW b \in Blocks', NEW c \in Blocks', b < c
                 PROVE  BlockEnd(b)' <= c
    OBVIOUS
  <2>4. CASE b = new
    <3>1. c \in Blocks /\ c # a
      BY <1>1, <1>2, <2>3, <2>4
    <3>2. a < c
      BY <1>1, <1>2, <2>3, <2>4, <3>1
    <3> QED
      BY <1>3, <2>1, <2>4, <3>1, <3>2
  <2>5. CASE b = a
    <3>1. CASE c = new
      BY <1>1, <1>3, <2>5, <3>1
    <3>2. CASE c \in Blocks
      <4>1. BlockEnd(a) <= c
        BY <2>1, <2>3, <2>5, <3>2
      <4> QED
        BY <1>1, <1>2, <1>3, <1>5, <2>5, <3>2, <4>1
    <3> QED
      BY <1>1, <3>1, <3>2
  <2>6. CASE b \in Blocks \ {a}
    <3>1. CASE c = new
      <4>1. b < a
        <5>1. b \in Nat /\ a \in Nat /\ (a < b => BlockEnd(a) <= b)
          BY <1>2, <2>1, <2>6
        <5> QED
          BY <1>1, <1>5, <2>3, <2>6, <3>1, <5>1
      <4>2. BlockEnd(b) <= a
        BY <2>1, <2>6, <4>1
      <4> QED
        BY <1>1, <1>2, <1>4, <1>5, <2>6, <3>1, <4>2
    <3>2. CASE c \in Blocks
      BY <1>4, <2>1, <2>3, <2>6, <3>2
    <3> QED
      BY <1>1, <3>1, <3>2
  <2> QED
    BY <2>2, <2>4, <2>5, <2>6
<1>9. HeapStart \in Blocks'
  BY <1>1 DEF Tiled
<1> QED
  BY <1>6, <1>7, <1>8, <1>9 DEF Tiled

\* A merged block tiles what the two did.
LEMMA AbsorbTiled ==
  ASSUME HeapAssumption, TypeOK, Tiled, NEW a \in Blocks, Mergeable(a),
         hdr' = Absorb(a)
  PROVE  Tiled' /\ BlockEnd(a)' = BlockEnd(hdr[a].next)
<1> DEFINE n == hdr[a].next
<1>1. /\ n \in Blocks /\ n = BlockEnd(a) /\ a < n
      /\ Blocks' = Blocks \ {n}
      /\ hdr'[a] = [size |-> hdr[a].size + Hdr + hdr[n].size,
                    is_free |-> TRUE, next |-> hdr[n].next]
      /\ \A b \in Blocks \ {a, n} : hdr'[b] = hdr[b]
  BY AbsorbEffect
<1>2. /\ \A b \in Blocks : b \in Nat /\ hdr[b] \in Header
      /\ Hdr \in Nat \ {0} /\ HeapStart \in Nat \ {0} /\ HeapEnd \in Nat
  BY DEF TypeOK, HeapAssumption, Header
<1>3. BlockEnd(a)' = BlockEnd(n)
  BY <1>1, <1>2 DEF BlockEnd, Header
<1>4. \A b \in Blocks \ {a, n} : BlockEnd(b)' = BlockEnd(b)
  BY <1>1 DEF BlockEnd
<1>5. \A b \in Blocks : BlockEnd(b) \in Nat
  BY <1>2 DEF BlockEnd, Header
<1>6. \A b, c \in Blocks : b < c => BlockEnd(b) <= c
  BY DEF Tiled
<1>7. \A b \in Blocks : hdr[b].next # NULL => hdr[b].next = BlockEnd(b) /\ hdr[b].next \in Blocks
  BY DEF Tiled
<1>8. \A b \in Blocks \ {a} : BlockEnd(b) # n
  <2>1. SUFFICES ASSUME NEW b \in Blocks \ {a}, BlockEnd(b) = n PROVE FALSE
    OBVIOUS
  <2>2. BlockEnd(b) > b /\ BlockEnd(a) > a
    BY <1>2 DEF BlockEnd, Header
  <2>3. b < a => BlockEnd(b) <= a
    BY <1>6
  <2>4. a < b => BlockEnd(a) <= b
    BY <1>6
  <2> QED
    BY <1>1, <1>2, <1>5, <2>1, <2>2, <2>3, <2>4
<1>9. \A b \in Blocks' : HeapStart <= b /\ BlockEnd(b)' <= HeapEnd
  <2>1. \A b \in Blocks : HeapStart <= b /\ BlockEnd(b) <= HeapEnd
    BY DEF Tiled
  <2> SUFFICES ASSUME NEW b \in Blocks' PROVE HeapStart <= b /\ BlockEnd(b)' <= HeapEnd
    OBVIOUS
  <2>2. b \in Blocks /\ (BlockEnd(b)' = BlockEnd(b) \/ BlockEnd(b)' = BlockEnd(n))
    BY <1>1, <1>3, <1>4
  <2> HIDE DEF n
  <2> QED
    BY <1>1, <2>1, <2>2
<1>10. \A b \in Blocks' : IF hdr'[b].next = NULL THEN BlockEnd(b)' = HeapEnd
                          ELSE hdr'[b].next \in Blocks' /\ hdr'[b].next = BlockEnd(b)'
  <2>1. ASSUME NEW b \in Blocks', b # a
        PROVE  IF hdr'[b].next = NULL THEN BlockEnd(b)' = HeapEnd
               ELSE hdr'[b].next \in Blocks' /\ hdr'[b].next = BlockEnd(b)'
    <3>1. b \in Blocks \ {a, n} /\ hdr'[b] = hdr[b] /\ BlockEnd(b)' = BlockEnd(b)
      BY <1>1, <1>4, <2>1
    <3>2. CASE hdr[b].next = NULL
      BY <3>1, <3>2 DEF Tiled
    <3>3. CASE hdr[b].next # NULL
      BY <1>1, <1>7, <1>8, <3>1, <3>3
    <3> QED
      BY <3>2, <3>3
  <2>2. IF hdr'[a].next = NULL THEN BlockEnd(a)' = HeapEnd
        ELSE hdr'[a].next \in Blocks' /\ hdr'[a].next = BlockEnd(a)'
    <3>1. CASE hdr[n].next = NULL
      <4>1. BlockEnd(n) = HeapEnd
        BY <1>1, <3>1 DEF Tiled
      <4>2. hdr'[a].next = NULL
        BY <1>1, <3>1
      <4> QED
        BY <1>3, <4>1, <4>2
    <3>2. CASE hdr[n].next # NULL
      <4>1. hdr[n].next = BlockEnd(n) /\ hdr[n].next \in Blocks
        BY <1>1, <1>7, <3>2
      <4>2. hdr[n].next # n
        BY <1>1, <1>2, <4>1 DEF BlockEnd, Header
      <4> QED
        BY <1>1, <1>3, <3>2, <4>1, <4>2
    <3> QED
      BY <3>1, <3>2
  <2> QED
    BY <2>1, <2>2
<1>11. \A b, c \in Blocks' : b < c => BlockEnd(b)' <= c
  <2>1. SUFFICES ASSUME NEW b \in Blocks', NEW c \in Blocks', b < c
                 PROVE  BlockEnd(b)' <= c
    OBVIOUS
  <2>2. CASE b # a
    BY <1>1, <1>4, <1>6, <2>1, <2>2
  <2>3. CASE b = a
    <3>1. c \in Blocks /\ c # n /\ BlockEnd(a) <= c
      BY <1>1, <1>6, <2>1, <2>3
    <3>2. n < c
      BY <1>1, <1>2, <3>1
    <3> QED
      BY <1>1, <1>3, <1>6, <2>3, <3>1, <3>2
  <2> QED
    BY <2>2, <2>3
<1>12. HeapStart \in Blocks'
  <2>1. HeapStart # n
    BY <1>1, <1>2 DEF Tiled
  <2> QED
    BY <1>1, <2>1 DEF Tiled
<1> QED
  BY <1>3, <1>9, <1>10, <1>11, <1>12 DEF Tiled

\* A remainder by a positive number is a natural.
LEMMA ModNat == \A x \in Int, m \in Nat \ {0} : x % m \in Nat
  OBVIOUS

\* Nothing lies between a block and the next on the chain, nor behind the last.
LEMMA NextIsNext ==
  ASSUME HeapAssumption, TypeOK, Tiled, NEW a \in Blocks, NEW b \in Blocks,
         hdr[a].next = NULL \/ b < hdr[a].next
  PROVE  b <= a
<1>1. /\ a \in Nat /\ b \in Nat /\ hdr[b].size \in Nat /\ hdr[a].size \in Nat
      /\ Hdr \in Nat \ {0} /\ HeapEnd \in Nat
  BY DEF TypeOK, HeapAssumption
<1>2. SUFFICES ASSUME a < b PROVE FALSE
  BY <1>1
<1>3. BlockEnd(a) <= b /\ BlockEnd(b) <= HeapEnd
  BY <1>2 DEF Tiled
<1>4. CASE hdr[a].next = NULL
  <2>1. BlockEnd(a) = HeapEnd
    BY <1>4 DEF Tiled
  <2> QED
    BY <1>1, <1>3, <2>1 DEF BlockEnd
<1>5. CASE hdr[a].next # NULL
  <2>1. hdr[a].next = BlockEnd(a)
    BY <1>5 DEF Tiled
  <2> QED
    BY <1>1, <1>3, <1>5, <2>1 DEF BlockEnd
<1> QED
  BY <1>4, <1>5

\* A pointer a caller holds stands for a block that is not free.
LEMMA LiveBlock ==
  ASSUME HeapAssumption, TypeOK, LiveExact, NEW p \in DOMAIN live
  PROVE  \E a \in Blocks : p = a + Hdr /\ p - Hdr = a /\ ~hdr[a].is_free
  BY DEF LiveExact, TypeOK, HeapAssumption

\* What may change without any effect on the tiling: the free marks.
LEMMA TiledFrame ==
  ASSUME Tiled, Blocks' = Blocks,
         \A b \in Blocks : hdr'[b].size = hdr[b].size /\ hdr'[b].next = hdr[b].next
  PROVE  Tiled'
  BY DEF Tiled, BlockEnd

\* Granting block a keeps the callers' pointers exact.
LEMMA GrantLive ==
  ASSUME HeapAssumption, TypeOK, LiveExact, NEW a \in Blocks, hdr[a].is_free,
         Blocks \subseteq Blocks', Blocks' \subseteq Nat,
         \A b \in Blocks' \ Blocks : hdr'[b].is_free,
         \A b \in Blocks \ {a} : hdr'[b] = hdr[b],
         ~hdr'[a].is_free, req <= hdr'[a].size,
         live' = [q \in DOMAIN live \cup {a + Hdr} |->
                    IF q = a + Hdr THEN req ELSE live[q]]
  PROVE  LiveExact' /\ live' \in [DOMAIN live' -> Nat]
<1>1. Hdr \in Nat /\ Blocks \subseteq Nat /\ req \in Nat
  BY DEF HeapAssumption, TypeOK
<1>2. {b \in Blocks' : ~hdr'[b].is_free} = {b \in Blocks : ~hdr[b].is_free} \cup {a}
  <2>1. ASSUME NEW b \in Blocks'
        PROVE  ~hdr'[b].is_free <=> b = a \/ (b \in Blocks /\ ~hdr[b].is_free)
    <3>1. CASE b \in Blocks \ {a}
      BY <3>1
    <3>2. CASE b = a
      BY <3>2
    <3>3. CASE b \in Blocks' \ Blocks
      BY <3>3
    <3> QED
      BY <2>1, <3>1, <3>2, <3>3
  <2> QED
    BY <2>1
<1>3. DOMAIN live' = {b + Hdr : b \in {c \in Blocks' : ~hdr'[c].is_free}}
  BY <1>2 DEF LiveExact
<1>4. ASSUME NEW p \in DOMAIN live'
      PROVE  live'[p] <= hdr'[p - Hdr].size
  <2>1. CASE p = a + Hdr
    <3>1. p - Hdr = a
      BY <1>1, <2>1
    <3> QED
      BY <2>1, <3>1
  <2>2. CASE p # a + Hdr
    <3>1. p \in DOMAIN live /\ live'[p] = live[p]
      BY <2>2, <1>4
    <3>2. PICK b \in Blocks : p = b + Hdr /\ p - Hdr = b
      BY <3>1, LiveBlock
    <3>3. hdr'[b] = hdr[b]
      BY <2>2, <3>2
    <3>4. live[p] <= hdr[p - Hdr].size
      BY <3>1 DEF LiveExact
    <3> QED
      BY <3>1, <3>2, <3>3, <3>4
  <2> QED
    BY <2>1, <2>2
<1>5. live' \in [DOMAIN live' -> Nat]
  BY <1>1 DEF TypeOK
<1> QED
  BY <1>3, <1>4, <1>5 DEF LiveExact
-----------------------------------------------------------------------------
\* The grant of a split block.
LEMMA TakeSplit ==
  ASSUME HeapAssumption, IInv, Take, Splits(current)
  PROVE  IInv'
<1>0. PICK a : a = current
  OBVIOUS
<1>1. /\ a \in Blocks /\ pc = "search" /\ Fits(a) /\ Splits(a)
      /\ hdr' = Split(a)
      /\ heap_used' = (heap_used + size) % SizeMod
      /\ pc' = "idle" /\ current' = NULL /\ req' = 0 /\ size' = 0
      /\ ret' = a + Hdr /\ answered' = req
      /\ live' = [q \in DOMAIN live \cup {a + Hdr} |->
                    IF q = a + Hdr THEN req ELSE live[q]]
  BY <1>0 DEF Take, Leave, IInv, SearchInv
<1>2. PICK new : new = a + Hdr + size
  OBVIOUS
<1>3. /\ new \in Nat /\ a < new /\ new < BlockEnd(a) /\ new \notin Blocks
      /\ Blocks' = Blocks \cup {new}
      /\ hdr'[a] = [size |-> size, is_free |-> FALSE, next |-> new]
      /\ hdr'[new] = [size |-> hdr[a].size - size - Hdr, is_free |-> TRUE,
                      next |-> hdr[a].next]
      /\ \A b \in Blocks \ {a} : hdr'[b] = hdr[b]
      /\ hdr' \in [Blocks' -> Header]
  BY <1>1, <1>2, SplitEffect DEF IInv
<1>4. Tiled'
  BY <1>1, SplitTiled DEF IInv
<1>5. LiveExact' /\ live' \in [DOMAIN live' -> Nat]
  <2>1. Blocks \subseteq Blocks' /\ Blocks' \subseteq Nat
    BY <1>3 DEF IInv, TypeOK
  <2>2. \A b \in Blocks' \ Blocks : hdr'[b].is_free
    BY <1>3
  <2>3. hdr[a].is_free /\ ~hdr'[a].is_free /\ req <= hdr'[a].size
    BY <1>1, <1>3 DEF Fits, IInv, SearchInv
  <2> QED
    BY <1>1, <1>3, <2>1, <2>2, <2>3, GrantLive DEF IInv
<1>6. TypeOK'
  <2>1. heap_used' \in Nat
    BY <1>1, ModNat DEF IInv, TypeOK, HeapAssumption
  <2>2. ret' \in Nat /\ answered' \in Nat
    BY <1>1 DEF IInv, TypeOK, HeapAssumption
  <2>3. Blocks' \subseteq Nat
    BY <1>3 DEF IInv, TypeOK
  <2> QED
    BY <1>1, <1>3, <1>5, <2>1, <2>2, <2>3 DEF TypeOK, Header, NULL
<1>7. \A b \in Blocks' : ~Mergeable(b)'
  <2>1. \A b \in Blocks : ~Mergeable(b)
    BY <1>1 DEF IInv, NoAdjacentFree
  <2>2. \A b \in Blocks : hdr[b].next # NULL => hdr[b].next \in Blocks
    BY DEF IInv, Tiled
  <2>3. ~Mergeable(a)'
    BY <1>3 DEF Mergeable
  <2>4. ~Mergeable(new)'
    <3>1. hdr[a].next # NULL => hdr[a].next = BlockEnd(a) /\ hdr[a].next \in Blocks
      BY <1>1 DEF IInv, Tiled
    <3>2. hdr[a].next # NULL => hdr[a].next # a
      BY <1>1, <1>3, <3>1 DEF IInv, TypeOK, BlockEnd, HeapAssumption
    <3>3. hdr[a].next # NULL => ~hdr[hdr[a].next].is_free
      BY <1>1, <2>1 DEF Mergeable, Fits
    <3> QED
      BY <1>3, <3>1, <3>2, <3>3 DEF Mergeable
  <2>5. \A b \in Blocks \ {a} : ~Mergeable(b)'
    BY <1>3, <2>1, <2>2 DEF Mergeable
  <2> QED
    BY <1>3, <2>3, <2>4, <2>5
<1> QED
  BY <1>1, <1>4, <1>5, <1>6, <1>7
  DEF IInv, NoAdjacentFree, SearchInv, CoalesceInv

\* The grant of a whole block.
LEMMA TakeUnsplit ==
  ASSUME HeapAssumption, IInv, Take, ~Splits(current)
  PROVE  IInv'
<1>0. PICK a : a = current
  OBVIOUS
<1>1. /\ a \in Blocks /\ pc = "search" /\ Fits(a)
      /\ hdr' = [hdr EXCEPT ![a].is_free = FALSE]
      /\ heap_used' = (heap_used + size) % SizeMod
      /\ pc' = "idle" /\ current' = NULL /\ req' = 0 /\ size' = 0
      /\ ret' = a + Hdr /\ answered' = req
      /\ live' = [q \in DOMAIN live \cup {a + Hdr} |->
                    IF q = a + Hdr THEN req ELSE live[q]]
  BY <1>0 DEF Take, TakeWhole, Leave, IInv, SearchInv
<1>2. hdr \in [Blocks -> Header] /\ Blocks \subseteq Nat
  BY DEF IInv, TypeOK, Header
<1>3. /\ Blocks' = Blocks
      /\ hdr'[a] = [hdr[a] EXCEPT !.is_free = FALSE]
      /\ \A b \in Blocks \ {a} : hdr'[b] = hdr[b]
  BY <1>1, <1>2 DEF Blocks
<1>4. hdr[a] \in Header
  BY <1>1, <1>2
<1>5. /\ hdr'[a].size = hdr[a].size /\ hdr'[a].next = hdr[a].next
      /\ ~hdr'[a].is_free /\ hdr'[a] \in Header
  BY <1>3, <1>4 DEF Header
<1>6. Tiled'
  BY <1>3, <1>5, TiledFrame DEF IInv
<1>7. LiveExact' /\ live' \in [DOMAIN live' -> Nat]
  <2>1. hdr[a].is_free /\ req <= hdr[a].size
    BY <1>1, <1>4 DEF Fits, IInv, SearchInv, TypeOK, Header
  <2> QED
    BY <1>1, <1>2, <1>3, <1>5, <2>1, GrantLive DEF IInv
<1>8. TypeOK'
  <2>1. heap_used' \in Nat
    BY <1>1, ModNat DEF IInv, TypeOK, HeapAssumption
  <2>2. ret' \in Nat /\ answered' \in Nat
    BY <1>1 DEF IInv, TypeOK, HeapAssumption
  <2>3. hdr' \in [Blocks' -> Header]
    BY <1>1, <1>2, <1>3, <1>5
  <2> QED
    BY <1>1, <1>2, <1>3, <1>7, <2>1, <2>2, <2>3 DEF TypeOK, Header, NULL
<1>9. \A b \in Blocks' : ~Mergeable(b)'
  <2>1. \A b \in Blocks : ~Mergeable(b)
    BY <1>1 DEF IInv, NoAdjacentFree
  <2>2. \A b \in Blocks : hdr[b].next # NULL => hdr[b].next \in Blocks
    BY DEF IInv, Tiled
  <2> SUFFICES ASSUME NEW b \in Blocks PROVE ~Mergeable(b)'
    BY <1>3
  <2>3. hdr'[b].next = hdr[b].next /\ (hdr'[b].is_free => hdr[b].is_free)
    BY <1>3, <1>5
  <2>4. \A d \in Blocks : hdr'[d].is_free => hdr[d].is_free
    BY <1>3, <1>5
  <2>5. hdr[b].next # NULL => hdr[b].next \in Blocks
    BY <2>2
  <2> QED
    BY <2>1, <2>3, <2>4, <2>5 DEF Mergeable
<1> QED
  BY <1>1, <1>6, <1>7, <1>8, <1>9
  DEF IInv, NoAdjacentFree, SearchInv, CoalesceInv

\* The start of a free.
LEMMA FreeInv ==
  ASSUME HeapAssumption, IInv, NEW ptr \in DOMAIN live, FreeCall(ptr)
  PROVE  IInv'
<1>1. PICK a \in Blocks : ptr = a + Hdr /\ ptr - Hdr = a /\ ~hdr[a].is_free
  BY LiveBlock DEF IInv
<1>2. /\ hdr' = [hdr EXCEPT ![a].is_free = TRUE]
      /\ heap_used' = (heap_used + SizeMod - hdr[a].size) % SizeMod
      /\ live' = [q \in DOMAIN live \ {ptr} |-> live[q]]
      /\ pc' = "coalesce" /\ current' = HeapStart
      /\ UNCHANGED <<req, size, ret, answered>>
  BY <1>1 DEF FreeCall
<1>3. hdr \in [Blocks -> Header] /\ Blocks \subseteq Nat /\ hdr[a] \in Header
  BY <1>1 DEF IInv, TypeOK, Header
<1>4. /\ Blocks' = Blocks
      /\ hdr'[a] = [hdr[a] EXCEPT !.is_free = TRUE]
      /\ \A b \in Blocks \ {a} : hdr'[b] = hdr[b]
  BY <1>2, <1>3 DEF Blocks
<1>5. /\ hdr'[a].size = hdr[a].size /\ hdr'[a].next = hdr[a].next
      /\ hdr'[a].is_free /\ hdr'[a] \in Header
  BY <1>3, <1>4 DEF Header
<1>6. Tiled'
  BY <1>4, <1>5, TiledFrame DEF IInv
<1>7. LiveExact'
  <2>1. Hdr \in Nat
    BY DEF HeapAssumption
  <2>2. {b \in Blocks' : ~hdr'[b].is_free} = {b \in Blocks : ~hdr[b].is_free} \ {a}
    BY <1>4, <1>5
  <2>3. DOMAIN live' = {b + Hdr : b \in {c \in Blocks' : ~hdr'[c].is_free}}
    <3>1. \A b \in Blocks : b + Hdr = ptr <=> b = a
      BY <1>1, <1>3, <2>1
    <3> QED
      BY <1>1, <1>2, <2>2, <3>1 DEF IInv, LiveExact
  <2>4. ASSUME NEW p \in DOMAIN live'
        PROVE  live'[p] <= hdr'[p - Hdr].size
    <3>1. p \in DOMAIN live /\ live'[p] = live[p] /\ p # ptr
      BY <1>2, <2>4
    <3>2. PICK b \in Blocks : p = b + Hdr /\ p - Hdr = b
      BY <3>1, LiveBlock DEF IInv
    <3>3. hdr'[b] = hdr[b]
      BY <1>1, <1>4, <3>1, <3>2
    <3> QED
      BY <3>1, <3>2, <3>3 DEF IInv, LiveExact
  <2> QED
    BY <2>3, <2>4 DEF LiveExact
<1>8. TypeOK'
  <2>1. heap_used' \in Nat
    BY <1>2, <1>3, ModNat DEF IInv, TypeOK, HeapAssumption, Header
  <2>2. hdr' \in [Blocks' -> Header]
    BY <1>2, <1>3, <1>4, <1>5
  <2>3. live' \in [DOMAIN live' -> Nat]
    BY <1>2 DEF IInv, TypeOK
  <2> QED
    BY <1>2, <1>3, <1>4, <2>1, <2>2, <2>3 DEF IInv, TypeOK, Header, HeapAssumption
<1>9. CoalesceInv'
  <2>1. current' \in Blocks' /\ \A b \in Blocks' : ~(b < current')
    BY <1>2, <1>3, <1>4 DEF IInv, Tiled, HeapAssumption
  <2> QED
    BY <2>1 DEF CoalesceInv
<1> QED
  BY <1>2, <1>6, <1>7, <1>8, <1>9 DEF IInv, NoAdjacentFree, SearchInv

\* One merge of the coalescing pass.
LEMMA MergeInv ==
  ASSUME HeapAssumption, IInv, CoalesceMerge
  PROVE  IInv'
<1>0. PICK a : a = current
  OBVIOUS
<1>1. /\ a \in Blocks /\ pc = "coalesce" /\ Mergeable(a)
      /\ hdr' = Absorb(a)
      /\ UNCHANGED <<heap_used, pc, current, req, size, ret, answered, live>>
  BY <1>0 DEF CoalesceMerge, IInv, CoalesceInv
<1>2. PICK n : n = hdr[a].next
  OBVIOUS
<1>3. /\ n \in Blocks /\ n = BlockEnd(a) /\ a < n
      /\ Blocks' = Blocks \ {n}
      /\ hdr'[a] = [size |-> hdr[a].size + Hdr + hdr[n].size,
                    is_free |-> TRUE, next |-> hdr[n].next]
      /\ \A b \in Blocks \ {a, n} : hdr'[b] = hdr[b]
      /\ hdr' \in [Blocks' -> Header]
  BY <1>1, <1>2, AbsorbEffect DEF IInv
<1>4. Tiled'
  BY <1>1, AbsorbTiled DEF IInv
<1>5. hdr[a].is_free /\ hdr[n].is_free /\ hdr'[a].is_free
  BY <1>1, <1>2, <1>3 DEF Mergeable
<1>6. LiveExact'
  <2>1. {b \in Blocks' : ~hdr'[b].is_free} = {b \in Blocks : ~hdr[b].is_free}
    BY <1>3, <1>5
  <2>2. ASSUME NEW p \in DOMAIN live'
        PROVE  live'[p] <= hdr'[p - Hdr].size
    <3>1. PICK b \in Blocks : p - Hdr = b /\ ~hdr[b].is_free
      BY <1>1, <2>2, LiveBlock DEF IInv
    <3>2. hdr'[b] = hdr[b]
      BY <1>3, <1>5, <3>1
    <3> QED
      BY <1>1, <3>1, <3>2 DEF IInv, LiveExact
  <2> QED
    BY <1>1, <2>1, <2>2 DEF IInv, LiveExact
<1>7. TypeOK'
  BY <1>1, <1>3 DEF IInv, TypeOK, Header
<1>8. CoalesceInv'
  <2>1. current' \in Blocks'
    BY <1>0, <1>1, <1>3 DEF IInv, TypeOK
  <2>2. ASSUME NEW b \in Blocks', b < a
        PROVE  ~Mergeable(b)'
    <3>1. b \in Blocks \ {a, n} /\ hdr'[b] = hdr[b]
      BY <1>3, <2>2 DEF IInv, TypeOK
    <3>2. ~Mergeable(b)
      BY <1>0, <1>1, <2>2, <3>1 DEF IInv, CoalesceInv
    <3>3. CASE hdr[b].next = NULL
      BY <3>1, <3>3 DEF Mergeable
    <3>4. CASE hdr[b].next # NULL
      <4>1. hdr[b].next \in Blocks /\ hdr[b].next = BlockEnd(b) /\ BlockEnd(b) <= a
        BY <1>1, <2>2, <3>1, <3>4 DEF IInv, Tiled
      <4>2. hdr[b].next # n
        BY <1>1, <1>3, <4>1 DEF IInv, TypeOK
      <4>3. PICK m : m = hdr[b].next
        OBVIOUS
      <4>4. hdr'[m].is_free = hdr[m].is_free
        <5>1. CASE m = a
          BY <1>5, <5>1 DEF IInv, TypeOK
        <5>2. CASE m # a
          BY <1>3, <4>1, <4>2, <4>3, <5>2
        <5> QED
          BY <5>1, <5>2
      <4> QED
        BY <3>1, <3>2, <4>3, <4>4 DEF Mergeable
    <3> QED
      BY <3>3, <3>4
  <2> QED
    BY <1>0, <1>1, <2>1, <2>2 DEF CoalesceInv
<1> QED
  BY <1>1, <1>4, <1>6, <1>7, <1>8 DEF IInv, NoAdjacentFree, SearchInv
-----------------------------------------------------------------------------
\* The empty heap satisfies the invariant.
LEMMA InitInv == HeapAssumption /\ Init => IInv
<1> SUFFICES ASSUME HeapAssumption, Init PROVE IInv
  OBVIOUS
<1>1. /\ Blocks = {HeapStart} /\ HeapStart \in Nat \ {0}
      /\ hdr[HeapStart] = [size |-> HeapEnd - HeapStart - Hdr, is_free |-> TRUE,
                           next |-> NULL]
      /\ HeapEnd - HeapStart - Hdr \in Nat
  BY DEF Init, Blocks, HeapAssumption
<1>2. TypeOK
  BY <1>1 DEF Init, TypeOK, NULL
<1>3. Tiled
  <2>1. BlockEnd(HeapStart) = HeapEnd
    BY <1>1 DEF BlockEnd, HeapAssumption
  <2> QED
    BY <1>1, <2>1 DEF Tiled, HeapAssumption
<1>4. LiveExact
  BY <1>1 DEF Init, LiveExact
<1>5. NoAdjacentFree /\ SearchInv /\ CoalesceInv
  BY <1>1 DEF Init, NoAdjacentFree, SearchInv, CoalesceInv, Mergeable
<1> QED
  BY <1>2, <1>3, <1>4, <1>5 DEF IInv

\* A step that leaves the headers and the callers' pointers alone.
LEMMA Untouched ==
  ASSUME IInv, UNCHANGED <<hdr, live>>
  PROVE  /\ Tiled' /\ LiveExact' /\ Blocks' = Blocks
         /\ \A a \in Blocks : Mergeable(a)' <=> Mergeable(a)
<1>1. Blocks' = Blocks
  BY DEF Blocks
<1> QED
  BY <1>1 DEF IInv, Tiled, LiveExact, BlockEnd, Mergeable

\* The start of an allocation.
LEMMA CallInv ==
  ASSUME HeapAssumption, IInv, NEW n \in Sizes, AllocCall(n)
  PROVE  IInv'
<1>1. /\ pc = "idle" /\ pc' = "search" /\ req' = n /\ size' = AlignUp(n)
      /\ current' = HeapStart
      /\ UNCHANGED <<hdr, heap_used, ret, answered, live>>
  BY DEF AllocCall
<1>2. /\ Tiled' /\ LiveExact' /\ Blocks' = Blocks
  BY <1>1, Untouched
<1>3. n \in Nat /\ AlignUp(n) \in Nat /\ n <= AlignUp(n) /\ AlignUp(n) < n + Align
  BY AlignUpBounds DEF HeapAssumption
<1>4. HeapStart \in Blocks /\ HeapStart \in Nat \ {0} /\ \A a \in Blocks : ~(a < HeapStart)
  BY DEF IInv, Tiled, TypeOK, HeapAssumption
<1>5. TypeOK'
  BY <1>1, <1>2, <1>3, <1>4 DEF IInv, TypeOK
<1>6. SearchInv'
  BY <1>1, <1>2, <1>3, <1>4 DEF SearchInv, NULL
<1> QED
  BY <1>1, <1>2, <1>5, <1>6, Untouched DEF IInv, NoAdjacentFree, CoalesceInv

\* One step of the search.
LEMMA SearchNextInv ==
  ASSUME HeapAssumption, IInv, SearchNext
  PROVE  IInv'
<1>0. PICK a : a = current
  OBVIOUS
<1>1. /\ pc = "search" /\ a \in Blocks /\ ~Fits(a) /\ current' = hdr[a].next
      /\ UNCHANGED <<hdr, heap_used, pc, req, size, ret, answered, live>>
      /\ \A b \in Blocks : b < a => ~Fits(b)
  BY <1>0 DEF SearchNext, IInv, SearchInv
<1>2. Tiled' /\ LiveExact' /\ Blocks' = Blocks
  BY <1>1, Untouched
<1>3. TypeOK'
  BY <1>1, <1>2 DEF IInv, TypeOK
<1>4. \A b \in Blocks : hdr[a].next = NULL \/ b < hdr[a].next => ~Fits(b)
  <2>1. SUFFICES ASSUME NEW b \in Blocks, hdr[a].next = NULL \/ b < hdr[a].next
                 PROVE  ~Fits(b)
    OBVIOUS
  <2>2. b <= a
    BY <1>1, <2>1, NextIsNext DEF IInv
  <2> QED
    BY <1>1, <2>2 DEF IInv, TypeOK
<1>5. \A b \in Blocks : Fits(b)' <=> Fits(b)
  BY <1>1 DEF Fits
<1>6. hdr[a].next # NULL => hdr[a].next \in Blocks
  BY <1>1 DEF IInv, Tiled
<1>7. SearchInv'
  BY <1>1, <1>2, <1>4, <1>5, <1>6 DEF SearchInv, IInv
<1> QED
  BY <1>1, <1>2, <1>3, <1>7, Untouched DEF IInv, NoAdjacentFree, CoalesceInv

\* The end of a call that leaves the heap as it is.
LEMMA LeaveInv ==
  ASSUME HeapAssumption, IInv, SearchFails \/ CoalesceDone
  PROVE  IInv'
<1>1. /\ pc' = "idle" /\ current' = NULL /\ req' = 0 /\ size' = 0
      /\ UNCHANGED <<hdr, heap_used, live>>
      /\ ret' \in Nat /\ answered' \in Nat
  BY DEF SearchFails, CoalesceDone, Leave, IInv, TypeOK, NULL
<1>2. Tiled' /\ LiveExact' /\ Blocks' = Blocks
  BY <1>1, Untouched
<1>3. TypeOK'
  BY <1>1, <1>2 DEF IInv, TypeOK, NULL
<1>4. \A b \in Blocks : ~Mergeable(b)
  <2>1. CASE SearchFails
    BY <2>1 DEF SearchFails, IInv, NoAdjacentFree
  <2>2. CASE CoalesceDone
    <3>0. PICK a : a = current
      OBVIOUS
    <3>1. /\ a \in Blocks /\ hdr[a].next = NULL
          /\ \A b \in Blocks : b < a => ~Mergeable(b)
      BY <2>2, <3>0 DEF CoalesceDone, IInv, CoalesceInv
    <3>2. ~Mergeable(a)
      BY <3>1 DEF Mergeable
    <3>3. \A b \in Blocks : b <= a
      BY <3>1, NextIsNext DEF IInv
    <3> QED
      BY <3>1, <3>2, <3>3 DEF IInv, TypeOK
  <2> QED
    BY <2>1, <2>2
<1> QED
  BY <1>1, <1>2, <1>3, <1>4, Untouched
  DEF IInv, NoAdjacentFree, SearchInv, CoalesceInv

\* The coalescing pass moving on.
LEMMA CoalesceNextInv ==
  ASSUME HeapAssumption, IInv, CoalesceNext
  PROVE  IInv'
<1>0. PICK a : a = current
  OBVIOUS
<1>1. /\ pc = "coalesce" /\ a \in Blocks /\ hdr[a].next # NULL /\ ~Mergeable(a)
      /\ current' = hdr[a].next
      /\ UNCHANGED <<hdr, heap_used, pc, req, size, ret, answered, live>>
      /\ \A b \in Blocks : b < a => ~Mergeable(b)
  BY <1>0 DEF CoalesceNext, IInv, CoalesceInv
<1>2. Tiled' /\ LiveExact' /\ Blocks' = Blocks
  BY <1>1, Untouched
<1>3. TypeOK'
  BY <1>1, <1>2 DEF IInv, TypeOK
<1>4. \A b \in Blocks : b < hdr[a].next => ~Mergeable(b)
  <2>1. SUFFICES ASSUME NEW b \in Blocks, b < hdr[a].next PROVE ~Mergeable(b)
    OBVIOUS
  <2>2. b <= a
    BY <1>1, <2>1, NextIsNext DEF IInv
  <2> QED
    BY <1>1, <2>2 DEF IInv, TypeOK
<1>5. hdr[a].next \in Blocks
  BY <1>1 DEF IInv, Tiled
<1>6. CoalesceInv'
  BY <1>1, <1>2, <1>4, <1>5, Untouched DEF CoalesceInv
<1> QED
  BY <1>1, <1>2, <1>3, <1>6 DEF IInv, NoAdjacentFree, SearchInv

\* A request for nothing.
LEMMA ZeroInv ==
  ASSUME HeapAssumption, IInv, AllocZero
  PROVE  IInv'
<1>1. /\ pc = "idle" /\ ret' = NULL /\ answered' = 0
      /\ UNCHANGED <<hdr, heap_used, pc, current, req, size, live>>
  BY DEF AllocZero
<1>2. Tiled' /\ LiveExact' /\ Blocks' = Blocks
  BY <1>1, Untouched
<1>3. TypeOK'
  BY <1>1, <1>2 DEF IInv, TypeOK, NULL
<1> QED
  BY <1>1, <1>2, <1>3, Untouched DEF IInv, NoAdjacentFree, SearchInv, CoalesceInv

\* Every step preserves the invariant.
LEMMA StepInv == HeapAssumption /\ IInv /\ [Next]_vars => IInv'
<1> SUFFICES ASSUME HeapAssumption, IInv, [Next]_vars PROVE IInv'
  OBVIOUS
<1>1. CASE UNCHANGED vars
  <2>1. UNCHANGED <<hdr, live>>
    BY <1>1 DEF vars
  <2>2. /\ Tiled' /\ LiveExact' /\ Blocks' = Blocks
        /\ \A a \in Blocks : Mergeable(a)' <=> Mergeable(a)
    BY <2>1, Untouched
  <2>3. TypeOK'
    BY <1>1, <2>2 DEF vars, IInv, TypeOK
  <2>4. \A a \in Blocks : Fits(a)' <=> Fits(a)
    BY <1>1 DEF vars, Fits
  <2> QED
    BY <1>1, <2>2, <2>3, <2>4
    DEF vars, IInv, NoAdjacentFree, SearchInv, CoalesceInv
<1>2. CASE AllocZero
  BY <1>2, ZeroInv
<1>3. ASSUME NEW n \in Sizes, AllocCall(n) PROVE IInv'
  BY <1>3, CallInv
<1>4. ASSUME NEW ptr \in DOMAIN live, FreeCall(ptr) PROVE IInv'
  BY <1>4, FreeInv
<1>5. CASE SearchNext
  BY <1>5, SearchNextInv
<1>6. CASE SearchFails \/ CoalesceDone
  BY <1>6, LeaveInv
<1>7. CASE Take
  BY <1>7, TakeSplit, TakeUnsplit
<1>8. CASE CoalesceMerge
  BY <1>8, MergeInv
<1>9. CASE CoalesceNext
  BY <1>9, CoalesceNextInv
<1> QED
  BY <1>1, <1>2, <1>3, <1>4, <1>5, <1>6, <1>7, <1>8, <1>9 DEF Next, Step

\* The invariant holds throughout.
LEMMA SpecInv == Spec => []IInv
<1>1. HeapAssumption
  BY HeapAssumption
<1> QED
  BY <1>1, InitInv, StepInv, PTL DEF Spec
-----------------------------------------------------------------------------
\* Type correctness of the headers and the walk: no cursor or size is ever
\* negative, that is, no size_t subtraction of the allocator wraps.
THEOREM TypeCorrect == Spec => []TypeOK
  BY SpecInv, PTL DEF IInv

\* The chain always tiles the arena, through every split and merge.
THEOREM ChainTiles == Spec => []Tiled
  BY SpecInv, PTL DEF IInv

\* Callers hold exactly the blocks that are not free, each long enough.
THEOREM LiveAlwaysExact == Spec => []LiveExact
  BY SpecInv, PTL DEF IInv

\* Between calls no two neighbouring blocks are free.
THEOREM AlwaysCoalesced == Spec => []NoAdjacentFree
  BY SpecInv, PTL DEF IInv

\* The four together: the heap is sound at every iteration of its loops, for
\* every arena and every set of request sizes.
THEOREM HeapSound == Spec => []Inv
<1>1. IInv => Inv
  BY DEF IInv, Inv
<1> QED
  BY <1>1, SpecInv, PTL

\* With nothing live there is one block, the whole arena.
LEMMA EmptyIsWhole ==
  ASSUME HeapAssumption, IInv, pc # "coalesce", DOMAIN live = {}
  PROVE  /\ Blocks = {HeapStart}
         /\ hdr[HeapStart] = [size |-> Capacity, is_free |-> TRUE, next |-> NULL]
<1>1. /\ \A b \in Blocks : b \in Nat /\ hdr[b] \in Header
      /\ HeapStart \in Blocks
      /\ Hdr \in Nat \ {0} /\ HeapStart \in Nat \ {0} /\ HeapEnd \in Nat
  BY DEF IInv, TypeOK, Header, Tiled, HeapAssumption
<1>2. \A b \in Blocks : hdr[b].is_free
  BY DEF IInv, LiveExact
<1>3. hdr[HeapStart].next = NULL
  <2>1. SUFFICES ASSUME hdr[HeapStart].next # NULL PROVE FALSE
    OBVIOUS
  <2>2. hdr[HeapStart].next \in Blocks
    BY <1>1, <2>1 DEF IInv, Tiled
  <2>3. Mergeable(HeapStart)
    BY <1>1, <1>2, <2>1, <2>2 DEF Mergeable
  <2> QED
    BY <1>1, <2>3 DEF IInv, NoAdjacentFree
<1>4. \A b \in Blocks : b = HeapStart
  <2>1. SUFFICES ASSUME NEW b \in Blocks PROVE b = HeapStart
    OBVIOUS
  <2>2. b <= HeapStart
    BY <1>1, <1>3, NextIsNext DEF IInv
  <2>3. HeapStart <= b
    BY DEF IInv, Tiled
  <2> QED
    BY <1>1, <2>2, <2>3
<1>5. BlockEnd(HeapStart) = HeapEnd
  BY <1>1, <1>3 DEF IInv, Tiled
<1>6. hdr[HeapStart].size = Capacity
  BY <1>1, <1>5 DEF BlockEnd, Header, Capacity
<1>7. hdr[HeapStart].is_free = TRUE
  BY <1>1, <1>2 DEF Header
<1>8. hdr[HeapStart] = [size |-> hdr[HeapStart].size, is_free |-> hdr[HeapStart].is_free,
                        next |-> hdr[HeapStart].next]
  BY <1>1 DEF Header
<1> QED
  BY <1>1, <1>3, <1>4, <1>6, <1>7, <1>8

\* No history of calls fragments the arena for good.
THEOREM AlwaysRecovers == Spec => []FullRecovery
<1>1. HeapAssumption /\ IInv => FullRecovery
  BY EmptyIsWhole DEF FullRecovery
<1>2. HeapAssumption
  BY HeapAssumption
<1> QED
  BY <1>1, <1>2, SpecInv, PTL

\* A request is refused only when no block fits it.
THEOREM RefusalsHonest == Spec => RefusalHonest
<1>1. ASSUME HeapAssumption, IInv, Next,
             pc = "search", pc' = "idle", ret' = NULL
      PROVE  \A a \in Blocks : ~Fits(a)
  <2>1. CASE SearchFails
    BY <1>1, <2>1 DEF SearchFails, IInv, SearchInv
  <2>2. ~Take
    <3>1. SUFFICES ASSUME Take PROVE FALSE
      OBVIOUS
    <3>2. ret' = current + Hdr /\ current \in Nat /\ Hdr \in Nat \ {0}
      BY <1>1, <3>1 DEF Take, IInv, TypeOK, HeapAssumption
    <3> QED
      BY <1>1, <3>2 DEF NULL
  <2> QED
    BY <1>1, <2>1, <2>2 DEF Next, Step, AllocZero, AllocCall, FreeCall, SearchNext,
       CoalesceMerge, CoalesceNext, CoalesceDone
<1>2. HeapAssumption
  BY HeapAssumption
<1>3. HeapAssumption /\ IInv /\ [Next]_vars =>
        [pc = "search" /\ pc' = "idle" /\ ret' = NULL =>
           \A a \in Blocks : ~Fits(a)]_vars
  BY <1>1
<1> QED
  BY <1>2, <1>3, SpecInv, PTL DEF Spec, RefusalHonest

\* The heap implements the abstract allocator: grants are disjoint ranges of
\* the arena long enough for the request, and an empty heap refuses nothing
\* that fits it.
THEOREM HeapImplements == Spec => Implements
<1>0. HeapAssumption
  BY HeapAssumption
<1>1. Init => Abstract!Init
  BY DEF Init, Abstract!Init, NULL
<1>2. HeapAssumption /\ IInv /\ [Next]_vars => [Abstract!Next]_(Abstract!vars)
  <2> SUFFICES ASSUME HeapAssumption, IInv, [Next]_vars
               PROVE  [Abstract!Next]_(Abstract!vars)
    OBVIOUS
  <2>1. CASE \/ UNCHANGED vars \/ SearchNext \/ CoalesceMerge \/ CoalesceNext
             \/ CoalesceDone \/ \E n \in Sizes : AllocCall(n)
    BY <2>1 DEF vars, SearchNext, CoalesceMerge, CoalesceNext, CoalesceDone,
       AllocCall, Abstract!vars
  <2>2. CASE AllocZero
    BY <2>2 DEF AllocZero, Abstract!Next, Abstract!RefuseZero
  <2>3. ASSUME NEW ptr \in DOMAIN live, FreeCall(ptr)
        PROVE  Abstract!Next
    BY <2>3 DEF FreeCall, Abstract!Next, Abstract!Release
  <2>4. CASE SearchFails
    <3>1. /\ pc = "search" /\ current = NULL /\ req \in Sizes /\ size < req + Align
          /\ \A a \in Blocks : ~Fits(a)
      BY <2>4 DEF SearchFails, IInv, SearchInv
    <3>2. DOMAIN live # {} \/ req + Align > Capacity
      <4>1. SUFFICES ASSUME DOMAIN live = {} PROVE req + Align > Capacity
        OBVIOUS
      <4>2. /\ Blocks = {HeapStart}
            /\ hdr[HeapStart] = [size |-> Capacity, is_free |-> TRUE, next |-> NULL]
        BY <3>1, <4>1, EmptyIsWhole
      <4>3. ~(Capacity >= size)
        BY <3>1, <4>2 DEF Fits
      <4>4. Capacity \in Nat /\ size \in Nat /\ req \in Nat /\ Align \in Nat
        BY DEF Capacity, HeapAssumption, IInv, TypeOK
      <4> QED
        BY <3>1, <4>3, <4>4
    <3>3. Abstract!Refuse(req)
      BY <2>4, <3>2 DEF SearchFails, Abstract!Refuse
    <3> QED
      BY <3>1, <3>3 DEF Abstract!Next
  <2>5. CASE Take
    <3>0. PICK a, n : a = current /\ n = req
      OBVIOUS
    <3>1. /\ a \in Blocks /\ Fits(a) /\ n \in Sizes /\ n <= size
          /\ ret' = a + Hdr /\ answered' = n
          /\ live' = [q \in DOMAIN live \cup {a + Hdr} |->
                        IF q = a + Hdr THEN n ELSE live[q]]
      BY <2>5, <3>0 DEF Take, IInv, SearchInv
    <3>2. /\ \A b \in Blocks : b \in Nat /\ hdr[b].size \in Nat /\ BlockEnd(b) <= HeapEnd
          /\ Hdr \in Nat \ {0} /\ HeapStart \in Nat \ {0} /\ HeapEnd \in Nat
          /\ size \in Nat /\ n \in Nat /\ HeapStart <= a
      BY <3>1 DEF IInv, TypeOK, Tiled, HeapAssumption
    <3>3. n <= hdr[a].size /\ hdr[a].is_free
      BY <3>1, <3>2 DEF Fits
    <3>4. /\ a + Hdr # NULL /\ HeapStart <= a + Hdr /\ a + Hdr + n <= HeapEnd
          /\ a + Hdr \in HeapStart..HeapEnd
      BY <3>1, <3>2, <3>3 DEF BlockEnd, NULL
    <3>5. a + Hdr \notin DOMAIN live
      <4>1. SUFFICES ASSUME a + Hdr \in DOMAIN live PROVE FALSE
        OBVIOUS
      <4>2. PICK b \in Blocks : a + Hdr = b + Hdr /\ ~hdr[b].is_free
        BY <4>1, LiveBlock DEF IInv
      <4>3. a = b
        BY <3>1, <3>2, <4>2
      <4> QED
        BY <3>3, <4>2, <4>3
    <3>6. Abstract!Disjoint(a + Hdr, n)
      <4>1. SUFFICES ASSUME NEW q \in DOMAIN live
                     PROVE  a + Hdr + n <= q \/ q + live[q] <= a + Hdr
        BY DEF Abstract!Disjoint
      <4>2. PICK b \in Blocks : q = b + Hdr /\ q - Hdr = b /\ ~hdr[b].is_free
        BY LiveBlock DEF IInv
      <4>3. live[q] \in Nat /\ live[q] <= hdr[b].size
        BY <4>2 DEF IInv, LiveExact, TypeOK
      <4>4. a # b
        BY <3>3, <4>2
      <4>5. (a < b => BlockEnd(a) <= b) /\ (b < a => BlockEnd(b) <= a)
        BY <3>1, <4>2 DEF IInv, Tiled
      <4> QED
        BY <3>1, <3>2, <3>3, <4>2, <4>3, <4>4, <4>5 DEF BlockEnd
    <3>7. Abstract!Grant(a + Hdr, n)
      BY <3>1, <3>4, <3>5, <3>6 DEF Abstract!Grant
    <3> QED
      BY <3>1, <3>4, <3>7 DEF Abstract!Next
  <2> QED
    BY <2>1, <2>2, <2>3, <2>4, <2>5 DEF Next, Step
<1> QED
  BY <1>0, <1>1, <1>2, SpecInv, PTL DEF Spec, Implements, Abstract!Spec
=============================================================================
