-------------------------- MODULE MultibootProofs ---------------------------
(***************************************************************************)
(* Proofs about the two programs a Multiboot loader starts: stage 1, for   *)
(* every memory, memory map and kernel file it may leave behind, and the   *)
(* first kernel and its report, for every list of tags; and about the      *)
(* serial port stage 1 and the kernel after it report through, for every   *)
(* program of reports.  The two share what is known of numerals.           *)
(***************************************************************************)
EXTENDS Stage1, V1Boot, SerialPort, FiniteSetTheorems, SequenceTheorems, WellFoundedInduction, TLAPS

Regions == [base : Nat, length : Nat, type : {"usable", "reclaimable", "nvs", "reserved"}]
Early == {"_start", "multiboot_main", "mmap"}
Late == {"switch", "trampoline", "jumped"}

\* What is known at each point of multiboot_main.
Control ==
  /\ i \in Nat \ {0}
  /\ phase \in Early \cup {"module"} => i = 1
  /\ phase \in Late => i > Len(boot.phdrs)
  /\ phase \in {"segments"} \cup Late => boot.magic /\ boot.module /\ boot.elf
  /\ phase \in {"mmap", "module"} => boot.magic
  /\ phase = "trampoline" => rsi = "boot_info"
  /\ phase = "jumped" => rdi = "boot_info"

\* What the array should hold: the first filled entries, as many as it has room
\* for, in their order; or the two sizes.
Rank(b, k) == Cardinality({l \in Filled(b) : l <= k})
Handed(b) ==
  LET n == IF Cardinality(Filled(b)) < MaxRegions THEN Cardinality(Filled(b)) ELSE MaxRegions
  IN  CASE b.map = "mmap" ->
             [r \in 1 .. n |-> Converted(b.entries[CHOOSE k \in Filled(b) : Rank(b, k) = r])]
        [] b.map = "memory" -> Fallback(b)
        [] b.map = "none" -> <<>>

\* The walk is at the entry after the first j, and those that were not empty
\* are in the array; after it, the array is what it should be.
WalkedTo(j) ==
  /\ mmap_addr = Bytes(boot)[j]
  /\ Len(mem_regions) = Rank(boot, j) /\ Len(mem_regions) <= MaxRegions
  /\ \A k \in Filled(boot) : k <= j => mem_regions[Rank(boot, k)] = Converted(boot.entries[k])
Walked ==
  /\ mem_regions \in Seq(Regions)
  /\ phase \in Early => \E j \in 0 .. Len(boot.entries) :
                          WalkedTo(j) /\ (boot.map # "mmap" => j = 0)
  /\ phase \in {"module", "segments"} \cup Late => mem_regions = Handed(boot)

\* What a cell of a segment should hold.
Content(ph, c) == IF c < ph.paddr + ph.filesz THEN File(ph.offset + c - ph.paddr)
                  ELSE Held("zero")
\* Cells of the segments the loop has passed hold what the last of them asks for.
Passed == {k \in LoadSegments(boot) : k < i}
Loaded ==
  Apart(boot) =>
    \A k \in Passed : \A c \in Targets(boot.phdrs[k]) :
      (\A l \in Passed : c \in Targets(boot.phdrs[l]) => l <= k) =>
        mem[c] = Content(boot.phdrs[k], c)

\* The lowest address of the segments passed.
Lowest ==
  IF Passed = {} THEN phys_base = AllOnes
  ELSE \E k \in Passed : /\ phys_base = boot.phdrs[k].paddr
                         /\ \A l \in Passed : phys_base <= boot.phdrs[l].paddr

\* The inductive invariant.
IInv == TypeOK /\ Control /\ Walked /\ WritesConfined /\ Loaded /\ Lowest
-----------------------------------------------------------------------------
(* Numbers and functions defined by recursion.                             *)

\* A set of numbers has a least one.
LEMMA Least ==
  ASSUME NEW S \in SUBSET Nat, S # {}
  PROVE  \E x \in S : \A y \in S : x <= y
<1> DEFINE Below(x) == {y \in S : y <= x}
           Family == {Below(x) : x \in S}
<1>1. Family \subseteq FiniteSubsetsOf(Nat) /\ Family # {}
  <2>1. ASSUME NEW x \in S PROVE IsFiniteSet(Below(x)) /\ Below(x) \subseteq Nat
    <3>1. Below(x) \in SUBSET Nat /\ x \in Nat /\ \A y \in Below(x) : y <= x
      OBVIOUS
    <3> QED
      BY <3>1, FS_BoundedSetOfNaturals
  <2> QED
    BY <2>1 DEF FiniteSubsetsOf
<1> HIDE DEF Family
<1>2. PICK F \in Family : \A G \in Family : ~(<<G, F>> \in StrictSubsetOrdering(Nat))
  BY <1>1, FS_StrictSubsetOrderingWellFounded, WFMin
<1>3. PICK x \in S : F = Below(x)
  BY <1>2 DEF Family
<1>4. \A y \in S : x <= y
  <2> SUFFICES ASSUME NEW y \in S, ~(x <= y) PROVE FALSE
    OBVIOUS
  <2>1. x \in Nat /\ y \in Nat /\ y < x
    OBVIOUS
  <2>2. Below(y) \subseteq Below(x) /\ x \in Below(x) /\ x \notin Below(y)
    <3>1. x <= x /\ ~(x <= y) /\ \A z \in S : z <= y => z <= x
      BY <2>1
    <3> QED
      BY <3>1, Zenon
  <2>3. Below(y) \in Family /\ Below(x) \in SUBSET Nat /\ Below(y) \in SUBSET Nat
    BY DEF Family
  <2> HIDE DEF Below
  <2>4. <<Below(y), Below(x)>> \in StrictSubsetOrdering(Nat)
    BY <2>2, <2>3, Zenon DEF StrictSubsetOrdering
  <2> QED
    BY <1>2, <1>3, <2>3, <2>4
<1> QED
  BY <1>4

\* A set of numbers up to n has a greatest one.
LEMMA Greatest ==
  ASSUME NEW n \in Nat, NEW S \in SUBSET (0 .. n), S # {}
  PROVE  \E k \in S : \A l \in S : l <= k
<1> DEFINE R == {n - k : k \in S}
<1>1. \A k \in S : k \in 0 .. n /\ n - k \in Nat
  OBVIOUS
<1>2. PICK x \in R : \A y \in R : x <= y
  <2>1. R \in SUBSET Nat /\ R # {}
    BY <1>1
  <2> HIDE DEF R
  <2> QED
    BY <2>1, Least
<1>3. PICK k \in S : x = n - k
  BY <1>2
<1>4. \A l \in S : n - k <= n - l
  BY <1>2, <1>3
<1>5. ASSUME NEW l \in S PROVE l <= k
  BY <1>1, <1>4
<1> QED
  BY <1>5

\* A set with 0 in it and the successor of all its members has every number.
LEMMA Numbers ==
  ASSUME NEW S, 0 \in S, \A n \in Nat : n \in S => n + 1 \in S
  PROVE  \A n \in Nat : n \in S
<1> DEFINE Missing == Nat \ S
<1> SUFFICES ASSUME Missing # {} PROVE FALSE
  OBVIOUS
<1>1. PICK n \in Missing : \A k \in Missing : n <= k
  <2>1. Missing \in SUBSET Nat
    OBVIOUS
  <2> HIDE DEF Missing
  <2> QED
    BY <2>1, Least
<1>2. n \in Nat /\ n # 0 /\ n - 1 \in Nat /\ n - 1 \notin Missing
  BY <1>1
<1> QED
  BY <1>1, <1>2

\* A function defined step by step, from a and with the step F[k] to its k-th
\* value, exists.
StepByStep(g, T, a, n, F) ==
  /\ g \in [0 .. n -> T]
  /\ g[0] = a /\ \A k \in 1 .. n : g[k] = F[k][g[k-1]]
LEMMA Recursion ==
  ASSUME NEW T, NEW a \in T, NEW n \in Nat, NEW F \in [Nat -> [T -> T]]
  PROVE  \E g : StepByStep(g, T, a, n, F)
<1> DEFINE Rule(g, m) == /\ g \in [0 .. m -> T]
                         /\ g[0] = a /\ \A k \in 1 .. m : g[k] = F[k][g[k-1]]
           S == {m \in Nat : \E g : Rule(g, m)}
<1>1. 0 \in S
  <2>1. Rule([k \in 0 .. 0 |-> a], 0)
    OBVIOUS
  <2> QED
    BY <2>1
<1>2. ASSUME NEW m \in Nat, m \in S PROVE m + 1 \in S
  <2>1. PICK g : Rule(g, m)
    BY <1>2
  <2> DEFINE h == [k \in 0 .. m + 1 |-> IF k = m + 1 THEN F[m+1][g[m]] ELSE g[k]]
  <2>2. \A k \in 0 .. m : g[k] \in T /\ h[k] = g[k]
    BY <2>1
  <2>3. h \in [0 .. m + 1 -> T] /\ h[m+1] = F[m+1][g[m]]
    <3>1. m \in 0 .. m /\ m + 1 \in Nat /\ m + 1 \in 0 .. m + 1
      OBVIOUS
    <3>2. g[m] \in T /\ F[m+1] \in [T -> T]
      BY <2>2, <3>1
    <3>3. F[m+1][g[m]] \in T
      BY <3>2
    <3>4. \A k \in 0 .. m + 1 : k # m + 1 => k \in 0 .. m
      OBVIOUS
    <3>5. \A k \in 0 .. m + 1 : (IF k = m + 1 THEN F[m+1][g[m]] ELSE g[k]) \in T
      BY <2>2, <3>3, <3>4
    <3> QED
      BY <3>1, <3>5
  <2> HIDE DEF h
  <2>4. h[0] = a
    BY <2>1, <2>2
  <2>5. ASSUME NEW k \in 1 .. m + 1 PROVE h[k] = F[k][h[k-1]]
    <3>1. CASE k = m + 1
      <4>1. k - 1 = m /\ m \in 0 .. m
        BY <3>1
      <4>2. h[k-1] = g[m]
        BY <4>1, <2>2
      <4> QED
        BY <3>1, <4>2, <2>3
    <3>2. CASE k # m + 1
      <4>1. k \in 1 .. m /\ k \in 0 .. m /\ k - 1 \in 0 .. m
        BY <3>2
      <4>2. h[k] = g[k] /\ h[k-1] = g[k-1]
        BY <4>1, <2>2
      <4>3. g[k] = F[k][g[k-1]]
        BY <4>1, <2>1
      <4> QED
        BY <4>2, <4>3
    <3> QED
      BY <3>1, <3>2
  <2>6. Rule(h, m + 1)
    BY <2>3, <2>4, <2>5
  <2> HIDE DEF Rule
  <2> QED
    BY <2>6
<1> HIDE DEF S
<1>3. n \in S
  BY <1>1, <1>2, Numbers
<1> QED
  BY <1>3 DEF S, StepByStep
\* The sums of the first numbers of d, from a.
IsSum(g, a, n, d) == g = [k \in 0 .. n |-> IF k = 0 THEN a ELSE g[k-1] + d[k]]
SumSteps(g, a, n, d) ==
  /\ g \in [0 .. n -> Nat]
  /\ g[0] = a /\ \A k \in 1 .. n : g[k] = g[k-1] + d[k]
LEMMA SumExists ==
  ASSUME NEW n \in Nat, NEW a \in Nat, NEW d \in [1 .. n -> Nat]
  PROVE  \E g : IsSum(g, a, n, d)
<1> DEFINE F == [k \in Nat |-> [x \in Nat |-> IF k \in 1 .. n THEN x + d[k] ELSE x]]
<1>1. F \in [Nat -> [Nat -> Nat]]
  OBVIOUS
<1>2. \A k \in 1 .. n, x \in Nat : k \in Nat /\ F[k][x] = x + d[k]
  OBVIOUS
<1> HIDE DEF F
<1>3. PICK g : StepByStep(g, Nat, a, n, F)
  BY <1>1, Recursion
<1>4. g \in [0 .. n -> Nat] /\ g[0] = a /\ \A k \in 1 .. n : g[k] = F[k][g[k-1]]
  BY <1>3 DEF StepByStep
<1>5. ASSUME NEW k \in 0 .. n
      PROVE  g[k] = IF k = 0 THEN a ELSE g[k-1] + d[k]
  <2>1. k # 0 => k \in 1 .. n /\ k - 1 \in 0 .. n
    OBVIOUS
  <2> QED
    BY <2>1, <1>2, <1>4
<1> QED
  BY <1>4, <1>5 DEF IsSum

LEMMA SumTyped ==
  ASSUME NEW n \in Nat, NEW a \in Nat, NEW d \in [1 .. n -> Nat], NEW g, IsSum(g, a, n, d)
  PROVE  SumSteps(g, a, n, d)
<1> DEFINE S == {k \in Nat : k <= n => g[k] \in Nat}
<1>1. \A k \in 1 .. n : g[k] = g[k-1] + d[k]
  BY DEF IsSum
<1>2. g[0] = a /\ 0 \in S
  BY DEF IsSum
<1>3. ASSUME NEW k \in Nat, k \in S PROVE k + 1 \in S
  <2> SUFFICES ASSUME k + 1 <= n PROVE g[k+1] \in Nat
    OBVIOUS
  <2>1. k + 1 \in 1 .. n /\ (k + 1) - 1 = k /\ g[k] \in Nat
    BY <1>3
  <2> QED
    BY <2>1, <1>1
<1>4. \A k \in Nat : k \in S
  <2> HIDE DEF S
  <2> QED
    BY <1>2, <1>3, Numbers
<1>5. g \in [0 .. n -> Nat]
  <2>1. DOMAIN g = 0 .. n /\ g = [k \in DOMAIN g |-> g[k]]
    BY DEF IsSum
  <2>2. \A k \in 0 .. n : g[k] \in Nat
    BY <1>4
  <2> QED
    BY <2>1, <2>2
<1> QED
  BY <1>1, <1>2, <1>5 DEF SumSteps

\* Where every number is c at least, sums of more numbers are larger by c at least.
LEMMA SumGrows ==
  ASSUME NEW n \in Nat, NEW a \in Nat, NEW d \in [1 .. n -> Nat], NEW g, SumSteps(g, a, n, d),
         NEW c \in Nat, \A l \in 1 .. n : c <= d[l],
         NEW j \in 0 .. n, NEW k \in 0 .. n, j < k
  PROVE  g[j] + c <= g[k]
<1> DEFINE S == {e \in Nat : \A l \in 0 .. n : l = j + 1 + e => g[j] + c <= g[l]}
<1>1. g \in [0 .. n -> Nat]
  BY DEF SumSteps
<1>2. \A l \in 1 .. n : l - 1 \in 0 .. n /\ g[l-1] + c <= g[l]
  <2> TAKE l \in 1 .. n
  <2>1. l - 1 \in 0 .. n /\ g[l-1] \in Nat
    BY <1>1
  <2>2. g[l] = g[l-1] + d[l] /\ d[l] \in Nat /\ c <= d[l]
    BY DEF SumSteps
  <2> QED
    BY <2>1, <2>2
<1>3. 0 \in S
  <2> SUFFICES ASSUME NEW l \in 0 .. n, l = j + 1 + 0 PROVE g[j] + c <= g[l]
    OBVIOUS
  <2>1. l \in 1 .. n /\ l - 1 = j
    OBVIOUS
  <2> QED
    BY <2>1, <1>2
<1>4. ASSUME NEW e \in Nat, e \in S PROVE e + 1 \in S
  <2> SUFFICES ASSUME NEW l \in 0 .. n, l = j + 1 + (e + 1) PROVE g[j] + c <= g[l]
    OBVIOUS
  <2>1. l \in 1 .. n /\ l - 1 \in 0 .. n /\ l - 1 = j + 1 + e
    OBVIOUS
  <2>2. g[j] + c <= g[l-1]
    BY <2>1, <1>4
  <2>3. g[j] \in Nat /\ g[l] \in Nat /\ g[l-1] \in Nat
    BY <1>1, <2>1
  <2> QED
    BY <2>1, <2>2, <2>3, <1>2
<1>5. k - (j + 1) \in Nat /\ k = j + 1 + (k - (j + 1))
  OBVIOUS
<1>6. k - (j + 1) \in S
  <2> HIDE DEF S
  <2> QED
    BY <1>3, <1>4, <1>5, Numbers
<1> QED
  BY <1>5, <1>6
-----------------------------------------------------------------------------
(* The memory map.                                                         *)

LEMMA EntriesTyped ==
  ASSUME NEW b \in Boots
  PROVE  /\ Len(b.entries) \in Nat /\ DOMAIN b.entries = 1 .. Len(b.entries)
         /\ \A k \in DOMAIN b.entries :
              /\ {b.entries[k].size, b.entries[k].base, b.entries[k].length, b.entries[k].type} \subseteq Nat
              /\ b.entries[k].size >= 20
<1>1. b.entries \in Seq(MmapEntries) /\ \A k \in DOMAIN b.entries : b.entries[k].size >= 20
  BY Stage1Assumption
<1>2. \A k \in DOMAIN b.entries : b.entries[k] \in MmapEntries
  BY <1>1
<1>3. \A e \in MmapEntries : {e.size, e.base, e.length, e.type} \subseteq Nat
  BY DEF MmapEntries
<1> QED
  BY <1>1, <1>2, <1>3

\* Where entries start: a new entry adds its own bytes, so a later one lies
\* behind an earlier one, by a structure's size at least.
LEMMA BytesSteps ==
  ASSUME NEW b \in Boots
  PROVE  /\ Bytes(b) \in [0 .. Len(b.entries) -> Nat] /\ Bytes(b)[0] = 0
         /\ \A k \in 1 .. Len(b.entries) : Bytes(b)[k] = Bytes(b)[k-1] + (b.entries[k].size + 4)
         /\ \A j, k \in 0 .. Len(b.entries) : j < k => Bytes(b)[j] + EntryBytes <= Bytes(b)[k]
<1> DEFINE n == Len(b.entries)
           add(k) == b.entries[k].size + 4
           d == [k \in 1 .. n |-> add(k)]
           Rule(g) == g = [k \in 0 .. n |-> IF k = 0 THEN 0 ELSE g[k-1] + add(k)]
<1>1. n \in Nat /\ \A k \in 1 .. n : add(k) \in Nat /\ 24 <= add(k)
  BY EntriesTyped
<1> HIDE DEF n, add
<1>2. d \in [1 .. n -> Nat] /\ \A k \in 1 .. n : d[k] = add(k) /\ 24 <= d[k]
  BY <1>1
<1> DEFINE sum == CHOOSE f : Rule(f)
<1>3. Bytes(b) = sum
  BY DEF Bytes, n, add
<1>4. SumSteps(sum, 0, n, d)
  <2>1. \A k \in 0 .. n : k # 0 => d[k] = add(k)
    BY <1>1, <1>2
  <2> HIDE DEF d
  <2>2. \A g : IsSum(g, 0, n, d) <=> Rule(g)
    BY <2>1 DEF IsSum
  <2>3. \E g : IsSum(g, 0, n, d)
    BY <1>1, <1>2, SumExists
  <2> HIDE DEF Rule
  <2>4. Rule(sum)
    BY <2>2, <2>3
  <2> HIDE DEF sum
  <2> QED
    BY <2>2, <2>4, <1>1, <1>2, SumTyped
<1> HIDE DEF d, sum
<1>5. \A j, k \in 0 .. n : j < k => sum[j] + 24 <= sum[k]
  BY <1>1, <1>2, <1>4, SumGrows
<1> QED
  BY <1>2, <1>3, <1>4, <1>5 DEF SumSteps, n, add, EntryBytes

\* The entry read where the walk stands after j entries is the next one.
LEMMA NextEntry ==
  ASSUME NEW b \in Boots, NEW j \in 0 .. Len(b.entries),
         Bytes(b)[j] + EntryBytes <= MmapLength(b)
  PROVE  j + 1 \in DOMAIN b.entries /\ EntryAt(b, Bytes(b)[j]) = b.entries[j+1]
<1> DEFINE n == Len(b.entries)
           B == Bytes(b)
<1>1. n \in Nat /\ DOMAIN b.entries = 1 .. n
  BY EntriesTyped
<1>2. B \in [0 .. n -> Nat]
  BY BytesSteps
<1>3. j # n
  BY <1>1, <1>2 DEF MmapLength, EntryBytes
<1>4. j + 1 \in 1 .. n /\ Offset(b, j + 1) = B[j]
  BY <1>1, <1>3 DEF Offset
<1>5. \A k \in 1 .. n : Offset(b, k) = B[j] => k = j + 1
  <2> SUFFICES ASSUME NEW k \in 1 .. n, B[k-1] = B[j] PROVE k = j + 1
    BY DEF Offset
  <2>1. k - 1 \in 0 .. n /\ B[k-1] \in Nat /\ B[j] \in Nat
    BY <1>1, <1>2
  <2>2. ~(k - 1 < j) /\ ~(j < k - 1)
    BY <2>1, <1>1, BytesSteps DEF EntryBytes
  <2> QED
    BY <2>1, <2>2, <1>1
<1> QED
  BY <1>1, <1>4, <1>5 DEF EntryAt
-----------------------------------------------------------------------------
(* Loading.                                                                *)

\* What memcpy does: nothing outside its target changes, and what it copies
\* is what stood there before, unless source and target overlap.
Copied(m, w, V, dest, src, n) ==
  /\ w \in [Cells -> V]
  /\ \A c \in Cells : c \notin dest .. dest + n - 1 => w[c] = m[c]
  /\ (dest .. dest + n - 1) \cap (src .. src + n - 1) = {} =>
       \A c \in dest .. dest + n - 1 : w[c] = m[src + c - dest]
LEMMA MemcpyCopies ==
  ASSUME NEW V, NEW m \in [Cells -> V], NEW dest \in Nat, NEW src \in Nat, NEW n \in Nat,
         dest .. dest + n - 1 \subseteq Cells, src .. src + n - 1 \subseteq Cells
  PROVE  Copied(m, Memcpy(m, dest, src, n), V, dest, src, n)
<1> DEFINE T == [Cells -> V]
           Step(k, x) == [x EXCEPT ![dest + k - 1] = x[src + k - 1]]
           F == [k \in Nat |-> [x \in T |-> IF k \in 1 .. n THEN Step(k, x) ELSE x]]
           Rule(g) == g = [k \in 0 .. n |-> IF k = 0 THEN m ELSE Step(k, g[k-1])]
<1>1. ASSUME NEW k \in 1 .. n, NEW x \in T
      PROVE  /\ dest + k - 1 \in Cells /\ src + k - 1 \in Cells /\ Step(k, x) \in T
             /\ \A c \in Cells : Step(k, x)[c] = IF c = dest + k - 1 THEN x[src + k - 1] ELSE x[c]
  <2>1. dest + k - 1 \in dest .. dest + n - 1 /\ src + k - 1 \in src .. src + n - 1
    OBVIOUS
  <2>2. dest + k - 1 \in Cells /\ src + k - 1 \in Cells
    BY <2>1
  <2> QED
    BY <2>2
<1> HIDE DEF Step
<1>2. F \in [Nat -> [T -> T]]
  <2>1. \A k \in Nat, x \in T : (IF k \in 1 .. n THEN Step(k, x) ELSE x) \in T
    BY <1>1
  <2> HIDE DEF T
  <2> QED
    BY <2>1
<1>3. \A k \in 1 .. n, x \in T : k \in Nat /\ F[k][x] = Step(k, x)
  OBVIOUS
<1> HIDE DEF F, T
<1>4. PICK g : StepByStep(g, T, m, n, F)
  <2>1. m \in T
    BY DEF T
  <2> QED
    BY <1>2, <2>1, Recursion
<1>5. g \in [0 .. n -> T] /\ g[0] = m /\ \A k \in 1 .. n : g[k] = F[k][g[k-1]]
  BY <1>4 DEF StepByStep
<1>6. ASSUME NEW k \in 0 .. n
      PROVE  g[k] = IF k = 0 THEN m ELSE Step(k, g[k-1])
  <2>1. k # 0 => k \in 1 .. n /\ k - 1 \in 0 .. n
    OBVIOUS
  <2> QED
    BY <2>1, <1>3, <1>5
<1>7. Rule(g)
  BY <1>5, <1>6
<1> DEFINE after == CHOOSE f : Rule(f)
<1>8. Rule(after)
  BY <1>7
<1>9. Memcpy(m, dest, src, n) = after[n]
  BY DEF Memcpy, Step
<1> HIDE DEF after
<1> DEFINE Apart2 == (dest .. dest + n - 1) \cap (src .. src + n - 1) = {}
           Done(k) == /\ after[k] \in T
                      /\ \A c \in Cells : c \notin dest .. dest + k - 1 => after[k][c] = m[c]
                      /\ Apart2 => \A c \in dest .. dest + k - 1 : after[k][c] = m[src + c - dest]
           S == {k \in Nat : k <= n => Done(k)}
<1>10. after[0] = m /\ \A k \in 1 .. n : after[k] = Step(k, after[k-1])
  BY <1>8
<1>11. 0 \in S
  BY <1>10 DEF T
<1>12. ASSUME NEW k \in Nat, k \in S PROVE k + 1 \in S
  <2> SUFFICES ASSUME k + 1 <= n PROVE Done(k + 1)
    OBVIOUS
  <2>1. Done(k) /\ k + 1 \in 1 .. n /\ (k + 1) - 1 = k
    BY <1>12
  <2>2. after[k+1] = Step(k + 1, after[k]) /\ after[k] \in T
    BY <2>1, <1>10
  <2>3. /\ after[k+1] \in T /\ src + k \in Cells /\ dest + k \in Cells
        /\ \A c \in Cells : after[k+1][c] = IF c = dest + k THEN after[k][src + k] ELSE after[k][c]
    <3>1. dest + (k + 1) - 1 = dest + k /\ src + (k + 1) - 1 = src + k
      OBVIOUS
    <3> QED
      BY <3>1, <2>1, <2>2, <1>1
  <2>4. ASSUME NEW c \in Cells, c \notin dest .. dest + (k + 1) - 1
        PROVE  after[k+1][c] = m[c]
    <3>1. c # dest + k /\ c \notin dest .. dest + k - 1
      BY <2>4
    <3> QED
      BY <3>1, <2>1, <2>3
  <2>5. ASSUME Apart2, NEW c \in dest .. dest + (k + 1) - 1
        PROVE  after[k+1][c] = m[src + c - dest]
    <3>0. c \in Cells
      <4>1. c \in dest .. dest + n - 1
        BY <2>1
      <4> QED
        BY <4>1
    <3>1. CASE c = dest + k
      <4>1. src + k \in src .. src + n - 1
        BY <2>1
      <4>2. src + k \notin dest .. dest + n - 1
        BY <4>1, <2>5
      <4>3. src + k \notin dest .. dest + k - 1
        BY <4>2, <2>1
      <4>4. after[k][src + k] = m[src + k]
        BY <4>3, <2>1, <2>3
      <4>5. src + c - dest = src + k
        BY <3>1
      <4> QED
        BY <3>0, <3>1, <4>4, <4>5, <2>3
    <3>2. CASE c # dest + k
      <4>1. c \in dest .. dest + k - 1
        BY <3>2
      <4> QED
        BY <3>0, <3>2, <4>1, <2>1, <2>3, <2>5
    <3> QED
      BY <3>1, <3>2
  <2> QED
    BY <2>3, <2>4, <2>5
<1>13. Done(n)
  <2> HIDE DEF Done
  <2>1. n \in S
    <3> HIDE DEF S
    <3> QED
      BY <1>11, <1>12, Numbers
  <2> QED
    BY <2>1
<1> QED
  BY <1>9, <1>13 DEF Copied, T

\* Loading a segment: nothing outside it changes, and of a segment that lies
\* clear of the module every cell holds what the file asks for.
Placed(m, w, b, ph) ==
  /\ w \in [Cells -> Value]
  /\ \A c \in Cells \ Targets(ph) : w[c] = m[c]
  /\ (Targets(ph) \cap Module(b) = {} /\ \A c \in Module(b) : m[c] = File(c - b.at)) =>
       \A c \in Targets(ph) : w[c] = Content(ph, c)

LEMMA SegmentTyped ==
  ASSUME NEW b \in Boots, NEW k \in LoadSegments(b)
  PROVE  LET ph == b.phdrs[k]
         IN  /\ {ph.paddr, ph.offset, ph.filesz, ph.memsz} \subseteq Nat /\ ph.memsz > 0
             /\ {b.at, b.filecells} \subseteq Nat
             /\ Targets(ph) \subseteq Cells /\ Module(b) \subseteq Cells
             /\ ph.paddr \in Targets(ph)
             /\ ph.filesz <= ph.memsz /\ ph.offset + ph.filesz <= b.filecells
<1>1. /\ b.phdrs \in Seq(Phdrs) /\ Module(b) \subseteq Cells /\ {b.at, b.filecells} \subseteq Nat
      /\ Targets(b.phdrs[k]) \subseteq Cells /\ b.phdrs[k].filesz <= b.phdrs[k].memsz
      /\ b.phdrs[k].offset + b.phdrs[k].filesz <= b.filecells
  BY Stage1Assumption DEF Module
<1>2. b.phdrs[k] \in Phdrs /\ b.phdrs[k].memsz > 0
  BY <1>1 DEF LoadSegments
<1>3. \A ph \in Phdrs : {ph.paddr, ph.offset, ph.filesz, ph.memsz} \subseteq Nat
  BY DEF Phdrs
<1>4. \A ph \in Phdrs : ph.memsz > 0 => ph.paddr \in Targets(ph)
  BY <1>3 DEF Targets
<1> QED
  BY <1>1, <1>2, <1>3, <1>4

LEMMA FileTyped ==
  ASSUME NEW b \in Boots, NEW k \in Nat, k < b.filecells
  PROVE  File(k) \in Value
<1>1. b.filecells \in Nat
  BY Stage1Assumption
<1>2. k \in 0 .. b.filecells - 1
  BY <1>1
<1>3. k \in UNION {0 .. d.filecells - 1 : d \in Boots}
  BY <1>2
<1> QED
  BY <1>3 DEF Value

LEMMA LoadPlaces ==
  ASSUME NEW b \in Boots, NEW k \in LoadSegments(b), NEW m \in [Cells -> Value]
  PROVE  Placed(m, Load(m, b, b.phdrs[k]), b, b.phdrs[k])
<1> DEFINE ph == b.phdrs[k]
           a == ph.paddr
           f == ph.filesz
           o == ph.offset
           w == Load(m, b, ph)
           z == Memset(m, a, ph.memsz)
           s == b.at + o
           M == ph.memsz
           R == Targets(ph)
           at == b.at
           cells == b.filecells
<1>1. /\ {a, o, f, M, at, cells} \subseteq Nat
      /\ R \subseteq Cells /\ Module(b) \subseteq Cells
      /\ f <= M /\ o + f <= cells
  BY SegmentTyped
<1>1a. s = at + o /\ Module(b) = at .. at + cells - 1
  BY DEF Module
<1>2. R = a .. a + M - 1
  BY DEF Targets
<1>3. z = [c \in Cells |-> IF c \in R THEN Held("zero") ELSE m[c]]
  BY <1>2 DEF Memset
<1>4. w = Memcpy(z, a, s, f)
  BY DEF Load
<1>5. \A c \in R : Content(ph, c) = IF c < a + f THEN File(o + c - a) ELSE Held("zero")
  BY DEF Content
<1> HIDE DEF a, f, o, M, R, w, z, s, at, cells
<1>6. z \in [Cells -> Value]
  BY <1>3 DEF Value
<1>7. s \in Nat /\ s .. s + f - 1 \subseteq Module(b) /\ a .. a + f - 1 \subseteq R
  <2>1. s \in Nat /\ \A c \in s .. s + f - 1 : c \in at .. at + cells - 1
    BY <1>1, <1>1a
  <2>2. \A c \in a .. a + f - 1 : c \in a .. a + M - 1
    BY <1>1
  <2> QED
    BY <2>1, <2>2, <1>1a, <1>2
<1>8. Copied(z, w, Value, a, s, f)
  <2>1. a \in Nat /\ f \in Nat /\ a .. a + f - 1 \subseteq Cells /\ s .. s + f - 1 \subseteq Cells
    BY <1>1, <1>7
  <2> QED
    BY <1>4, <1>6, <1>7, <2>1, MemcpyCopies
<1>9. ASSUME NEW c \in Cells \ R PROVE w[c] = m[c]
  <2>1. c \notin a .. a + f - 1
    BY <1>7
  <2> QED
    BY <2>1, <1>3, <1>8 DEF Copied
<1>10. ASSUME R \cap Module(b) = {}, \A c \in Module(b) : m[c] = File(c - b.at), NEW c \in R
       PROVE  w[c] = Content(ph, c)
  <2>0. c \in Cells /\ a \in Nat /\ f \in Nat /\ o \in Nat /\ at \in Nat /\ c \in Nat /\ a <= c
    BY <1>1, <1>2
  <2>1. CASE c < a + f
    <3>1. c \in a .. a + f - 1
      BY <2>0, <2>1
    <3>2. (a .. a + f - 1) \cap (s .. s + f - 1) = {}
      BY <1>7, <1>10
    <3> DEFINE d == s + c - a
    <3>3. d \in s .. s + f - 1 /\ d - at = o + c - a
      BY <2>0, <3>1, <1>1a
    <3>4. w[c] = z[d]
      BY <1>8, <3>1, <3>2 DEF Copied
    <3> HIDE DEF d
    <3>5. d \in Module(b) /\ d \in Cells /\ d \notin R
      BY <1>1, <1>7, <1>10, <3>3
    <3>6. z[d] = File(d - at)
      BY <3>5, <1>3, <1>10 DEF at
    <3> QED
      BY <3>3, <3>4, <3>6, <2>1, <1>5
  <2>2. CASE ~(c < a + f)
    <3>1. c \notin a .. a + f - 1
      BY <2>0, <2>2
    <3>2. w[c] = z[c]
      BY <2>0, <3>1, <1>8 DEF Copied
    <3> QED
      BY <3>2, <2>0, <2>2, <1>3, <1>5
  <2> QED
    BY <2>1, <2>2
<1>11. w \in [Cells -> Value]
  BY <1>8 DEF Copied
<1> QED
  BY <1>9, <1>10, <1>11 DEF Placed, R, w
-----------------------------------------------------------------------------
(* The entries that are not empty, and their places in the array.          *)

LEMMA RankSteps ==
  ASSUME NEW b \in Boots
  PROVE  /\ IsFiniteSet(Filled(b)) /\ Filled(b) \subseteq 1 .. Len(b.entries)
         /\ Rank(b, 0) = 0 /\ Rank(b, Len(b.entries)) = Cardinality(Filled(b))
         /\ \A k \in Nat : Rank(b, k) \in Nat
         /\ \A k \in Nat : Rank(b, k + 1) = IF k + 1 \in Filled(b) THEN Rank(b, k) + 1 ELSE Rank(b, k)
<1> DEFINE n == Len(b.entries)
           E == Filled(b)
           Upto(k) == {l \in E : l <= k}
<1>1. n \in Nat /\ E \subseteq 1 .. n
  BY EntriesTyped DEF Filled
<1> HIDE DEF n, E
<1>2. IsFiniteSet(E)
  <2>1. 1 \in Int /\ n \in Int
    BY <1>1
  <2>2. IsFiniteSet(1 .. n)
    BY <2>1, FS_Interval
  <2> QED
    BY <1>1, <2>2, FS_Subset
<1>3. \A k \in Nat : IsFiniteSet(Upto(k)) /\ Cardinality(Upto(k)) \in Nat
  <2>1. \A k \in Nat : Upto(k) \subseteq E
    OBVIOUS
  <2> HIDE DEF Upto
  <2> QED
    BY <1>2, <2>1, FS_Subset, FS_CardinalityType
<1>4. Upto(0) = {} /\ Upto(n) = E
  <2>1. \A l \in E : l \in 1 .. n
    BY <1>1
  <2>2. \A l \in E : ~(l <= 0) /\ l <= n
    BY <1>1, <2>1
  <2> QED
    BY <2>2
<1>5. ASSUME NEW k \in Nat
      PROVE  Cardinality(Upto(k+1)) = IF k + 1 \in E THEN Cardinality(Upto(k)) + 1
                                      ELSE Cardinality(Upto(k))
  <2>1. \A l \in E : l <= k + 1 <=> l <= k \/ l = k + 1
    BY <1>1
  <2>2. CASE k + 1 \in E
    <3>1. Upto(k+1) = Upto(k) \cup {k + 1} /\ k + 1 \notin Upto(k)
      BY <2>1, <2>2
    <3> HIDE DEF Upto
    <3> QED
      BY <1>3, <2>2, <3>1, FS_AddElement
  <2>3. CASE k + 1 \notin E
    <3>1. Upto(k+1) = Upto(k)
      BY <2>1, <2>3
    <3> QED
      BY <2>3, <3>1
  <2> QED
    BY <2>2, <2>3
<1>6. \A k : Rank(b, k) = Cardinality(Upto(k))
  BY DEF Rank, E
<1> HIDE DEF Upto
<1>7. Cardinality({}) = 0
  BY FS_EmptySet
<1> QED
  BY <1>1, <1>2, <1>3, <1>4, <1>5, <1>6, <1>7 DEF n, E

LEMMA RankGrows ==
  ASSUME NEW b \in Boots, NEW j \in Nat, NEW k \in Nat, j <= k
  PROVE  Rank(b, j) <= Rank(b, k)
<1> DEFINE R(l) == Rank(b, l)
           S == {d \in Nat : R(j) <= R(j + d)}
<1>1. /\ \A l \in Nat : R(l) \in Nat
      /\ \A l \in Nat : R(l + 1) = IF l + 1 \in Filled(b) THEN R(l) + 1 ELSE R(l)
  BY RankSteps
<1> HIDE DEF R
<1>2. 0 \in S
  <2>1. j + 0 = j /\ R(j) \in Nat
    BY <1>1
  <2> QED
    BY <2>1
<1>3. ASSUME NEW d \in Nat, d \in S PROVE d + 1 \in S
  <2> DEFINE e == j + d
  <2>1. e \in Nat /\ j + (d + 1) = e + 1 /\ R(j) <= R(e)
    BY <1>3
  <2> HIDE DEF e
  <2>2. R(j) \in Nat /\ R(e) \in Nat
    BY <2>1, <1>1
  <2>3. R(e + 1) = R(e) + 1 \/ R(e + 1) = R(e)
    BY <2>1, <1>1
  <2>4. R(j) <= R(e + 1)
    BY <2>1, <2>2, <2>3
  <2> QED
    BY <2>1, <2>4
<1>4. k - j \in Nat /\ k = j + (k - j)
  OBVIOUS
<1>5. k - j \in S
  <2> HIDE DEF S
  <2> QED
    BY <1>2, <1>3, <1>4, Numbers
<1> QED
  BY <1>4, <1>5 DEF R

\* A filled entry has a rank of its own.
LEMMA RankOwn ==
  ASSUME NEW b \in Boots, NEW j \in Nat, NEW k \in Filled(b), j < k
  PROVE  Rank(b, j) < Rank(b, k)
<1> DEFINE e == k - 1
<1>1. k \in 1 .. Len(b.entries) /\ Len(b.entries) \in Nat
  BY RankSteps, EntriesTyped
<1>2. e \in Nat /\ j <= e /\ k = e + 1
  BY <1>1
<1> HIDE DEF e
<1>3. Rank(b, j) <= Rank(b, e)
  BY <1>2, RankGrows
<1>4. Rank(b, e + 1) = Rank(b, e) + 1
  BY <1>2, RankSteps
<1>5. Rank(b, j) \in Nat /\ Rank(b, e) \in Nat
  BY <1>2, RankSteps
<1> QED
  BY <1>2, <1>3, <1>4, <1>5

\* Every rank up to that of j is that of one filled entry up to j.
LEMMA RankTaken ==
  ASSUME NEW b \in Boots, NEW j \in Nat, NEW r \in 1 .. Rank(b, j)
  PROVE  \E k \in Filled(b) : /\ k <= j /\ Rank(b, k) = r
                              /\ \A l \in Filled(b) : Rank(b, l) = r => l = k
<1> DEFINE S == {l \in Nat : Rank(b, l) >= r}
<1>1. Rank(b, j) \in Nat /\ r \in Nat /\ r >= 1 /\ r <= Rank(b, j)
  BY RankSteps
<1>2. j \in S /\ S \in SUBSET Nat
  BY <1>1
<1>3. PICK k \in S : \A l \in S : k <= l
  <2> HIDE DEF S
  <2> QED
    BY <1>2, Least
<1>4. k # 0
  BY <1>1, <1>3, RankSteps
<1>5. k - 1 \in Nat /\ k = (k - 1) + 1 /\ k - 1 \notin S
  BY <1>3, <1>4
<1>6. Rank(b, k) \in Nat /\ Rank(b, k - 1) \in Nat /\ Rank(b, k - 1) < r /\ Rank(b, k) >= r
  BY <1>1, <1>3, <1>5, RankSteps
<1>7. Rank(b, k) = IF k \in Filled(b) THEN Rank(b, k - 1) + 1 ELSE Rank(b, k - 1)
  BY <1>5, RankSteps
<1>8. k \in Filled(b) /\ Rank(b, k) = r
  BY <1>1, <1>6, <1>7
<1>9. ASSUME NEW l \in Filled(b), Rank(b, l) = r PROVE l = k
  <2>1. l \in Nat /\ k \in Nat
    BY <1>8, RankSteps, EntriesTyped
  <2>2. ~(l < k) /\ ~(k < l)
    BY <1>1, <1>8, <1>9, <2>1, RankOwn
  <2> QED
    BY <2>1, <2>2
<1> QED
  BY <1>2, <1>3, <1>8, <1>9
-----------------------------------------------------------------------------
(* Types of what the walk collects.                                        *)

LEMMA ConvertedTyped ==
  ASSUME NEW b \in Boots, NEW k \in DOMAIN b.entries
  PROVE  Converted(b.entries[k]) \in Regions
<1>1. {b.entries[k].base, b.entries[k].length} \subseteq Nat
  BY EntriesTyped
<1>2. \A t : Kind(t) \in {"usable", "reclaimable", "nvs", "reserved"}
  BY DEF Kind
<1> QED
  BY <1>1, <1>2 DEF Converted, Regions

LEMMA FallbackTyped ==
  ASSUME NEW b \in Boots
  PROVE  Fallback(b) \in Seq(Regions) /\ Len(Fallback(b)) <= MaxRegions
<1> DEFINE low == [base |-> 0, length |-> b.lower, type |-> "usable"]
           high == [base |-> 1024, length |-> b.upper, type |-> "usable"]
           s == IF b.lower > 0 THEN <<low>> ELSE <<>>
           t == IF b.upper > 0 THEN <<high>> ELSE <<>>
<1>1. b.lower \in Nat /\ b.upper \in Nat /\ MaxRegions \in Nat /\ MaxRegions >= 2
  BY Stage1Assumption
<1>2. low \in Regions /\ high \in Regions
  BY <1>1 DEF Regions
<1>3. Fallback(b) = s \o t
  BY DEF Fallback
<1> HIDE DEF low, high
<1>4. s \in Seq(Regions) /\ t \in Seq(Regions) /\ Len(s) \in 0 .. 1 /\ Len(t) \in 0 .. 1
  BY <1>2
<1> HIDE DEF s, t
<1>5. s \o t \in Seq(Regions) /\ Len(s \o t) = Len(s) + Len(t)
  BY <1>4
<1> QED
  BY <1>1, <1>3, <1>4, <1>5

\* An array that holds the first filled entries, all of them or as many as it
\* has room for, is the truth.
LEMMA WalkedTrue ==
  ASSUME NEW b \in Boots, b.map = "mmap", NEW r \in Seq(Regions), NEW j \in 0 .. Len(b.entries),
         Len(r) = Rank(b, j), Len(r) <= MaxRegions, j = Len(b.entries) \/ Len(r) = MaxRegions,
         \A k \in Filled(b) : k <= j => r[Rank(b, k)] = Converted(b.entries[k])
  PROVE  r = Handed(b)
<1> DEFINE N == Cardinality(Filled(b))
           n == IF N < MaxRegions THEN N ELSE MaxRegions
           Own(x) == CHOOSE k \in Filled(b) : Rank(b, k) = x
<1>1. Len(b.entries) \in Nat /\ MaxRegions \in Nat
  BY EntriesTyped, Stage1Assumption
<1>2. Rank(b, Len(b.entries)) = N /\ Rank(b, j) <= N /\ N \in Nat /\ Rank(b, j) \in Nat
  <2>1. Rank(b, Len(b.entries)) = N
    BY RankSteps
  <2>2. j \in Nat /\ Len(b.entries) \in Nat /\ j <= Len(b.entries)
    BY <1>1
  <2>3. Rank(b, j) \in Nat /\ Rank(b, Len(b.entries)) \in Nat
    BY <2>2, RankSteps
  <2>4. Rank(b, j) <= Rank(b, Len(b.entries))
    BY <2>2, RankGrows
  <2> HIDE DEF N
  <2> QED
    BY <2>1, <2>3, <2>4
<1>3. Len(r) = n
  <2> HIDE DEF N
  <2> QED
    BY <1>1, <1>2
<1> HIDE DEF N, n
<1>4. Handed(b) = [x \in 1 .. n |-> Converted(b.entries[Own(x)])]
  BY DEF Handed, N, n
<1>5. ASSUME NEW x \in 1 .. n PROVE r[x] = Converted(b.entries[Own(x)])
  <2>1. j \in Nat /\ x \in 1 .. Rank(b, j)
    BY <1>1, <1>3
  <2>2. PICK k \in Filled(b) : /\ k <= j /\ Rank(b, k) = x
                               /\ \A l \in Filled(b) : Rank(b, l) = x => l = k
    BY <2>1, RankTaken
  <2>3. Own(x) = k
    BY <2>2
  <2> QED
    BY <2>2, <2>3
<1>6. r = [x \in 1 .. n |-> r[x]]
  <2>1. r \in [1 .. Len(r) -> Regions]
    OBVIOUS
  <2> QED
    BY <2>1, <1>3
<1> HIDE DEF Own
<1> QED
  BY <1>4, <1>5, <1>6
-----------------------------------------------------------------------------
(* The invariant.                                                          *)

Invariant == IInv /\ Survives

LEMMA StaysSane ==
  ASSUME TypeOK, WritesConfined, Apart(boot)
  PROVE  Sane /\ \A c \in Module(boot) : mem[c] = File(c - boot.at)
<1> DEFINE Written == UNION {Targets(boot.phdrs[k]) : k \in LoadSegments(boot)}
<1>1. boot \in Boots
  BY DEF TypeOK
<1>2. /\ Image \subseteq Cells /\ Module(boot) \subseteq Cells \ Image
      /\ boot.at \in Nat /\ boot.filecells \in Nat \ {0}
  BY <1>1, Stage1Assumption DEF Module
<1>3. \A c \in Image \cup Module(boot) : c \notin Written
  BY DEF Apart
<1>4. \A c \in Cells \ Written :
        mem[c] = IF c \in Image THEN Held("stage1")
                 ELSE IF c \in Module(boot) THEN File(c - boot.at) ELSE Held("other")
  BY DEF WritesConfined
<1> HIDE DEF Written
<1>5. /\ \A c \in Image : mem[c] = Held("stage1")
      /\ \A c \in Module(boot) : mem[c] = File(c - boot.at)
  BY <1>2, <1>3, <1>4
<1>6. boot.at \in Module(boot) /\ boot.at - boot.at = 0
  BY <1>2 DEF Module
<1>7. mem[boot.at] = File(0)
  BY <1>5, <1>6
<1> QED
  BY <1>5, <1>7 DEF Sane

LEMMA InitInvariant == ASSUME Init PROVE Invariant
<1>1. boot \in Boots /\ phase = boot.entry
  BY DEF Init
<1>2. /\ boot.at \in Nat /\ boot.filecells \in Nat \ {0} /\ MaxRegions \in Nat
      /\ phase \in {"_start", "multiboot_main"}
      /\ Len(boot.entries) \in Nat
  BY <1>1, Stage1Assumption, EntriesTyped
<1>3. TypeOK
  <2>1. ASSUME NEW c \in Module(boot) PROVE File(c - boot.at) \in Value
    <3>1. c - boot.at \in Nat /\ c - boot.at < boot.filecells
      BY <1>2 DEF Module
    <3> QED
      BY <1>1, <3>1, FileTyped
  <2>2. Held("stage1") \in Value /\ Held("other") \in Value
    BY DEF Value
  <2>3. mem \in [Cells -> Value]
    BY <2>1, <2>2 DEF Init
  <2> QED
    BY <1>1, <1>2, <2>3 DEF Init, TypeOK
<1>4. Control
  BY <1>2 DEF Init, Control, Early, Late
<1>5. Walked
  <2>1. Rank(boot, 0) = 0 /\ Bytes(boot)[0] = 0 /\ \A k \in Filled(boot) : k \in 1 .. Len(boot.entries)
    BY <1>1, RankSteps, BytesSteps
  <2>2. \A k \in Filled(boot) : ~(k <= 0)
    BY <1>2, <2>1
  <2>3. mmap_addr = 0 /\ mem_regions = <<>>
    BY DEF Init
  <2>4. WalkedTo(0) /\ 0 \in 0 .. Len(boot.entries)
    BY <1>2, <2>1, <2>2, <2>3 DEF WalkedTo
  <2> QED
    BY <1>2, <2>3, <2>4 DEF Walked, Early, Late
<1>6. WritesConfined
  <2>1. \A c \in Image : c \notin Module(boot)
    BY <1>1, Stage1Assumption DEF Module
  <2> QED
    BY <2>1 DEF Init, WritesConfined
<1>7. Passed = {}
  <2>1. boot.phdrs \in Seq(Phdrs)
    BY <1>1, Stage1Assumption
  <2>2. \A k \in LoadSegments(boot) : k \in 1 .. Len(boot.phdrs) /\ Len(boot.phdrs) \in Nat
    BY <2>1 DEF LoadSegments
  <2> QED
    BY <2>2 DEF Passed, Init
<1>8. Loaded /\ Lowest
  BY <1>7 DEF Init, Loaded, Lowest
<1> QED
  BY <1>2, <1>3, <1>4, <1>5, <1>6, <1>8 DEF Invariant, IInv, Survives

\* What a step that loads nothing leaves alone.
LEMMA Undisturbed ==
  ASSUME WritesConfined, Loaded, Lowest, UNCHANGED <<boot, mem, i, phys_base>>
  PROVE  WritesConfined' /\ Loaded' /\ Lowest'
<1>1. WritesConfined'
  BY DEF WritesConfined
<1>2. Passed' = Passed
  BY DEF Passed
<1>3. Loaded'
  BY <1>2 DEF Loaded
<1>4. Lowest'
  BY <1>2 DEF Lowest
<1> QED
  BY <1>1, <1>3, <1>4

\* One entry of the walk.
LEMMA WalkEntryKeeps == ASSUME IInv, WalkEntry PROVE IInv'
<1>1. /\ TypeOK /\ Control /\ Walked /\ phase = "mmap"
      /\ boot.map = "mmap" /\ mmap_addr + EntryBytes <= MmapLength(boot)
      /\ Len(mem_regions) < MaxRegions
      /\ UNCHANGED <<phase, boot, mem, i, phys_base, rdi, rsi, rax>>
  BY DEF IInv, WalkEntry, At, MoreEntries, regs
<1>2. boot \in Boots /\ mem_regions \in Seq(Regions) /\ MaxRegions \in Nat
  BY <1>1, Stage1Assumption DEF TypeOK, Walked
<1>3. PICK j \in 0 .. Len(boot.entries) : WalkedTo(j)
  BY <1>1 DEF Walked, Early
<1> DEFINE e == boot.entries[j+1]
<1>4. /\ j + 1 \in DOMAIN boot.entries /\ EntryAt(boot, mmap_addr) = e
      /\ j \in Nat /\ j + 1 \in 1 .. Len(boot.entries) /\ Len(boot.entries) \in Nat
  BY <1>1, <1>2, <1>3, NextEntry, EntriesTyped DEF WalkedTo
<1>5. /\ mem_regions' = IF e.length > 0 THEN Append(mem_regions, Converted(e)) ELSE mem_regions
      /\ mmap_addr' = mmap_addr + (e.size + 4)
  BY <1>4 DEF WalkEntry, Advance
<1>6. Converted(e) \in Regions /\ (e.length > 0 <=> j + 1 \in Filled(boot))
  BY <1>2, <1>4, ConvertedTyped DEF Filled
<1>7. mmap_addr' = Bytes(boot)[j+1] /\ mmap_addr' \in Nat
  <2> DEFINE size == e.size
  <2>1. j + 1 \in 0 .. Len(boot.entries) /\ (j + 1) - 1 = j
    BY <1>4
  <2>2. Bytes(boot)[j+1] = Bytes(boot)[j] + (size + 4)
    BY <1>2, <1>4, <2>1, BytesSteps
  <2>3. Bytes(boot)[j+1] \in Nat /\ size \in Nat
    BY <1>2, <1>4, <2>1, BytesSteps, EntriesTyped
  <2>4. mmap_addr \in Nat /\ mmap_addr = Bytes(boot)[j] /\ mmap_addr' = mmap_addr + (size + 4)
    BY <1>1, <1>3, <1>5 DEF WalkedTo, TypeOK
  <2> HIDE DEF size
  <2> QED
    BY <2>2, <2>3, <2>4
<1> HIDE DEF e
<1>8. Rank(boot, j + 1) = IF j + 1 \in Filled(boot) THEN Rank(boot, j) + 1 ELSE Rank(boot, j)
  BY <1>2, <1>4, RankSteps
<1>9. Len(mem_regions) = Rank(boot, j)
  BY <1>3 DEF WalkedTo
<1>10. mem_regions' \in Seq(Regions) /\ Len(mem_regions') = Rank(boot, j + 1)
       /\ Len(mem_regions') <= MaxRegions
  BY <1>1, <1>2, <1>5, <1>6, <1>8, <1>9
<1>11. ASSUME NEW k \in Filled(boot), k <= j + 1
       PROVE  mem_regions'[Rank(boot, k)] = Converted(boot.entries[k])
  <2>0. k \in 1 .. Len(boot.entries) /\ Rank(boot, k) \in Nat
    <3>1. k \in 1 .. Len(boot.entries) /\ k \in Nat
      BY <1>2, <1>4, RankSteps
    <3> QED
      BY <3>1, <1>2, RankSteps
  <2>1. CASE k = j + 1
    <3>1. mem_regions' = Append(mem_regions, Converted(e)) /\ Rank(boot, k) = Len(mem_regions) + 1
      BY <2>1, <1>5, <1>6, <1>8, <1>9
    <3> QED
      BY <3>1, <2>1, <1>2 DEF e
  <2>2. CASE k # j + 1
    <3>1. k <= j /\ k \in Nat /\ 0 \in Nat /\ 0 < k
      BY <2>0, <2>2, <1>4, <1>11
    <3>2. Rank(boot, 0) < Rank(boot, k) /\ Rank(boot, k) <= Rank(boot, j) /\ Rank(boot, 0) = 0
      BY <3>1, <1>2, <1>4, RankOwn, RankGrows, RankSteps
    <3>3. Rank(boot, k) \in 1 .. Len(mem_regions)
      BY <3>2, <2>0, <1>9
    <3>4. mem_regions'[Rank(boot, k)] = mem_regions[Rank(boot, k)]
      BY <3>3, <1>2, <1>5
    <3> QED
      BY <3>1, <3>4, <1>3 DEF WalkedTo
  <2> QED
    BY <2>1, <2>2
<1>12. WalkedTo(j + 1)' /\ j + 1 \in 0 .. Len(boot.entries)
  BY <1>1, <1>4, <1>7, <1>10, <1>11 DEF WalkedTo
<1>13. Walked'
  BY <1>1, <1>10, <1>12 DEF Walked, Early, Late
<1>14. TypeOK'
  BY <1>1, <1>7, <1>10 DEF TypeOK
<1>15. Control'
  BY <1>1 DEF Control
<1> QED
  BY <1>1, <1>13, <1>14, <1>15, Undisturbed DEF IInv

\* The end of the walk.
LEMMA WalkDoneKeeps == ASSUME IInv, WalkDone PROVE IInv'
<1>1. /\ TypeOK /\ Control /\ Walked /\ phase = "mmap" /\ phase' = "module"
      /\ UNCHANGED <<boot, mem, mmap_addr, i, phys_base, rdi, rsi, rax>>
      /\ mem_regions' = IF boot.map = "memory" THEN Fallback(boot) ELSE mem_regions
  BY DEF IInv, WalkDone, At, regs
<1>2. boot \in Boots /\ mem_regions \in Seq(Regions)
  BY <1>1 DEF TypeOK, Walked
<1>3. boot.map \in {"mmap", "memory", "none"} /\ MaxRegions \in Nat
  BY <1>2, Stage1Assumption
<1>4. PICK j \in 0 .. Len(boot.entries) : WalkedTo(j) /\ (boot.map # "mmap" => j = 0)
  BY <1>1 DEF Walked, Early
<1>5. Len(boot.entries) \in Nat /\ j \in Nat
  BY <1>2, <1>4, EntriesTyped
<1>6. mem_regions' = Handed(boot) /\ mem_regions' \in Seq(Regions) /\ Len(mem_regions') <= MaxRegions
  <2>1. CASE boot.map = "mmap"
    <3>1. ~(/\ MmapLength(boot) > 0
            /\ mmap_addr + EntryBytes <= MmapLength(boot)
            /\ Len(mem_regions) < MaxRegions)
      BY <2>1 DEF WalkDone, MoreEntries
    <3>2. /\ mmap_addr = Bytes(boot)[j] /\ Len(mem_regions) = Rank(boot, j)
          /\ Len(mem_regions) <= MaxRegions
          /\ \A k \in Filled(boot) : k <= j => mem_regions[Rank(boot, k)] = Converted(boot.entries[k])
      BY <1>4 DEF WalkedTo
    <3>3. j = Len(boot.entries) \/ Len(mem_regions) = MaxRegions
      <4> SUFFICES ASSUME j < Len(boot.entries), Len(mem_regions) < MaxRegions PROVE FALSE
        BY <1>2, <1>3, <1>5, <3>2, <1>4
      <4>1. Bytes(boot)[j] + EntryBytes <= MmapLength(boot)
        BY <1>2, <1>4, <1>5, BytesSteps DEF MmapLength
      <4>2. Bytes(boot)[j] \in Nat /\ MmapLength(boot) \in Nat
        <5>1. Bytes(boot) \in [0 .. Len(boot.entries) -> Nat]
          BY <1>2, BytesSteps
        <5>2. Len(boot.entries) \in 0 .. Len(boot.entries)
          BY <1>5
        <5> QED
          BY <1>4, <5>1, <5>2 DEF MmapLength
      <4> QED
        BY <3>1, <3>2, <4>1, <4>2 DEF EntryBytes
    <3> QED
      BY <1>1, <1>2, <1>4, <2>1, <3>2, <3>3, WalkedTrue
  <2>2. CASE boot.map = "memory"
    <3>1. Handed(boot) = Fallback(boot)
      BY <2>2 DEF Handed
    <3> QED
      BY <3>1, <2>2, <1>1, <1>2, FallbackTyped
  <2>3. CASE boot.map = "none"
    <3>1. j = 0 /\ Len(mem_regions) = Rank(boot, 0) /\ Rank(boot, 0) = 0
      BY <1>2, <1>4, <2>3, RankSteps DEF WalkedTo
    <3>2. mem_regions = <<>>
      BY <1>2, <3>1
    <3>3. Handed(boot) = <<>>
      BY <2>3 DEF Handed
    <3> QED
      BY <3>2, <3>3, <2>3, <1>1, <1>2, <1>3
  <2> QED
    BY <1>3, <2>1, <2>2, <2>3
<1>7. Walked'
  <2>1. Handed(boot)' = Handed(boot)
    BY <1>1
  <2> QED
    BY <1>1, <1>6, <2>1 DEF Walked, Early, Late
<1>8. TypeOK'
  BY <1>1, <1>6 DEF TypeOK
<1>9. Control'
  BY <1>1 DEF Control, Early, Late
<1> QED
  BY <1>1, <1>7, <1>8, <1>9, Undisturbed DEF IInv

\* A segment that is passed over.
LEMMA SkipSegmentKeeps == ASSUME IInv, SkipSegment PROVE IInv'
<1>1. /\ TypeOK /\ Control /\ Walked /\ WritesConfined /\ Loaded /\ Lowest
      /\ phase = "segments" /\ Skipped(boot.phdrs[i]) /\ i' = i + 1
      /\ UNCHANGED <<phase, boot, mem, mmap_addr, mem_regions, phys_base, rdi, rsi, rax>>
  BY DEF IInv, SkipSegment, At, regs
<1>2. i \in Nat \ {0} /\ i + 1 \in Nat \ {0}
  BY <1>1 DEF Control
<1>3. i \notin LoadSegments(boot) /\ \A k \in LoadSegments(boot) : k \in Int
  <2>1. boot.phdrs \in Seq(Phdrs)
    BY <1>1, Stage1Assumption DEF TypeOK
  <2>2. \A k \in LoadSegments(boot) : k \in 1 .. Len(boot.phdrs)
    BY <2>1 DEF LoadSegments
  <2>3. i \notin LoadSegments(boot)
    <3>1. boot.phdrs[i].load => ~(boot.phdrs[i].memsz > 0)
      BY <1>1 DEF Skipped
    <3> QED
      BY <3>1 DEF LoadSegments
  <2> QED
    BY <2>2, <2>3
<1>4. Passed' = Passed
  BY <1>1, <1>2, <1>3 DEF Passed
<1>5. TypeOK'
  BY <1>1, <1>2 DEF TypeOK
<1>6. Control'
  BY <1>1, <1>2 DEF Control, Early, Late
<1>7. Walked'
  BY <1>1 DEF Walked, Early, Late
<1>8. WritesConfined'
  BY <1>1 DEF WritesConfined
<1>9. Loaded'
  BY <1>1, <1>4 DEF Loaded
<1>10. Lowest'
  BY <1>1, <1>4 DEF Lowest
<1> QED
  BY <1>5, <1>6, <1>7, <1>8, <1>9, <1>10 DEF IInv

\* A segment that is loaded.
LEMMA LoadSegmentKeeps == ASSUME IInv, LoadSegment PROVE IInv'
<1> DEFINE ph == boot.phdrs[i]
           b == boot
<1>1. /\ TypeOK /\ Control /\ Walked /\ WritesConfined /\ Loaded /\ Lowest
      /\ phase = "segments" /\ i \in DOMAIN b.phdrs /\ ~Skipped(ph) /\ i' = i + 1
      /\ mem' = Load(mem, b, ph)
      /\ phys_base' = IF phys_base = AllOnes \/ ph.paddr < phys_base THEN ph.paddr ELSE phys_base
      /\ UNCHANGED <<phase, boot, mmap_addr, mem_regions, rdi, rsi, rax>>
  BY DEF IInv, LoadSegment, At, regs
<1>2. b \in Boots /\ i \in Nat \ {0} /\ i + 1 \in Nat \ {0} /\ mem \in [Cells -> Value]
  BY <1>1 DEF Control, TypeOK
<1>3. i \in LoadSegments(b) /\ \A k \in LoadSegments(b) : k \in Nat
  <2>1. b.phdrs \in Seq(Phdrs)
    BY <1>2, Stage1Assumption
  <2>2. \A k \in LoadSegments(b) : k \in 1 .. Len(b.phdrs)
    BY <2>1 DEF LoadSegments
  <2>3. b.phdrs[i] \in Phdrs
    BY <1>1, <2>1
  <2>4. b.phdrs[i].load /\ b.phdrs[i].memsz \in Nat /\ b.phdrs[i].memsz # 0
    BY <1>1, <2>3 DEF Skipped, Phdrs
  <2>5. b.phdrs[i].memsz > 0
    BY <2>4
  <2>6. i \in LoadSegments(b)
    BY <1>1, <2>4, <2>5 DEF LoadSegments
  <2> QED
    BY <2>2, <2>6
<1>4. Passed' = Passed \cup {i} /\ i \notin Passed
  BY <1>1, <1>2, <1>3 DEF Passed
<1>5. /\ Targets(ph) \subseteq Cells /\ ph.paddr \in Nat /\ ph.paddr \in Targets(ph)
      /\ Cells \subseteq Nat
  BY <1>2, <1>3, SegmentTyped, Stage1Assumption
<1>6. Placed(mem, mem', b, ph)
  BY <1>1, <1>2, <1>3, LoadPlaces
<1>7. mem' \in [Cells -> Value] /\ \A c \in Cells \ Targets(ph) : mem'[c] = mem[c]
  BY <1>6 DEF Placed
<1>8. TypeOK'
  <2>1. phys_base' \in Cells \cup {AllOnes}
    BY <1>1, <1>5 DEF TypeOK
  <2> QED
    BY <1>1, <1>2, <1>7, <2>1 DEF TypeOK
<1>9. Control'
  BY <1>1, <1>2 DEF Control, Early, Late
<1>10. Walked'
  BY <1>1 DEF Walked, Early, Late
<1>11. WritesConfined'
  <2>1. \A c \in Cells \ UNION {Targets(b.phdrs[k]) : k \in LoadSegments(b)} : mem'[c] = mem[c]
    BY <1>3, <1>7
  <2> QED
    BY <1>1, <2>1 DEF WritesConfined
<1>12. Loaded'
  <2> SUFFICES ASSUME Apart(b), NEW k \in Passed', NEW c \in Targets(b.phdrs[k]),
                      \A l \in Passed' : c \in Targets(b.phdrs[l]) => l <= k
               PROVE  mem'[c] = Content(b.phdrs[k], c)
    BY <1>1 DEF Loaded
  <2>1. CASE k = i
    <3>1. Targets(ph) \cap Module(b) = {}
      BY <1>3 DEF Apart
    <3>2. \A d \in Module(b) : mem[d] = File(d - b.at)
      BY <1>1, StaysSane
    <3>3. \A d \in Targets(ph) : mem'[d] = Content(ph, d)
      BY <3>1, <3>2, <1>6 DEF Placed
    <3> QED
      BY <2>1, <3>3
  <2>2. CASE k # i
    <3>1. k \in Passed /\ k < i /\ k \in LoadSegments(b)
      BY <2>2, <1>4 DEF Passed
    <3>2. c \notin Targets(ph)
      <4> SUFFICES ASSUME c \in Targets(ph) PROVE FALSE
        OBVIOUS
      <4>1. i <= k
        BY <1>4
      <4>2. i \in Nat /\ k \in Nat /\ k < i
        BY <3>1, <1>2, <1>3
      <4> HIDE DEF b
      <4> QED
        BY <4>1, <4>2
    <3>3. c \in Cells
      BY <1>2, <3>1, SegmentTyped
    <3>4. mem'[c] = mem[c]
      BY <3>2, <3>3, <1>7
    <3> QED
      BY <3>1, <3>4, <1>1, <1>4 DEF Loaded
  <2> QED
    BY <2>1, <2>2
<1>13. Lowest'
  <2> DEFINE a(k) == b.phdrs[k].paddr
  <2>1. \A k \in Passed : a(k) \in Nat
    BY <1>2, SegmentTyped DEF Passed
  <2>2. a(i) \in Nat /\ ~(a(i) = AllOnes)
    BY <1>5 DEF AllOnes
  <2>3. phys_base' = IF phys_base = AllOnes \/ a(i) < phys_base THEN a(i) ELSE phys_base
    BY <1>1
  <2>4. IF Passed = {} THEN phys_base = AllOnes
        ELSE \E k \in Passed : phys_base = a(k) /\ \A l \in Passed : phys_base <= a(l)
    BY <1>1 DEF Lowest
  <2> HIDE DEF a
  <2>5. \E k \in Passed \cup {i} : phys_base' = a(k) /\ \A l \in Passed \cup {i} : phys_base' <= a(l)
    <3>1. CASE Passed = {}
      <4>1. phys_base' = a(i) /\ a(i) <= a(i)
        BY <3>1, <2>2, <2>3, <2>4
      <4> QED
        BY <3>1, <4>1
    <3>2. CASE Passed # {}
      <4>1. PICK k \in Passed : phys_base = a(k) /\ \A l \in Passed : phys_base <= a(l)
        BY <3>2, <2>4
      <4>2. phys_base \in Nat /\ phys_base # AllOnes
        BY <2>1, <4>1 DEF AllOnes
      <4>3. CASE a(i) < phys_base
        <5>1. phys_base' = a(i) /\ \A l \in Passed : a(i) <= a(l)
          BY <2>1, <2>2, <2>3, <4>1, <4>2, <4>3
        <5> QED
          BY <5>1, <2>2
      <4>4. CASE ~(a(i) < phys_base)
        <5>1. phys_base' = phys_base /\ phys_base <= a(i)
          BY <2>2, <2>3, <4>2, <4>4
        <5> QED
          BY <5>1, <4>1
      <4> QED
        BY <4>3, <4>4
    <3> QED
      BY <3>1, <3>2
  <2> QED
    BY <1>1, <1>4, <2>5 DEF Lowest, a
<1> QED
  BY <1>8, <1>9, <1>10, <1>11, <1>12, <1>13 DEF IInv

\* Every step keeps the invariant.
LEMMA NextInvariant == ASSUME Invariant, [Next]_vars PROVE Invariant'
<1> USE DEF Early, Late, Ends
<1>1. /\ IInv /\ TypeOK /\ Control /\ Walked /\ WritesConfined /\ Loaded /\ Lowest /\ Survives
  BY DEF Invariant, IInv
<1>2. boot \in Boots
  BY <1>1 DEF TypeOK
<1>3. Apart(boot) => Sane
  BY <1>1, StaysSane
<1>4. CASE Start
  <2>1. phase = "_start" /\ phase' = "fault"
        /\ UNCHANGED <<boot, mem, mmap_addr, mem_regions, i, phys_base, rdi, rsi, rax>>
    BY <1>4 DEF Start, At, regs
  <2>2. TypeOK' /\ Control' /\ Walked' /\ Survives'
    BY <1>1, <2>1 DEF TypeOK, Control, Walked, Survives
  <2> QED
    BY <1>1, <2>1, <2>2, Undisturbed DEF Invariant, IInv
<1>5. CASE CheckMagic
  <2>1. /\ phase = "multiboot_main" /\ phase' = IF boot.magic THEN "mmap" ELSE "halted"
        /\ UNCHANGED <<boot, mem, mmap_addr, mem_regions, i, phys_base, rdi, rsi, rax>>
    BY <1>5 DEF CheckMagic, At, regs
  <2>2. TypeOK' /\ Control' /\ Survives'
    BY <1>1, <2>1 DEF TypeOK, Control, Survives
  <2>3. Walked'
    <3>1. mem_regions \in Seq(Regions) /\ \E j \in 0 .. Len(boot.entries) :
                                            WalkedTo(j) /\ (boot.map # "mmap" => j = 0)
      BY <1>1, <2>1 DEF Walked
    <3>2. \A j : WalkedTo(j)' <=> WalkedTo(j)
      BY <2>1 DEF WalkedTo
    <3> QED
      BY <2>1, <3>1, <3>2 DEF Walked
  <2> QED
    BY <1>1, <2>1, <2>2, <2>3, Undisturbed DEF Invariant, IInv
<1>6. CASE WalkEntry
  <2>1. phase = "mmap" /\ phase' = phase
    BY <1>6 DEF WalkEntry, At
  <2> QED
    BY <1>1, <1>6, <2>1, WalkEntryKeeps DEF Invariant, Survives
<1>7. CASE WalkDone
  <2>1. phase' = "module"
    BY <1>7 DEF WalkDone
  <2> QED
    BY <1>1, <1>7, <2>1, WalkDoneKeeps DEF Invariant, Survives
<1>8. CASE CheckModule
  <2>1. /\ phase = "module" /\ phase' = IF boot.module /\ boot.elf THEN "segments" ELSE "halted"
        /\ UNCHANGED <<boot, mem, mmap_addr, mem_regions, i, phys_base, rdi, rsi, rax>>
    BY <1>8 DEF CheckModule, At, regs
  <2>2. TypeOK' /\ Control' /\ Survives'
    BY <1>1, <2>1 DEF TypeOK, Control, Survives
  <2>3. Walked'
    BY <1>1, <2>1 DEF Walked
  <2> QED
    BY <1>1, <2>1, <2>2, <2>3, Undisturbed DEF Invariant, IInv
<1>9. CASE SkipSegment
  <2>1. phase = "segments" /\ phase' = phase
    BY <1>9 DEF SkipSegment, At
  <2> QED
    BY <1>1, <1>9, <2>1, SkipSegmentKeeps DEF Invariant, Survives
<1>10. CASE LoadSegment
  <2>1. phase = "segments" /\ phase' = phase
    BY <1>10 DEF LoadSegment, At
  <2> QED
    BY <1>1, <1>10, <2>1, LoadSegmentKeeps DEF Invariant, Survives
<1>11. CASE BuildInfo
  <2>1. /\ phase = "segments" /\ phase' = "switch" /\ i \notin DOMAIN boot.phdrs
        /\ UNCHANGED <<boot, mem, mmap_addr, mem_regions, i, phys_base, rdi, rsi, rax>>
    BY <1>11 DEF BuildInfo, At, regs
  <2>2. i > Len(boot.phdrs)
    <3>1. boot.phdrs \in Seq(Phdrs)
      BY <1>2, Stage1Assumption
    <3>2. DOMAIN boot.phdrs = 1 .. Len(boot.phdrs) /\ Len(boot.phdrs) \in Nat
      BY <3>1
    <3>3. i \in Nat \ {0}
      BY <1>1 DEF Control
    <3> QED
      BY <2>1, <3>2, <3>3
  <2>3. TypeOK' /\ Control' /\ Survives'
    BY <1>1, <2>1, <2>2 DEF TypeOK, Control, Survives
  <2>4. Walked'
    BY <1>1, <2>1 DEF Walked
  <2> QED
    BY <1>1, <2>1, <2>3, <2>4, Undisturbed DEF Invariant, IInv
<1>12. CASE EnterLongMode
  <2>1. /\ phase = "switch" /\ phase' = "trampoline" /\ rsi' = "boot_info" /\ rdi' = "entry"
        /\ UNCHANGED <<boot, mem, mmap_addr, mem_regions, i, phys_base, rax>>
    BY <1>12 DEF EnterLongMode, At
  <2>2. TypeOK' /\ Control' /\ Survives'
    BY <1>1, <2>1 DEF TypeOK, Control, Survives
  <2>3. Walked'
    BY <1>1, <2>1 DEF Walked
  <2> QED
    BY <1>1, <2>1, <2>2, <2>3, Undisturbed DEF Invariant, IInv
<1>13. CASE Trampoline
  <2>1. /\ phase = "trampoline" /\ phase' = "jumped" /\ rdi' = rsi /\ rax' = rdi'
        /\ UNCHANGED <<boot, mem, mmap_addr, mem_regions, i, phys_base, rsi>>
    BY <1>13 DEF Trampoline, At
  <2>2. TypeOK' /\ Control' /\ Survives'
    BY <1>1, <2>1 DEF TypeOK, Control, Survives
  <2>3. Walked'
    BY <1>1, <2>1 DEF Walked
  <2> QED
    BY <1>1, <2>1, <2>2, <2>3, Undisturbed DEF Invariant, IInv
<1>14. CASE Lost
  <2>1. /\ phase' = "wild" /\ ~Apart(boot)
        /\ UNCHANGED <<boot, mem, mmap_addr, mem_regions, i, phys_base, rdi, rsi, rax>>
    BY <1>3, <1>14 DEF Lost, regs
  <2>2. TypeOK' /\ Control' /\ Walked' /\ Survives'
    BY <1>1, <2>1 DEF TypeOK, Control, Walked, Survives
  <2> QED
    BY <1>1, <2>1, <2>2, Undisturbed DEF Invariant, IInv
<1>15. CASE UNCHANGED vars
  <2>1. UNCHANGED <<phase, boot, mem, mmap_addr, mem_regions, i, phys_base, rdi, rsi, rax>>
    BY <1>15 DEF vars
  <2>2. TypeOK' /\ Control' /\ Survives'
    BY <1>1, <2>1 DEF TypeOK, Control, Survives
  <2>3. Walked'
    <3>1. \A j : WalkedTo(j)' <=> WalkedTo(j)
      BY <2>1 DEF WalkedTo
    <3> QED
      BY <1>1, <2>1, <3>1 DEF Walked
  <2> QED
    BY <1>1, <2>1, <2>2, <2>3, Undisturbed DEF Invariant, IInv
<1> QED
  BY <1>4, <1>5, <1>6, <1>7, <1>8, <1>9, <1>10, <1>11, <1>12, <1>13, <1>14, <1>15 DEF Next

LEMMA SpecInvariant == Spec => []Invariant
BY InitInvariant, NextInvariant, PTL DEF Spec

\* The array of regions is never overrun, no cell beyond the loadable segments
\* is written, and a kernel clear of loader and module never destroys it.
THEOREM Stage1Sound == Spec => []Inv
<1>1. Invariant => Inv
  BY DEF Invariant, IInv, Inv
<1> QED
  BY <1>1, SpecInvariant, PTL

\* Control leaves stage 1 only for an ELF module, with the address of boot_info in
\* rdi and the lowest address of the segments in it; not that it goes there.
THEOREM HandoverTrue == Spec => []HandoverFaithful
<1>1. Invariant => HandoverFaithful
  <2> SUFFICES ASSUME Invariant, phase = "jumped"
               PROVE  /\ boot.magic /\ boot.module /\ boot.elf /\ rdi = "boot_info"
                      /\ IF LoadSegments(boot) = {} THEN phys_base = AllOnes
                         ELSE \E k \in LoadSegments(boot) :
                                /\ phys_base = boot.phdrs[k].paddr
                                /\ \A l \in LoadSegments(boot) : phys_base <= boot.phdrs[l].paddr
    BY DEF HandoverFaithful
  <2>1. TypeOK /\ Control /\ Lowest
    BY DEF Invariant, IInv
  <2>2. Passed = LoadSegments(boot)
    <3>1. boot.phdrs \in Seq(Phdrs)
      BY <2>1, Stage1Assumption DEF TypeOK
    <3>2. \A k \in LoadSegments(boot) : k \in 1 .. Len(boot.phdrs) /\ Len(boot.phdrs) \in Nat
      BY <3>1 DEF LoadSegments
    <3>3. i > Len(boot.phdrs) /\ i \in Nat
      BY <2>1 DEF Control, Late
    <3>4. \A k \in LoadSegments(boot) : k < i
      BY <3>2, <3>3
    <3> QED
      BY <3>4 DEF Passed
  <2> QED
    BY <2>1, <2>2 DEF Control, Late, Lowest
<1> QED
  BY <1>1, SpecInvariant, PTL
-----------------------------------------------------------------------------
(* What a loader promises.                                                 *)

\* Where all segments have been passed, every cell of a kernel clear of loader
\* and module holds what the last segment over it asks for.
LEMMA ImagePlaced ==
  ASSUME Invariant, phase \in Late, Apart(boot)
  PROVE  [c \in Covered(boot) |-> mem[c]] = Wanted(boot)
<1> DEFINE L == LoadSegments(boot)
           n == Len(boot.phdrs)
           Over(c) == {k \in L : c \in Targets(boot.phdrs[k])}
           Latest(c) == CHOOSE k \in Over(c) : \A l \in Over(c) : l <= k
<1>1. TypeOK /\ Control /\ Loaded /\ boot \in Boots
  BY DEF Invariant, IInv, TypeOK
<1>2. n \in Nat /\ L \subseteq 1 .. n
  <2>1. boot.phdrs \in Seq(Phdrs)
    BY <1>1, Stage1Assumption
  <2> QED
    BY <2>1 DEF LoadSegments
<1>3. Passed = L
  <2>1. i > n /\ i \in Nat
    BY <1>1 DEF Control
  <2>2. \A k \in L : k < i
    BY <2>1, <1>2
  <2> QED
    BY <2>2 DEF Passed
<1> HIDE DEF n, L
<1>4. ASSUME NEW c \in Covered(boot)
      PROVE  Latest(c) \in Over(c) /\ \A l \in Over(c) : l <= Latest(c)
  <2>1. Over(c) # {} /\ Over(c) \in SUBSET (0 .. n)
    BY <1>2 DEF Covered, L
  <2> HIDE DEF Over
  <2> QED
    BY <1>2, <2>1, Greatest
<1>5. ASSUME NEW c \in Covered(boot)
      PROVE  mem[c] = Content(boot.phdrs[Latest(c)], c)
  <2> DEFINE k == Latest(c)
  <2>1. k \in Over(c) /\ \A l \in Over(c) : l <= k
    BY <1>4
  <2> HIDE DEF k
  <2>2. k \in Passed /\ c \in Targets(boot.phdrs[k])
        /\ \A l \in Passed : c \in Targets(boot.phdrs[l]) => l <= k
    BY <2>1, <1>3
  <2> QED
    BY <2>2, <1>1 DEF Loaded, k
<1>6. Wanted(boot) = [c \in Covered(boot) |-> Content(boot.phdrs[Latest(c)], c)]
  BY DEF Wanted, Content, L
<1> HIDE DEF Latest
<1> QED
  BY <1>5, <1>6

LEMMA StepKinds ==
  ASSUME Invariant, Next
  PROVE  /\ UNCHANGED boot /\ phase \notin Ends
         /\ \/ phase' \notin Ends
            \/ phase' \in {"halted", "fault"}
            \/ phase' = "wild" /\ ~Apart(boot)
            \/ phase' = "jumped" /\ phase = "trampoline" /\ UNCHANGED <<mem, mem_regions>>
<1> USE DEF Ends
<1>1. Apart(boot) => Sane
  BY StaysSane DEF Invariant, IInv
<1>2. CASE Start \/ CheckMagic \/ CheckModule
  BY <1>2 DEF Start, CheckMagic, CheckModule, At
<1>3. CASE WalkEntry \/ WalkDone
  BY <1>3 DEF WalkEntry, WalkDone, At
<1>4. CASE SkipSegment \/ LoadSegment
  BY <1>4 DEF SkipSegment, LoadSegment, At
<1>5. CASE BuildInfo \/ EnterLongMode \/ Trampoline
  BY <1>5 DEF BuildInfo, EnterLongMode, Trampoline, At
<1>6. CASE Lost
  BY <1>1, <1>6 DEF Lost
<1> QED
  BY <1>2, <1>3, <1>4, <1>5, <1>6 DEF Next

\* Regions of converted entries tell of them what is so; an empty entry tells
\* nothing.
LEMMA EntryTold ==
  ASSUME NEW b \in Boots, NEW k \in DOMAIN b.entries
  PROVE  LET r == Converted(b.entries[k])
             true == Units(b.entries[k]) \X {use \in DOMAIN MemoryType : MemoryType[use] = b.entries[k].type}
         IN  /\ Units(r) \X ({r.type} \ {"reserved"}) = true
             /\ k \notin Filled(b) => true = {}
<1> DEFINE e == b.entries[k]
           uses == {use \in DOMAIN MemoryType : MemoryType[use] = e.type}
<1>1. e.base \in Nat /\ e.length \in Nat /\ e.type \in Nat
  BY EntriesTyped
<1>2. Units(Converted(e)) = Units(e) /\ Converted(e).type = Kind(e.type)
  BY DEF Units, Converted
<1>3. {Kind(e.type)} \ {"reserved"} = uses
  BY <1>1 DEF Kind, MemoryType
<1>4. ASSUME k \notin Filled(b) PROVE Units(e) = {}
  <2>1. e.length = 0
    BY <1>1, <1>4 DEF Filled
  <2> QED
    BY <1>1, <2>1 DEF Units
<1> HIDE DEF uses
<1>5. k \notin Filled(b) => Units(e) \X uses = {}
  BY <1>4
<1>6. Units(Converted(e)) \X ({Converted(e).type} \ {"reserved"}) = Units(e) \X uses
  BY <1>2, <1>3
<1> QED
  BY <1>5, <1>6 DEF uses

\* The array says nothing of memory that is not so, and all that is so if the
\* entries have room in it.
LEMMA HandedTrue ==
  ASSUME NEW b \in Boots
  PROVE  Told(Handed(b)) \subseteq Truth(b) /\ (Fits(b) => Told(Handed(b)) = Truth(b))
<1>1. b.map \in {"mmap", "memory", "none"} /\ MaxRegions \in Nat
  BY Stage1Assumption
<1>2. CASE b.map = "mmap"
  <2> DEFINE N == Cardinality(Filled(b))
             n == IF N < MaxRegions THEN N ELSE MaxRegions
             Own(x) == CHOOSE k \in Filled(b) : Rank(b, k) = x
             Of(k) == Units(b.entries[k]) \X {use \in DOMAIN MemoryType : MemoryType[use] = b.entries[k].type}
  <2>1. Len(b.entries) \in Nat /\ Rank(b, Len(b.entries)) = N /\ N \in Nat
        /\ Filled(b) \subseteq 1 .. Len(b.entries) /\ DOMAIN b.entries = 1 .. Len(b.entries)
    BY RankSteps, EntriesTyped
  <2>2. \A k \in DOMAIN b.entries :
          LET r == Converted(b.entries[k])
          IN  Units(r) \X ({r.type} \ {"reserved"}) = Of(k) /\ (k \notin Filled(b) => Of(k) = {})
    BY EntryTold
  <2>3. Handed(b) = [x \in 1 .. n |-> Converted(b.entries[Own(x)])]
    BY <1>2 DEF Handed
  <2>4. Truth(b) = UNION {Of(k) : k \in DOMAIN b.entries}
    BY <1>2 DEF Truth
  <2>5. Fits(b) => n = N
    BY <1>1, <1>2, <2>1 DEF Fits
  <2> HIDE DEF N
  <2>6. n \in Nat /\ n <= N
    BY <1>1, <2>1
  <2> HIDE DEF n, Of
  <2>7. ASSUME NEW x \in 1 .. n PROVE Own(x) \in Filled(b)
    <3>1. x \in 1 .. Rank(b, Len(b.entries)) /\ Len(b.entries) \in 0 .. Len(b.entries)
      BY <2>1, <2>6
    <3>2. \E k \in Filled(b) : Rank(b, k) = x
      BY <2>1, <3>1, RankTaken
    <3> QED
      BY <3>2
  <2>8. ASSUME NEW k \in Filled(b), n = N PROVE Rank(b, k) \in 1 .. n /\ Own(Rank(b, k)) = k
    <3>1. k \in Nat /\ k > 0 /\ k <= Len(b.entries)
      BY <2>1
    <3>2. Rank(b, k) \in Nat /\ Rank(b, 0) = 0 /\ Rank(b, 0) < Rank(b, k)
      BY <3>1, RankSteps, RankOwn
    <3>3. Rank(b, k) <= Rank(b, Len(b.entries))
      BY <2>1, <3>1, RankGrows
    <3>4. Rank(b, k) \in 1 .. n
      BY <2>1, <2>8, <3>2, <3>3
    <3>5. Rank(b, k) \in 1 .. Rank(b, k)
      BY <3>2, <3>4, <2>6
    <3>6. PICK l \in Filled(b) : \A m \in Filled(b) : Rank(b, m) = Rank(b, k) => m = l
      BY <3>1, <3>5, RankTaken
    <3> QED
      BY <3>4, <3>6
  <2> HIDE DEF Own
  <2>9. DOMAIN Handed(b) = 1 .. n /\ \A x \in 1 .. n : Handed(b)[x] = Converted(b.entries[Own(x)])
    BY <2>3
  <2>10. \A x \in 1 .. n : Units(Handed(b)[x]) \X ({Handed(b)[x].type} \ {"reserved"}) = Of(Own(x))
    BY <2>1, <2>2, <2>7, <2>9
  <2>11. Told(Handed(b)) = UNION {Of(Own(x)) : x \in 1 .. n}
    BY <2>9, <2>10 DEF Told
  <2>12. Told(Handed(b)) \subseteq Truth(b)
    BY <2>1, <2>4, <2>7, <2>11
  <2>13. ASSUME n = N PROVE Truth(b) \subseteq Told(Handed(b))
    BY <2>2, <2>4, <2>8, <2>11, <2>13
  <2> QED
    BY <2>5, <2>12, <2>13
<1>3. CASE b.map = "memory"
  <2> DEFINE low == [base |-> 0, length |-> b.lower, type |-> "usable"]
             high == [base |-> 1024, length |-> b.upper, type |-> "usable"]
             U == {"usable"}
  <2>1. b.lower \in Nat /\ b.upper \in Nat
    BY Stage1Assumption
  <2>2. /\ Units(low) = 0 .. b.lower - 1 /\ Units(high) = 1024 .. 1024 + b.upper - 1
        /\ low.type = "usable" /\ high.type = "usable"
        /\ (b.lower = 0 => Units(low) = {}) /\ (b.upper = 0 => Units(high) = {})
    BY <2>1 DEF Units
  <2>3. Truth(b) = (Units(low) \cup Units(high)) \X U
    <3>1. Truth(b) = (0 .. b.lower - 1 \cup 1024 .. 1024 + b.upper - 1) \X {"usable"}
      BY <1>3 DEF Truth
    <3>2. Units(low) = 0 .. b.lower - 1 /\ Units(high) = 1024 .. 1024 + b.upper - 1
      BY <2>2
    <3> DEFINE first == Units(low)
               second == Units(high)
    <3>3. first = 0 .. b.lower - 1 /\ second = 1024 .. 1024 + b.upper - 1
      BY <3>2
    <3> HIDE DEF low, high, first, second
    <3>4. Truth(b) = (first \cup second) \X {"usable"}
      BY <3>1, <3>3
    <3> QED
      BY <3>4 DEF first, second
  <2>4. Handed(b) = (IF b.lower > 0 THEN <<low>> ELSE <<>>) \o (IF b.upper > 0 THEN <<high>> ELSE <<>>)
    BY <1>3 DEF Handed, Fallback
  <2> HIDE DEF low, high
  <2>5. Handed(b) = CASE b.lower > 0 /\ b.upper > 0 -> <<low, high>>
                      [] b.lower > 0 /\ ~(b.upper > 0) -> <<low>>
                      [] ~(b.lower > 0) /\ b.upper > 0 -> <<high>>
                      [] ~(b.lower > 0) /\ ~(b.upper > 0) -> <<>>
    <3>1. <<low>> \o <<high>> = <<low, high>> /\ <<low>> \o <<>> = <<low>>
          /\ <<>> \o <<high>> = <<high>> /\ <<>> \o <<>> = <<>>
      <4> DEFINE both == <<low>> \o <<high>>
                 S == {low, high}
      <4>1. both \in Seq(S) /\ Len(both) = 2 /\ both[1] = low /\ both[2] = high
        OBVIOUS
      <4> HIDE DEF both, S
      <4>2. both = <<low, high>>
        BY <4>1
      <4>3. <<low>> \o <<>> = <<low>> /\ <<>> \o <<high>> = <<high>> /\ <<>> \o <<>> = <<>>
        OBVIOUS
      <4> QED
        BY <4>2, <4>3 DEF both
    <3> DEFINE l == b.lower > 0
               h == b.upper > 0
    <3> HIDE DEF l, h
    <3>2. Handed(b) = (IF l THEN <<low>> ELSE <<>>) \o (IF h THEN <<high>> ELSE <<>>)
      BY <2>4 DEF l, h
    <3>3. CASE l /\ h
      BY <3>1, <3>2, <3>3 DEF l, h
    <3>4. CASE l /\ ~h
      BY <3>1, <3>2, <3>4 DEF l, h
    <3>5. CASE ~l /\ h
      BY <3>1, <3>2, <3>5 DEF l, h
    <3>6. CASE ~l /\ ~h
      BY <3>1, <3>2, <3>6 DEF l, h
    <3> QED
      BY <3>3, <3>4, <3>5, <3>6
  <2>6. Told(Handed(b)) = UNION {Units(Handed(b)[k]) \X U : k \in DOMAIN Handed(b)}
    <3>1. \A k \in DOMAIN Handed(b) : Handed(b)[k] \in {low, high}
      BY <2>5
    <3>2. \A k \in DOMAIN Handed(b) : {Handed(b)[k].type} \ {"reserved"} = U
      BY <2>2, <3>1
    <3> QED
      BY <3>2 DEF Told
  <2> HIDE DEF U
  <2>7. Told(Handed(b)) = (Units(low) \cup Units(high)) \X U
    <3>1. CASE b.lower > 0 /\ b.upper > 0
      <4>1. Handed(b) = <<low, high>>
        BY <2>5, <3>1
      <4>2. DOMAIN Handed(b) = {1, 2} /\ Handed(b)[1] = low /\ Handed(b)[2] = high
        BY <4>1
      <4> QED
        BY <2>6, <4>2
    <3>2. CASE b.lower > 0 /\ ~(b.upper > 0)
      <4>1. Handed(b) = <<low>>
        BY <2>5, <3>2
      <4>2. DOMAIN Handed(b) = {1} /\ Handed(b)[1] = low
        BY <4>1
      <4>3. Units(high) = {}
        BY <2>1, <2>2, <3>2
      <4> QED
        BY <2>6, <4>2, <4>3
    <3>3. CASE ~(b.lower > 0) /\ b.upper > 0
      <4>1. Handed(b) = <<high>>
        BY <2>5, <3>3
      <4>2. DOMAIN Handed(b) = {1} /\ Handed(b)[1] = high
        BY <4>1
      <4>3. Units(low) = {}
        BY <2>1, <2>2, <3>3
      <4> QED
        BY <2>6, <4>2, <4>3
    <3>4. CASE ~(b.lower > 0) /\ ~(b.upper > 0)
      <4>1. Handed(b) = <<>>
        BY <2>5, <3>4
      <4>2. DOMAIN Handed(b) = {}
        BY <4>1
      <4>3. Units(low) = {} /\ Units(high) = {}
        BY <2>1, <2>2, <3>4
      <4> QED
        BY <2>6, <4>2, <4>3
    <3> QED
      BY <2>1, <3>1, <3>2, <3>3, <3>4
  <2> QED
    BY <2>3, <2>7
<1>4. CASE b.map = "none"
  BY <1>4 DEF Handed, Told, Truth
<1> QED
  BY <1>1, <1>2, <1>3, <1>4

\* Unless the kernel is loaded over stage 1 or over its own file: when control
\* leaves stage 1 the segments are in place, their tails zero, and boot_info
\* says nothing of memory that is not so, and all that is so if it has room.
THEOREM Stage1Implements == Spec => Implements
<1>1. Init => Promise!Init
  <2> SUFFICES ASSUME Init PROVE Promise!Init
    OBVIOUS
  <2>1. phase \in {"_start", "multiboot_main"}
    BY Stage1Assumption DEF Init
  <2> QED
    BY <2>1 DEF Promise!Init, Ends, Left
<1>2. ASSUME Invariant, [Next]_vars PROVE [Promise!Next]_(Promise!vars)
  <2>1. CASE Next
    <3> DEFINE W == Wanted(boot)
               T == Truth(boot)
               F == Fits(boot)
               A == Apart(boot)
               C == Covered(boot)
    <3>1. boot' = boot /\ phase \notin Ends
      BY <1>2, <2>1, StepKinds
    <3>2. W' = W /\ T' = T /\ A' = A /\ C' = C /\ F' = F
      BY <3>1
    <3>3. CASE phase' \notin Ends
      BY <3>1, <3>2, <3>3 DEF Promise!Next, Promise!Learn, Ends, Left
    <3>4. CASE phase' \in {"halted", "fault"} \/ (phase' = "wild" /\ ~A)
      BY <3>1, <3>2, <3>4 DEF Promise!Next, Promise!GiveUp, Ends, Left
    <3>5. CASE phase' = "jumped" /\ phase = "trampoline" /\ UNCHANGED <<mem, mem_regions>>
      <4>1. CASE A
        <5>1. [c \in C |-> mem[c]] = W
          BY <1>2, <3>5, <4>1, ImagePlaced DEF Late
        <5>2. mem_regions = Handed(boot) /\ boot \in Boots
          BY <1>2, <3>5 DEF Invariant, IInv, TypeOK, Walked, Late
        <5>3. Told(mem_regions) \subseteq T /\ (F => Told(mem_regions) = T)
          BY <5>2, HandedTrue
        <5>4. [c \in C |-> mem[c]]' = W /\ Told(mem_regions)' = Told(mem_regions)
          BY <3>2, <3>5, <5>1
        <5>5. Left' /\ ~Left
          BY <3>2, <3>5, <4>1 DEF Left
        <5> HIDE DEF T, F, W, C
        <5> QED
          BY <3>1, <3>2, <3>5, <5>3, <5>4, <5>5 DEF Promise!Next, Promise!Leave, Ends, W, T, F, C
      <4>2. CASE ~A
        BY <3>1, <3>2, <3>5, <4>2 DEF Promise!Next, Promise!GiveUp, Ends, Left
      <4> QED
        BY <4>1, <4>2
    <3> QED
      BY <1>2, <2>1, <3>3, <3>4, <3>5, StepKinds
  <2>2. CASE UNCHANGED vars
    <3>1. UNCHANGED <<phase, boot, mem, mem_regions>>
      BY <2>2 DEF vars
    <3> QED
      BY <3>1 DEF Promise!vars, Left
  <2> QED
    BY <1>2, <2>1, <2>2
<1> QED
  BY <1>1, <1>2, SpecInvariant, PTL DEF Spec, Implements, Promise!Spec
-----------------------------------------------------------------------------
(* The first kernel.                                                       *)

\* Steps of boot.S: what is not done yet.
Unlinked == {"start", "clear", "link"}
Unfilled == Unlinked \cup {"fill"}
Unextended == Unfilled \cup {"pae"}
Rootless == Unextended \cup {"cr3"}
Short == Rootless \cup {"lme"}
Unpaged == Short \cup {"pg"}
Narrow == Unpaged \cup {"jump"}

\* What each step of boot.S leaves to those after it.
Prepared ==
  /\ IF pc = "start" THEN reg.ebx = "info" ELSE reg.esi = "info"
  /\ pc \notin Unlinked => table.pml4 = "pdpt" /\ table.pdpt = "pd"
  /\ pc \notin Unfilled => table.pd = [e \in 0 .. Entries - 1 |-> (e * 16) % Frames]
  /\ pc \notin Unextended => cr.pae
  /\ pc \notin Rootless => cr.cr3 = "pml4"
  /\ pc \notin Short => cr.lme
  /\ pc \notin Unpaged => cr.pg
  /\ pc \notin Narrow => cs = 64 /\ CodeBits(gdt) = 64

\* Of the first j tags, t is the last one of a type, or there is none.
IsLast(t, l, type, j) ==
  \/ t = NoTag /\ \A k \in 1 .. j : l[k].type # type
  \/ \E k \in 1 .. j : /\ t = l[k] /\ l[k].type = type
                       /\ \A h \in 1 .. j : l[h].type = type => h <= k

\* The walk has passed the first j tags.
WalkedPast(j) ==
  /\ tag = TagEnds(mbi.tags)[j]
  /\ IsLast(seen.name, mbi.tags, 2, j) /\ IsLast(seen.mem, mbi.tags, 4, j)
Reporting == {"print", "halted"}
Walking ==
  /\ seen = [name |-> seen.name, mem |-> seen.mem]
  /\ pc \notin {"walk"} \cup Reporting => seen = [name |-> NoTag, mem |-> NoTag]
  /\ mbi.page = 0 /\ pc \in {"walk"} \cup Reporting =>
       /\ total = TotalOf(mbi.tags)
       /\ \E j \in 0 .. Len(mbi.tags) :
            WalkedPast(j) /\ (pc # "walk" => j = Len(mbi.tags))

V1IInv == V1TypeOK /\ Prepared /\ KmainReady /\ ResetOnlyBeyond /\ Walking
-----------------------------------------------------------------------------
LEMMA TagsTyped ==
  ASSUME NEW l \in TagLists
  PROVE  /\ Len(l) \in Nat /\ DOMAIN l = 1 .. Len(l)
         /\ \A k \in DOMAIN l : l[k] \in Tags /\ l[k].size \in Nat /\ l[k].size >= 8
<1>1. l \in Seq(Tags) /\ \A k \in DOMAIN l : l[k].size >= 8
  BY V1Assumption
<1>2. \A k \in DOMAIN l : l[k] \in Tags
  BY <1>1
<1> QED
  BY <1>1, <1>2 DEF Tags

LEMMA RoundingUp ==
  ASSUME NEW n \in Nat
  PROVE  RoundUp8(n) \in Nat /\ (n >= 8 => RoundUp8(n) >= 8)
BY DEF RoundUp8

\* Where tags end: each adds its own bytes, rounded up, so later ones end later.
LEMMA TagEndsSteps ==
  ASSUME NEW l \in TagLists
  PROVE  /\ TagEnds(l) \in [0 .. Len(l) -> Nat] /\ TagEnds(l)[0] = 8
         /\ \A k \in 1 .. Len(l) : TagEnds(l)[k] = TagEnds(l)[k-1] + RoundUp8(l[k].size)
         /\ \A j, k \in 0 .. Len(l) : j < k => TagEnds(l)[j] + 8 <= TagEnds(l)[k]
<1> DEFINE n == Len(l)
           add(k) == RoundUp8(l[k].size)
           d == [k \in 1 .. n |-> add(k)]
           Rule(g) == g = [k \in 0 .. n |-> IF k = 0 THEN 8 ELSE g[k-1] + add(k)]
<1>1. n \in Nat /\ \A k \in 1 .. n : add(k) \in Nat /\ 8 <= add(k)
  BY TagsTyped, RoundingUp
<1> HIDE DEF n, add
<1>2. d \in [1 .. n -> Nat] /\ \A k \in 1 .. n : d[k] = add(k) /\ 8 <= d[k]
  BY <1>1
<1> DEFINE sum == CHOOSE f : Rule(f)
<1>3. TagEnds(l) = sum
  BY DEF TagEnds, n, add
<1>4. SumSteps(sum, 8, n, d)
  <2>1. \A k \in 0 .. n : k # 0 => d[k] = add(k)
    BY <1>1, <1>2
  <2> HIDE DEF d
  <2>2. \A g : IsSum(g, 8, n, d) <=> Rule(g)
    BY <2>1 DEF IsSum
  <2>3. \E g : IsSum(g, 8, n, d)
    BY <1>1, <1>2, SumExists
  <2> HIDE DEF Rule
  <2>4. Rule(sum)
    BY <2>2, <2>3
  <2> HIDE DEF sum
  <2> QED
    BY <2>2, <2>4, <1>1, <1>2, SumTyped
<1> HIDE DEF d, sum
<1>5. \A j, k \in 0 .. n : j < k => sum[j] + 8 <= sum[k]
  BY <1>1, <1>2, <1>4, SumGrows
<1> QED
  BY <1>2, <1>3, <1>4, <1>5 DEF SumSteps, n, add

\* Behind the first j tags, and before the end, stands the next tag and no other.
LEMMA NextTag ==
  ASSUME NEW l \in TagLists, NEW j \in 0 .. Len(l), TagEnds(l)[j] < TotalOf(l)
  PROVE  j + 1 \in DOMAIN l /\ TagAt(l, TagEnds(l)[j]) = {j + 1}
<1> DEFINE n == Len(l)
           E == TagEnds(l)
<1>1. n \in Nat /\ DOMAIN l = 1 .. n
  BY TagsTyped
<1>2. E \in [0 .. n -> Nat] /\ \A h, k \in 0 .. n : h < k => E[h] + 8 <= E[k]
  BY TagEndsSteps
<1>3. E[j] < E[n]
  BY DEF TotalOf
<1>4. j # n
  <2>1. E[j] \in Nat
    BY <1>2
  <2> HIDE DEF E, n
  <2> QED
    BY <1>3, <2>1
<1> HIDE DEF E
<1>5. j + 1 \in 1 .. n /\ (j + 1) - 1 = j
  <2>1. j \in 0 .. n
    OBVIOUS
  <2> HIDE DEF n
  <2> QED
    BY <2>1, <1>1, <1>4
<1>6. ASSUME NEW k \in 1 .. n, E[k-1] = E[j] PROVE k = j + 1
  <2>1. k - 1 \in 0 .. n /\ j \in 0 .. n
    BY <1>1
  <2> HIDE DEF n
  <2>2. E[k-1] \in Nat /\ E[j] \in Nat
    BY <1>2, <2>1
  <2>3. ~(k - 1 < j) /\ ~(j < k - 1)
    BY <1>2, <1>6, <2>1, <2>2
  <2> QED
    BY <1>1, <2>1, <2>3
<1> QED
  BY <1>1, <1>5, <1>6 DEF TagAt, E

\* At the end, all tags have been passed.
LEMMA LastTag ==
  ASSUME NEW l \in TagLists, NEW j \in 0 .. Len(l), ~(TagEnds(l)[j] < TotalOf(l))
  PROVE  j = Len(l)
<1> DEFINE n == Len(l)
           E == TagEnds(l)
<1>1. n \in Nat /\ j \in 0 .. n /\ n \in 0 .. n
  BY TagsTyped
<1>2. E \in [0 .. n -> Nat] /\ \A h, k \in 0 .. n : h < k => E[h] + 8 <= E[k]
  BY TagEndsSteps
<1>3. ~(E[j] < E[n])
  BY DEF TotalOf
<1> HIDE DEF E, n
<1>4. E[j] \in Nat /\ E[n] \in Nat
  BY <1>1, <1>2
<1>5. ~(j < n)
  BY <1>1, <1>2, <1>3, <1>4
<1> QED
  BY <1>1, <1>5 DEF n

\* One tag more.
LEMMA LastSteps ==
  ASSUME NEW l, NEW t, NEW type, NEW j \in Nat, IsLast(t, l, type, j)
  PROVE  IsLast(IF l[j+1].type = type THEN l[j+1] ELSE t, l, type, j + 1)
<1>1. \A k \in 1 .. j + 1 : k = j + 1 \/ k \in 1 .. j
  OBVIOUS
<1>2. j + 1 \in 1 .. j + 1 /\ (\A k \in 1 .. j : k \in 1 .. j + 1 /\ k <= j + 1)
  OBVIOUS
<1>3. CASE l[j+1].type = type
  <2>1. \A k \in 1 .. j + 1 : k <= j + 1
    OBVIOUS
  <2> QED
    BY <1>2, <1>3, <2>1 DEF IsLast
<1>4. CASE l[j+1].type # type
  <2>1. CASE t = NoTag /\ \A k \in 1 .. j : l[k].type # type
    BY <1>1, <1>4, <2>1 DEF IsLast
  <2>2. CASE \E k \in 1 .. j : /\ t = l[k] /\ l[k].type = type
                               /\ \A h \in 1 .. j : l[h].type = type => h <= k
    BY <1>1, <1>2, <1>4, <2>2 DEF IsLast
  <2> QED
    BY <2>1, <2>2 DEF IsLast
<1> QED
  BY <1>3, <1>4

\* Where all tags have been passed, the last one is the last of the list.
LEMMA LastFound ==
  ASSUME NEW type, NEW t, Len(mbi.tags) \in Nat, DOMAIN mbi.tags = 1 .. Len(mbi.tags),
         IsLast(t, mbi.tags, type, Len(mbi.tags))
  PROVE  t = LastOf(type)
<1> DEFINE n == Len(mbi.tags)
           all == {k \in DOMAIN mbi.tags : mbi.tags[k].type = type}
<1>1. CASE t = NoTag /\ \A k \in 1 .. n : mbi.tags[k].type # type
  BY <1>1 DEF LastOf
<1>2. CASE \E k \in 1 .. n : /\ t = mbi.tags[k] /\ mbi.tags[k].type = type
                             /\ \A h \in 1 .. n : mbi.tags[h].type = type => h <= k
  <2>1. PICK k \in 1 .. n : /\ t = mbi.tags[k] /\ mbi.tags[k].type = type
                            /\ \A h \in 1 .. n : mbi.tags[h].type = type => h <= k
    BY <1>2
  <2>2. all # {} /\ k \in all /\ all \subseteq 1 .. n /\ \A h \in all : h <= k
    BY <2>1
  <2>3. LastOf(type) = mbi.tags[CHOOSE g \in all : \A h \in all : h <= g]
    BY <2>2 DEF LastOf
  <2> DEFINE c == CHOOSE g \in all : \A h \in all : h <= g
  <2>4. c \in all /\ \A h \in all : h <= c
    BY <2>2
  <2> HIDE DEF c, all
  <2>5. c <= k /\ k <= c
    BY <2>2, <2>4
  <2>6. c \in 1 .. n /\ k \in 1 .. n
    BY <2>2, <2>4
  <2>7. c = k
    <3> HIDE DEF n
    <3> QED
      BY <2>5, <2>6
  <2> QED
    BY <2>1, <2>3, <2>7 DEF c
<1> QED
  BY <1>1, <1>2 DEF IsLast

-----------------------------------------------------------------------------
LEMMA EntriesFit == \A e \in 0 .. Entries - 1 : (e * 16) % Frames \in 0 .. Frames - 1
BY DEF Entries, Frames

\* Under the first kernel's tables the first large page is where it was, and
\* a page below 1 GiB is mapped somewhere.
LEMMA FirstMapped ==
  ASSUME V1IInv, pc \notin Rootless
  PROVE  /\ Translate(0) = 0
         /\ \A p \in Nat : p < Entries => Translate(p) \in 0 .. Frames - 1
<1>1. /\ cr.cr3 = "pml4" /\ table.pml4 = "pdpt" /\ table.pdpt = "pd"
      /\ table.pd = [e \in 0 .. Entries - 1 |-> (e * 16) % Frames]
  BY DEF V1IInv, Prepared, Rootless, Unextended, Unfilled
<1>2. \A e \in 0 .. Entries - 1 : (e * 16) % Frames \in 0 .. Frames - 1
  BY EntriesFit
<1>3. (0 * 16) % Frames = 0 /\ 0 \in 0 .. Entries - 1 /\ 0 < Entries
  BY DEF Entries, Frames
<1>4. \A p \in Nat : p < Entries => p \in 0 .. Entries - 1
  BY DEF Entries
<1>5. table.pd[0] = 0
  BY <1>1, <1>3
<1>6. \A p \in Nat : p < Entries => table.pd[p] \in 0 .. Frames - 1
  BY <1>1, <1>2, <1>4
<1> QED
  BY <1>1, <1>3, <1>5, <1>6 DEF Translate

LEMMA V1InitInvariant == ASSUME V1Init PROVE V1IInv
<1>1. \A e \in 0 .. Entries - 1 : Unset \in (0 .. Frames - 1) \cup {Unset}
  OBVIOUS
<1>3. V1TypeOK
  BY <1>1 DEF V1Init, V1TypeOK
<1>4. Prepared /\ KmainReady /\ ResetOnlyBeyond /\ Walking
  BY DEF V1Init, Prepared, KmainReady, ResetOnlyBeyond, Walking, InKmain, Unlinked, Unfilled,
         Unextended, Rootless, Short, Unpaged, Narrow, Reporting
<1> QED
  BY <1>3, <1>4 DEF V1IInv

\* The steps of boot.S.
BootStep == \/ Enter \/ ClearTables \/ LinkTables \/ FillPd \/ EnablePae \/ LoadCr3
            \/ EnableLme \/ EnablePaging \/ FarJump \/ LongMode
LEMMA BootStepKeeps ==
  ASSUME V1IInv, BootStep
  PROVE  V1IInv'
<1>1. V1TypeOK /\ Prepared
  BY DEF V1IInv
<1>2. pc \in Narrow \cup {"long"} /\ UNCHANGED <<mbi, info>>
  BY DEF BootStep, Enter, ClearTables, LinkTables, FillPd, EnablePae, LoadCr3, EnableLme,
         EnablePaging, FarJump, LongMode, Unlinked, Unfilled, Unextended, Rootless, Short,
         Unpaged, Narrow
<1>3. seen = [name |-> NoTag, mem |-> NoTag]
  BY <1>2 DEF V1IInv, Walking, Reporting, Unlinked, Unfilled, Unextended, Rootless, Short,
              Unpaged, Narrow
<1>4. CASE EnablePaging
  <2>1. cr.lme /\ cr.pae /\ Translate(0) = 0
    <3>1. pc = "pg"
      BY <1>4 DEF EnablePaging
    <3>2. pc \notin Short
      BY <3>1 DEF Unlinked, Unfilled, Unextended, Rootless, Short
    <3> QED
      BY <1>1, <3>2, FirstMapped DEF Prepared, Rootless, Short, Unextended
  <2>2. pc = "pg" /\ pc' = "jump" /\ cr' = [cr EXCEPT !.pg = TRUE]
        /\ UNCHANGED <<reg, table, gdt, cs>>
    BY <1>4, <2>1 DEF EnablePaging
  <2>3. V1TypeOK'
    BY <1>1, <1>2, <2>2 DEF V1TypeOK, info
  <2> QED
    BY <1>1, <1>2, <1>3, <2>2, <2>3
    DEF V1IInv, V1TypeOK, Prepared, KmainReady, ResetOnlyBeyond, Walking, InKmain, info,
        Unlinked, Unfilled, Unextended, Rootless, Short, Unpaged, Narrow, Reporting
<1> USE DEF V1IInv, V1TypeOK, Prepared, KmainReady, ResetOnlyBeyond, Walking, InKmain, info,
            Unlinked, Unfilled, Unextended, Rootless, Short, Unpaged, Narrow, Reporting
<1>5. CASE Enter
  BY <1>1, <1>3, <1>5 DEF Enter, CodeBits
<1>6. CASE ClearTables
  BY <1>1, <1>3, <1>6 DEF ClearTables
<1>7. CASE LinkTables
  <2> DEFINE PD == [0 .. Entries - 1 -> (0 .. Frames - 1) \cup {Unset}]
             Tables == [pml4 : {"unset", "pdpt"}, pdpt : {"unset", "pd"}, pd : PD]
  <2>1. table' \in Tables
    <3>1. table \in Tables
      BY <1>1
    <3> HIDE DEF PD
    <3> QED
      BY <3>1, <1>7 DEF LinkTables
  <2>2. table'.pml4 = "pdpt" /\ table'.pdpt = "pd"
    BY <1>1, <1>7 DEF LinkTables
  <2> QED
    BY <1>1, <1>3, <1>7, <2>1, <2>2 DEF LinkTables
<1>8. CASE FillPd
  <2>1. \A e \in 0 .. Entries - 1 : (e * 16) % Frames \in 0 .. Frames - 1
    BY EntriesFit
  <2> DEFINE pd == [e \in 0 .. Entries - 1 |-> (e * 16) % Frames]
  <2>2. pd \in [0 .. Entries - 1 -> (0 .. Frames - 1) \cup {Unset}]
    BY <2>1
  <2>3. table' = [table EXCEPT !.pd = pd]
    BY <1>8 DEF FillPd
  <2>4. table'.pd = pd /\ table'.pml4 = table.pml4 /\ table'.pdpt = table.pdpt
    BY <1>1, <2>3
  <2>5. table' \in [pml4 : {"unset", "pdpt"}, pdpt : {"unset", "pd"},
                    pd : [0 .. Entries - 1 -> (0 .. Frames - 1) \cup {Unset}]]
    BY <1>1, <2>2, <2>3
  <2> QED
    BY <1>1, <1>3, <1>8, <2>4, <2>5 DEF FillPd
<1>9. CASE EnablePae
  BY <1>1, <1>3, <1>9 DEF EnablePae
<1>10. CASE LoadCr3
  BY <1>1, <1>3, <1>10 DEF LoadCr3
<1>11. CASE EnableLme
  BY <1>1, <1>3, <1>11 DEF EnableLme
<1>12. CASE FarJump
  BY <1>1, <1>3, <1>12 DEF FarJump, CodeBits
<1>13. CASE LongMode
  BY <1>1, <1>3, <1>13 DEF LongMode
<1> QED
  BY <1>4, <1>5, <1>6, <1>7, <1>8, <1>9, <1>10, <1>11, <1>12, <1>13 DEF BootStep

\* In kmain the tables are in force, and boot information in low memory is seen.
LEMMA LowSeen ==
  ASSUME V1IInv, InKmain
  PROVE  /\ pc \notin Narrow /\ mbi \in [page : MbiPages, tags : TagLists, stray : Strays]
         /\ mbi.page \in Nat /\ (mbi.page < Entries => Translate(mbi.page) # Unset)
         /\ (mbi.page = 0 => Sees)
<1>1. pc \notin Narrow /\ pc \notin Rootless
  BY DEF InKmain, Narrow, Unpaged, Short, Rootless, Unextended, Unfilled, Unlinked
<1>2. mbi \in [page : MbiPages, tags : TagLists, stray : Strays] /\ reg.edi = "info"
  BY DEF V1IInv, V1TypeOK, KmainReady
<1>3. \A p \in 0 .. Frames - 1 : p \in Nat /\ p # Unset
  BY DEF Frames, Unset
<1>4. mbi.page \in Nat
  BY <1>2, <1>3, V1Assumption
<1> QED
  BY <1>1, <1>2, <1>3, <1>4, FirstMapped DEF Sees

\* A tag that is kept is the last of its type so far.
LEMMA KeepKeeps ==
  ASSUME V1IInv, NEW j \in Nat, WalkedPast(j), Keep(mbi.tags[j+1])
  PROVE  IsLast(seen'.name, mbi.tags, 2, j + 1) /\ IsLast(seen'.mem, mbi.tags, 4, j + 1)
<1> DEFINE t == mbi.tags[j+1]
<1>1. /\ seen'.name = IF t.type = 2 THEN t ELSE seen.name
      /\ seen'.mem = IF t.type = 4 THEN t ELSE seen.mem
  BY DEF Keep
<1> QED
  BY <1>1, LastSteps DEF WalkedPast

LEMMA WalkTagKeeps ==
  ASSUME V1IInv, WalkTag
  PROVE  V1IInv'
<1>1. /\ V1TypeOK /\ Prepared /\ Walking /\ pc = "walk" /\ pc' = "walk" /\ tag < total
      /\ UNCHANGED <<mbi, reg, table, cr, gdt, cs, total>>
  BY DEF V1IInv, WalkTag, InList
<1>2. InKmain /\ mbi \in [page : MbiPages, tags : TagLists, stray : Strays]
  BY <1>1 DEF InKmain, V1TypeOK
<1>3. PICK t \in TagsAt(tag) : Keep(t) /\ tag' = tag + RoundUp8(t.size)
  BY DEF WalkTag
<1> DEFINE l == mbi.tags
<1>4. l \in TagLists /\ mbi.stray \in Tags
  BY <1>2, V1Assumption
<1>5. t \in Tags /\ t.size \in Nat
  <2>1. t = mbi.stray \/ \E k \in DOMAIN l : t = l[k]
    BY <1>3 DEF TagsAt, TagAt
  <2>2. t \in Tags
    BY <2>1, <1>4, TagsTyped
  <2> QED
    BY <2>2 DEF Tags
<1>6. seen' = [name |-> seen'.name, mem |-> seen'.mem]
      /\ {seen'.name, seen'.mem} \subseteq Tags \cup {NoTag}
  BY <1>1, <1>3, <1>5 DEF Keep, V1TypeOK
<1>7. V1TypeOK'
  <2>1. tag' \in Nat
    <3>1. RoundUp8(t.size) \in Nat /\ tag \in Nat
      BY <1>1, <1>5, RoundingUp DEF V1TypeOK
    <3> QED
      BY <1>3, <3>1
  <2> QED
    BY <1>1, <1>6, <2>1 DEF V1TypeOK
<1>8. (Prepared /\ KmainReady /\ ResetOnlyBeyond)'
  BY <1>1 DEF V1IInv, Prepared, KmainReady, ResetOnlyBeyond, InKmain
<1>9. ASSUME mbi.page = 0
      PROVE  total = TotalOf(l) /\ \E j \in 0 .. Len(l) : WalkedPast(j)'
  <2>1. PICK j \in 0 .. Len(l) : WalkedPast(j)
    BY <1>1, <1>9 DEF Walking
  <2>2. total = TotalOf(l) /\ tag = TagEnds(l)[j]
    BY <1>1, <1>9, <2>1 DEF Walking, WalkedPast
  <2>3. j + 1 \in DOMAIN l /\ TagAt(l, tag) = {j + 1}
    BY <1>1, <1>4, <2>2, NextTag
  <2>4. t = l[j+1]
    BY <1>2, <1>3, <1>9, <2>3, LowSeen DEF TagsAt
  <2>5. j \in Nat /\ j + 1 \in 1 .. Len(l) /\ j + 1 \in 0 .. Len(l) /\ (j + 1) - 1 = j
    BY <1>4, <2>3, TagsTyped
  <2>6. tag' = TagEnds(l)[j+1]
    BY <1>3, <1>4, <2>2, <2>4, <2>5, TagEndsSteps
  <2>7. IsLast(seen'.name, l, 2, j + 1) /\ IsLast(seen'.mem, l, 4, j + 1)
    BY <1>3, <2>1, <2>4, <2>5, KeepKeeps
  <2>8. WalkedPast(j + 1)'
    BY <1>1, <2>6, <2>7 DEF WalkedPast
  <2> QED
    BY <2>2, <2>5, <2>8
<1>10. Walking'
  BY <1>1, <1>6, <1>9 DEF Walking, Reporting
<1> QED
  BY <1>7, <1>8, <1>10 DEF V1IInv

LEMMA EndWalkKeeps ==
  ASSUME V1IInv, EndWalk
  PROVE  V1IInv'
<1>1. /\ V1TypeOK /\ Prepared /\ Walking /\ pc = "walk" /\ pc' = "print" /\ ~(tag < total)
      /\ UNCHANGED <<mbi, reg, table, cr, gdt, cs, tag, total, seen>>
  BY DEF V1IInv, EndWalk, InList
<1>2. mbi.tags \in TagLists
  BY <1>1 DEF V1TypeOK
<1>3. V1TypeOK'
  BY <1>1 DEF V1TypeOK
<1>4. (Prepared /\ KmainReady /\ ResetOnlyBeyond)'
  BY <1>1 DEF V1IInv, Prepared, KmainReady, ResetOnlyBeyond, InKmain, Narrow, Unpaged, Short,
              Rootless, Unextended, Unfilled, Unlinked
<1>5. ASSUME mbi.page = 0, NEW j \in 0 .. Len(mbi.tags), WalkedPast(j)
      PROVE  j = Len(mbi.tags) /\ WalkedPast(j)'
  <2>1. tag = TagEnds(mbi.tags)[j] /\ total = TotalOf(mbi.tags)
    BY <1>1, <1>5 DEF Walking, WalkedPast
  <2>2. j = Len(mbi.tags)
    BY <1>1, <1>2, <2>1, LastTag
  <2> QED
    BY <1>1, <1>5, <2>2 DEF WalkedPast
<1>6. Walking'
  BY <1>1, <1>5 DEF Walking, Reporting
<1> QED
  BY <1>3, <1>4, <1>6 DEF V1IInv

LEMMA PrintBootInfoKeeps ==
  ASSUME V1IInv, PrintBootInfo
  PROVE  V1IInv'
<1>1. /\ V1TypeOK /\ Prepared /\ Walking /\ KmainReady /\ pc = "info"
      /\ UNCHANGED <<mbi, reg, table, cr, gdt, cs, seen>>
  BY DEF V1IInv, PrintBootInfo, info
<1>2. InKmain /\ mbi.page \in Nat /\ mbi.tags \in TagLists /\ mbi.stray \in Tags
      /\ (mbi.page < Entries => Translate(mbi.page) # Unset) /\ (mbi.page = 0 => Sees)
  <2>1. InKmain
    BY <1>1 DEF InKmain
  <2> QED
    BY <2>1, LowSeen, V1Assumption
<1>3. CASE pc' = "reset"
  <2>1. Translate(mbi.page) = Unset /\ UNCHANGED info
    BY <1>3 DEF PrintBootInfo
  <2>2. mbi.page >= Entries
    BY <1>2, <2>1 DEF Entries
  <2>3. V1TypeOK'
    BY <1>1, <1>3, <2>1 DEF V1TypeOK, info
  <2> QED
    BY <1>1, <1>3, <2>2, <2>3
    DEF V1IInv, Prepared, KmainReady, ResetOnlyBeyond, InKmain, Walking, Reporting, Narrow,
        Unpaged, Short, Rootless, Unextended, Unfilled, Unlinked
<1>4. CASE pc' # "reset"
  <2>1. pc' = "walk" /\ tag' = 8 /\ total' = IF Sees THEN TotalOf(mbi.tags) ELSE mbi.stray.size
    BY <1>4 DEF PrintBootInfo
  <2>2. TotalOf(mbi.tags) \in Nat /\ mbi.stray.size \in Nat /\ 0 \in 0 .. Len(mbi.tags)
    BY <1>2, TagEndsSteps, TagsTyped DEF TotalOf, Tags
  <2>3. V1TypeOK'
    BY <1>1, <2>1, <2>2 DEF V1TypeOK
  <2>4. (Prepared /\ KmainReady /\ ResetOnlyBeyond)'
    BY <1>1, <2>1 DEF Prepared, KmainReady, ResetOnlyBeyond, InKmain, Narrow, Unpaged, Short,
                      Rootless, Unextended, Unfilled, Unlinked
  <2>5. seen' = [name |-> NoTag, mem |-> NoTag]
    BY <1>1 DEF Walking, Reporting
  <2>6. WalkedPast(0)'
    <3>1. 1 .. 0 = {}
      OBVIOUS
    <3> QED
      BY <1>1, <1>2, <2>1, <2>5, <3>1, TagEndsSteps DEF WalkedPast, IsLast
  <2>7. Walking'
    BY <1>1, <1>2, <2>1, <2>2, <2>5, <2>6 DEF Walking, Reporting
  <2> QED
    BY <2>3, <2>4, <2>7 DEF V1IInv
<1> QED
  BY <1>3, <1>4

\* The remaining steps leave the walk and the machine as they are.
LEMMA PrintStepKeeps ==
  ASSUME V1IInv, GdtInit \/ Kprintf \/ Halt
  PROVE  V1IInv'
<1>1. V1TypeOK /\ Prepared /\ KmainReady /\ Walking
  BY DEF V1IInv
<1> USE DEF V1IInv, V1TypeOK, Prepared, KmainReady, ResetOnlyBeyond, Walking, WalkedPast, InKmain,
            info, Unlinked, Unfilled, Unextended, Rootless, Short, Unpaged, Narrow, Reporting
<1>2. CASE GdtInit
  BY <1>1, <1>2 DEF GdtInit, CodeBits
<1>3. CASE Kprintf
  BY <1>1, <1>3 DEF Kprintf
<1>4. CASE Halt
  BY <1>1, <1>4 DEF Halt
<1> QED
  BY <1>2, <1>3, <1>4

LEMMA V1NextInvariant ==
  ASSUME V1IInv, [V1Next]_v1vars
  PROVE  V1IInv'
<1>1. CASE BootStep
  BY <1>1, BootStepKeeps
<1>2. CASE WalkTag
  BY <1>2, WalkTagKeeps
<1>3. CASE EndWalk
  BY <1>3, EndWalkKeeps
<1>4. CASE PrintBootInfo
  BY <1>4, PrintBootInfoKeeps
<1>5. CASE GdtInit \/ Kprintf \/ Halt
  BY <1>5, PrintStepKeeps
<1>6. CASE UNCHANGED v1vars
  <2>1. V1TypeOK'
    BY <1>6 DEF v1vars, V1IInv, V1TypeOK
  <2>2. Walking'
    BY <1>6 DEF v1vars, V1IInv, Walking, WalkedPast
  <2> QED
    BY <1>6, <2>1, <2>2 DEF v1vars, V1IInv, Prepared, KmainReady, ResetOnlyBeyond, InKmain
<1> QED
  BY <1>1, <1>2, <1>3, <1>4, <1>5, <1>6 DEF V1Next, BootStep

\* Safety of the first kernel: whatever the registers and tables went through,
\* kmain runs in long mode with the loader's pointer; the machine is reset only
\* for information beyond the tables; and with information in low memory what
\* is reported are the last name and memory tag of the list and its size.
THEOREM FirstKernelSound == V1Spec => []V1Inv
<1>1. V1IInv => V1Inv
  <2> SUFFICES ASSUME V1IInv, mbi.page = 0, pc \in {"print", "halted"}
               PROVE  seen = [name |-> LastOf(2), mem |-> LastOf(4)] /\ total = TotalOf(mbi.tags)
    BY DEF V1IInv, V1Inv, TagsKept
  <2>1. /\ seen = [name |-> seen.name, mem |-> seen.mem] /\ total = TotalOf(mbi.tags)
        /\ WalkedPast(Len(mbi.tags)) /\ mbi.tags \in TagLists
    BY DEF V1IInv, V1TypeOK, Walking, Reporting
  <2>2. seen.name = LastOf(2) /\ seen.mem = LastOf(4)
    BY <2>1, TagsTyped, LastFound DEF WalkedPast
  <2> QED
    BY <2>1, <2>2
<1> QED
  BY <1>1, V1InitInvariant, V1NextInvariant, PTL DEF V1Spec
-----------------------------------------------------------------------------
(* The serial port.                                                        *)

\* The port has been set up.
PortOK(u) ==
  /\ DOMAIN u = Registers /\ u.irqs \in BOOLEAN /\ u.dlab \in BOOLEAN /\ u.fifo \in BOOLEAN
  /\ (\E S : u.queue \in Seq(S)) /\ Len(u.queue) <= Depth
\* The port is set up: no interrupts, the latch closed, one byte at most in the FIFO.
SetUp(u) ==
  /\ PortOK(u)
  /\ u.irqs = FALSE /\ u.dlab = FALSE /\ u.fifo = TRUE /\ u.divisor = 3
  /\ Len(u.queue) <= 1

\* The first k of the seven writes of a set-up are done.
Written(u, k) ==
  /\ PortOK(u)
  /\ k >= 1 => u.irqs = FALSE
  /\ IF k \in 2 .. 4 THEN u.dlab = TRUE ELSE u.dlab = FALSE
  /\ k >= 3 => u.divisor = 3
  /\ k >= 6 => u.fifo = TRUE /\ u.queue = <<>>

\* Writes w are those left after the first k.
LeftOver(w, k) ==
  /\ \E S : w \in Seq(S)
  /\ Len(w) = 7 - k /\ \A j \in 1 .. 7 - k : w[j] = InitWrites[k + j]

\* A program is under way: only its first statement may be half done.
Orderly(p) ==
  /\ \E S : p \in Seq(S)
  /\ \A k \in 1 .. Len(p) : "kind" \in DOMAIN p[k]
  /\ \A k \in 2 .. Len(p) : p[k].kind = "init" => p[k] = SerialInit
  /\ \A j, k \in 1 .. Len(p) : j < k /\ p[j].kind = "sti" => p[k].kind # "init"
\* No statement to come sets the port up.
NoSetUp(p) == \A k \in 1 .. Len(p) : p[k].kind # "init"

\* Where the program stands in a set-up of the port.
AtSetUp(p) == p # <<>> /\ Head(p).kind = "init"
\* The first statement's writes, those behind and those to come, account for the
\* state of the port.
Position ==
  IF AtSetUp(program)
  THEN /\ "writes" \in DOMAIN Head(program)
       /\ \E k \in 0 .. 6 : LeftOver(Head(program).writes, k) /\ Written(uart, k)
                            /\ (byte # None => k = 0 /\ SetUp(uart))
  ELSE SetUp(uart)

\* The inductive invariant of the port.
PortIInv ==
  /\ PortTypeOK /\ Orderly(program) /\ Position
  /\ armed = TRUE => NoSetUp(program)
  /\ polled = TRUE => byte # None /\ uart.queue = <<>>
-----------------------------------------------------------------------------
\* The seven writes of aurelion_serial_init.
LEMMA WritesListed ==
  /\ InitWrites[1] = Write("ier", 0) /\ InitWrites[2] = Write("lcr", 128)
  /\ InitWrites[3] = Write("data", 3) /\ InitWrites[4] = Write("ier", 0)
  /\ InitWrites[5] = Write("lcr", 3) /\ InitWrites[6] = Write("fcr", 199)
  /\ InitWrites[7] = Write("mcr", 11)
BY DEF InitWrites

\* What each of them does to the port.
LEMMA WriteEffects ==
  ASSUME NEW u
  PROVE  /\ ~u.dlab => WriteRegister(u, Write("ier", 0)) = [u EXCEPT !.irqs = FALSE]
         /\ u.dlab => WriteRegister(u, Write("ier", 0)) = u
         /\ WriteRegister(u, Write("lcr", 128)) = [u EXCEPT !.dlab = TRUE]
         /\ WriteRegister(u, Write("lcr", 3)) = [u EXCEPT !.dlab = FALSE]
         /\ WriteRegister(u, Write("fcr", 199)) = [u EXCEPT !.fifo = TRUE, !.queue = <<>>]
         /\ WriteRegister(u, Write("mcr", 11)) = u
         /\ u.dlab => \E x : WriteRegister(u, Write("data", 3)) = [u EXCEPT !.divisor = 3, !.shift = x]
<1>1. ~u.dlab => WriteRegister(u, Write("ier", 0)) = [u EXCEPT !.irqs = FALSE]
  BY DEF WriteRegister, Write
<1>2. u.dlab => WriteRegister(u, Write("ier", 0)) = u
  BY DEF WriteRegister, Write
<1>3. WriteRegister(u, Write("lcr", 128)) = [u EXCEPT !.dlab = TRUE]
  BY DEF WriteRegister, Write
<1>4. WriteRegister(u, Write("lcr", 3)) = [u EXCEPT !.dlab = FALSE]
  <2>1. (3 = 128) = FALSE
    OBVIOUS
  <2> QED
    BY <2>1, Zenon DEF WriteRegister, Write
<1>5. WriteRegister(u, Write("fcr", 199)) = [u EXCEPT !.fifo = TRUE, !.queue = <<>>]
  BY DEF WriteRegister, Write
<1>6. WriteRegister(u, Write("mcr", 11)) = u
  BY DEF WriteRegister, Write
<1>7. ASSUME u.dlab
      PROVE  \E x : WriteRegister(u, Write("data", 3)) = [u EXCEPT !.divisor = 3, !.shift = x]
  <2>1. WriteRegister(u, Write("data", 3)) = WriteData(u, 3)
    BY <1>7 DEF WriteRegister, Write
  <2>2. \E x : WriteData(u, 3) = [u EXCEPT !.divisor = 3, !.shift = x]
    BY <1>7 DEF WriteData
  <2> QED
    BY <2>1, <2>2
<1> QED
  BY <1>1, <1>2, <1>3, <1>4, <1>5, <1>6, <1>7

\* A change of flags, or an emptied FIFO, leaves a state of the port.
LEMMA FieldsKeepPort ==
  ASSUME NEW u, PortOK(u), NEW v, DOMAIN v = DOMAIN u,
         v.irqs \in BOOLEAN, v.dlab \in BOOLEAN, v.fifo \in BOOLEAN,
         v.queue = u.queue \/ v.queue = <<>>
  PROVE  PortOK(v)
<1>1. <<>> \in Seq({}) /\ Len(<<>>) = 0
  OBVIOUS
<1>2. Depth \in Nat
  BY SerialAssumption
<1>3. \E S : v.queue \in Seq(S)
  BY <1>1 DEF PortOK
<1>4. Len(v.queue) <= Depth
  BY <1>1, <1>2 DEF PortOK
<1> QED
  BY <1>3, <1>4 DEF PortOK

\* What one write of the set-up does to the port.
LEMMA WriteSetsUp ==
  ASSUME NEW u, NEW k \in 0 .. 6, Written(u, k)
  PROVE  Written(WriteRegister(u, InitWrites[k+1]), k + 1)
<1> DEFINE v == WriteRegister(u, InitWrites[k+1])
<1>0. PortOK(u) /\ DOMAIN u = Registers /\ u.irqs \in BOOLEAN /\ u.dlab \in BOOLEAN /\ u.fifo \in BOOLEAN
  BY DEF Written, PortOK
<1> HIDE DEF v
<1>1. CASE k = 0
  <2>1. k + 1 = 1 /\ u.dlab = FALSE
    BY <1>1 DEF Written
  <2>2. v = [u EXCEPT !.irqs = FALSE]
    <3>1. v = WriteRegister(u, Write("ier", 0))
      BY <2>1, WritesListed DEF v
    <3> QED
      BY <2>1, <3>1, WriteEffects
  <2>3. /\ v.dlab = FALSE /\ v.irqs = FALSE
        /\ v.fifo \in BOOLEAN /\ v.queue = u.queue /\ DOMAIN v = Registers
    BY <1>0, <2>1, <2>2 DEF Registers
  <2>4. PortOK(v)
    BY <1>0, <2>3, FieldsKeepPort
  <2>5. Written(v, 1)
    BY <2>3, <2>4 DEF Written
  <2> QED
    BY <2>1, <2>5 DEF v
<1>2. CASE k = 1
  <2>1. k + 1 = 2 /\ u.dlab = FALSE /\ u.irqs = FALSE
    BY <1>2 DEF Written
  <2>2. v = [u EXCEPT !.dlab = TRUE]
    <3>1. v = WriteRegister(u, Write("lcr", 128))
      BY <2>1, WritesListed DEF v
    <3> QED
      BY <2>1, <3>1, WriteEffects
  <2>3. /\ v.dlab = TRUE /\ v.irqs = FALSE
        /\ v.fifo \in BOOLEAN /\ v.queue = u.queue /\ DOMAIN v = Registers
    BY <1>0, <2>1, <2>2 DEF Registers
  <2>4. PortOK(v)
    BY <1>0, <2>3, FieldsKeepPort
  <2>5. Written(v, 2)
    BY <2>3, <2>4 DEF Written
  <2> QED
    BY <2>1, <2>5 DEF v
<1>3. CASE k = 2
  <2>1. k + 1 = 3 /\ u.dlab = TRUE /\ u.irqs = FALSE
    BY <1>3 DEF Written
  <2>2. \E x : v = [u EXCEPT !.divisor = 3, !.shift = x]
    <3>1. v = WriteRegister(u, Write("data", 3))
      BY <2>1, WritesListed DEF v
    <3> QED
      BY <2>1, <3>1, WriteEffects
  <2>3. /\ v.dlab = TRUE /\ v.irqs = FALSE /\ v.divisor = 3
        /\ v.fifo \in BOOLEAN /\ v.queue = u.queue /\ DOMAIN v = Registers
    BY <1>0, <2>1, <2>2 DEF Registers
  <2>4. PortOK(v)
    BY <1>0, <2>3, FieldsKeepPort
  <2>5. Written(v, 3)
    BY <2>3, <2>4 DEF Written
  <2> QED
    BY <2>1, <2>5 DEF v
<1>4. CASE k = 3
  <2>1. k + 1 = 4 /\ u.dlab = TRUE /\ u.irqs = FALSE /\ u.divisor = 3
    BY <1>4 DEF Written
  <2>2. v = u
    <3>1. v = WriteRegister(u, Write("ier", 0))
      BY <2>1, WritesListed DEF v
    <3> QED
      BY <2>1, <3>1, WriteEffects
  <2>3. /\ v.dlab = TRUE /\ v.irqs = FALSE /\ v.divisor = 3
        /\ v.fifo \in BOOLEAN /\ v.queue = u.queue /\ DOMAIN v = Registers
    BY <1>0, <2>1, <2>2 DEF Registers
  <2>4. PortOK(v)
    BY <1>0, <2>3, FieldsKeepPort
  <2>5. Written(v, 4)
    BY <2>3, <2>4 DEF Written
  <2> QED
    BY <2>1, <2>5 DEF v
<1>5. CASE k = 4
  <2>1. k + 1 = 5 /\ u.dlab = TRUE /\ u.irqs = FALSE /\ u.divisor = 3
    BY <1>5 DEF Written
  <2>2. v = [u EXCEPT !.dlab = FALSE]
    <3>1. v = WriteRegister(u, Write("lcr", 3))
      BY <2>1, WritesListed DEF v
    <3> QED
      BY <2>1, <3>1, WriteEffects
  <2>3. /\ v.dlab = FALSE /\ v.irqs = FALSE /\ v.divisor = 3
        /\ v.fifo \in BOOLEAN /\ v.queue = u.queue /\ DOMAIN v = Registers
    BY <1>0, <2>1, <2>2 DEF Registers
  <2>4. PortOK(v)
    BY <1>0, <2>3, FieldsKeepPort
  <2>5. Written(v, 5)
    BY <2>3, <2>4 DEF Written
  <2> QED
    BY <2>1, <2>5 DEF v
<1>6. CASE k = 5
  <2>1. k + 1 = 6 /\ u.dlab = FALSE /\ u.irqs = FALSE /\ u.divisor = 3
    BY <1>6 DEF Written
  <2>2. v = [u EXCEPT !.fifo = TRUE, !.queue = <<>>]
    <3>1. v = WriteRegister(u, Write("fcr", 199))
      BY <2>1, WritesListed DEF v
    <3> QED
      BY <2>1, <3>1, WriteEffects
  <2>3. /\ v.dlab = FALSE /\ v.irqs = FALSE /\ v.divisor = 3
        /\ v.fifo = TRUE /\ v.queue = <<>> /\ DOMAIN v = Registers
    BY <1>0, <2>1, <2>2 DEF Registers
  <2>4. PortOK(v)
    BY <1>0, <2>3, FieldsKeepPort
  <2>5. Written(v, 6)
    BY <2>3, <2>4 DEF Written
  <2> QED
    BY <2>1, <2>5 DEF v
<1>7. CASE k = 6
  <2>1. k + 1 = 7 /\ u.dlab = FALSE /\ u.irqs = FALSE /\ u.divisor = 3 /\ u.fifo = TRUE /\ u.queue = <<>>
    BY <1>7 DEF Written
  <2>2. v = u
    <3>1. v = WriteRegister(u, Write("mcr", 11))
      BY <2>1, WritesListed DEF v
    <3> QED
      BY <2>1, <3>1, WriteEffects
  <2>3. /\ v.dlab = FALSE /\ v.irqs = FALSE /\ v.divisor = 3
        /\ v.fifo = TRUE /\ v.queue = <<>> /\ DOMAIN v = Registers
    BY <1>0, <2>1, <2>2 DEF Registers
  <2>4. PortOK(v)
    BY <1>0, <2>3, FieldsKeepPort
  <2>5. Written(v, 7)
    BY <2>3, <2>4 DEF Written
  <2> QED
    BY <2>1, <2>5 DEF v
<1> QED
  BY <1>1, <1>2, <1>3, <1>4, <1>5, <1>6, <1>7
-----------------------------------------------------------------------------
(* Programs.                                                               *)

\* What remains of a sequence without its first element.
LEMMA TailIs ==
  ASSUME NEW S, NEW p \in Seq(S), p # <<>>
  PROVE  /\ Tail(p) \in Seq(S) /\ Len(p) \in Nat \ {0} /\ Len(Tail(p)) = Len(p) - 1
         /\ Head(p) = p[1] /\ 1 \in 1 .. Len(p)
         /\ \A k \in 1 .. Len(Tail(p)) : k + 1 \in 2 .. Len(p) /\ Tail(p)[k] = p[k+1]
         /\ Tail(p) # <<>> => Head(Tail(p)) = p[2] /\ 2 \in 2 .. Len(p)
OBVIOUS

\* A sequence with another first element.
LEMMA ReplacedHeadIs ==
  ASSUME NEW S, NEW p \in Seq(S), p # <<>>, NEW s, NEW q, q = <<s>> \o Tail(p)
  PROVE  /\ q \in Seq(S \cup {s}) /\ Len(q) = Len(p) /\ q # <<>> /\ Head(q) = s /\ q[1] = s
         /\ \A k \in 2 .. Len(p) : q[k] = p[k]
<1>1. Tail(p) \in Seq(S) /\ Len(p) \in Nat \ {0} /\ Len(Tail(p)) = Len(p) - 1
      /\ \A k \in 1 .. Len(Tail(p)) : k + 1 \in 2 .. Len(p) /\ Tail(p)[k] = p[k+1]
  BY TailIs
<1>2. Tail(p) \in Seq(S \cup {s}) /\ <<s>> \in Seq(S \cup {s})
  BY <1>1
<1> DEFINE t == Tail(p)
<1> HIDE DEF t
<1>3. q = <<s>> \o t /\ t \in Seq(S \cup {s}) /\ Len(t) = Len(p) - 1
      /\ \A k \in 1 .. Len(t) : t[k] = p[k+1]
  BY <1>1, <1>2 DEF t
<1>4. q \in Seq(S \cup {s}) /\ Len(q) = 1 + Len(t) /\ q[1] = s
      /\ \A k \in 2 .. 1 + Len(t) : q[k] = t[k-1]
  BY <1>2, <1>3
<1>5. ASSUME NEW k \in 2 .. Len(p) PROVE q[k] = p[k]
  <2>1. k - 1 \in 1 .. Len(t) /\ k \in 2 .. 1 + Len(t) /\ (k - 1) + 1 = k
    BY <1>1, <1>3
  <2> QED
    BY <1>3, <1>4, <2>1
<1>6. Len(q) = Len(p) /\ q # <<>>
  BY <1>1, <1>3, <1>4
<1> QED
  BY <1>4, <1>5, <1>6

\* A statement done, or one of it half done, leaves an orderly program.
LEMMA FinishOrderly ==
  ASSUME NEW p, Orderly(p), p # <<>>
  PROVE  /\ Orderly(Tail(p)) /\ (NoSetUp(p) => NoSetUp(Tail(p)))
         /\ AtSetUp(Tail(p)) => Head(Tail(p)) = SerialInit
         /\ Head(p).kind = "sti" => NoSetUp(Tail(p))
<1>1. PICK S : p \in Seq(S)
  BY DEF Orderly
<1> DEFINE q == Tail(p)
<1>2. /\ q \in Seq(S) /\ Len(p) \in Nat \ {0} /\ Len(q) = Len(p) - 1
      /\ Head(p) = p[1] /\ 1 \in 1 .. Len(p)
      /\ \A k \in 1 .. Len(q) : k + 1 \in 2 .. Len(p) /\ q[k] = p[k+1]
      /\ q # <<>> => Head(q) = p[2] /\ 2 \in 2 .. Len(p)
  BY <1>1, TailIs
<1> HIDE DEF q
<1>3. /\ \A k \in 1 .. Len(p) : "kind" \in DOMAIN p[k]
      /\ \A k \in 2 .. Len(p) : p[k].kind = "init" => p[k] = SerialInit
      /\ \A j, k \in 1 .. Len(p) : j < k /\ p[j].kind = "sti" => p[k].kind # "init"
  BY DEF Orderly
<1>4. \A k \in 1 .. Len(q) : k + 1 \in 1 .. Len(p) /\ 1 < k + 1
  BY <1>2
<1>5. \A k \in 1 .. Len(q) : "kind" \in DOMAIN q[k]
  BY <1>2, <1>3, <1>4
<1>6. \A k \in 2 .. Len(q) : q[k].kind = "init" => q[k] = SerialInit
  <2>1. \A k \in 2 .. Len(q) : k \in 1 .. Len(q)
    OBVIOUS
  <2> QED
    BY <1>2, <1>3, <2>1
<1>7. ASSUME NEW j \in 1 .. Len(q), NEW k \in 1 .. Len(q), j < k, q[j].kind = "sti"
      PROVE  q[k].kind # "init"
  <2>1. j + 1 \in 1 .. Len(p) /\ k + 1 \in 1 .. Len(p) /\ j + 1 < k + 1
    BY <1>4, <1>7
  <2> QED
    BY <1>2, <1>3, <1>7, <2>1
<1>8. Orderly(q)
  BY <1>2, <1>5, <1>6, <1>7 DEF Orderly
<1>9. NoSetUp(p) => NoSetUp(q)
  BY <1>2, <1>4 DEF NoSetUp
<1>10. Head(p).kind = "sti" => NoSetUp(q)
  BY <1>2, <1>3, <1>4 DEF NoSetUp
<1>11. AtSetUp(q) => Head(q) = SerialInit
  BY <1>2, <1>3 DEF AtSetUp
<1> QED
  BY <1>8, <1>9, <1>10, <1>11 DEF q

\* Going on with the first statement keeps the order of the program.
LEMMA ContinueOrderly ==
  ASSUME NEW p, Orderly(p), p # <<>>, NEW s, "kind" \in DOMAIN s, s.kind = Head(p).kind,
         NEW q, q = <<s>> \o Tail(p)
  PROVE  /\ Orderly(q) /\ q # <<>> /\ Head(q) = s /\ (AtSetUp(q) <=> AtSetUp(p))
         /\ NoSetUp(p) => NoSetUp(q)
<1>1. PICK S : p \in Seq(S)
  BY DEF Orderly
<1>2. /\ q \in Seq(S \cup {s}) /\ Len(q) = Len(p) /\ q # <<>> /\ Head(q) = s /\ q[1] = s
      /\ \A k \in 2 .. Len(p) : q[k] = p[k]
  BY <1>1, ReplacedHeadIs
<1>3. Head(p) = p[1] /\ 1 \in 1 .. Len(p) /\ Len(p) \in Nat
  BY <1>1, TailIs
<1>4. \A k \in 1 .. Len(p) : k = 1 \/ k \in 2 .. Len(p)
  BY <1>3
<1>5. \A k \in 1 .. Len(p) : q[k].kind = p[k].kind
  BY <1>2, <1>3, <1>4
<1>6. \A k \in 1 .. Len(p) : "kind" \in DOMAIN q[k]
  BY <1>2, <1>4 DEF Orderly
<1>7. \A k \in 2 .. Len(p) : q[k].kind = "init" => q[k] = SerialInit
  BY <1>2 DEF Orderly
<1>8. \A j, k \in 1 .. Len(p) : j < k /\ q[j].kind = "sti" => q[k].kind # "init"
  BY <1>5 DEF Orderly
<1>9. Orderly(q)
  BY <1>2, <1>6, <1>7, <1>8 DEF Orderly
<1>10. NoSetUp(p) => NoSetUp(q)
  BY <1>2, <1>5 DEF NoSetUp
<1> QED
  BY <1>2, <1>9, <1>10 DEF AtSetUp
-----------------------------------------------------------------------------
(* Steps.                                                                  *)

\* A port set up may be set up again, by the kernel after stage 1.
LEMMA SetUpAgain ==
  /\ "writes" \in DOMAIN SerialInit /\ "kind" \in DOMAIN SerialInit
  /\ SerialInit.kind = "init" /\ SerialInit.writes = InitWrites
  /\ LeftOver(InitWrites, 0)
  /\ \A u : SetUp(u) => Written(u, 0) /\ PortOK(u)
<1>1. LeftOver(InitWrites, 0)
  <2>1. InitWrites \in Seq([reg : {"ier", "lcr", "data", "fcr", "mcr"}, val : Nat]) /\ Len(InitWrites) = 7
    BY DEF InitWrites, Write
  <2> QED
    BY <2>1 DEF LeftOver
<1>2. \A u : SetUp(u) => Written(u, 0) /\ PortOK(u)
  BY DEF SetUp, Written
<1> QED
  BY <1>1, <1>2 DEF SerialInit

\* The port is set up unless it is being set up; then it is as far as it says.
PortAt(p, b, u) ==
  IF AtSetUp(p)
  THEN /\ "writes" \in DOMAIN Head(p)
       /\ \E k \in 0 .. 6 : LeftOver(Head(p).writes, k) /\ Written(u, k)
                            /\ (b # None => k = 0 /\ SetUp(u))
  ELSE SetUp(u)
\* Position and its successor by the operator the lemmas below are about.
LEMMA PositionIs == Position <=> PortAt(program, byte, uart)
BY DEF Position, PortAt
\* The same after a step.
LEMMA PositionNext == Position' <=> PortAt(program', byte', uart')
BY DEF Position, PortAt

\* A set-up port is so whatever statement begins.
LEMMA BeginAny ==
  ASSUME NEW p, AtSetUp(p) => Head(p) = SerialInit, NEW b, NEW u, SetUp(u)
  PROVE  PortAt(p, b, u)
<1>1. Written(u, 0) /\ 0 \in 0 .. 6
  BY SetUpAgain
<1> QED
  BY <1>1, SetUpAgain DEF PortAt

\* The FIFO holds at least a byte.
LEMMA DepthIs == Depth \in Nat /\ Depth >= 1
<1>1. Depth \in Nat \ {0}
  BY SerialAssumption
<1> QED
  BY <1>1

\* What is known of the port anywhere in a program.
LEMMA PortIsTyped ==
  ASSUME NEW p, NEW b, NEW u, PortAt(p, b, u)
  PROVE  PortOK(u) /\ (b # None => SetUp(u)) /\ (~AtSetUp(p) => SetUp(u))
BY SetUpAgain DEF PortAt, Written

\* A step of a statement that does not touch the port.
LEMMA StatementKeeps ==
  ASSUME PortIInv, byte = None, program # <<>>, ~AtSetUp(program),
         \/ /\ Finish
            /\ armed' = armed \/ (armed' = TRUE /\ Head(program).kind = "sti")
         \/ /\ armed' = armed
            /\ \E s : "kind" \in DOMAIN s /\ s.kind = Head(program).kind /\ Continue(s),
         UNCHANGED <<polled, uart, trapped>>
  PROVE  PortIInv'
<1>1. PortTypeOK /\ Orderly(program) /\ SetUp(uart) /\ (armed = TRUE => NoSetUp(program))
      /\ polled = FALSE
  BY DEF PortIInv, Position, PortTypeOK
<1>2. Orderly(program') /\ (AtSetUp(program') => Head(program') = SerialInit)
      /\ (armed' = TRUE => NoSetUp(program'))
  <2>1. CASE Finish
    BY <1>1, <2>1, FinishOrderly DEF Finish
  <2>2. ASSUME NEW s, "kind" \in DOMAIN s, s.kind = Head(program).kind, Continue(s), armed' = armed
        PROVE  /\ Orderly(program') /\ (AtSetUp(program') => Head(program') = SerialInit)
               /\ (armed' = TRUE => NoSetUp(program'))
    BY <1>1, <2>2, ContinueOrderly DEF Continue
  <2> QED
    BY <2>1, <2>2
<1>3. PortTypeOK'
  <2>1. armed' \in BOOLEAN
    BY <1>1 DEF PortTypeOK
  <2> QED
    BY <1>1, <2>1 DEF PortTypeOK
<1>4. Position'
  BY <1>1, <1>2, BeginAny, PositionNext
<1> QED
  BY <1>1, <1>2, <1>3, <1>4 DEF PortIInv

\* Setting the port up keeps the invariant; then the other steps, one by one.
LEMMA SetUpPortKeeps ==
  ASSUME PortIInv, SetUpPort
  PROVE  PortIInv'
<1> DEFINE s == Head(program)
           w == s.writes
<1>1. /\ PortTypeOK /\ Orderly(program) /\ program # <<>> /\ s.kind = "init" /\ byte = None
      /\ uart' = WriteRegister(uart, Head(w)) /\ UNCHANGED <<byte, polled, armed, trapped>>
      /\ IF Len(w) = 1 THEN program' = Tail(program)
         ELSE program' = <<[s EXCEPT !.writes = Tail(w)]>> \o Tail(program)
  BY DEF SetUpPort, Under, Finish, Continue, PortIInv
<1>2. AtSetUp(program) /\ "writes" \in DOMAIN s
  BY <1>1 DEF AtSetUp, PortIInv, Position
<1>3. PICK k \in 0 .. 6 : LeftOver(w, k) /\ Written(uart, k)
  BY <1>2 DEF PortIInv, Position
<1>4. "kind" \in DOMAIN s
  <2>1. PICK S : program \in Seq(S)
    BY <1>1 DEF Orderly
  <2> QED
    BY <1>1, <2>1, TailIs DEF Orderly
<1>5. armed = FALSE /\ polled = FALSE
  <2>1. ~NoSetUp(program)
    <3>1. PICK S : program \in Seq(S)
      BY <1>1 DEF Orderly
    <3> QED
      BY <1>1, <3>1, TailIs DEF NoSetUp
  <2> QED
    BY <1>1, <2>1 DEF PortIInv, PortTypeOK
<1>6. PICK S : w \in Seq(S)
  BY <1>3 DEF LeftOver
<1>7. /\ Len(w) = 7 - k /\ w # <<>> /\ Head(w) = InitWrites[k+1]
      /\ Tail(w) \in Seq(S) /\ Len(Tail(w)) = 7 - (k + 1)
      /\ \A j \in 1 .. 7 - (k + 1) : Tail(w)[j] = InitWrites[(k + 1) + j]
  <2> HIDE DEF w
  <2>1. Len(w) = 7 - k /\ \A j \in 1 .. 7 - k : w[j] = InitWrites[k + j]
    BY <1>3 DEF LeftOver
  <2>2. w # <<>> /\ 1 \in 1 .. 7 - k
    BY <1>6, <2>1
  <2>3. /\ Tail(w) \in Seq(S) /\ Len(Tail(w)) = Len(w) - 1 /\ Head(w) = w[1]
        /\ \A j \in 1 .. Len(Tail(w)) : Tail(w)[j] = w[j+1]
    BY <1>6, <2>2, TailIs
  <2>4. \A j \in 1 .. 7 - (k + 1) : j \in 1 .. 6 - k /\ j + 1 \in 1 .. 7 - k /\ k + (j + 1) = (k + 1) + j
    OBVIOUS
  <2>5. Len(Tail(w)) = 7 - (k + 1)
    BY <2>1, <2>3
  <2> QED
    BY <2>1, <2>2, <2>3, <2>4, <2>5
<1>8. Written(uart', k + 1)
  BY <1>1, <1>3, <1>7, WriteSetsUp
<1>9. PortTypeOK'
  BY <1>1, <1>8 DEF PortTypeOK, Written, PortOK
<1>10. CASE Len(w) = 1
  <2>1. k = 6
    BY <1>7, <1>10
  <2>2. SetUp(uart')
    BY <1>8, <2>1 DEF Written, SetUp
  <2>3. Orderly(program') /\ (AtSetUp(program') => Head(program') = SerialInit)
    BY <1>1, <1>10, FinishOrderly
  <2>4. Position'
    BY <2>2, <2>3, BeginAny, PositionNext
  <2> QED
    BY <1>1, <1>5, <1>9, <2>3, <2>4 DEF PortIInv
<1>11. CASE Len(w) # 1
  <2>1. k + 1 \in 0 .. 6
    <3>1. Len(w) = 7 - k
      BY <1>7
    <3> HIDE DEF w
    <3> QED
      BY <3>1, <1>11
  <2> DEFINE t == [s EXCEPT !.writes = Tail(w)]
  <2>2. "kind" \in DOMAIN t /\ t.kind = s.kind /\ "writes" \in DOMAIN t /\ t.writes = Tail(w)
    BY <1>2, <1>4
  <2>3. program' = <<t>> \o Tail(program)
    BY <1>1, <1>11
  <2> HIDE DEF t
  <2>4. Orderly(program') /\ Head(program') = t /\ AtSetUp(program')
    BY <1>1, <1>2, <2>2, <2>3, ContinueOrderly
  <2>5. LeftOver(t.writes, k + 1)
    BY <1>7, <2>2 DEF LeftOver
  <2>6. Position'
    BY <1>1, <1>8, <2>1, <2>2, <2>4, <2>5, PositionNext DEF PortAt
  <2> QED
    BY <1>1, <1>5, <1>9, <2>4, <2>6 DEF PortIInv
<1> QED
  BY <1>10, <1>11

\* The statement under way is the first one, and the port is set up.
LEMMA HeadUnder ==
  ASSUME PortIInv, NEW kind, Under(kind), kind # "init"
  PROVE  /\ byte = None /\ program # <<>> /\ ~AtSetUp(program)
         /\ Head(program).kind = kind /\ "kind" \in DOMAIN Head(program)
<1>1. PICK S : program \in Seq(S)
  BY DEF PortIInv, Orderly
<1>2. program # <<>>
  BY DEF Under
<1> QED
  BY <1>1, <1>2, TailIs DEF Under, AtSetUp, PortIInv, Orderly

\* A character of a text handed to putc.
LEMMA WriteTextKeeps ==
  ASSUME PortIInv, WriteText
  PROVE  PortIInv'
<1> DEFINE s == Head(program)
<1>1. Under("text") /\ UNCHANGED <<polled, uart, armed, trapped>>
  BY DEF WriteText, Quiet
<1>2. "kind" \in DOMAIN s /\ s.kind = "text"
  BY <1>1, HeadUnder
<1>3. Finish \/ \E t : "kind" \in DOMAIN t /\ t.kind = s.kind /\ Continue(t)
  <2>1. CASE Finish
    BY <2>1
  <2>2. CASE Continue([s EXCEPT !.cr = TRUE])
    <3> DEFINE t == [s EXCEPT !.cr = TRUE]
    <3>1. "kind" \in DOMAIN t /\ t.kind = s.kind
      BY <1>2
    <3> QED
      BY <2>2, <3>1
  <2>3. CASE Continue([s EXCEPT !.text = Tail(@), !.cr = FALSE])
    <3> DEFINE t == [s EXCEPT !.text = Tail(@), !.cr = FALSE]
    <3>1. "kind" \in DOMAIN t /\ t.kind = s.kind
      BY <1>2
    <3> QED
      BY <2>3, <3>1
  <2> QED
    BY <2>1, <2>2, <2>3 DEF WriteText
<1> QED
  BY <1>1, <1>3, HeadUnder, StatementKeeps

\* A digit worked out, or handed to putc.
LEMMA PrintNumberKeeps ==
  ASSUME PortIInv, PrintNumber
  PROVE  PortIInv'
<1> DEFINE s == Head(program)
<1>1. Under("number") /\ UNCHANGED <<polled, uart, armed, trapped>>
  BY DEF PrintNumber, Quiet
<1>2. "kind" \in DOMAIN s /\ s.kind = "number"
  BY <1>1, HeadUnder
<1>3. Finish \/ \E t : "kind" \in DOMAIN t /\ t.kind = s.kind /\ Continue(t)
  <2>1. CASE Finish
    BY <2>1
  <2>2. CASE Continue([s EXCEPT !.buf = Append(@, Digit[s.val % 10]), !.val = @ \div 10])
    <3> DEFINE t == [s EXCEPT !.buf = Append(@, Digit[s.val % 10]), !.val = @ \div 10]
    <3>1. "kind" \in DOMAIN t /\ t.kind = s.kind
      BY <1>2
    <3> QED
      BY <2>2, <3>1
  <2>3. CASE Continue([s EXCEPT !.buf = Front(@), !.emitting = TRUE])
    <3> DEFINE t == [s EXCEPT !.buf = Front(@), !.emitting = TRUE]
    <3>1. "kind" \in DOMAIN t /\ t.kind = s.kind
      BY <1>2
    <3> QED
      BY <2>3, <3>1
  <2> QED
    BY <2>1, <2>2, <2>3 DEF PrintNumber
<1> QED
  BY <1>1, <1>3, HeadUnder, StatementKeeps

\* A message on the console, and the kernel's gates put in force.
LEMMA ConsoleOrGatesKeep ==
  ASSUME PortIInv, WriteConsole \/ EnableInterrupts
  PROVE  PortIInv'
<1>1. CASE WriteConsole
  <2>1. Under("mirror") /\ Finish /\ UNCHANGED <<polled, uart, armed, trapped>>
    BY <1>1 DEF WriteConsole
  <2> QED
    BY <2>1, HeadUnder, StatementKeeps
<1>2. CASE EnableInterrupts
  <2>1. Under("sti") /\ Finish /\ armed' = TRUE /\ UNCHANGED <<polled, uart, trapped>>
    BY <1>2 DEF EnableInterrupts
  <2> QED
    BY <2>1, HeadUnder, StatementKeeps
<1> QED
  BY <1>1, <1>2

\* putc: a byte is polled for, and the port is set up, when it is written.
LEMMA PutcKeeps ==
  ASSUME PortIInv, Poll \/ Out
  PROVE  PortIInv'
<1>1. PortTypeOK /\ Orderly(program) /\ PortAt(program, byte, uart)
  BY PositionIs DEF PortIInv
<1>2. CASE Poll
  <2>1. UNCHANGED <<program, byte, uart, armed, trapped>> /\ polled' = TRUE
        /\ byte # None /\ uart.queue = <<>>
    BY <1>2 DEF Poll
  <2>2. Position'
    BY <1>1, <2>1, PositionNext
  <2>3. PortTypeOK'
    BY <1>1, <2>1 DEF PortTypeOK
  <2> QED
    BY <2>1, <2>2, <2>3 DEF PortIInv
<1>3. CASE Out
  <2>1. /\ byte # None /\ uart' = WriteData(uart, byte) /\ byte' = None /\ polled' = FALSE
        /\ UNCHANGED <<program, armed, trapped>> /\ polled
    BY <1>3 DEF Out
  <2>2. SetUp(uart) /\ uart.queue = <<>>
    BY <1>1, <2>1, PortIsTyped DEF PortIInv, PortTypeOK
  <2>3. uart' = [uart EXCEPT !.queue = Append(@, byte)]
    <3>1. Len(uart.queue) < Depth /\ uart.dlab = FALSE /\ uart.fifo = TRUE
      BY <2>2, DepthIs DEF SetUp
    <3> QED
      BY <2>1, <3>1 DEF WriteData
  <2>4. SetUp(uart')
    <3>1. Append(<<>>, byte) \in Seq({byte}) /\ Len(Append(<<>>, byte)) = 1
      OBVIOUS
    <3>2. uart'.queue = Append(<<>>, byte) /\ DOMAIN uart' = Registers
      BY <2>2, <2>3 DEF SetUp, PortOK, Registers
    <3>3. uart'.irqs = FALSE /\ uart'.dlab = FALSE /\ uart'.fifo = TRUE /\ uart'.divisor = 3
      BY <2>2, <2>3 DEF SetUp, PortOK, Registers
    <3>4. \E S : uart'.queue \in Seq(S)
      BY <3>1, <3>2
    <3>5. Len(uart'.queue) <= Depth /\ Len(uart'.queue) <= 1
      BY <3>1, <3>2, DepthIs
    <3> QED
      BY <3>2, <3>3, <3>4, <3>5 DEF SetUp, PortOK
  <2>5. AtSetUp(program) => Written(uart', 0)
    BY <2>4, SetUpAgain
  <2>6. Position'
    BY <1>1, <2>1, <2>4, <2>5, PositionNext DEF PortAt
  <2>7. PortTypeOK'
    BY <1>1, <2>1, <2>4 DEF PortTypeOK, SetUp, PortOK
  <2> QED
    BY <2>1, <2>6, <2>7 DEF PortIInv
<1> QED
  BY <1>2, <1>3

\* The handler replaces the program by its own message.
LEMMA ExceptionKeeps ==
  ASSUME PortIInv, NEW v, Exception(v)
  PROVE  PortIInv'
<1>0. trapped' \in 0 .. Nested
  <2>1. Nested \in Nat
    BY SerialAssumption
  <2>2. trapped \in 0 .. Nested /\ trapped < Nested /\ trapped' = trapped + 1
    BY DEF PortIInv, PortTypeOK, Exception
  <2> QED
    BY <2>1, <2>2
<1>1. /\ PortTypeOK /\ PortAt(program, byte, uart) /\ NoSetUp(program) /\ Orderly(program)
      /\ program' = ExceptionReport(v) /\ byte' = None /\ polled' = FALSE /\ trapped' \in 0 .. Nested
      /\ UNCHANGED <<uart, armed>>
  BY <1>0, PositionIs DEF PortIInv, PortTypeOK, Exception
<1>2. SetUp(uart)
  <2>1. PICK S : program \in Seq(S)
    BY <1>1 DEF Orderly
  <2>2. ~AtSetUp(program)
    BY <1>1, <2>1, TailIs DEF AtSetUp, NoSetUp
  <2> QED
    BY <1>1, <2>2, PortIsTyped
<1> DEFINE a == Text(<<"EXCEPTION: vector ">>)
           b == Number(v, 3)
           c == Text(<<LF>>)
<1>3. /\ "kind" \in DOMAIN a /\ a.kind = "text" /\ "kind" \in DOMAIN b /\ b.kind = "number"
      /\ "kind" \in DOMAIN c /\ c.kind = "text"
  BY DEF Text, Number
<1>4. program' = <<a, b, c>>
  BY <1>1 DEF ExceptionReport
<1> HIDE DEF a, b, c
<1>5. /\ program' \in Seq({a, b, c}) /\ Len(program') = 3
      /\ \A k \in 1 .. 3 : "kind" \in DOMAIN program'[k]
                           /\ program'[k].kind # "init" /\ program'[k].kind # "sti"
      /\ program' # <<>> /\ Head(program').kind # "init"
  BY <1>3, <1>4
<1>6. Orderly(program') /\ NoSetUp(program') /\ ~AtSetUp(program')
  BY <1>5 DEF Orderly, NoSetUp, AtSetUp
<1>7. Position'
  BY <1>1, <1>2, <1>6, BeginAny, PositionNext
<1>8. PortTypeOK'
  BY <1>1 DEF PortTypeOK
<1> QED
  BY <1>1, <1>6, <1>7, <1>8 DEF PortIInv

\* A FIFO a byte has left is no longer than it was.
LEMMA TailShorter ==
  ASSUME NEW S, NEW q \in Seq(S), NEW r, r = q \/ (q # <<>> /\ r = Tail(q))
  PROVE  r \in Seq(S) /\ Len(r) <= Len(q) /\ (q = <<>> => r = <<>>)
<1>1. CASE r = q
  BY <1>1
<1>2. CASE q # <<>> /\ r = Tail(q)
  <2>1. Tail(q) \in Seq(S) /\ Len(q) \in Nat /\ Len(Tail(q)) = Len(q) - 1
    BY <1>2, TailIs
  <2>2. Len(Tail(q)) <= Len(q)
    BY <2>1
  <2> QED
    BY <1>2, <2>1, <2>2
<1> QED
  BY <1>1, <1>2

\* The port takes a byte from its FIFO, or a byte arrives.
LEMMA TransmitterKeeps ==
  ASSUME PortIInv, Shift \/ Arrive
  PROVE  PortIInv'
<1>1. /\ PortTypeOK /\ Orderly(program) /\ PortAt(program, byte, uart)
      /\ UNCHANGED <<program, byte, polled, armed, trapped>>
  BY PositionIs DEF PortIInv, Shift, Arrive
<1>2. PortOK(uart)
  BY <1>1, PortIsTyped
<1>3. PICK Q : uart.queue \in Seq(Q)
  BY <1>2 DEF PortOK
<1>4. /\ DOMAIN uart' = Registers /\ uart'.dlab = uart.dlab /\ uart'.irqs = uart.irqs
      /\ uart'.fifo = uart.fifo /\ uart'.divisor = uart.divisor
      /\ uart'.queue = uart.queue \/ (uart.queue # <<>> /\ uart'.queue = Tail(uart.queue))
  <2>1. CASE Shift
    BY <1>2, <2>1 DEF Shift, PortOK, Registers
  <2>2. CASE Arrive
    BY <1>2, <2>2 DEF Arrive, PortOK, Registers
  <2> QED
    BY <2>1, <2>2
<1>5. uart'.queue \in Seq(Q) /\ Len(uart'.queue) <= Len(uart.queue)
      /\ (uart.queue = <<>> => uart'.queue = <<>>)
  BY <1>3, <1>4, TailShorter
<1>6. Len(uart'.queue) \in Nat /\ Len(uart.queue) \in Nat /\ Depth \in Nat
  BY <1>3, <1>5, DepthIs
<1>7. PortOK(uart')
  BY <1>2, <1>4, <1>5, <1>6 DEF PortOK
<1>8. SetUp(uart) => SetUp(uart')
  BY <1>4, <1>5, <1>6, <1>7 DEF SetUp
<1>9. \A k \in 0 .. 6 : Written(uart, k) => Written(uart', k)
  BY <1>4, <1>5, <1>7 DEF Written
<1>10. Position'
  BY <1>1, <1>8, <1>9, PositionNext DEF PortAt
<1>11. PortTypeOK'
  BY <1>1, <1>7 DEF PortTypeOK, PortOK
<1>12. polled = TRUE => byte # None /\ uart'.queue = <<>>
  BY <1>5 DEF PortIInv
<1> QED
  BY <1>1, <1>10, <1>11, <1>12 DEF PortIInv

\* The invariant holds initially.
LEMMA PortInitInvariant == ASSUME PortInit PROVE PortIInv
<1>1. program \in Programs /\ uart \in Ports /\ byte = None /\ polled = FALSE /\ armed = FALSE
      /\ trapped = 0
  BY DEF PortInit
<1>2. /\ program \in Seq(Statements) /\ program # <<>> /\ Head(program).kind = "init"
      /\ \A j, k \in 1 .. Len(program) :
           j < k /\ program[j].kind = "sti" => program[k].kind # "init"
  BY <1>1, SerialAssumption
<1>3. \A s \in Statements : "kind" \in DOMAIN s /\ (s.kind = "init" => s = SerialInit)
  <2> TAKE s \in Statements
  <2>1. CASE s \in [kind : {"init"}, writes : {InitWrites}]
    BY <2>1 DEF SerialInit
  <2>2. CASE s \notin [kind : {"init"}, writes : {InitWrites}]
    <3>1. "kind" \in DOMAIN s /\ s.kind \in {"text", "number", "mirror", "sti"}
      BY <2>2 DEF Statements
    <3> QED
      BY <3>1
  <2> QED
    BY <2>1, <2>2
<1>4. \A k \in 1 .. Len(program) : program[k] \in Statements
  BY <1>2
<1>5. Head(program) \in Statements /\ AtSetUp(program)
  BY <1>2, TailIs DEF AtSetUp
<1>6. Orderly(program)
  <2>1. \A k \in 2 .. Len(program) : k \in 1 .. Len(program)
    OBVIOUS
  <2> QED
    BY <1>2, <1>3, <1>4, <2>1 DEF Orderly
<1>7. PortOK(uart) /\ uart.dlab = FALSE
  BY <1>1, SerialAssumption DEF PortOK
<1>8. Written(uart, 0) /\ 0 \in 0 .. 6
  BY <1>7 DEF Written
<1>9. Head(program) = SerialInit
  BY <1>2, <1>3, <1>5
<1>10. Position
  BY <1>1, <1>5, <1>8, <1>9, SetUpAgain, PositionIs DEF PortAt
<1>11. PortTypeOK
  <2>1. 0 \in 0 .. Nested
    <3>1. Nested \in Nat
      BY SerialAssumption
    <3> QED
      BY <3>1
  <2> QED
    BY <1>1, <1>7, <2>1 DEF PortTypeOK, PortOK
<1> QED
  BY <1>1, <1>6, <1>10, <1>11 DEF PortIInv

\* Every step keeps it.
LEMMA PortNextInvariant == ASSUME PortIInv, [PortNext]_portVars PROVE PortIInv'
<1>1. CASE SetUpPort
  BY <1>1, SetUpPortKeeps
<1>2. CASE WriteText
  BY <1>2, WriteTextKeeps
<1>3. CASE PrintNumber
  BY <1>3, PrintNumberKeeps
<1>4. CASE WriteConsole \/ EnableInterrupts
  BY <1>4, ConsoleOrGatesKeep
<1>5. CASE Poll \/ Out
  BY <1>5, PutcKeeps
<1>6. CASE Transmitter
  BY <1>6, TransmitterKeeps DEF Transmitter
<1>7. CASE \E v \in Traps : Exception(v)
  BY <1>7, ExceptionKeeps
<1>8. CASE UNCHANGED portVars
  <2>1. PortTypeOK'
    BY <1>8 DEF portVars, PortIInv, PortTypeOK
  <2>2. Position'
    BY <1>8, PositionIs, PositionNext DEF portVars, PortIInv
  <2> QED
    BY <1>8, <2>1, <2>2 DEF portVars, PortIInv
<1> QED
  BY <1>1, <1>2, <1>3, <1>4, <1>5, <1>6, <1>7, <1>8 DEF PortNext, Processor

\* Safety of the serial port: once gates are in force it raises no interrupt and
\* its latch is closed, and the driver has one byte at most in the FIFO, so that
\* a set-up loses no more; for every program, port and depth of the FIFO, and
\* an exception at any point.
THEOREM SerialSound == PortSpec => []PortInv
<1>1. PortIInv => PortInv
  <2> SUFFICES ASSUME PortIInv PROVE PortInv
    OBVIOUS
  <2>1. /\ PortTypeOK /\ Orderly(program) /\ PortAt(program, byte, uart)
        /\ armed = TRUE => NoSetUp(program)
    BY PositionIs DEF PortIInv
  <2>2. PortQuiet
    <3> SUFFICES ASSUME armed PROVE ~uart.irqs /\ ~uart.dlab /\ uart.fifo /\ uart.divisor = 3
      BY DEF PortQuiet
    <3>1. NoSetUp(program)
      BY <2>1 DEF PortTypeOK
    <3>2. PICK S : program \in Seq(S)
      BY <2>1 DEF Orderly
    <3>3. ~AtSetUp(program)
      BY <3>1, <3>2, TailIs DEF AtSetUp, NoSetUp
    <3> QED
      BY <2>1, <3>3, PortIsTyped DEF SetUp
  <2>3. OneAtATime
    <3> SUFFICES ASSUME ~Under("init") PROVE Len(uart.queue) <= 1
      BY DEF OneAtATime
    <3>1. byte # None \/ ~AtSetUp(program)
      BY DEF Under, AtSetUp
    <3>2. SetUp(uart)
      BY <2>1, <3>1, PortIsTyped
    <3> QED
      BY <3>2 DEF SetUp
  <2> QED
    BY <2>1, <2>2, <2>3 DEF PortInv
<1> QED
  BY <1>1, PortInitInvariant, PortNextInvariant, PTL DEF PortSpec
-----------------------------------------------------------------------------
\* A function defined by recursion on the numbers up to n, each value from that
\* of a smaller number D[k] or, for numbers in B, directly, exists.
Descends(g, S, B, A, D, F) ==
  /\ DOMAIN g = S
  /\ \A k \in S : g[k] = IF k \in B THEN A[k] ELSE F[k][g[D[k]]]
\* Such a function exists on all numbers, whatever its values.
LEMMA Descent ==
  ASSUME NEW T, NEW B, NEW A \in [Nat -> T], NEW D \in [Nat -> Nat], NEW F \in [Nat -> [T -> T]],
         \A k \in Nat : k \in B \/ D[k] < k
  PROVE  \E g : Descends(g, Nat, B, A, D, F) /\ g \in [Nat -> T]
<1> DEFINE Rule(g, m) == /\ g \in [0 .. m -> T]
                         /\ \A k \in 0 .. m : g[k] = IF k \in B THEN A[k] ELSE F[k][g[D[k]]]
           S == {m \in Nat : \E g : Rule(g, m)}
           New(g, m) == IF m \in B THEN A[m] ELSE F[m][g[D[m]]]
<1>1. 0 \in S
  <2>1. 0 \in B /\ A[0] \in T
    OBVIOUS
  <2>2. Rule([k \in 0 .. 0 |-> A[0]], 0)
    BY <2>1
  <2> QED
    BY <2>2
<1>2. ASSUME NEW m \in Nat, m \in S PROVE m + 1 \in S
  <2>1. PICK g : Rule(g, m)
    BY <1>2
  <2> DEFINE h == [k \in 0 .. m + 1 |-> IF k = m + 1 THEN New(g, m + 1) ELSE g[k]]
  <2>2. New(g, m + 1) \in T
    <3>1. m + 1 \in Nat /\ A[m+1] \in T /\ F[m+1] \in [T -> T]
      OBVIOUS
    <3>2. m + 1 \notin B => D[m+1] \in 0 .. m
      BY <3>1
    <3>3. m + 1 \notin B => g[D[m+1]] \in T
      BY <2>1, <3>2
    <3> QED
      BY <3>1, <3>3
  <2>3. \A k \in 0 .. m : g[k] \in T /\ h[k] = g[k]
    BY <2>1
  <2>4. h \in [0 .. m + 1 -> T] /\ h[m+1] = New(g, m + 1)
    <3>1. m + 1 \in 0 .. m + 1 /\ \A k \in 0 .. m + 1 : k # m + 1 => k \in 0 .. m
      OBVIOUS
    <3> HIDE DEF New
    <3>2. \A k \in 0 .. m + 1 : (IF k = m + 1 THEN New(g, m + 1) ELSE g[k]) \in T
      BY <2>2, <2>3, <3>1
    <3> QED
      BY <3>1, <3>2
  <2> HIDE DEF h
  <2>5. ASSUME NEW k \in 0 .. m + 1
        PROVE  h[k] = IF k \in B THEN A[k] ELSE F[k][h[D[k]]]
    <3>1. k \in Nat /\ (k \notin B => D[k] \in Nat /\ D[k] < k)
      OBVIOUS
    <3>2. k \notin B => D[k] \in 0 .. m
      BY <3>1
    <3>3. k \notin B => h[D[k]] = g[D[k]]
      BY <3>2, <2>3
    <3>4. CASE k = m + 1
      BY <2>4, <3>3, <3>4
    <3>5. CASE k # m + 1
      <4>1. k \in 0 .. m
        BY <3>5
      <4>2. h[k] = g[k] /\ g[k] = IF k \in B THEN A[k] ELSE F[k][g[D[k]]]
        BY <4>1, <2>1, <2>3
      <4> QED
        BY <4>2, <3>3
    <3> QED
      BY <3>4, <3>5
  <2>6. Rule(h, m + 1)
    BY <2>4, <2>5
  <2> HIDE DEF Rule
  <2> QED
    BY <2>6
<1>3. \A m \in Nat : m \in S
  <2> HIDE DEF S
  <2> QED
    BY <1>1, <1>2, Numbers
<1> DEFINE G(m) == CHOOSE g : Rule(g, m)
<1>4. \A m \in Nat : Rule(G(m), m)
  <2> HIDE DEF Rule
  <2> QED
    BY <1>3
<1> HIDE DEF G
\* Two of them agree where both are defined.
<1> DEFINE Differ == {k \in Nat : \E m, n \in Nat : k <= m /\ k <= n /\ G(m)[k] # G(n)[k]}
<1>5. Differ = {}
  <2> SUFFICES ASSUME Differ # {} PROVE FALSE
    OBVIOUS
  <2>1. PICK k \in Differ : \A l \in Differ : k <= l
    <3>1. Differ \in SUBSET Nat
      OBVIOUS
    <3> HIDE DEF Differ
    <3> QED
      BY <3>1, Least
  <2>2. PICK m \in Nat, n \in Nat : k <= m /\ k <= n /\ G(m)[k] # G(n)[k]
    BY <2>1
  <2>3. k \in Nat /\ k \in 0 .. m /\ k \in 0 .. n
    BY <2>1, <2>2
  <2>4. k \notin B
    BY <2>2, <2>3, <1>4
  <2>5. D[k] \in Nat /\ D[k] < k /\ D[k] <= m /\ D[k] <= n
    BY <2>2, <2>3, <2>4
  <2>6. D[k] \notin Differ
    BY <2>1, <2>3, <2>5
  <2>7. G(m)[D[k]] = G(n)[D[k]]
    BY <2>5, <2>6
  <2>8. G(m)[k] = F[k][G(m)[D[k]]]
    BY <2>2, <2>3, <2>4, <1>4
  <2>9. G(n)[k] = F[k][G(n)[D[k]]]
    BY <2>2, <2>3, <2>4, <1>4
  <2> QED
    BY <2>2, <2>7, <2>8, <2>9
<1> DEFINE f == [k \in Nat |-> G(k)[k]]
<1>6. ASSUME NEW k \in Nat PROVE f[k] \in T /\ f[k] = IF k \in B THEN A[k] ELSE F[k][f[D[k]]]
  <2>1. k \in 0 .. k /\ D[k] \in Nat
    OBVIOUS
  <2>2. G(k)[k] \in T /\ G(k)[k] = IF k \in B THEN A[k] ELSE F[k][G(k)[D[k]]]
    BY <1>4, <2>1
  <2>3. k \notin B => D[k] <= k
    BY <2>1
  <2>4. k \notin B => G(k)[D[k]] = G(D[k])[D[k]]
    <3>1. D[k] \notin Differ /\ D[k] <= D[k]
      BY <1>5, <2>1
    <3> QED
      BY <3>1, <2>1, <2>3
  <2> QED
    BY <2>1, <2>2, <2>4
<1> QED
  <2>1. f \in [Nat -> T] /\ DOMAIN f = Nat
    BY <1>6
  <2> HIDE DEF f
  <2> QED
    BY <1>6, <2>1 DEF Descends
-----------------------------------------------------------------------------
(* Numerals.                                                               *)

\* The powers of ten, by their recursion.
LEMMA TensSteps ==
  Tens \in [Nat -> Nat \ {0}] /\ Tens[0] = 1 /\ \A k \in Nat : Tens[k+1] = 10 * Tens[k]
<1> DEFINE T == Nat \ {0}
           A == [k \in Nat |-> 1]
           D == [k \in Nat |-> IF k = 0 THEN 0 ELSE k - 1]
           F == [k \in Nat |-> [x \in T |-> 10 * x]]
<1>1. A \in [Nat -> T] /\ D \in [Nat -> Nat] /\ F \in [Nat -> [T -> T]]
      /\ \A k \in Nat : k \in {0} \/ D[k] < k
  OBVIOUS
<1>2. \A k \in Nat : A[k] = 1 /\ (k # 0 => D[k] = k - 1) /\ \A x \in T : F[k][x] = 10 * x
  OBVIOUS
<1> HIDE DEF A, D, F
<1>3. PICK g : Descends(g, Nat, {0}, A, D, F) /\ g \in [Nat -> T]
  BY <1>1, Descent
<1>4. g = [k \in Nat |-> IF k = 0 THEN 1 ELSE 10 * g[k-1]]
  <2>1. ASSUME NEW k \in Nat PROVE g[k] = IF k = 0 THEN 1 ELSE 10 * g[k-1]
    <3>1. k # 0 => k - 1 \in Nat /\ g[k-1] \in T
      BY <1>3
    <3>2. g[k] = IF k = 0 THEN A[k] ELSE F[k][g[D[k]]]
      BY <1>3 DEF Descends
    <3> QED
      BY <1>2, <3>1, <3>2
  <2> QED
    BY <1>3, <2>1
<1>5. Tens = [k \in Nat |-> IF k = 0 THEN 1 ELSE 10 * Tens[k-1]]
  BY <1>4 DEF Tens
<1>6. Tens[0] = 1 /\ \A k \in Nat : Tens[k+1] = 10 * Tens[k]
  BY <1>5
<1> DEFINE S == {k \in Nat : Tens[k] \in T}
<1>7. \A k \in Nat : k \in S
  <2>1. 0 \in S /\ \A k \in Nat : k \in S => k + 1 \in S
    BY <1>6
  <2> HIDE DEF S
  <2> QED
    BY <2>1, Numbers
<1>8. DOMAIN Tens = Nat /\ Tens = [k \in DOMAIN Tens |-> Tens[k]]
  BY <1>5
<1> QED
  BY <1>6, <1>7, <1>8

\* The number of digits a number has, by its recursion.
LEMMA WidthSteps ==
  /\ Width \in [Nat -> Nat \ {0}]
  /\ \A n \in Nat : Width[n] = IF n < 10 THEN 1 ELSE 1 + Width[n \div 10]
<1> DEFINE T == Nat \ {0}
           B == 0 .. 9
           A == [k \in Nat |-> 1]
           D == [k \in Nat |-> k \div 10]
           F == [k \in Nat |-> [x \in T |-> 1 + x]]
<1>1. \A k \in Nat : k \div 10 \in Nat /\ (k \in B \/ k \div 10 < k)
  OBVIOUS
<1>2. A \in [Nat -> T] /\ D \in [Nat -> Nat] /\ F \in [Nat -> [T -> T]]
      /\ \A k \in Nat : k \in B \/ D[k] < k
  BY <1>1
<1>3. \A k \in Nat : A[k] = 1 /\ D[k] = k \div 10 /\ \A x \in T : F[k][x] = 1 + x
  OBVIOUS
<1> HIDE DEF A, D, F
<1>4. PICK g : Descends(g, Nat, B, A, D, F) /\ g \in [Nat -> T]
  BY <1>2, Descent
<1>5. g = [k \in Nat |-> IF k < 10 THEN 1 ELSE 1 + g[k \div 10]]
  <2>1. ASSUME NEW k \in Nat PROVE g[k] = IF k < 10 THEN 1 ELSE 1 + g[k \div 10]
    <3>1. k \div 10 \in Nat /\ (k \in B <=> k < 10) /\ g[k \div 10] \in T
      BY <1>1, <1>4
    <3>2. g[k] = IF k \in B THEN A[k] ELSE F[k][g[D[k]]]
      BY <1>4 DEF Descends
    <3> QED
      BY <1>3, <3>1, <3>2
  <2> QED
    BY <1>4, <2>1
<1>6. Width = [k \in Nat |-> IF k < 10 THEN 1 ELSE 1 + Width[k \div 10]]
  BY <1>5 DEF Width
<1>7. \A n \in Nat : Width[n] = IF n < 10 THEN 1 ELSE 1 + Width[n \div 10]
  BY <1>6
<1> DEFINE Bad == {n \in Nat : Width[n] \notin T}
<1>8. Bad = {}
  <2> SUFFICES ASSUME Bad # {} PROVE FALSE
    OBVIOUS
  <2>1. PICK n \in Bad : \A k \in Bad : n <= k
    <3>1. Bad \in SUBSET Nat
      OBVIOUS
    <3> HIDE DEF Bad
    <3> QED
      BY <3>1, Least
  <2>2. n \in Nat /\ Width[n] \notin T /\ n >= 10
    BY <2>1, <1>7
  <2>3. n \div 10 \in Nat /\ n \div 10 < n
    BY <2>2, <1>1
  <2>4. Width[n \div 10] \in T
    BY <2>1, <2>3
  <2> QED
    BY <2>2, <2>4, <1>7
<1>9. DOMAIN Width = Nat /\ Width = [k \in DOMAIN Width |-> Width[k]]
  BY <1>6
<1> QED
  BY <1>7, <1>8, <1>9

Ciphers == {Digit[d] : d \in 0 .. 9}
\* Each of ten digits is a cipher.
LEMMA DigitIs == \A d \in 0 .. 9 : Digit[d] \in Ciphers
BY DEF Ciphers

\* A numeral of one digit, and of one more than its tens have.
LEMMA DecimalIs ==
  ASSUME NEW n \in Nat
  PROVE  /\ Decimal(n) \in Seq(Ciphers)
         /\ Len(Decimal(n)) = Width[n] /\ Decimal(n) # <<>>
         /\ n < 10 => Decimal(n) = <<Digit[n]>>
         /\ n >= 10 => Decimal(n) = Append(Decimal(n \div 10), Digit[n % 10])
<1> DEFINE C == Ciphers
           at(m, h) == Digit[(m \div Tens[Width[m] - h]) % 10]
<1>1. \A m \in Nat : Width[m] \in Nat \ {0}
  BY WidthSteps
<1>2. ASSUME NEW m \in Nat
      PROVE  /\ Decimal(m) \in Seq(C) /\ Len(Decimal(m)) = Width[m]
             /\ \A h \in 1 .. Width[m] : Decimal(m)[h] = at(m, h)
  <2>1. ASSUME NEW h \in 1 .. Width[m] PROVE at(m, h) \in C
    <3>1. Width[m] - h \in Nat
      BY <1>1
    <3>2. Tens[Width[m] - h] \in Nat \ {0}
      BY <3>1, TensSteps
    <3>3. m \div Tens[Width[m] - h] \in Nat
      BY <3>2
    <3>4. (m \div Tens[Width[m] - h]) % 10 \in 0 .. 9
      BY <3>3
    <3> QED
      BY <3>4, DigitIs
  <2> DEFINE w == Width[m]
  <2>2. Decimal(m) = [h \in 1 .. w |-> at(m, h)]
    BY DEF Decimal
  <2>3. w \in Nat
    BY <1>1
  <2> HIDE DEF at, w
  <2>4. Decimal(m) \in [1 .. w -> C]
    BY <2>1, <2>2 DEF w
  <2> QED
    BY <2>2, <2>3, <2>4 DEF w
<1>3. CASE n < 10
  <2>1. Width[n] = 1 /\ Tens[0] = 1
    BY <1>3, WidthSteps, TensSteps
  <2>2. at(n, 1) = Digit[n]
    <3>1. (n \div 1) % 10 = n /\ 1 - 1 = 0
      BY <1>3
    <3> QED
      BY <2>1, <3>1
  <2> HIDE DEF at
  <2>3. Decimal(n) \in Seq(C) /\ Len(Decimal(n)) = 1 /\ Decimal(n)[1] = Digit[n]
    <3>1. Decimal(n) \in Seq(C) /\ Len(Decimal(n)) = Width[n]
          /\ \A h \in 1 .. Width[n] : Decimal(n)[h] = at(n, h)
      BY <1>2
    <3>2. 1 \in 1 .. Width[n]
      BY <2>1
    <3>3. Decimal(n)[1] = Digit[n]
      BY <2>2, <3>1, <3>2, Zenon
    <3> QED
      BY <2>1, <3>1, <3>3
  <2>4. Decimal(n) = <<Digit[n]>>
    <3> DEFINE d == Decimal(n)
    <3> HIDE DEF d
    <3>1. d \in Seq(C) /\ Len(d) = 1 /\ d[1] = Digit[n]
      BY <2>3 DEF d
    <3>2. d = <<Digit[n]>>
      BY <3>1
    <3> QED
      BY <3>2 DEF d
  <2> QED
    BY <1>2, <1>3, <2>1, <2>4
<1>4. CASE n >= 10
  <2> DEFINE m == n \div 10
             w == Width[m]
             s == Append(Decimal(m), Digit[n % 10])
  <2>1. m \in Nat /\ n % 10 \in 0 .. 9
    OBVIOUS
  <2>2. Width[n] = w + 1 /\ w \in Nat \ {0}
    BY <1>4, <2>1, WidthSteps
  <2>3. Digit[n % 10] \in C
    BY <2>1, DigitIs
  <2>4. s \in Seq(C) /\ Len(s) = w + 1 /\ s[w+1] = Digit[n % 10]
        /\ \A h \in 1 .. w : s[h] = Decimal(m)[h]
    <3> DEFINE d == Decimal(m)
    <3>1. d \in Seq(C) /\ Len(d) = w
      BY <1>2, <2>1
    <3> HIDE DEF d, m, w
    <3>2. w \in Nat
      BY <2>2
    <3> QED
      BY <2>3, <3>1, <3>2 DEF d
  <2>5. ASSUME NEW h \in 1 .. w PROVE at(n, h) = at(m, h)
    <3>1. w - h \in Nat /\ (w + 1) - h = (w - h) + 1
      BY <2>2
    <3>2. Tens[w - h] \in Nat \ {0} /\ Tens[(w - h) + 1] = 10 * Tens[w - h]
      BY <3>1, TensSteps
    <3>3. \A p \in Nat \ {0} : (n \div 10) \div p = n \div (10 * p)
      OBVIOUS
    <3>4. n \div Tens[(w + 1) - h] = m \div Tens[w - h]
      BY <3>1, <3>2, <3>3
    <3> QED
      BY <2>2, <3>4
  <2>6. at(n, w + 1) = Digit[n % 10]
    <3>1. (w + 1) - (w + 1) = 0 /\ n \div 1 = n /\ Tens[0] = 1
      BY <2>2, TensSteps
    <3> QED
      BY <2>2, <3>1
  <2> HIDE DEF at, s, m
  <2>7. ASSUME NEW h \in 1 .. w + 1 PROVE Decimal(n)[h] = s[h]
    <3>1. h = w + 1 \/ h \in 1 .. w
      BY <2>2
    <3>2. h \in 1 .. Width[n] /\ Decimal(n)[h] = at(n, h)
      BY <1>2, <2>2
    <3>3. h \in 1 .. w => Decimal(m)[h] = at(m, h)
      BY <1>2, <2>1
    <3> QED
      BY <2>4, <2>5, <2>6, <3>1, <3>2, <3>3
  <2>8. Decimal(n) = s
    <3> DEFINE d == Decimal(n)
    <3>1. d \in Seq(C) /\ Len(d) = w + 1
      BY <1>2, <2>2
    <3>2. \A h \in 1 .. w + 1 : d[h] = s[h]
      BY <2>7
    <3> HIDE DEF d, w
    <3>3. d = s
      BY <2>2, <2>4, <3>1, <3>2
    <3> QED
      BY <3>3 DEF d
  <2>9. Decimal(n) \in Seq(C) /\ Len(Decimal(n)) = Width[n]
    BY <1>2
  <2>10. Decimal(n) # <<>>
    BY <2>2, <2>9
  <2>11. Decimal(n) = Append(Decimal(n \div 10), Digit[n % 10])
    BY <2>8 DEF s, m
  <2> HIDE DEF C, w
  <2> QED
    BY <1>4, <2>9, <2>10, <2>11 DEF C
<1> QED
  BY <1>3, <1>4

-----------------------------------------------------------------------------
(* Sequences of sequences put together.                                    *)

\* f[h] is the first h members of q, put together.
Joined(f, q, T) ==
  /\ f \in [1 .. Len(q) -> Seq(T)] /\ f[1] = q[1]
  /\ \A h \in 1 .. Len(q) : h # 1 => f[h] = f[h-1] \o q[h]
\* FlattenSeq is the last of these.
LEMMA FlattenJoins ==
  ASSUME NEW T, NEW q \in Seq(Seq(T)), q # <<>>
  PROVE  \E f : Joined(f, q, T) /\ FlattenSeq(q) = f[Len(q)]
<1> DEFINE n == Len(q)
           P == Seq(T)
           more(k, x) == IF k \in 1 .. n THEN x \o q[k] ELSE x
           F == [k \in Nat |-> [x \in P |-> more(k, x)]]
           Rule(f) == f = [e \in 1 .. n |-> IF e = 1 THEN q[e] ELSE f[e-1] \o q[e]]
<1>1. n \in Nat \ {0} /\ \A k \in 1 .. n : q[k] \in Seq(T)
  OBVIOUS
<1>2. F \in [Nat -> [P -> P]] /\ <<>> \in P
      /\ \A k \in 1 .. n, x \in P : F[k][x] = x \o q[k]
  <2>1. \A k \in 1 .. n, x \in Seq(T) : x \o q[k] \in Seq(T)
    BY <1>1
  <2>2. \A k \in Nat, x \in P : more(k, x) \in P
    <3> HIDE DEF n
    <3> QED
      BY <2>1
  <2>3. \A k \in 1 .. n, x \in P : k \in Nat /\ more(k, x) = x \o q[k]
    BY <1>1
  <2>4. <<>> \in P
    OBVIOUS
  <2> HIDE DEF P, more, n
  <2> QED
    BY <2>2, <2>3, <2>4
<1> HIDE DEF F, n, P
<1>3. PICK g : StepByStep(g, P, <<>>, n, F)
  BY <1>1, <1>2, Recursion
<1>4. /\ \A k \in 0 .. n : g[k] \in P
      /\ g[0] = <<>> /\ \A k \in 1 .. n : g[k] = g[k-1] \o q[k]
  <2>1. \A k \in 1 .. n : k - 1 \in 0 .. n /\ k \in Nat
    BY <1>1
  <2> QED
    BY <1>2, <1>3, <2>1 DEF StepByStep
<1> USE DEF P
<1>5. \E f : Rule(f)
  <2> DEFINE f == [k \in 1 .. n |-> g[k]]
  <2>1. ASSUME NEW e \in 1 .. n PROVE f[e] = IF e = 1 THEN q[e] ELSE f[e-1] \o q[e]
    <3>1. CASE e = 1
      <4>1. e - 1 = 0
        BY <3>1
      <4>2. g[e] = <<>> \o q[e] /\ q[e] \in Seq(T)
        BY <1>1, <1>4, <4>1
      <4>3. <<>> \o q[e] = q[e]
        BY <4>2, ConcatEmptySeq
      <4> QED
        BY <3>1, <4>2, <4>3
    <3>2. CASE e # 1
      <4>1. e - 1 \in 1 .. n
        BY <1>1, <3>2
      <4> QED
        BY <1>4, <3>2, <4>1
    <3> QED
      BY <3>1, <3>2
  <2>2. Rule(f)
    BY <2>1
  <2> HIDE DEF Rule, f
  <2> QED
    BY <2>2
<1> DEFINE h == CHOOSE f : Rule(f)
<1>6. Rule(h)
  <2> HIDE DEF Rule
  <2> QED
    BY <1>5
<1>7. FlattenSeq(q) = h[n]
  BY <1>1 DEF FlattenSeq, n
<1> HIDE DEF h
<1>8. h[1] = q[1] /\ \A e \in 1 .. n : e # 1 => h[e] = h[e-1] \o q[e]
  <2>1. 1 \in 1 .. n
    BY <1>1
  <2> QED
    BY <1>6, <2>1
<1> DEFINE S == {k \in Nat : k + 1 <= n => h[k+1] \in Seq(T)}
<1>9. \A k \in Nat : k \in S
  <2>1. 0 \in S
    BY <1>1, <1>8
  <2>2. ASSUME NEW k \in Nat, k \in S PROVE k + 1 \in S
    <3> SUFFICES ASSUME (k + 1) + 1 <= n PROVE h[(k+1)+1] \in Seq(T)
      OBVIOUS
    <3>1. (k + 1) + 1 \in 1 .. n /\ (k + 1) + 1 # 1 /\ ((k + 1) + 1) - 1 = k + 1 /\ k + 1 <= n
      BY <1>1
    <3>2. h[(k+1)+1] = h[k+1] \o q[(k+1)+1] /\ q[(k+1)+1] \in Seq(T)
      BY <1>1, <1>8, <3>1
    <3>3. h[k+1] \in Seq(T)
      BY <2>2, <3>1
    <3> QED
      BY <3>2, <3>3
  <2> HIDE DEF S
  <2> QED
    BY <2>1, <2>2, Numbers
<1>10. h \in [1 .. n -> Seq(T)]
  <2>1. ASSUME NEW e \in 1 .. n PROVE h[e] \in Seq(T)
    <3>1. e - 1 \in Nat /\ (e - 1) + 1 = e /\ e <= n
      BY <1>1
    <3>2. e - 1 \in S
      <4> HIDE DEF S
      <4> QED
        BY <1>9, <3>1
    <3> QED
      BY <3>1, <3>2
  <2>2. DOMAIN h = 1 .. n /\ h = [e \in DOMAIN h |-> h[e]]
    BY <1>6
  <2> QED
    BY <2>1, <2>2
<1> QED
  BY <1>7, <1>8, <1>10 DEF Joined, n

\* The first of them, then the others put together.
LEMMA FlattenHead ==
  ASSUME NEW T, NEW s \in Seq(T), NEW t \in Seq(Seq(T))
  PROVE  /\ FlattenSeq(<<s>> \o t) = s \o FlattenSeq(t) /\ FlattenSeq(t) \in Seq(T)
         /\ FlattenSeq(<<>>) = <<>>
<1> DEFINE q == <<s>> \o t
           n == Len(t)
<1>1. FlattenSeq(<<>>) = <<>>
  BY DEF FlattenSeq
<1>2. n \in Nat /\ q \in Seq(Seq(T)) /\ Len(q) = n + 1 /\ q # <<>> /\ q[1] = s
      /\ \A h \in 1 .. n : q[h+1] = t[h] /\ t[h] \in Seq(T)
  OBVIOUS
<1> HIDE DEF q
<1>3. PICK f : Joined(f, q, T) /\ FlattenSeq(q) = f[n+1]
  BY <1>2, FlattenJoins
<1>4. CASE t = <<>>
  <2>1. n = 0 /\ FlattenSeq(q) = s
    BY <1>2, <1>3, <1>4 DEF Joined
  <2>2. FlattenSeq(t) = <<>>
    BY <1>1, <1>4
  <2>3. s \o <<>> = s
    OBVIOUS
  <2> QED
    BY <1>1, <2>1, <2>2, <2>3 DEF q
<1>5. CASE t # <<>>
  <2>1. PICK g : Joined(g, t, T) /\ FlattenSeq(t) = g[n]
    BY <1>5, FlattenJoins
  <2>2. n \in Nat \ {0} /\ g \in [1 .. n -> Seq(T)] /\ g[1] = t[1]
        /\ \A h \in 1 .. n : h # 1 => g[h] = g[h-1] \o t[h]
    <3>1. n \in Nat \ {0}
      BY <1>2, <1>5
    <3>2. g \in [1 .. n -> Seq(T)] /\ g[1] = t[1]
          /\ \A h \in 1 .. n : h # 1 => g[h] = g[h-1] \o t[h]
      BY <2>1 DEF Joined
    <3> QED
      BY <3>1, <3>2
  <2>3. f \in [1 .. n + 1 -> Seq(T)] /\ f[1] = s
        /\ \A h \in 1 .. n + 1 : h # 1 => f[h] = f[h-1] \o q[h]
    BY <1>2, <1>3 DEF Joined
  <2> HIDE DEF n
  <2> DEFINE S == {k \in Nat : k + 1 <= n => f[(k+1)+1] = s \o g[k+1]}
  <2>4. 0 \in S
    <3>1. 2 \in 1 .. n + 1 /\ 1 \in 1 .. n /\ 2 - 1 = 1 /\ 1 + 1 = 2
      BY <2>2
    <3>2. f[1+1] = f[1] \o q[1+1]
      <4>1. \A h \in 1 .. n : h + 1 \in 1 .. n + 1 /\ h + 1 # 1 /\ (h + 1) - 1 = h
        BY <2>2
      <4>2. \A h \in 1 .. n : f[h+1] = f[h] \o q[h+1]
        BY <2>3, <4>1
      <4> QED
        BY <3>1, <4>2
    <3>3. q[1 + 1] = t[1]
      BY <1>2, <3>1
    <3>4. f[1+1] = s \o g[1]
      BY <2>2, <2>3, <3>1, <3>2, <3>3
    <3> QED
      BY <3>1, <3>4
  <2>5. ASSUME NEW k \in Nat, k \in S PROVE k + 1 \in S
    <3> SUFFICES ASSUME (k + 1) + 1 <= n PROVE f[((k+1)+1)+1] = s \o g[(k+1)+1]
      OBVIOUS
    <3> DEFINE j == k + 1
    <3>1. j \in 1 .. n /\ j + 1 \in 1 .. n /\ j + 1 # 1 /\ (j + 1) - 1 = j
          /\ (j + 1) + 1 \in 1 .. n + 1 /\ (j + 1) + 1 # 1 /\ ((j + 1) + 1) - 1 = j + 1
      BY <1>2
    <3>2. f[j+1] = s \o g[j]
      BY <2>5, <3>1
    <3> HIDE DEF j
    <3>3. f[(j+1)+1] = f[j+1] \o t[j+1] /\ g[j+1] = g[j] \o t[j+1]
          /\ g[j] \in Seq(T) /\ t[j+1] \in Seq(T)
      <4>1. f[(j+1)+1] = f[((j+1)+1)-1] \o q[(j+1)+1]
        BY <2>3, <3>1
      <4>2. q[(j+1)+1] = t[j+1] /\ t[j+1] \in Seq(T)
        BY <1>2, <3>1
      <4>3. g[j+1] = g[(j+1)-1] \o t[j+1]
        BY <2>2, <3>1
      <4>4. g[j] \in Seq(T)
        BY <2>2, <3>1
      <4> QED
        BY <3>1, <4>1, <4>2, <4>3, <4>4
    <3>4. (s \o g[j]) \o t[j+1] = s \o (g[j] \o t[j+1])
      <4> DEFINE x == g[j]
                 y == t[j+1]
      <4>1. x \in Seq(T) /\ y \in Seq(T)
        BY <3>3
      <4> HIDE DEF x, y
      <4>2. (s \o x) \o y = s \o (x \o y)
        BY <4>1, ConcatAssociative
      <4> QED
        BY <4>2 DEF x, y
    <3>5. f[(j+1)+1] = s \o g[j+1]
      BY <3>2, <3>3, <3>4
    <3> QED
      BY <3>5 DEF j
  <2>6. n - 1 \in S
    <3>1. n - 1 \in Nat
      BY <2>2
    <3> HIDE DEF S
    <3> QED
      BY <2>4, <2>5, <3>1, Numbers
  <2>7. (n - 1) + 1 = n /\ n <= n
    BY <2>2
  <2>8. f[n+1] = s \o g[n]
    BY <2>6, <2>7
  <2>9. n \in 1 .. n
    BY <2>2
  <2>10. g[n] \in Seq(T)
    BY <2>2, <2>9
  <2> QED
    BY <1>1, <1>3, <2>1, <2>8, <2>10 DEF q
<1> QED
  BY <1>4, <1>5

\* Sequences put together from the left or from the right.
Cat(a, b) == a \o b
\* Putting together is associative, and stays in the sequences.
LEMMA CatIs ==
  ASSUME NEW S, NEW a \in Seq(S), NEW b \in Seq(S), NEW c \in Seq(S)
  PROVE  Cat(Cat(a, b), c) = Cat(a, Cat(b, c)) /\ Cat(a, b) \in Seq(S)
<1>1. a \o b \in Seq(S)
  OBVIOUS
<1>2. (a \o b) \o c = a \o (b \o c)
  OBVIOUS
<1> QED
  BY <1>1, <1>2 DEF Cat

\* Four sequences put together, from the left and from the right.
LEMMA Regrouped ==
  ASSUME NEW S, NEW a \in Seq(S), NEW b \in Seq(S), NEW c \in Seq(S), NEW d \in Seq(S)
  PROVE  Cat(Cat(Cat(a, b), c), d) = Cat(a, Cat(b, Cat(c, d)))
<1>1. Cat(Cat(Cat(a, b), c), d) = Cat(Cat(a, b), Cat(c, d))
  BY CatIs
<1>2. Cat(Cat(a, b), Cat(c, d)) = Cat(a, Cat(b, Cat(c, d)))
  BY CatIs
<1> QED
  BY <1>1, <1>2

\* A pair is its two members put together.
LEMMA PairIs == ASSUME NEW x, NEW y PROVE <<x, y>> = <<x>> \o <<y>>
<1> DEFINE D == {x, y}
           a == <<x>>
           b == <<y>>
           e == <<x, y>>
           f == a \o b
<1>1. a \in Seq(D) /\ b \in Seq(D) /\ Len(a) = 1 /\ Len(b) = 1 /\ a[1] = x /\ b[1] = y
  OBVIOUS
<1>2. e \in Seq(D) /\ Len(e) = 2 /\ e[1] = x /\ e[2] = y
  OBVIOUS
<1> HIDE DEF a, b, e
<1>3. f \in Seq(D) /\ Len(f) = 2 /\ \A h \in 1 .. 2 : f[h] = IF h <= 1 THEN a[h] ELSE b[h-1]
  BY <1>1, ConcatProperties
<1> HIDE DEF f
<1>4. f[1] = x /\ f[2] = y
  BY <1>1, <1>3
<1>5. \A h \in 1 .. 2 : e[h] = f[h]
  BY <1>2, <1>4
<1>6. e = f
  BY <1>2, <1>3, <1>5, SeqEqual
<1> QED
  BY <1>6 DEF a, b, e, f

\* A sequence is its first element and the rest.
LEMMA SplitHead ==
  ASSUME NEW S, NEW p \in Seq(S), p # <<>>
  PROVE  Head(p) \in S /\ Tail(p) \in Seq(S) /\ p = <<Head(p)>> \o Tail(p)
OBVIOUS

\* Every element replaced by a sequence of its own.
Mapped(F, p) == [k \in 1 .. Len(p) |-> F[p[k]]]
\* Each member of a sequence turned into a sequence, and these put together: the
\* first member can be taken out.
LEMMA MappedHead ==
  ASSUME NEW S, NEW T, NEW F \in [S -> Seq(T)], NEW s \in S, NEW p \in Seq(S)
  PROVE  /\ FlattenSeq(Mapped(F, <<s>> \o p)) = F[s] \o FlattenSeq(Mapped(F, p))
         /\ FlattenSeq(Mapped(F, p)) \in Seq(T)
<1> DEFINE U == Seq(T)
           t == Mapped(F, p)
           q == <<s>> \o p
           r == Mapped(F, q)
           l == <<F[s]>> \o t
<1>1. Len(p) \in Nat /\ q \in Seq(S) /\ Len(q) = Len(p) + 1 /\ q[1] = s
      /\ \A k \in 2 .. Len(p) + 1 : k - 1 \in 1 .. Len(p) /\ q[k] = p[k-1]
  OBVIOUS
<1>2. F[s] \in U /\ \A k \in 1 .. Len(p) : p[k] \in S /\ F[p[k]] \in U
  OBVIOUS
<1> HIDE DEF U, q
<1>3. t \in Seq(U) /\ Len(t) = Len(p) /\ \A k \in 1 .. Len(p) : t[k] = F[p[k]]
  BY <1>1, <1>2 DEF Mapped
<1> HIDE DEF t
<1>4. l \in Seq(U) /\ Len(l) = Len(p) + 1 /\ l[1] = F[s]
      /\ \A k \in 2 .. Len(p) + 1 : l[k] = t[k-1]
  BY <1>1, <1>2, <1>3
<1> HIDE DEF l
<1>5. r \in Seq(U) /\ Len(r) = Len(p) + 1
      /\ \A k \in 1 .. Len(p) + 1 : r[k] = F[q[k]]
  <2>1. \A k \in 1 .. Len(p) + 1 : q[k] \in S /\ F[q[k]] \in Seq(T)
    BY <1>1
  <2>2. \A k \in 1 .. Len(p) + 1 : F[q[k]] \in U
    BY <2>1 DEF U
  <2>3. r = [k \in 1 .. Len(p) + 1 |-> F[q[k]]]
    BY <1>1 DEF Mapped
  <2> HIDE DEF r
  <2> QED
    BY <1>1, <2>2, <2>3
<1> HIDE DEF r
<1>6. r = l
  <2>1. ASSUME NEW k \in 1 .. Len(p) + 1 PROVE r[k] = l[k]
    <3>1. CASE k = 1
      BY <3>1, <1>1, <1>4, <1>5
    <3>2. CASE k # 1
      <4>1. k \in 2 .. Len(p) + 1
        BY <3>2, <1>1
      <4>2. k - 1 \in 1 .. Len(p) /\ q[k] = p[k-1] /\ l[k] = t[k-1] /\ r[k] = F[q[k]]
        BY <1>1, <1>4, <1>5, <4>1
      <4> QED
        BY <1>3, <4>2
    <3> QED
      BY <3>1, <3>2
  <2> QED
    BY <1>1, <1>4, <1>5, <2>1, SeqEqual
<1>7. FlattenSeq(<<F[s]>> \o t) = F[s] \o FlattenSeq(t) /\ FlattenSeq(t) \in Seq(T)
  BY <1>2, <1>3, FlattenHead DEF U
<1> QED
  BY <1>6, <1>7 DEF l, r, q, t

\* The last first.
LEMMA ReverseIs ==
  ASSUME NEW S, NEW p \in Seq(S), NEW e \in S
  PROVE  /\ Reverse(p) \in Seq(S) /\ Len(Reverse(p)) = Len(p)
         /\ Reverse(Append(p, e)) = <<e>> \o Reverse(p)
<1> DEFINE n == Len(p)
<1>1. ASSUME NEW q \in Seq(S)
      PROVE  /\ Reverse(q) \in Seq(S) /\ Len(Reverse(q)) = Len(q)
             /\ \A h \in 1 .. Len(q) : Reverse(q)[h] = q[(Len(q) - h) + 1]
  <2>1. \A h \in 1 .. Len(q) : q[(Len(q) - h) + 1] \in S
    OBVIOUS
  <2>2. Len(q) \in Nat
    OBVIOUS
  <2> QED
    BY <2>1, <2>2 DEF Reverse
<1> DEFINE a == Append(p, e)
           r == Reverse(a)
           t == Reverse(p)
           l == <<e>> \o t
<1>2. n \in Nat /\ a \in Seq(S) /\ Len(a) = n + 1 /\ a[n+1] = e
      /\ \A h \in 1 .. n : a[h] = p[h]
  OBVIOUS
<1> HIDE DEF a
<1>3. r \in Seq(S) /\ Len(r) = n + 1 /\ \A h \in 1 .. n + 1 : r[h] = a[((n + 1) - h) + 1]
  BY <1>1, <1>2
<1>4. t \in Seq(S) /\ Len(t) = n /\ \A h \in 1 .. n : t[h] = p[(n - h) + 1]
  BY <1>1
<1> HIDE DEF r, t
<1>5. l \in Seq(S) /\ Len(l) = n + 1 /\ l[1] = e /\ \A h \in 2 .. n + 1 : l[h] = t[h-1]
  BY <1>2, <1>4
<1> HIDE DEF l, n
<1>6. ASSUME NEW h \in 1 .. n + 1 PROVE r[h] = l[h]
  <2>1. CASE h = 1
    <3>1. r[h] = a[((n + 1) - h) + 1] /\ ((n + 1) - h) + 1 = n + 1
      BY <1>2, <1>3, <2>1
    <3> QED
      BY <1>2, <1>5, <2>1, <3>1
  <2>2. CASE h # 1
    <3>1. h \in 2 .. n + 1 /\ h - 1 \in 1 .. n /\ ((n + 1) - h) + 1 \in 1 .. n
          /\ (n - (h - 1)) + 1 = ((n + 1) - h) + 1
      BY <1>2, <2>2
    <3>2. r[h] = a[((n + 1) - h) + 1] /\ l[h] = t[h-1]
      BY <1>3, <1>5, <3>1
    <3>3. t[h-1] = p[(n - (h - 1)) + 1]
      BY <1>4, <3>1
    <3>4. a[((n + 1) - h) + 1] = p[((n + 1) - h) + 1]
      BY <1>2, <3>1
    <3> QED
      BY <3>1, <3>2, <3>3, <3>4
  <2> QED
    BY <2>1, <2>2
<1>7. r = l
  BY <1>2, <1>3, <1>5, <1>6, SeqEqual
<1> QED
  BY <1>4, <1>7 DEF r, t, l, a, n

\* A sequence reversed begins with its last element.
LEMMA ReverseLast ==
  ASSUME NEW S, NEW p \in Seq(S), p # <<>>
  PROVE  /\ Last(p) \in S /\ Front(p) \in Seq(S) /\ Len(Front(p)) = Len(p) - 1
         /\ p = Append(Front(p), Last(p))
         /\ Reverse(p) = <<Last(p)>> \o Reverse(Front(p))
<1>1. Last(p) \in S /\ Front(p) \in Seq(S) /\ Len(Front(p)) = Len(p) - 1
      /\ p = Append(Front(p), Last(p))
  <2> DEFINE n == Len(p)
             g == SubSeq(p, 1, n - 1)
             h == Append(g, p[n])
  <2>1. n \in Nat \ {0} /\ p[n] \in S /\ \A w \in 1 .. n - 1 : w \in 1 .. n /\ p[w] \in S
    OBVIOUS
  <2>2. g \in Seq(S) /\ Len(g) = n - 1 /\ \A w \in 1 .. n - 1 : g[w] = p[w]
    <3> HIDE DEF n
    <3> DEFINE m == n - 1
    <3>1. m \in Int /\ 1 \in Int /\ m - 1 + 1 = m /\ m >= 0
      BY <2>1
    <3>2. \A w \in 1 .. m : p[w] \in S /\ 1 + w - 1 = w
      BY <2>1
    <3> HIDE DEF m
    <3>3. /\ SubSeq(p, 1, m) \in Seq(S) /\ Len(SubSeq(p, 1, m)) = IF 1 <= m THEN m - 1 + 1 ELSE 0
          /\ \A w \in 1 .. m - 1 + 1 : SubSeq(p, 1, m)[w] = p[1 + w - 1]
      BY <3>1, <3>2, SubSeqProperties
    <3> QED
      BY <3>1, <3>2, <3>3 DEF m
  <2> HIDE DEF g, n
  <2>3. h \in Seq(S) /\ Len(h) = (n - 1) + 1 /\ h[(n - 1) + 1] = p[n]
        /\ \A w \in 1 .. n - 1 : h[w] = g[w]
    BY <2>1, <2>2, AppendProperties
  <2> HIDE DEF h
  <2>4. Len(p) = n
    BY DEF n
  <2>5. ASSUME NEW w \in 1 .. n PROVE p[w] = h[w]
    <3>1. CASE w = n
      <4>1. (n - 1) + 1 = n
        BY <2>1
      <4> QED
        BY <2>3, <3>1, <4>1
    <3>2. CASE w # n
      <4>1. w \in 1 .. n - 1
        BY <2>1, <3>2
      <4> QED
        BY <2>2, <2>3, <4>1
    <3> QED
      BY <3>1, <3>2
  <2>6. Len(h) = n
    BY <2>1, <2>3
  <2>7. p = h
    BY <2>3, <2>4, <2>5, <2>6, SeqEqual
  <2> QED
    BY <2>1, <2>2, <2>4, <2>7 DEF Last, Front, g, h
<1> DEFINE f == Front(p)
           e == Last(p)
<1> HIDE DEF f, e
<1>2. f \in Seq(S) /\ e \in S /\ p = Append(f, e)
  BY <1>1 DEF f, e
<1>3. Reverse(Append(f, e)) = <<e>> \o Reverse(f)
  BY <1>2, ReverseIs
<1> QED
  BY <1>1, <1>2, <1>3 DEF f, e

\* Writes to registers, and the statements that are under way: a text after whose
\* first character CR was sent, a number with its digits so far, room for the others.
RegisterWrites == [reg : {"data", "ier", "lcr", "fcr", "mcr"}, val : Nat]
\* What is said, an item at a time; and a statement in whatever state it is.
Item == [to : {"line", "screen", "port"}, what : Seq(Characters)]
TextUnderWay ==
  {s \in [kind : {"text"}, text : Seq(Characters), cr : BOOLEAN] :
     s.cr = TRUE => s.text # <<>> /\ Head(s.text) = LF}
NumberUnderWay ==
  {s \in [kind : {"number"}, val : Nat, room : Nat, buf : Seq(Characters), emitting : BOOLEAN] :
     s.val > 0 /\ s.emitting = FALSE => Len(s.buf) + Width[s.val] <= s.room}
UnderWay ==
  [kind : {"init"}, writes : Seq(RegisterWrites)]
  \cup TextUnderWay \cup NumberUnderWay
  \cup [kind : {"mirror"}, text : Seq(Characters)] \cup [kind : {"sti"}]

\* The kind of a statement tells its fields.
LEMMA KindsAre ==
  ASSUME NEW s \in UnderWay
  PROVE  /\ s.kind = "init" => s \in [kind : {"init"}, writes : Seq(RegisterWrites)]
         /\ s.kind = "text" => s \in TextUnderWay
         /\ s.kind = "number" => s \in NumberUnderWay
         /\ s.kind = "mirror" => s \in [kind : {"mirror"}, text : Seq(Characters)]
         /\ s.kind \in {"init", "text", "number", "mirror", "sti"}
BY DEF UnderWay, TextUnderWay, NumberUnderWay

\* Line ends and digits are characters, and the mark for none is not.
LEMMA CharactersAre ==
  /\ CR \in Characters /\ LF \in Characters /\ Garbled \in Characters /\ None \notin Characters
  /\ \A n \in Nat : Decimal(n) \in Seq(Characters)
<1>1. \A n \in Nat : Decimal(n) \in Seq(Ciphers)
  BY DecimalIs
<1>2. Ciphers \subseteq Characters
  BY SerialAssumption DEF Ciphers
<1>3. \A n \in Nat : Decimal(n) \in Seq(Characters)
  BY <1>1, <1>2, SeqMonotonic
<1> QED
  BY <1>3, SerialAssumption

\* What is said on the line, of two texts together.
LEMMA OnLineIs ==
  ASSUME NEW a \in Seq(Characters), NEW b \in Seq(Characters)
  PROVE  /\ OnLine(a) \in Seq(Item) /\ OnLine(a \o b) = OnLine(a) \o OnLine(b)
         /\ OnLine(<<>>) = <<>>
<1> DEFINE one == [d \in Characters |-> [to |-> "line", what |-> <<d>>]]
           c == a \o b
           x == OnLine(a)
           y == OnLine(b)
           z == OnLine(c)
           m == Len(a)
           n == Len(b)
<1>1. m \in Nat /\ n \in Nat /\ c \in Seq(Characters) /\ Len(c) = m + n
      /\ \A k \in 1 .. m : c[k] = a[k] /\ a[k] \in Characters
  OBVIOUS
<1>2. \A k \in 1 .. m + n : c[k] = IF k <= m THEN a[k] ELSE b[k-m]
  BY ConcatProperties
<1>3. one \in [Characters -> Item]
  BY DEF Item
<1>4. ASSUME NEW q \in Seq(Characters)
      PROVE  OnLine(q) \in Seq(Item) /\ Len(OnLine(q)) = Len(q)
             /\ \A k \in 1 .. Len(q) : OnLine(q)[k] = one[q[k]]
  <2>1. Len(q) \in Nat /\ \A k \in 1 .. Len(q) : one[q[k]] \in Item
    BY <1>3
  <2>2. OnLine(q) = [k \in 1 .. Len(q) |-> one[q[k]]]
    <3>1. \A k \in 1 .. Len(q) : one[q[k]] = [to |-> "line", what |-> <<q[k]>>]
      OBVIOUS
    <3> HIDE DEF one
    <3> QED
      BY <3>1 DEF OnLine
  <2> HIDE DEF one
  <2> QED
    BY <2>1, <2>2
<1> HIDE DEF one
<1>5. /\ x \in Seq(Item) /\ y \in Seq(Item) /\ z \in Seq(Item)
      /\ Len(x) = m /\ Len(y) = n /\ Len(z) = m + n
      /\ \A k \in 1 .. m : x[k] = one[a[k]]
      /\ \A k \in 1 .. n : y[k] = one[b[k]]
      /\ \A k \in 1 .. m + n : z[k] = one[c[k]]
  BY <1>1, <1>4
<1> HIDE DEF c, x, y, z, m, n
<1> DEFINE w == x \o y
<1>6. w \in Seq(Item) /\ Len(w) = m + n
      /\ \A k \in 1 .. m + n : w[k] = IF k <= m THEN x[k] ELSE y[k-m]
  BY <1>5, ConcatProperties
<1> HIDE DEF w
<1>7. ASSUME NEW k \in 1 .. m + n PROVE z[k] = w[k]
  <2>1. CASE k <= m
    <3>1. k \in 1 .. m
      BY <1>1, <2>1
    <3>2. z[k] = one[c[k]] /\ x[k] = one[a[k]] /\ c[k] = a[k]
      BY <1>1, <1>5, <3>1
    <3> QED
      BY <1>6, <2>1, <3>2
  <2>2. CASE ~(k <= m)
    <3>1. k \in m + 1 .. m + n /\ k - m \in 1 .. n
      BY <1>1, <2>2
    <3>2. w[k] = y[k-m]
      BY <1>6, <2>2
    <3>3. y[k-m] = one[b[k-m]]
      BY <1>5, <3>1
    <3>4. z[k] = one[c[k]]
      BY <1>5, <3>1
    <3>5. c[k] = b[k-m]
      BY <1>2, <2>2
    <3>6. z[k] = one[b[k-m]]
      BY <3>4, <3>5
    <3> QED
      BY <3>2, <3>3, <3>6
  <2> QED
    BY <2>1, <2>2
<1>8. z = w
  BY <1>1, <1>5, <1>6, <1>7, SeqEqual
<1>9. OnLine(<<>>) = <<>>
  BY DEF OnLine
<1> QED
  BY <1>5, <1>8, <1>9 DEF c, x, y, z, w

\* A text with CR before each LF, a character at a time.
LEMMA LinesAre ==
  ASSUME NEW c \in Characters, NEW t \in Seq(Characters)
  PROVE  /\ Lines(t) \in Seq(Characters) /\ Lines(<<>>) = <<>>
         /\ Lines(<<c>> \o t) = (IF c = LF THEN <<CR, LF>> ELSE <<c>>) \o Lines(t)
<1> DEFINE U == Seq(Characters)
           out(d) == IF d = LF THEN <<CR, LF>> ELSE <<d>>
           F == [d \in Characters |-> out(d)]
<1>1. \A d \in Characters : out(d) \in U
  BY CharactersAre
<1> HIDE DEF U, out
<1>2. F \in [Characters -> U] /\ \A d \in Characters : F[d] = out(d)
  BY <1>1
<1>3. ASSUME NEW q \in Seq(Characters) PROVE Lines(q) = FlattenSeq(Mapped(F, q))
  <2>1. Len(q) \in Nat /\ \A k \in 1 .. Len(q) : q[k] \in Characters /\ F[q[k]] = out(q[k])
    BY <1>2
  <2> HIDE DEF F
  <2>2. [k \in 1 .. Len(q) |-> out(q[k])] = [k \in 1 .. Len(q) |-> F[q[k]]]
    BY <2>1
  <2> QED
    BY <2>2 DEF Lines, Mapped, out
<1> HIDE DEF F
<1>4. FlattenSeq(Mapped(F, <<c>> \o t)) = F[c] \o FlattenSeq(Mapped(F, t))
      /\ FlattenSeq(Mapped(F, t)) \in Seq(Characters)
  BY <1>2, MappedHead DEF U
<1>5. <<c>> \o t \in Seq(Characters)
  OBVIOUS
<1>6. Lines(<<>>) = <<>>
  BY DEF Lines, FlattenSeq
<1> QED
  BY <1>2, <1>3, <1>4, <1>5, <1>6 DEF out

\* The digits a number under way still has to print are characters.
LEMMA DigitsAre ==
  ASSUME NEW s \in NumberUnderWay
  PROVE  Digits(s) \in Seq(Characters)
<1>1. s.val \in Nat /\ s.buf \in Seq(Characters)
  BY DEF NumberUnderWay
<1>2. Decimal(s.val) \in Seq(Characters)
  BY <1>1, CharactersAre
<1>3. Reverse(s.buf) \in Seq(Characters)
  BY <1>1, ReverseIs, CharactersAre
<1> QED
  BY <1>2, <1>3, ConcatProperties DEF Digits

\* What a statement under way says is a sequence of items; and so is what a
\* program says, a statement at a time.
LEMMA MeaningTyped ==
  ASSUME NEW s \in UnderWay
  PROVE  Meaning(s) \in Seq(Item)
<1>1. s.kind \in {"init", "text", "number", "mirror", "sti"} /\ <<>> \in Seq(Characters)
      /\ <<>> \in Seq(Item)
  BY KindsAre
<1>2. CASE s.kind = "init"
  <2>1. Meaning(s) \in {<<>>, <<[to |-> "port", what |-> <<>>]>>}
    BY <1>2 DEF Meaning
  <2>2. [to |-> "port", what |-> <<>>] \in Item
    BY <1>1 DEF Item
  <2>3. <<[to |-> "port", what |-> <<>>]>> \in Seq(Item)
    BY <2>2
  <2> QED
    BY <1>1, <2>1, <2>3
<1>3. CASE s.kind = "text"
  <2>1. s \in TextUnderWay
    BY <1>3, KindsAre
  <2>2. s.text \in Seq(Characters) /\ s.cr \in BOOLEAN
        /\ (s.cr = TRUE => s.text # <<>> /\ Head(s.text) = LF)
    BY <2>1 DEF TextUnderWay
  <2>3. Lines(s.text) \in Seq(Characters)
    BY <2>2, LinesAre, CharactersAre
  <2>4. s.cr = TRUE => Tail(Lines(s.text)) \in Seq(Characters)
    <3> SUFFICES ASSUME s.cr = TRUE PROVE Tail(Lines(s.text)) \in Seq(Characters)
      OBVIOUS
    <3> DEFINE t == s.text
    <3>1. t = <<LF>> \o Tail(t) /\ Tail(t) \in Seq(Characters)
      BY <2>2, SplitHead
    <3>2. Lines(<<LF>> \o Tail(t)) = <<CR, LF>> \o Lines(Tail(t)) /\ Lines(Tail(t)) \in Seq(Characters)
      BY <3>1, LinesAre, CharactersAre
    <3>3. \A q \in Seq(Characters) : <<CR, LF>> \o q # <<>>
      OBVIOUS
    <3>4. Lines(t) # <<>>
      BY <3>1, <3>2, <3>3
    <3> QED
      BY <2>3, <3>4
  <2>5. Meaning(s) = OnLine(IF s.cr = TRUE THEN Tail(Lines(s.text)) ELSE Lines(s.text))
    BY <1>3, <2>2 DEF Meaning
  <2> QED
    BY <2>3, <2>4, <2>5, OnLineIs
<1>4. CASE s.kind = "number"
  <2>1. Meaning(s) = OnLine(Digits(s))
    BY <1>4 DEF Meaning
  <2>2. Digits(s) \in Seq(Characters)
    BY <1>4, KindsAre, DigitsAre
  <2> QED
    BY <2>1, <2>2, OnLineIs
<1>5. CASE s.kind = "mirror"
  <2>1. s.text \in Seq(Characters)
    BY <1>5, KindsAre
  <2>2. [to |-> "screen", what |-> s.text] \in Item
    BY <2>1 DEF Item
  <2>3. Meaning(s) = <<[to |-> "screen", what |-> s.text]>>
    BY <1>5 DEF Meaning
  <2> QED
    BY <2>2, <2>3
<1>6. CASE s.kind = "sti"
  BY <1>1, <1>6 DEF Meaning
<1> QED
  BY <1>1, <1>2, <1>3, <1>4, <1>5, <1>6

\* A program says what its first statement says, then what the rest does.
LEMMA MeaningsAre ==
  ASSUME NEW s \in UnderWay, NEW p \in Seq(UnderWay)
  PROVE  /\ Meanings(p) \in Seq(Item)
         /\ Meanings(<<s>> \o p) = Meaning(s) \o Meanings(p)
<1> DEFINE U == Seq(Item)
           F == [r \in UnderWay |-> Meaning(r)]
<1>1. \A r \in UnderWay : Meaning(r) \in U
  BY MeaningTyped
<1> HIDE DEF U
<1>2. F \in [UnderWay -> U] /\ \A r \in UnderWay : F[r] = Meaning(r)
  BY <1>1
<1>3. ASSUME NEW q \in Seq(UnderWay) PROVE Meanings(q) = FlattenSeq(Mapped(F, q))
  <2>1. Len(q) \in Nat /\ \A k \in 1 .. Len(q) : q[k] \in UnderWay /\ F[q[k]] = Meaning(q[k])
    BY <1>2
  <2> HIDE DEF F
  <2>2. [k \in 1 .. Len(q) |-> Meaning(q[k])] = [k \in 1 .. Len(q) |-> F[q[k]]]
    BY <2>1
  <2> QED
    BY <2>2 DEF Meanings, Mapped
<1> HIDE DEF F
<1>4. FlattenSeq(Mapped(F, <<s>> \o p)) = F[s] \o FlattenSeq(Mapped(F, p))
      /\ FlattenSeq(Mapped(F, p)) \in Seq(Item)
  BY <1>2, MappedHead DEF U
<1>5. <<s>> \o p \in Seq(UnderWay)
  OBVIOUS
<1> QED
  BY <1>2, <1>3, <1>4, <1>5

\* What is to be said while b is in putc and p is the program.
Byte(b) == IF b = None THEN <<>> ELSE OnLine(<<b>>)
SaidOf(b, p) == Byte(b) \o Meanings(p)

\* The byte in putc is an item on the line.
LEMMA ByteIs ==
  ASSUME NEW b \in Characters \cup {None}
  PROVE  Byte(b) \in Seq(Item) /\ Byte(None) = <<>> /\ (b \in Characters => Byte(b) = OnLine(<<b>>))
<1>1. <<>> \in Seq(Item)
  OBVIOUS
<1>2. ASSUME b \in Characters PROVE OnLine(<<b>>) \in Seq(Item) /\ b # None
  <2>1. <<b>> \in Seq(Characters)
    BY <1>2
  <2> QED
    BY <1>2, <2>1, OnLineIs, CharactersAre
<1> QED
  BY <1>1, <1>2 DEF Byte

\* A step of the first statement that hands a byte to putc, or none, and leaves
\* of the statement what it says after that byte.
LEMMA StepSays ==
  ASSUME NEW p \in Seq(UnderWay), p # <<>>, NEW b \in Characters \cup {None}, NEW q,
         \/ q = Tail(p) /\ Meaning(Head(p)) = Byte(b)
         \/ \E s \in UnderWay : q = <<s>> \o Tail(p) /\ Meaning(Head(p)) = Byte(b) \o Meaning(s)
  PROVE  q \in Seq(UnderWay) /\ SaidOf(b, q) = SaidOf(None, p)
<1> DEFINE h == Head(p)
           t == Tail(p)
<1>1. h \in UnderWay /\ t \in Seq(UnderWay) /\ p = <<h>> \o t
  BY SplitHead
<1> HIDE DEF h, t
<1>2. Meanings(p) = Meaning(h) \o Meanings(t) /\ Meanings(t) \in Seq(Item) /\ Meaning(h) \in Seq(Item)
      /\ Meanings(p) \in Seq(Item)
  BY <1>1, MeaningsAre, MeaningTyped
<1>3. SaidOf(None, p) = Meanings(p)
  BY <1>2, ByteIs, ConcatEmptySeq DEF SaidOf
<1>4. CASE q = t /\ Meaning(h) = Byte(b)
  BY <1>1, <1>2, <1>3, <1>4 DEF SaidOf
<1>5. ASSUME NEW s \in UnderWay, q = <<s>> \o t, Meaning(h) = Byte(b) \o Meaning(s)
      PROVE  q \in Seq(UnderWay) /\ SaidOf(b, q) = SaidOf(None, p)
  <2>1. q \in Seq(UnderWay)
    BY <1>1, <1>5
  <2>2. Meanings(q) = Meaning(s) \o Meanings(t) /\ Meaning(s) \in Seq(Item) /\ Byte(b) \in Seq(Item)
    BY <1>1, <1>5, MeaningsAre, MeaningTyped, ByteIs
  <2>3. (Byte(b) \o Meaning(s)) \o Meanings(t) = Byte(b) \o (Meaning(s) \o Meanings(t))
    <3> DEFINE x == Byte(b)
               y == Meaning(s)
               z == Meanings(t)
    <3>1. x \in Seq(Item) /\ y \in Seq(Item) /\ z \in Seq(Item)
      BY <1>2, <2>2
    <3> HIDE DEF x, y, z
    <3>2. (x \o y) \o z = x \o (y \o z)
      BY <3>1, ConcatAssociative
    <3> QED
      BY <3>2 DEF x, y, z
  <2> QED
    BY <1>2, <1>3, <1>5, <2>1, <2>2, <2>3 DEF SaidOf
<1> QED
  BY <1>4, <1>5 DEF h, t

\* The three ways in which a text goes on.
LEMMA TextMeans ==
  ASSUME NEW s \in TextUnderWay
  PROVE  /\ s.text = <<>> => Meaning(s) = <<>>
         /\ s.text # <<>> /\ Head(s.text) = LF /\ s.cr = FALSE =>
              LET r == [s EXCEPT !.cr = TRUE] IN
              r \in UnderWay /\ Meaning(s) = OnLine(<<CR>>) \o Meaning(r)
         /\ s.text # <<>> /\ (Head(s.text) = LF => s.cr = TRUE) =>
              LET r == [s EXCEPT !.text = Tail(s.text), !.cr = FALSE] IN
              r \in UnderWay /\ Meaning(s) = OnLine(<<Head(s.text)>>) \o Meaning(r)
<1> DEFINE T == [kind : {"text"}, text : Seq(Characters), cr : BOOLEAN]
           C == Seq(Characters)
           t == s.text
<1>1. /\ s \in T /\ t \in C /\ s.cr \in BOOLEAN /\ s.kind = "text"
      /\ (s.cr = TRUE => t # <<>> /\ Head(t) = LF)
  BY DEF TextUnderWay
<1>2. ASSUME NEW r \in T
      PROVE  Meaning(r) = OnLine(IF r.cr = TRUE THEN Tail(Lines(r.text)) ELSE Lines(r.text))
  BY <1>2 DEF Meaning
<1>3. CR \in Characters /\ LF \in Characters /\ <<CR>> \in C /\ <<LF>> \in C
  BY CharactersAre
<1>4. CASE t = <<>>
  <2>1. s.cr = FALSE /\ Lines(t) = <<>>
    BY <1>1, <1>3, <1>4, LinesAre
  <2>2. Meaning(s) = <<>>
    BY <1>1, <1>2, <1>3, <2>1, OnLineIs
  <2> QED
    BY <1>4, <2>2
<1>5. CASE t # <<>>
  <2> DEFINE h == Head(t)
             u == Tail(t)
  <2>1. h \in Characters /\ u \in C /\ t = <<h>> \o u /\ <<h>> \in C
    BY <1>1, <1>5, SplitHead
  <2> HIDE DEF h, u
  <2>2. Lines(u) \in C /\ Lines(t) = (IF h = LF THEN <<CR, LF>> ELSE <<h>>) \o Lines(u)
    BY <2>1, LinesAre
  <2>3. ASSUME h = LF PROVE Lines(t) = <<CR>> \o (<<LF>> \o Lines(u)) /\ <<LF>> \o Lines(u) \in C
                            /\ Tail(Lines(t)) = <<LF>> \o Lines(u)
    <3> DEFINE l == Lines(u)
    <3>1. l \in C /\ Lines(t) = <<CR, LF>> \o l
      BY <2>2, <2>3
    <3> HIDE DEF l
    <3>2. <<CR, LF>> \o l = <<CR>> \o (<<LF>> \o l)
      <4>1. <<CR, LF>> = <<CR>> \o <<LF>>
        BY PairIs
      <4>2. (<<CR>> \o <<LF>>) \o l = <<CR>> \o (<<LF>> \o l)
        BY <1>3, <3>1, ConcatAssociative
      <4> QED
        BY <4>1, <4>2
    <3> DEFINE m == <<LF>> \o l
    <3>3. m \in C
      BY <1>3, <3>1
    <3> HIDE DEF m
    <3>4. Tail(<<CR>> \o m) = m
      BY <1>3, <3>3
    <3> QED
      BY <3>1, <3>2, <3>3, <3>4 DEF l, m
  <2>4. CASE h = LF /\ s.cr = FALSE
    <3> DEFINE r == [s EXCEPT !.cr = TRUE]
    <3>1. r \in T /\ r.text = t /\ r.cr = TRUE
      BY <1>1
    <3>2. r \in UnderWay
      BY <1>5, <2>4, <3>1 DEF UnderWay, TextUnderWay, h
    <3> HIDE DEF r
    <3>3. Meaning(r) = OnLine(<<LF>> \o Lines(u))
      BY <1>2, <2>3, <2>4, <3>1
    <3>4. Meaning(s) = OnLine(<<CR>> \o (<<LF>> \o Lines(u)))
      BY <1>1, <1>2, <2>3, <2>4
    <3>5. Meaning(s) = OnLine(<<CR>>) \o Meaning(r)
      BY <1>3, <2>3, <2>4, <3>3, <3>4, OnLineIs
    <3> QED
      BY <1>5, <2>4, <3>2, <3>5 DEF r, h
  <2>5. CASE h = LF => s.cr = TRUE
    <3> DEFINE r == [s EXCEPT !.text = u, !.cr = FALSE]
    <3>1. r \in T /\ r.text = u /\ r.cr = FALSE
      BY <1>1, <2>1
    <3>2. r \in UnderWay
      BY <3>1 DEF UnderWay, TextUnderWay
    <3> HIDE DEF r
    <3>3. Meaning(r) = OnLine(Lines(u))
      BY <1>2, <3>1
    <3>4. Meaning(s) = OnLine(<<h>> \o Lines(u))
      <4>1. CASE h = LF
        <5>1. s.cr = TRUE
          BY <2>5, <4>1
        <5> QED
          BY <1>1, <1>2, <2>3, <4>1, <5>1
      <4>2. CASE h # LF
        <5>1. s.cr = FALSE
          BY <1>1, <4>2 DEF h
        <5> QED
          BY <1>1, <1>2, <2>2, <4>2, <5>1
      <4> QED
        BY <4>1, <4>2
    <3>5. Meaning(s) = OnLine(<<h>>) \o Meaning(r)
      BY <2>1, <2>2, <3>3, <3>4, OnLineIs
    <3> QED
      BY <1>5, <2>5, <3>2, <3>5 DEF r, h, u
  <2>6. h = LF \/ h # LF
    OBVIOUS
  <2> QED
    BY <1>1, <1>5, <2>4, <2>5
<1> QED
  BY <1>4, <1>5

\* The ways in which a number goes on.
LEMMA NumberMeans ==
  ASSUME NEW s \in NumberUnderWay
  PROVE  LET dividing == s.emitting = FALSE /\ s.val > 0 /\ Len(s.buf) < s.room IN
         /\ s.val = 0 /\ s.buf = <<>> /\ s.emitting = FALSE => Meaning(s) = OnLine(<<Digit[0]>>)
         /\ dividing =>
              LET r == [s EXCEPT !.buf = Append(s.buf, Digit[s.val % 10]), !.val = s.val \div 10] IN
              r \in UnderWay /\ Meaning(s) = Meaning(r)
         /\ ~dividing /\ s.buf # <<>> =>
              LET r == [s EXCEPT !.buf = Front(s.buf), !.emitting = TRUE] IN
              /\ r \in UnderWay /\ Last(s.buf) \in Characters
              /\ Meaning(s) = OnLine(<<Last(s.buf)>>) \o Meaning(r)
         /\ s.emitting = TRUE /\ s.buf = <<>> => Meaning(s) = <<>>
<1> DEFINE T == [kind : {"number"}, val : Nat, room : Nat, buf : Seq(Characters), emitting : BOOLEAN]
           C == Seq(Characters)
           n == s.val
           b == s.buf
           dividing == s.emitting = FALSE /\ s.val > 0 /\ Len(s.buf) < s.room
<1>1. /\ s \in T /\ b \in C /\ n \in Nat /\ s.room \in Nat /\ s.emitting \in BOOLEAN /\ s.kind = "number"
      /\ (n > 0 /\ s.emitting = FALSE => Len(b) + Width[n] <= s.room) /\ Len(b) \in Nat
  BY DEF NumberUnderWay
<1>2. ASSUME NEW r \in T
      PROVE  /\ Meaning(r) = OnLine(Digits(r))
             /\ Digits(r) = IF r.emitting = FALSE /\ (r.val > 0 \/ r.buf = <<>>)
                              THEN Decimal(r.val) \o Reverse(r.buf) ELSE Reverse(r.buf)
  BY <1>2 DEF Meaning, Digits
<1>3. Reverse(<<>>) = <<>> /\ <<>> \in C /\ Reverse(b) \in C /\ Decimal(n) \in C
      /\ \A q \in C : q \o <<>> = q
  <2>1. Reverse(<<>>) = <<>>
    BY DEF Reverse
  <2>2. Reverse(b) \in C
    BY <1>1, ReverseIs, CharactersAre
  <2> QED
    BY <1>1, <2>1, <2>2, CharactersAre, ConcatEmptySeq
<1>4. ASSUME n = 0, b = <<>>, s.emitting = FALSE PROVE Meaning(s) = OnLine(<<Digit[0]>>)
  <2>1. Decimal(0) = <<Digit[0]>> /\ Decimal(0) \in C
    BY DecimalIs, CharactersAre
  <2> QED
    BY <1>1, <1>2, <1>3, <1>4, <2>1
<1>5. ASSUME dividing
      PROVE  LET r == [s EXCEPT !.buf = Append(s.buf, Digit[s.val % 10]), !.val = s.val \div 10] IN
             r \in UnderWay /\ Meaning(s) = Meaning(r)
  <2> DEFINE d == Digit[n % 10]
             m == n \div 10
             c == Append(b, d)
             r == [s EXCEPT !.buf = c, !.val = m]
  <2>1. n % 10 \in 0 .. 9 /\ m \in Nat /\ n > 0 /\ (n < 10 => n % 10 = n) /\ (m > 0 <=> n >= 10)
    BY <1>1, <1>5
  <2>2. d \in Characters
    BY <2>1, SerialAssumption
  <2> HIDE DEF d, m
  <2>3. c \in C /\ c # <<>> /\ Len(c) = Len(b) + 1
    BY <1>1, <2>2, AppendProperties
  <2>4. r \in T /\ r.buf = c /\ r.val = m /\ r.emitting = FALSE /\ r.room = s.room
    BY <1>1, <1>5, <2>1, <2>3
  <2>5. n >= 10 => Width[n] = 1 + Width[m] /\ Width[m] \in Nat
    BY <1>1, <2>1, WidthSteps DEF m
  <2>6. m > 0 => Len(c) + Width[m] <= s.room
    BY <1>1, <1>5, <2>1, <2>3, <2>5
  <2>7. r \in UnderWay
    BY <2>4, <2>6 DEF UnderWay, NumberUnderWay
  <2> HIDE DEF r
  <2>8. Reverse(c) = <<d>> \o Reverse(b) /\ Reverse(c) \in C
    <3>1. Reverse(c) = <<d>> \o Reverse(b)
      BY <1>1, <2>2, ReverseIs
    <3> HIDE DEF c
    <3> QED
      BY <2>2, <2>3, <3>1, ReverseIs
  <2> HIDE DEF c
  <2>9. Digits(s) = Decimal(n) \o Reverse(b)
    BY <1>1, <1>2, <1>5
  <2>10. ASSUME n >= 10 PROVE Meaning(s) = Meaning(r)
    <3>1. Decimal(n) = Append(Decimal(m), d) /\ Decimal(m) \in C
      BY <1>1, <2>1, <2>10, DecimalIs, CharactersAre DEF d, m
    <3>2. Digits(r) = Decimal(m) \o Reverse(c)
      BY <1>2, <2>1, <2>4, <2>10
    <3>3. Append(Decimal(m), d) = Decimal(m) \o <<d>>
      <4> DEFINE x == Decimal(m)
      <4>1. x \in C
        BY <3>1
      <4> HIDE DEF x
      <4>2. Append(x, d) = x \o <<d>>
        BY <2>2, <4>1
      <4> QED
        BY <4>2 DEF x
    <3>4. (Decimal(m) \o <<d>>) \o Reverse(b) = Decimal(m) \o (<<d>> \o Reverse(b))
      <4> DEFINE x == Decimal(m)
                 y == <<d>>
                 z == Reverse(b)
      <4>1. x \in C /\ y \in C /\ z \in C
        BY <1>3, <2>2, <3>1
      <4> HIDE DEF x, y, z
      <4>2. (x \o y) \o z = x \o (y \o z)
        BY <4>1, ConcatAssociative
      <4> QED
        BY <4>2 DEF x, y, z
    <3>5. Digits(s) = Digits(r)
      BY <2>8, <2>9, <3>1, <3>2, <3>3, <3>4
    <3>6. Meaning(s) = Meaning(r)
      BY <1>1, <1>2, <2>4, <3>5
    <3> QED
      BY <3>6
  <2>11. ASSUME n < 10 PROVE Meaning(s) = Meaning(r)
    <3>1. Decimal(n) = <<d>>
      BY <1>1, <2>1, <2>11, DecimalIs DEF d
    <3>2. m = 0
      BY <1>1, <2>1, <2>11
    <3>3. Digits(r) = Reverse(c)
      <4>1. Digits(r) = IF r.emitting = FALSE /\ (r.val > 0 \/ r.buf = <<>>)
                          THEN Decimal(r.val) \o Reverse(r.buf) ELSE Reverse(r.buf)
        BY <1>2, <2>4
      <4>2. ~(r.val > 0) /\ r.buf # <<>>
        BY <2>3, <2>4, <3>2
      <4> QED
        BY <2>4, <4>1, <4>2
    <3>4. Digits(s) = Digits(r)
      BY <2>8, <2>9, <3>1, <3>3
    <3> QED
      BY <1>1, <1>2, <2>4, <3>4
  <2>12. Meaning(s) = Meaning(r)
    BY <1>1, <2>10, <2>11
  <2> QED
    BY <2>7, <2>12 DEF r, c, d, m
<1>6. ASSUME ~dividing, b # <<>>
      PROVE  LET r == [s EXCEPT !.buf = Front(s.buf), !.emitting = TRUE] IN
             /\ r \in UnderWay /\ Last(s.buf) \in Characters
             /\ Meaning(s) = OnLine(<<Last(s.buf)>>) \o Meaning(r)
  <2> DEFINE f == Front(b)
             e == Last(b)
             r == [s EXCEPT !.buf = f, !.emitting = TRUE]
  <2>1. f \in C /\ e \in Characters /\ Reverse(b) = <<e>> \o Reverse(f) /\ Reverse(f) \in C
    <3>1. f \in C /\ e \in Characters /\ Reverse(b) = <<e>> \o Reverse(f)
      BY <1>1, <1>6, ReverseLast
    <3> QED
      BY <3>1, ReverseIs
  <2> HIDE DEF f, e
  <2>2. r \in T /\ r.buf = f /\ r.emitting = TRUE
    BY <1>1, <2>1
  <2>3. r \in UnderWay
    BY <2>2 DEF UnderWay, NumberUnderWay
  <2> HIDE DEF r
  <2>4. s.emitting = TRUE \/ ~(n > 0)
    <3>1. n > 0 => Width[n] \in Nat \ {0}
      BY <1>1, WidthSteps
    <3>2. s.emitting = FALSE /\ n > 0 => Len(b) < s.room
      BY <1>1, <3>1
    <3> QED
      BY <1>1, <1>6, <3>2
  <2>5. Digits(s) = <<e>> \o Reverse(f)
    BY <1>1, <1>2, <1>6, <2>1, <2>4
  <2>6. Digits(r) = Reverse(f)
    BY <1>2, <2>2
  <2>7. <<e>> \in C
    BY <2>1
  <2>8. Meaning(s) = OnLine(<<e>>) \o Meaning(r)
    <3>1. Meaning(s) = OnLine(<<e>> \o Reverse(f)) /\ Meaning(r) = OnLine(Reverse(f))
      BY <1>1, <1>2, <2>2, <2>5, <2>6
    <3> DEFINE x == <<e>>
               y == Reverse(f)
    <3>2. x \in C /\ y \in C
      BY <2>1, <2>7
    <3> HIDE DEF x, y
    <3>3. OnLine(x \o y) = OnLine(x) \o OnLine(y)
      BY <3>2, OnLineIs
    <3> QED
      BY <3>1, <3>3 DEF x, y
  <2> QED
    BY <2>1, <2>3, <2>8 DEF r, f, e
<1>7. ASSUME s.emitting = TRUE, b = <<>> PROVE Meaning(s) = <<>>
  BY <1>1, <1>2, <1>3, <1>7, OnLineIs
<1> QED
  BY <1>4, <1>5, <1>6, <1>7

\* What the programs say is well formed, whatever of it is done.
Speaking ==
  /\ program \in Seq(UnderWay) /\ byte \in Characters \cup {None}
  /\ uart.queue \in Seq(Characters) /\ uart.shift \in Characters \cup {None}

\* What the port still holds: the byte being shifted out, then the FIFO.
LEMMA PendingIs ==
  ASSUME NEW u, u.queue \in Seq(Characters), u.shift \in Characters \cup {None}
  PROVE  /\ Pending(u) \in Seq(Characters)
         /\ u.shift = None => Pending(u) = u.queue
         /\ u.shift # None => /\ Pending(u) = <<u.shift>> \o u.queue
                              /\ Pending(u) # <<>> /\ Head(Pending(u)) = u.shift
                              /\ Tail(Pending(u)) = u.queue
                              /\ [Pending(u) EXCEPT ![1] = Garbled] = <<Garbled>> \o u.queue
<1> DEFINE q == u.queue
           c == u.shift
<1>1. q \in Seq(Characters) /\ c \in Characters \cup {None} /\ Garbled \in Characters
  BY CharactersAre
<1>2. Pending(u) = (IF c = None THEN <<>> ELSE <<c>>) \o q
  BY DEF Pending
<1> HIDE DEF q, c
<1>3. c = None => Pending(u) = q
  BY <1>1, <1>2, ConcatEmptySeq
<1>4. ASSUME c # None
      PROVE  /\ Pending(u) = <<c>> \o q /\ Pending(u) # <<>> /\ Head(Pending(u)) = c
             /\ Tail(Pending(u)) = q /\ Pending(u) \in Seq(Characters)
             /\ [Pending(u) EXCEPT ![1] = Garbled] = <<Garbled>> \o q
  <2> DEFINE p == <<c>> \o q
             g == <<Garbled>> \o q
             e == [p EXCEPT ![1] = Garbled]
  <2>1. p \in Seq(Characters) /\ p # <<>> /\ Head(p) = c /\ Tail(p) = q /\ Len(p) = 1 + Len(q)
        /\ Len(q) \in Nat /\ \A h \in 2 .. 1 + Len(q) : p[h] = q[h-1]
    BY <1>1, <1>4
  <2>2. g \in Seq(Characters) /\ Len(g) = 1 + Len(q) /\ g[1] = Garbled
        /\ \A h \in 2 .. 1 + Len(q) : g[h] = q[h-1]
    BY <1>1
  <2>3. Pending(u) = p
    BY <1>2, <1>4
  <2> HIDE DEF p, g
  <2>4. 1 \in 1 .. Len(p)
    BY <2>1
  <2>5. e \in Seq(Characters) /\ Len(e) = Len(p)
        /\ \A h \in 1 .. Len(p) : e[h] = IF h = 1 THEN Garbled ELSE p[h]
    BY <1>1, <2>1, <2>4, ExceptSeq
  <2> HIDE DEF e
  <2>6. ASSUME NEW h \in 1 .. 1 + Len(q) PROVE e[h] = g[h]
    <3>1. CASE h = 1
      BY <2>1, <2>2, <2>5, <3>1
    <3>2. CASE h # 1
      <4>1. h \in 2 .. 1 + Len(q) /\ h \in 1 .. Len(p)
        BY <2>1, <3>2
      <4>2. e[h] = p[h]
        BY <2>5, <3>2, <4>1
      <4>3. p[h] = q[h-1]
        BY <2>1, <4>1
      <4>4. g[h] = q[h-1]
        BY <2>2, <4>1
      <4> QED
        BY <4>2, <4>3, <4>4
    <3> QED
      BY <3>1, <3>2
  <2>7. e = g
    BY <2>1, <2>2, <2>5, <2>6, SeqEqual
  <2> QED
    BY <2>1, <2>3, <2>7 DEF e, g, p
<1>5. c = None => Pending(u) \in Seq(Characters)
  BY <1>1, <1>3
<1> QED
  BY <1>3, <1>4, <1>5 DEF q, c

\* With no byte in putc, what is to be said is the first statement's and the rest's.
LEMMA SaidOfSplit ==
  ASSUME NEW p \in Seq(UnderWay), p # <<>>
  PROVE  SaidOf(None, p) = Meaning(Head(p)) \o Meanings(Tail(p)) /\ Head(p) \in UnderWay
         /\ Meanings(Tail(p)) \in Seq(Item) /\ Meaning(Head(p)) \in Seq(Item)
<1> DEFINE h == Head(p)
           t == Tail(p)
<1>1. h \in UnderWay /\ t \in Seq(UnderWay) /\ p = <<h>> \o t
  BY SplitHead
<1> HIDE DEF h, t
<1>2. Meanings(p) = Meaning(h) \o Meanings(t) /\ Meanings(t) \in Seq(Item) /\ Meaning(h) \in Seq(Item)
      /\ Meanings(p) \in Seq(Item)
  BY <1>1, MeaningsAre, MeaningTyped
<1>3. SaidOf(None, p) = Meanings(p)
  BY <1>2, ByteIs, ConcatEmptySeq DEF SaidOf
<1> QED
  BY <1>1, <1>2, <1>3 DEF h, t

\* Without a byte for putc, a program says what its statements do.
LEMMA SaidOfAll ==
  ASSUME NEW p \in Seq(UnderWay)
  PROVE  SaidOf(None, p) = Meanings(p) /\ Meanings(p) \in Seq(Item)
<1>1. \E s : s \in UnderWay
  <2>1. [kind |-> "sti"] \in UnderWay
    BY DEF UnderWay
  <2> QED
    BY <2>1
<1>2. Meanings(p) \in Seq(Item)
  BY <1>1, MeaningsAre
<1> QED
  BY <1>2, ByteIs, ConcatEmptySeq DEF SaidOf

\* The wire, in the terms of these lemmas.
LEMMA WireIs ==
  /\ Wire!Say <=> /\ SaidOf(byte, program) # <<>> /\ Head(SaidOf(byte, program)).to = "line"
                  /\ Pending(uart') = Pending(uart) \o Head(SaidOf(byte, program)).what
                  /\ SaidOf(byte', program') = Tail(SaidOf(byte, program))
                  /\ UNCHANGED <<line, screen, trapped > 0>>
  /\ Wire!Show <=> /\ SaidOf(byte, program) # <<>> /\ Head(SaidOf(byte, program)).to = "screen"
                   /\ screen' = Append(screen, Head(SaidOf(byte, program)).what)
                   /\ SaidOf(byte', program') = Tail(SaidOf(byte, program))
                   /\ Pending(uart') = Pending(uart) /\ UNCHANGED <<line, trapped > 0>>
  /\ Wire!Disturb <=> /\ SaidOf(byte, program) # <<>> /\ Head(SaidOf(byte, program)).to = "port"
                      /\ Pending(uart) # <<>>
                      /\ Pending(uart') = [Pending(uart) EXCEPT ![1] = Garbled]
                      /\ SaidOf(byte', program') = SaidOf(byte, program)
                      /\ UNCHANGED <<line, screen, trapped > 0>>
  /\ Wire!Reset <=> /\ SaidOf(byte, program) # <<>> /\ Head(SaidOf(byte, program)).to = "port"
                    /\ \/ Pending(uart') = <<>>
                       \/ Pending(uart) # <<>> /\ Pending(uart') = <<Head(Pending(uart))>>
                    /\ SaidOf(byte', program') = Tail(SaidOf(byte, program))
                    /\ UNCHANGED <<line, screen, trapped > 0>>
  /\ Wire!Arrive <=> /\ Pending(uart) # <<>> /\ line' = Append(line, Head(Pending(uart)))
                     /\ Pending(uart') = Tail(Pending(uart))
                     /\ SaidOf(byte', program') = SaidOf(byte, program)
                     /\ UNCHANGED <<screen, trapped > 0>>
  /\ Wire!Stop <=> /\ (trapped > 0)' = TRUE
                   /\ SaidOf(byte', program') \in {Meanings(ExceptionReport(v)) : v \in Traps}
                   /\ Pending(uart') = Pending(uart) /\ UNCHANGED <<line, screen>>
  /\ (UNCHANGED Wire!vars) <=> /\ SaidOf(byte', program') = SaidOf(byte, program)
                               /\ Pending(uart') = Pending(uart)
                               /\ UNCHANGED <<line, screen, trapped > 0>>
<1> USE DEF SaidOf, Byte
<1>1. Wire!Say <=> /\ SaidOf(byte, program) # <<>> /\ Head(SaidOf(byte, program)).to = "line"
                  /\ Pending(uart') = Pending(uart) \o Head(SaidOf(byte, program)).what
                  /\ SaidOf(byte', program') = Tail(SaidOf(byte, program))
                  /\ UNCHANGED <<line, screen, trapped > 0>>
  BY DEF Wire!Say, Wire!Due
<1>2. Wire!Show <=> /\ SaidOf(byte, program) # <<>> /\ Head(SaidOf(byte, program)).to = "screen"
                   /\ screen' = Append(screen, Head(SaidOf(byte, program)).what)
                   /\ SaidOf(byte', program') = Tail(SaidOf(byte, program))
                   /\ Pending(uart') = Pending(uart) /\ UNCHANGED <<line, trapped > 0>>
  BY DEF Wire!Show, Wire!Due
<1>3. Wire!Disturb <=> /\ SaidOf(byte, program) # <<>> /\ Head(SaidOf(byte, program)).to = "port"
                      /\ Pending(uart) # <<>>
                      /\ Pending(uart') = [Pending(uart) EXCEPT ![1] = Garbled]
                      /\ SaidOf(byte', program') = SaidOf(byte, program)
                      /\ UNCHANGED <<line, screen, trapped > 0>>
  BY DEF Wire!Disturb, Wire!Due
<1>4. Wire!Reset <=> /\ SaidOf(byte, program) # <<>> /\ Head(SaidOf(byte, program)).to = "port"
                    /\ \/ Pending(uart') = <<>>
                       \/ Pending(uart) # <<>> /\ Pending(uart') = <<Head(Pending(uart))>>
                    /\ SaidOf(byte', program') = Tail(SaidOf(byte, program))
                    /\ UNCHANGED <<line, screen, trapped > 0>>
  BY DEF Wire!Reset, Wire!Due
<1>5. Wire!Arrive <=> /\ Pending(uart) # <<>> /\ line' = Append(line, Head(Pending(uart)))
                     /\ Pending(uart') = Tail(Pending(uart))
                     /\ SaidOf(byte', program') = SaidOf(byte, program)
                     /\ UNCHANGED <<screen, trapped > 0>>
  BY DEF Wire!Arrive
<1>6. Wire!Stop <=> /\ (trapped > 0)' = TRUE
                   /\ SaidOf(byte', program') \in {Meanings(ExceptionReport(v)) : v \in Traps}
                   /\ Pending(uart') = Pending(uart) /\ UNCHANGED <<line, screen>>
  BY DEF Wire!Stop
<1>7. (UNCHANGED Wire!vars) <=> /\ SaidOf(byte', program') = SaidOf(byte, program)
                               /\ Pending(uart') = Pending(uart)
                               /\ UNCHANGED <<line, screen, trapped > 0>>
  BY DEF Wire!vars
<1> QED
  BY <1>1, <1>2, <1>3, <1>4, <1>5, <1>6, <1>7

\* The step is one of the abstract line, or changes nothing it speaks of.
WireStep == Wire!Next \/ UNCHANGED Wire!vars

\* A step of the first statement, at most a byte handed to putc.
LEMMA StatementSays ==
  ASSUME Speaking, byte = None, program # <<>>, byte' \in Characters \cup {None},
         \/ program' = Tail(program) /\ Meaning(Head(program)) = Byte(byte')
         \/ \E s \in UnderWay : program' = <<s>> \o Tail(program)
                                /\ Meaning(Head(program)) = Byte(byte') \o Meaning(s),
         UNCHANGED <<uart, line, screen, trapped>>
  PROVE  Speaking' /\ WireStep
<1>1. program' \in Seq(UnderWay) /\ SaidOf(byte', program') = SaidOf(None, program)
  BY StepSays DEF Speaking
<1>2. UNCHANGED Wire!vars
  BY <1>1, WireIs
<1> QED
  BY <1>1, <1>2 DEF Speaking, WireStep

\* No byte in putc says nothing.
LEMMA NoByte == Byte(None) = <<>> /\ \A s \in UnderWay : Byte(None) \o Meaning(s) = Meaning(s)
<1>1. Byte(None) = <<>>
  BY DEF Byte
<1> QED
  BY <1>1, MeaningTyped, ConcatEmptySeq

\* serial_write hands a character to putc, with CR before LF: nothing is lost of
\* the text, and nothing is said twice.
LEMMA WriteTextSays ==
  ASSUME Speaking, WriteText
  PROVE  Speaking' /\ WireStep
<1> DEFINE s == Head(program)
<1>1. byte = None /\ program # <<>> /\ s.kind = "text" /\ UNCHANGED <<uart, line, screen, trapped>>
  BY DEF WriteText, Under, Quiet
<1>2. s \in UnderWay /\ s \in TextUnderWay
  BY <1>1, SplitHead, KindsAre DEF Speaking
<1>3. s.text \in Seq(Characters) /\ s.cr \in BOOLEAN /\ (s.text # <<>> => Head(s.text) \in Characters)
  BY <1>2 DEF TextUnderWay
<1>4. CASE s.text = <<>> /\ Finish /\ UNCHANGED byte
  <2>1. Meaning(s) = <<>>
    BY <1>2, <1>4, TextMeans
  <2> QED
    BY <1>1, <1>4, <2>1, NoByte, StatementSays DEF Finish
<1>5. CASE /\ s.text # <<>> /\ Head(s.text) = LF /\ ~s.cr
           /\ Putc(CR) /\ Continue([s EXCEPT !.cr = TRUE])
  <2> DEFINE r == [s EXCEPT !.cr = TRUE]
  <2>1. r \in UnderWay /\ Meaning(s) = OnLine(<<CR>>) \o Meaning(r)
    BY <1>2, <1>3, <1>5, TextMeans
  <2>2. byte' = CR /\ CR \in Characters /\ program' = <<r>> \o Tail(program)
    BY <1>5, CharactersAre DEF Putc, Continue
  <2>3. Byte(byte') = OnLine(<<CR>>)
    BY <2>2, ByteIs
  <2> HIDE DEF r
  <2> QED
    BY <1>1, <2>1, <2>2, <2>3, StatementSays
<1>6. CASE /\ s.text # <<>> /\ (Head(s.text) = LF => s.cr)
           /\ Putc(Head(s.text)) /\ Continue([s EXCEPT !.text = Tail(@), !.cr = FALSE])
  <2> DEFINE r == [s EXCEPT !.text = Tail(s.text), !.cr = FALSE]
             c == Head(s.text)
  <2>1. r \in UnderWay /\ Meaning(s) = OnLine(<<c>>) \o Meaning(r)
    BY <1>2, <1>3, <1>6, TextMeans
  <2>2. byte' = c /\ c \in Characters /\ program' = <<r>> \o Tail(program)
    BY <1>3, <1>6 DEF Putc, Continue
  <2>3. Byte(byte') = OnLine(<<c>>)
    BY <2>2, ByteIs
  <2> HIDE DEF r, c
  <2> QED
    BY <1>1, <2>1, <2>2, <2>3, StatementSays
<1> QED
  BY <1>4, <1>5, <1>6 DEF WriteText

\* Working a digit out leaves what the number says; handing one to putc takes it
\* from the number.
LEMMA PrintNumberSays ==
  ASSUME Speaking, PrintNumber
  PROVE  Speaking' /\ WireStep
<1> DEFINE s == Head(program)
           dividing == s.emitting = FALSE /\ s.val > 0 /\ Len(s.buf) < s.room
<1>1. byte = None /\ program # <<>> /\ s.kind = "number" /\ UNCHANGED <<uart, line, screen, trapped>>
  BY DEF PrintNumber, Under, Quiet
<1>2. s \in UnderWay /\ s \in NumberUnderWay
  BY <1>1, SplitHead, KindsAre DEF Speaking
<1>3. s.emitting \in BOOLEAN
  BY <1>2 DEF NumberUnderWay
<1>4. CASE s.val = 0 /\ s.buf = <<>> /\ ~s.emitting /\ Putc(Digit[0]) /\ Finish
  <2>1. Meaning(s) = OnLine(<<Digit[0]>>)
    BY <1>2, <1>3, <1>4, NumberMeans
  <2>2. byte' = Digit[0] /\ Digit[0] \in Characters /\ program' = Tail(program)
    <3>1. 0 \in 0 .. 9
      OBVIOUS
    <3>2. Digit[0] \in Characters
      BY <3>1, SerialAssumption
    <3> QED
      BY <1>4, <3>2 DEF Putc, Finish
  <2>3. Byte(byte') = OnLine(<<Digit[0]>>)
    BY <2>2, ByteIs
  <2> QED
    BY <1>1, <2>1, <2>2, <2>3, StatementSays
<1>5. CASE /\ dividing /\ UNCHANGED byte
           /\ Continue([s EXCEPT !.buf = Append(@, Digit[s.val % 10]), !.val = @ \div 10])
  <2> DEFINE r == [s EXCEPT !.buf = Append(s.buf, Digit[s.val % 10]), !.val = s.val \div 10]
  <2>1. r \in UnderWay /\ Meaning(s) = Meaning(r)
    BY <1>2, <1>5, NumberMeans
  <2>2. byte' = None /\ program' = <<r>> \o Tail(program)
    BY <1>1, <1>5 DEF Continue
  <2> HIDE DEF r
  <2>3. Meaning(s) = Byte(byte') \o Meaning(r)
    BY <2>1, <2>2, NoByte
  <2> QED
    BY <1>1, <2>1, <2>2, <2>3, StatementSays
<1>6. CASE /\ ~dividing /\ s.buf # <<>>
           /\ Putc(Last(s.buf)) /\ Continue([s EXCEPT !.buf = Front(@), !.emitting = TRUE])
  <2> DEFINE r == [s EXCEPT !.buf = Front(s.buf), !.emitting = TRUE]
             c == Last(s.buf)
  <2>1. r \in UnderWay /\ c \in Characters /\ Meaning(s) = OnLine(<<c>>) \o Meaning(r)
    BY <1>2, <1>6, NumberMeans
  <2>2. byte' = c /\ program' = <<r>> \o Tail(program)
    BY <1>6 DEF Putc, Continue
  <2>3. Byte(byte') = OnLine(<<c>>)
    BY <2>1, <2>2, ByteIs
  <2> HIDE DEF r, c
  <2> QED
    BY <1>1, <2>1, <2>2, <2>3, StatementSays
<1>7. CASE s.emitting /\ s.buf = <<>> /\ Finish /\ UNCHANGED byte
  <2>1. Meaning(s) = <<>>
    BY <1>2, <1>3, <1>7, NumberMeans
  <2> QED
    BY <1>1, <1>7, <2>1, NoByte, StatementSays DEF Finish
<1>8. dividing <=> ~s.emitting /\ s.val > 0 /\ Len(s.buf) < s.room
  BY <1>3
<1> HIDE DEF dividing
<1> QED
  BY <1>4, <1>5, <1>6, <1>7, <1>8 DEF PrintNumber

\* The console's messages are said, in order with the line's.
LEMMA ConsoleSays ==
  ASSUME Speaking, WriteConsole \/ EnableInterrupts
  PROVE  Speaking' /\ WireStep
<1> DEFINE s == Head(program)
           t == Tail(program)
<1>1. byte = None /\ byte' = None /\ program # <<>> /\ program' = t /\ program \in Seq(UnderWay)
      /\ UNCHANGED <<uart, line, trapped>>
      /\ \/ s.kind = "mirror" /\ screen' = Append(screen, s.text)
         \/ s.kind = "sti" /\ UNCHANGED screen
  BY DEF WriteConsole, EnableInterrupts, Under, Finish, Speaking
<1>2. s \in UnderWay /\ t \in Seq(UnderWay)
  BY <1>1, SplitHead
<1>3. CASE s.kind = "sti" /\ UNCHANGED screen
  <2>1. Meaning(s) = Byte(byte')
    BY <1>1, <1>3, NoByte DEF Meaning
  <2> QED
    BY <1>1, <1>3, <2>1, StatementSays
<1>4. CASE s.kind = "mirror" /\ screen' = Append(screen, s.text)
  <2> DEFINE h == [to |-> "screen", what |-> s.text]
  <2>1. Meaning(s) = <<h>>
    BY <1>4 DEF Meaning
  <2>2. SaidOf(byte, program) = <<h>> \o Meanings(t) /\ Meanings(t) \in Seq(Item) /\ <<h>> \in Seq(Item)
    BY <1>1, <2>1, SaidOfSplit
  <2>3. SaidOf(byte', program') = Meanings(t)
    BY <1>1, <1>2, SaidOfAll
  <2>4. h.to = "screen" /\ h.what = s.text
    OBVIOUS
  <2> DEFINE q == Meanings(t)
  <2> HIDE DEF h, q
  <2>5. <<h>> \o q # <<>> /\ Head(<<h>> \o q) = h /\ Tail(<<h>> \o q) = q
    BY <2>2 DEF q
  <2>6. Wire!Show
    BY <1>1, <1>4, <2>2, <2>3, <2>4, <2>5, WireIs DEF q
  <2> QED
    BY <1>1, <1>2, <2>6 DEF WireStep, Wire!Next, Speaking
<1> QED
  BY <1>1, <1>3, <1>4

\* Out, after Poll, puts the byte into a FIFO that is empty.
LEMMA PutcSays ==
  ASSUME PortIInv, Speaking, Poll \/ Out
  PROVE  Speaking' /\ WireStep
<1>1. CASE Poll
  <2>1. UNCHANGED <<program, byte, uart, line, screen, trapped>>
    BY <1>1 DEF Poll
  <2>2. UNCHANGED Wire!vars
    BY <2>1, WireIs
  <2> QED
    BY <2>1, <2>2 DEF WireStep, Speaking
<1>2. CASE Out
  <2>1. /\ byte # None /\ uart' = WriteData(uart, byte) /\ byte' = None /\ polled
        /\ UNCHANGED <<program, line, screen, trapped>>
    BY <1>2 DEF Out
  <2>2. byte \in Characters /\ program \in Seq(UnderWay) /\ uart.queue \in Seq(Characters)
        /\ uart.shift \in Characters \cup {None}
    BY <2>1 DEF Speaking
  <2>3. SetUp(uart) /\ uart.queue = <<>>
    BY <2>1, PositionIs, PortIsTyped DEF PortIInv, PortTypeOK
  <2>4. uart' = [uart EXCEPT !.queue = Append(@, byte)]
    <3>1. Len(uart.queue) < Depth /\ uart.dlab = FALSE /\ uart.fifo = TRUE
      <4>1. Depth \in Nat \ {0}
        BY SerialAssumption
      <4>2. Len(<<>>) = 0
        OBVIOUS
      <4> QED
        BY <2>3, <4>1, <4>2 DEF SetUp
    <3> QED
      BY <2>1, <3>1 DEF WriteData
  <2>5. uart'.queue = <<byte>> /\ uart'.shift = uart.shift /\ <<byte>> \in Seq(Characters)
    <3>1. DOMAIN uart = Registers
      BY <2>3 DEF SetUp, PortOK
    <3>2. uart'.queue = Append(<<>>, byte) /\ uart'.shift = uart.shift
      BY <2>3, <2>4, <3>1 DEF Registers
    <3>3. Append(<<>>, byte) = <<byte>>
      OBVIOUS
    <3> QED
      BY <2>2, <3>2, <3>3
  <2>6. Pending(uart') = Pending(uart) \o <<byte>>
    <3> DEFINE c == uart.shift
    <3>1. c = None => Pending(uart) = <<>> /\ Pending(uart') = <<byte>>
      BY <2>2, <2>3, <2>5, PendingIs
    <3>2. c # None => Pending(uart) = <<c>> \o <<>> /\ Pending(uart') = <<c>> \o <<byte>>
                      /\ c \in Characters
      BY <2>2, <2>3, <2>5, PendingIs
    <3>3. <<>> \o <<byte>> = <<byte>> /\ \A x \in Characters : <<x>> \o <<>> = <<x>>
      OBVIOUS
    <3> QED
      BY <3>1, <3>2, <3>3
  <2> DEFINE h == [to |-> "line", what |-> <<byte>>]
             q == Meanings(program)
  <2>7. SaidOf(byte, program) = <<h>> \o q /\ <<h>> \in Seq(Item) /\ q \in Seq(Item)
        /\ SaidOf(byte', program') = q
    <3>1. OnLine(<<byte>>) = <<h>>
      BY DEF OnLine
    <3>2. OnLine(<<byte>>) \in Seq(Item) /\ Byte(byte) = OnLine(<<byte>>)
      BY <2>2, ByteIs
    <3>3. SaidOf(None, program) = q /\ q \in Seq(Item)
      BY <2>2, SaidOfAll
    <3> QED
      BY <2>1, <3>1, <3>2, <3>3 DEF SaidOf
  <2>8. h.to = "line" /\ h.what = <<byte>>
    OBVIOUS
  <2> HIDE DEF h, q
  <2>9. <<h>> \o q # <<>> /\ Head(<<h>> \o q) = h /\ Tail(<<h>> \o q) = q
    BY <2>7
  <2>10. Wire!Say
    BY <2>1, <2>6, <2>7, <2>8, <2>9, WireIs
  <2> QED
    BY <2>1, <2>2, <2>5, <2>10 DEF WireStep, Wire!Next, Speaking
<1> QED
  BY <1>1, <1>2

\* A byte at the head of the FIFO is shifted out, then arrives.
LEMMA TransmitterSays ==
  ASSUME PortIInv, Speaking, Shift \/ Arrive
  PROVE  Speaking' /\ WireStep
<1>1. uart.queue \in Seq(Characters) /\ uart.shift \in Characters \cup {None} /\ DOMAIN uart = Registers
      /\ UNCHANGED <<program, byte, screen, trapped>>
  BY PositionIs, PortIsTyped DEF PortIInv, Speaking, PortOK, Shift, Arrive
<1>2. CASE Shift
  <2> DEFINE h == Head(uart.queue)
             t == Tail(uart.queue)
  <2>1. uart.shift = None /\ uart.queue # <<>> /\ uart'.shift = h /\ uart'.queue = t /\ UNCHANGED line
    BY <1>1, <1>2 DEF Shift, Registers
  <2>2. h \in Characters /\ t \in Seq(Characters) /\ uart.queue = <<h>> \o t /\ h # None
    BY <1>1, <2>1, SplitHead, CharactersAre
  <2> HIDE DEF h, t
  <2>3. Pending(uart) = uart.queue /\ Pending(uart') = <<h>> \o t
    BY <1>1, <2>1, <2>2, PendingIs
  <2>4. UNCHANGED Wire!vars
    BY <1>1, <2>1, <2>2, <2>3, WireIs
  <2> QED
    BY <1>1, <2>1, <2>2, <2>4 DEF WireStep, Speaking
<1>3. CASE Arrive
  <2>1. uart.shift # None /\ uart'.shift = None /\ uart'.queue = uart.queue
        /\ line' = Append(line, uart.shift)
    BY <1>1, <1>3 DEF Arrive, Registers
  <2>2. Pending(uart') = uart.queue /\ Pending(uart) # <<>> /\ Head(Pending(uart)) = uart.shift
        /\ Tail(Pending(uart)) = uart.queue
    BY <1>1, <2>1, PendingIs
  <2>3. Wire!Arrive
    BY <1>1, <2>1, <2>2, WireIs
  <2> QED
    BY <1>1, <2>1, <2>3 DEF WireStep, Wire!Next, Speaking
<1> QED
  BY <1>2, <1>3

\* An exception drops what was still to be said, and the byte in putc, and says
\* its own message.
LEMMA ExceptionSays ==
  ASSUME PortIInv, Speaking, NEW v \in Traps, Exception(v)
  PROVE  Speaking' /\ WireStep
<1>0. (trapped > 0)' = TRUE
  <2>1. Nested \in Nat
    BY SerialAssumption
  <2>2. trapped \in 0 .. Nested /\ trapped' = trapped + 1
    BY DEF PortIInv, PortTypeOK, Exception
  <2> QED
    BY <2>1, <2>2
<1>1. /\ (trapped > 0)' = TRUE /\ program' = ExceptionReport(v) /\ byte' = None
      /\ UNCHANGED <<uart, line, screen>>
  BY <1>0 DEF Exception
<1>2. v \in 0 .. 31
  BY SerialAssumption
<1>3. Width[v] <= 3
  <2>1. v \div 10 \in 0 .. 9
    BY <1>2
  <2>2. Width[v \div 10] = 1
    BY <2>1, WidthSteps
  <2> QED
    BY <1>2, <2>2, WidthSteps
<1>4. ExceptionReport(v) \in Seq(UnderWay)
  <2>1. \A t \in Seq(Characters) : Text(t) \in UnderWay
    BY DEF Text, UnderWay, TextUnderWay
  <2>2. Number(v, 3) \in UnderWay
    <3>1. <<>> \in Seq(Characters) /\ Len(<<>>) = 0
      OBVIOUS
    <3>2. Width[v] \in Nat
      BY <1>2, WidthSteps
    <3> QED
      BY <1>2, <1>3, <3>1, <3>2 DEF Number, UnderWay, NumberUnderWay
  <2>3. <<"EXCEPTION: vector ">> \in Seq(Characters) /\ <<LF>> \in Seq(Characters)
    <3>1. "EXCEPTION: vector " \in Characters /\ LF \in Characters
      BY SerialAssumption
    <3>2. \A c \in Characters : <<c>> \in Seq(Characters)
      OBVIOUS
    <3> QED
      BY <3>1, <3>2
  <2>4. Text(<<"EXCEPTION: vector ">>) \in UnderWay /\ Text(<<LF>>) \in UnderWay
    BY <2>1, <2>3
  <2> DEFINE a == Text(<<"EXCEPTION: vector ">>)
             b == Number(v, 3)
             c == Text(<<LF>>)
  <2>5. ExceptionReport(v) = <<a, b, c>>
    BY DEF ExceptionReport
  <2>6. a \in UnderWay /\ b \in UnderWay /\ c \in UnderWay
    BY <2>2, <2>4
  <2> HIDE DEF a, b, c
  <2> QED
    BY <2>5, <2>6
<1>5. SaidOf(byte', program') = Meanings(ExceptionReport(v))
  BY <1>1, <1>4, SaidOfAll
<1>6. Wire!Stop
  BY <1>1, <1>5, WireIs
<1> QED
  BY <1>1, <1>4, <1>6 DEF WireStep, Wire!Next, Speaking

\* What the writes of a set-up that are left say: until the buffer has been
\* emptied, that it will be.
LEMMA SetUpMeans ==
  ASSUME NEW s, s.kind = "init", NEW k \in 0 .. 7, LeftOver(s.writes, k)
  PROVE  /\ k <= 5 => Meaning(s) = <<[to |-> "port", what |-> <<>>]>>
         /\ k > 5 => Meaning(s) = <<>>
<1> DEFINE w == s.writes
           resets == \E j \in DOMAIN w : w[j].reg = "fcr"
<1>1. DOMAIN w = 1 .. 7 - k /\ \A j \in 1 .. 7 - k : w[j] = InitWrites[k + j]
  <2>1. \E S : w \in Seq(S)
    BY DEF LeftOver
  <2>2. Len(w) = 7 - k /\ \A j \in 1 .. 7 - k : w[j] = InitWrites[k + j]
    BY DEF LeftOver
  <2> QED
    BY <2>1, <2>2
<1>2. Meaning(s) = IF resets THEN <<[to |-> "port", what |-> <<>>]>> ELSE <<>>
  BY DEF Meaning
<1>3. InitWrites[6].reg = "fcr" /\ InitWrites[7].reg # "fcr"
  BY WritesListed DEF Write
<1>4. ASSUME k <= 5 PROVE resets
  <2>1. 6 - k \in 1 .. 7 - k /\ k + (6 - k) = 6
    BY <1>4
  <2> HIDE DEF w
  <2> QED
    BY <1>1, <1>3, <2>1
<1>5. ASSUME k > 5 PROVE ~resets
  <2>1. \A j \in 1 .. 7 - k : k + j = 7
    BY <1>5
  <2> HIDE DEF w
  <2> QED
    BY <1>1, <1>3, <2>1
<1> QED
  BY <1>2, <1>4, <1>5

\* What one write of the set-up does to the bytes in the port.
LEMMA WriteDisturbs ==
  ASSUME NEW u, DOMAIN u = Registers, NEW k \in 0 .. 6,
         IF k \in 2 .. 4 THEN u.dlab = TRUE ELSE u.dlab = FALSE
  PROVE  LET v == WriteRegister(u, InitWrites[k+1]) IN
         /\ k # 5 => v.queue = u.queue
         /\ k = 5 => v.queue = <<>>
         /\ k # 2 => v.shift = u.shift
         /\ k = 2 => v.shift = u.shift \/ (u.shift # None /\ v.shift = Garbled)
<1> DEFINE v == WriteRegister(u, InitWrites[k+1])
<1> USE DEF Registers
<1>1. CASE k \in {0, 3}
  <2>1. v = WriteRegister(u, Write("ier", 0))
    BY <1>1, WritesListed
  <2>2. v = u \/ v = [u EXCEPT !.irqs = FALSE]
    BY <2>1, <1>1, WriteEffects
  <2> QED
    BY <1>1, <2>2
<1>2. CASE k = 1
  <2>1. v = WriteRegister(u, Write("lcr", 128))
    BY <1>2, WritesListed
  <2>2. v = [u EXCEPT !.dlab = TRUE]
    BY <2>1, WriteEffects
  <2> QED
    BY <1>2, <2>2
<1>3. CASE k = 2
  <2>1. v = WriteRegister(u, Write("data", 3))
    BY <1>3, WritesListed
  <2>2. v = WriteData(u, 3)
    BY <2>1 DEF WriteRegister, Write
  <2>3. v = [u EXCEPT !.divisor = 3, !.shift = IF u.shift = None \/ 3 = u.divisor THEN u.shift ELSE Garbled]
    BY <1>3, <2>2 DEF WriteData
  <2> HIDE DEF v
  <2>4. v.queue = u.queue /\ v.shift = IF u.shift = None \/ 3 = u.divisor THEN u.shift ELSE Garbled
    BY <2>3
  <2> QED
    BY <1>3, <2>4 DEF v
<1>4. CASE k = 4
  <2>1. v = WriteRegister(u, Write("lcr", 3))
    BY <1>4, WritesListed
  <2>2. v = [u EXCEPT !.dlab = FALSE]
    BY <2>1, WriteEffects
  <2> QED
    BY <1>4, <2>2
<1>5. CASE k = 5
  <2>1. v = WriteRegister(u, Write("fcr", 199))
    BY <1>5, WritesListed
  <2>2. v = [u EXCEPT !.fifo = TRUE, !.queue = <<>>]
    BY <2>1, WriteEffects
  <2> QED
    BY <1>5, <2>2
<1>6. CASE k = 6
  <2>1. v = WriteRegister(u, Write("mcr", 11))
    BY <1>6, WritesListed
  <2>2. v = u
    BY <2>1, WriteEffects
  <2> QED
    BY <1>6, <2>2
<1> QED
  BY <1>1, <1>2, <1>3, <1>4, <1>5, <1>6

\* Setting the port up drops what its FIFO holds, as the abstract line may, and
\* nothing else.
LEMMA SetUpPortSays ==
  ASSUME PortIInv, Speaking, SetUpPort
  PROVE  Speaking' /\ WireStep
<1> DEFINE s == Head(program)
           w == s.writes
           t == Tail(program)
           r == [s EXCEPT !.writes = Tail(w)]
           port == [to |-> "port", what |-> <<>>]
<1>1. /\ program # <<>> /\ program \in Seq(UnderWay) /\ s.kind = "init" /\ byte = None /\ byte' = None
      /\ uart' = WriteRegister(uart, Head(w)) /\ UNCHANGED <<line, screen, trapped>>
      /\ IF Len(w) = 1 THEN program' = t ELSE program' = <<r>> \o t
  BY DEF SetUpPort, Under, Finish, Continue, Speaking
<1>2. PICK k \in 0 .. 6 : LeftOver(w, k) /\ Written(uart, k)
  BY <1>1 DEF AtSetUp, PortIInv, Position
<1>3. s \in UnderWay /\ t \in Seq(UnderWay)
  BY <1>1, SplitHead
<1>4. s \in [kind : {"init"}, writes : Seq(RegisterWrites)] /\ w \in Seq(RegisterWrites)
  <2>1. s \in [kind : {"init"}, writes : Seq(RegisterWrites)]
    BY <1>1, <1>3, KindsAre
  <2> QED
    BY <2>1
<1>5. /\ Len(w) = 7 - k /\ w # <<>> /\ Head(w) = InitWrites[k+1] /\ Tail(w) \in Seq(RegisterWrites)
      /\ LeftOver(Tail(w), k + 1)
  <2> HIDE DEF w
  <2>1. Len(w) = 7 - k /\ \A j \in 1 .. 7 - k : w[j] = InitWrites[k + j]
    BY <1>2 DEF LeftOver
  <2>2. w # <<>> /\ 1 \in 1 .. 7 - k
    BY <1>4, <2>1
  <2>3. /\ Tail(w) \in Seq(RegisterWrites) /\ Len(Tail(w)) = Len(w) - 1 /\ Head(w) = w[1]
        /\ \A j \in 1 .. Len(Tail(w)) : Tail(w)[j] = w[j+1]
    BY <1>4, <2>2, TailIs
  <2>4. \A j \in 1 .. 7 - (k + 1) : j \in 1 .. 6 - k /\ j + 1 \in 1 .. 7 - k /\ k + (j + 1) = (k + 1) + j
    OBVIOUS
  <2>5. Len(Tail(w)) = 7 - (k + 1)
    BY <2>1, <2>3
  <2> QED
    BY <2>1, <2>2, <2>3, <2>4, <2>5 DEF LeftOver
<1>6. r \in UnderWay /\ r.kind = "init" /\ r.writes = Tail(w)
  <2>1. r \in [kind : {"init"}, writes : Seq(RegisterWrites)] /\ r.writes = Tail(w)
    BY <1>4, <1>5
  <2> QED
    BY <2>1 DEF UnderWay
<1>7. /\ k <= 5 => Meaning(s) = <<port>>
      /\ k > 5 => Meaning(s) = <<>>
      /\ k + 1 <= 5 => Meaning(r) = <<port>>
      /\ k + 1 > 5 => Meaning(r) = <<>>
  <2>1. k \in 0 .. 7 /\ k + 1 \in 0 .. 7
    OBVIOUS
  <2> HIDE DEF r
  <2>2. LeftOver(r.writes, k + 1)
    BY <1>5, <1>6
  <2> QED
    BY <1>1, <1>2, <1>6, <2>1, <2>2, SetUpMeans
<1> HIDE DEF r
<1>8. /\ k # 5 => uart'.queue = uart.queue
      /\ k = 5 => uart'.queue = <<>>
      /\ k # 2 => uart'.shift = uart.shift
      /\ k = 2 => uart'.shift = uart.shift \/ (uart.shift # None /\ uart'.shift = Garbled)
  <2>1. DOMAIN uart = Registers /\ (IF k \in 2 .. 4 THEN uart.dlab = TRUE ELSE uart.dlab = FALSE)
    BY <1>2 DEF Written, PortOK
  <2>2. uart' = WriteRegister(uart, InitWrites[k+1])
    BY <1>1, <1>5
  <2> HIDE DEF w, s
  <2> QED
    BY <2>1, <2>2, WriteDisturbs
<1>9. (k + 1 <= 5 => k <= 5 /\ Len(w) # 1) /\ (k = 5 => Len(w) # 1) /\ (k = 6 => Len(w) = 1)
  <2> HIDE DEF w
  <2> QED
    BY <1>5
<1>10. uart.queue \in Seq(Characters) /\ uart.shift \in Characters \cup {None}
      /\ uart'.queue \in Seq(Characters) /\ uart'.shift \in Characters \cup {None}
  <2>1. <<>> \in Seq(Characters) /\ Garbled \in Characters
    BY CharactersAre
  <2> QED
    BY <1>8, <2>1 DEF Speaking
<1>11. (program' = t \/ program' = <<r>> \o t) /\ program' \in Seq(UnderWay)
  <2>1. <<r>> \o t \in Seq(UnderWay)
    BY <1>3, <1>6
  <2> QED
    BY <1>1, <1>3, <2>1
<1>12. Speaking'
  BY <1>1, <1>10, <1>11 DEF Speaking
<1>13. CASE k # 5
  <2>1. SaidOf(byte', program') = SaidOf(byte, program)
    <3>1. CASE k = 6
      <4>1. program' = t /\ Meaning(s) = Byte(None)
        BY <1>1, <1>7, <1>9, <3>1, NoByte
      <4> QED
        BY <1>1, <4>1, StepSays
    <3>2. CASE k # 6
      <4>1. k + 1 <= 5
        BY <1>13, <3>2
      <4>2. k + 1 <= 5 /\ k <= 5 /\ Len(w) # 1
        BY <1>9, <4>1
      <4>3. program' = <<r>> \o t /\ Meaning(s) = Byte(None) \o Meaning(r)
        BY <1>1, <1>6, <1>7, <4>2, NoByte
      <4> QED
        BY <1>1, <1>6, <4>3, StepSays
    <3> QED
      BY <3>1, <3>2
  <2>2. CASE uart'.shift = uart.shift
    <3>1. Pending(uart') = Pending(uart)
      BY <1>8, <1>13, <2>2 DEF Pending
    <3> QED
      BY <1>1, <1>12, <2>1, <3>1, WireIs DEF WireStep
  <2>3. CASE k = 2 /\ uart.shift # None /\ uart'.shift = Garbled
    <3>1. Pending(uart) # <<>> /\ [Pending(uart) EXCEPT ![1] = Garbled] = <<Garbled>> \o uart.queue
      BY <1>10, <2>3, PendingIs
    <3>2. Pending(uart') = <<Garbled>> \o uart.queue
      BY <1>8, <1>10, <1>13, <2>3, PendingIs, CharactersAre
    <3>3. Meaning(s) = <<port>> /\ SaidOf(byte, program) = <<port>> \o Meanings(t) /\ Meanings(t) \in Seq(Item)
          /\ <<port>> \in Seq(Item)
      <4>1. Meaning(s) = <<port>>
        BY <1>7, <2>3
      <4>2. SaidOf(None, program) = Meaning(s) \o Meanings(t) /\ Meanings(t) \in Seq(Item)
            /\ Meaning(s) \in Seq(Item)
        BY <1>1, SaidOfSplit
      <4> QED
        BY <1>1, <4>1, <4>2
    <3>4. port.to = "port"
      OBVIOUS
    <3> DEFINE q == Meanings(t)
    <3> HIDE DEF port, q
    <3>5. <<port>> \o q # <<>> /\ Head(<<port>> \o q) = port
      BY <3>3 DEF q
    <3>6. Wire!Disturb
      BY <1>1, <2>1, <3>1, <3>2, <3>3, <3>4, <3>5, WireIs DEF q
    <3> QED
      BY <1>12, <3>6 DEF WireStep, Wire!Next
  <2> QED
    BY <1>8, <2>2, <2>3
<1>14. CASE k = 5
  <2>1. Meaning(s) = <<port>> /\ Meaning(r) = <<>> /\ program' = <<r>> \o t
    BY <1>1, <1>7, <1>14, <1>9
  <2>2. SaidOf(byte, program) = <<port>> \o Meanings(t) /\ Meanings(t) \in Seq(Item) /\ <<port>> \in Seq(Item)
    BY <1>1, <2>1, SaidOfSplit
  <2>3. SaidOf(byte', program') = Meanings(t)
    <3>1. Meanings(<<r>> \o t) = Meaning(r) \o Meanings(t)
      BY <1>3, <1>6, MeaningsAre
    <3>2. <<>> \o Meanings(t) = Meanings(t)
      BY <2>2, ConcatEmptySeq
    <3> QED
      BY <1>1, <1>11, <2>1, <3>1, <3>2, SaidOfAll
  <2>4. port.to = "port"
    OBVIOUS
  <2> DEFINE q == Meanings(t)
  <2> HIDE DEF port, q
  <2>5. <<port>> \o q # <<>> /\ Head(<<port>> \o q) = port /\ Tail(<<port>> \o q) = q
    BY <2>2 DEF q
  <2>6. \/ Pending(uart') = <<>>
        \/ Pending(uart) # <<>> /\ Pending(uart') = <<Head(Pending(uart))>>
    <3>1. CASE uart.shift = None
      BY <1>8, <1>10, <1>14, <3>1, PendingIs
    <3>2. CASE uart.shift # None
      <4>1. uart'.queue = <<>> /\ uart'.shift = uart.shift
        BY <1>8, <1>14
      <4>2. Pending(uart') = <<uart.shift>> \o <<>>
        BY <1>10, <3>2, <4>1, PendingIs
      <4>3. Pending(uart) # <<>> /\ Head(Pending(uart)) = uart.shift
        BY <1>10, <3>2, PendingIs
      <4>4. \A x \in Characters : <<x>> \o <<>> = <<x>>
        OBVIOUS
      <4> QED
        BY <1>10, <3>2, <4>2, <4>3, <4>4
    <3> QED
      BY <3>1, <3>2
  <2>7. Wire!Reset
    BY <1>1, <2>2, <2>3, <2>4, <2>5, <2>6, WireIs DEF q
  <2> QED
    BY <1>12, <2>7 DEF WireStep, Wire!Next
<1> QED
  BY <1>13, <1>14

\* The relation of the two holds initially, where the line is initial too.
LEMMA SpeakingInit ==
  ASSUME PortInit
  PROVE  Speaking /\ Wire!Init
<1>1. program \in Programs /\ uart \in Ports /\ byte = None
      /\ line = <<>> /\ screen = <<>> /\ trapped = 0
  BY DEF PortInit
<1>2. /\ program \in Seq(Statements)
      /\ \A k \in 1 .. Len(program) : program[k].kind = "number" => Width[program[k].val] <= program[k].room
  BY <1>1, SerialAssumption
<1>3. ASSUME NEW s \in Statements, s.kind = "number" => Width[s.val] <= s.room
      PROVE  s \in UnderWay
  <2>1. CASE s \in [kind : {"init"}, writes : {InitWrites}]
    <3>1. InitWrites \in Seq(RegisterWrites)
      BY DEF InitWrites, Write, RegisterWrites
    <3> QED
      BY <2>1, <3>1 DEF UnderWay
  <2>2. CASE s \in [kind : {"text"}, text : Seq(Characters), cr : {FALSE}]
    BY <2>2 DEF UnderWay, TextUnderWay
  <2>3. CASE s \in [kind : {"number"}, val : Nat, room : Nat, buf : {<<>>}, emitting : {FALSE}]
    <3>1. <<>> \in Seq(Characters) /\ Len(<<>>) = 0
      OBVIOUS
    <3>2. s.val \in Nat /\ s.buf = <<>> /\ Width[s.val] <= s.room
      BY <1>3, <2>3
    <3>3. Width[s.val] \in Nat
      BY <3>2, WidthSteps
    <3> QED
      <4>1. s \in [kind : {"number"}, val : Nat, room : Nat, buf : Seq(Characters), emitting : BOOLEAN]
        BY <2>3, <3>1
      <4>2. Len(s.buf) + Width[s.val] <= s.room
        <5> DEFINE x == Width[s.val]
        <5>1. s.buf = <<>> /\ x \in Nat /\ x <= s.room
          BY <3>2, <3>3
        <5> HIDE DEF x
        <5>2. 0 + x <= s.room
          BY <5>1
        <5> QED
          BY <3>1, <5>1, <5>2 DEF x
      <4> QED
        BY <4>1, <4>2 DEF UnderWay, NumberUnderWay
  <2>4. CASE s \in [kind : {"mirror"}, text : Seq(Characters)] \cup [kind : {"sti"}]
    BY <2>4 DEF UnderWay
  <2> QED
    BY <2>1, <2>2, <2>3, <2>4 DEF Statements
<1>4. program \in Seq(UnderWay)
  <2>1. \A k \in 1 .. Len(program) : program[k] \in UnderWay
    <3> TAKE k \in 1 .. Len(program)
    <3>1. program[k] \in Statements
      BY <1>2, ElementOfSeq
    <3> QED
      BY <1>2, <1>3, <3>1
  <2> QED
    BY <1>2, <2>1
<1>5. uart.queue \in Seq(Characters) /\ uart.shift \in Characters \cup {None}
  BY <1>1, SerialAssumption
<1>6. Speaking
  BY <1>1, <1>4, <1>5 DEF Speaking
<1>7. SaidOf(byte, program) = Meanings(program)
  BY <1>1, <1>4, SaidOfAll
<1>8. Wire!Init
  <2> DEFINE b == [todo |-> Meanings(program), pending |-> Pending(uart)]
  <2>1. b \in {[todo |-> Meanings(p), pending |-> Pending(u)] : p \in Programs, u \in Ports}
    BY <1>1
  <2>2. (IF byte = None THEN <<>> ELSE OnLine(<<byte>>)) \o Meanings(program) = b.todo /\ Pending(uart) = b.pending
    BY <1>7 DEF SaidOf, Byte
  <2> QED
    BY <1>1, <2>1, <2>2 DEF Wire!Init
<1> QED
  BY <1>6, <1>8

\* Every step of the port and the programs is a step of the line, or none.
LEMMA SpeakingNext ==
  ASSUME PortIInv, Speaking, [PortNext]_portVars
  PROVE  Speaking' /\ WireStep
<1>1. CASE SetUpPort
  BY <1>1, SetUpPortSays
<1>2. CASE WriteText
  BY <1>2, WriteTextSays
<1>3. CASE PrintNumber
  BY <1>3, PrintNumberSays
<1>4. CASE WriteConsole \/ EnableInterrupts
  BY <1>4, ConsoleSays
<1>5. CASE Poll \/ Out
  BY <1>5, PutcSays
<1>6. CASE Transmitter
  BY <1>6, TransmitterSays DEF Transmitter
<1>7. CASE \E v \in Traps : Exception(v)
  BY <1>7, ExceptionSays
<1>8. CASE UNCHANGED portVars
  <2>1. UNCHANGED <<program, byte, uart, line, screen, trapped>>
    BY <1>8 DEF portVars
  <2>2. UNCHANGED Wire!vars
    BY <2>1, WireIs
  <2> QED
    BY <2>1, <2>2 DEF WireStep, Speaking
<1> QED
  BY <1>1, <1>2, <1>3, <1>4, <1>5, <1>6, <1>7, <1>8 DEF PortNext, Processor

\* The driver does what is promised to those who print through it: in whatever
\* state the port was found, and with an exception at any point, their messages
\* arrive byte by byte and in order.
THEOREM SerialImplements == PortSpec => ReportsArrive
<1>1. PortIInv /\ Speaking /\ [PortNext]_portVars => Speaking' /\ [Wire!Next]_(Wire!vars)
  BY SpeakingNext DEF WireStep
<1>2. PortInit => Speaking /\ Wire!Init
  BY SpeakingInit
<1> QED
  BY <1>1, <1>2, PortInitInvariant, PortNextInvariant, PTL DEF PortSpec, ReportsArrive, Wire!Spec
-----------------------------------------------------------------------------
\* kprintf's number, whose digits are put down from the last one on.
LEMMA ReversePrepended ==
  ASSUME NEW S, NEW p \in Seq(S), NEW e \in S
  PROVE  Reverse(<<e>> \o p) = Append(Reverse(p), e)
<1> DEFINE n == Len(p)
           a == <<e>> \o p
           r == Reverse(a)
           t == Reverse(p)
           l == Append(t, e)
<1>1. ASSUME NEW q \in Seq(S)
      PROVE  /\ Reverse(q) \in Seq(S) /\ Len(Reverse(q)) = Len(q)
             /\ \A h \in 1 .. Len(q) : Reverse(q)[h] = q[(Len(q) - h) + 1]
  <2>1. \A h \in 1 .. Len(q) : q[(Len(q) - h) + 1] \in S
    OBVIOUS
  <2>2. Len(q) \in Nat
    OBVIOUS
  <2> QED
    BY <2>1, <2>2 DEF Reverse
<1>2. n \in Nat /\ a \in Seq(S) /\ Len(a) = n + 1 /\ a[1] = e
      /\ \A h \in 1 .. n : h + 1 \in 1 .. n + 1 /\ a[h+1] = p[h]
  OBVIOUS
<1> HIDE DEF a
<1>3. r \in Seq(S) /\ Len(r) = n + 1 /\ \A h \in 1 .. n + 1 : r[h] = a[((n + 1) - h) + 1]
  BY <1>1, <1>2
<1>4. t \in Seq(S) /\ Len(t) = n /\ \A h \in 1 .. n : t[h] = p[(n - h) + 1]
  BY <1>1
<1> HIDE DEF r, t
<1>5. l \in Seq(S) /\ Len(l) = n + 1 /\ l[n+1] = e /\ \A h \in 1 .. n : l[h] = t[h]
  BY <1>2, <1>4
<1> HIDE DEF l, n
<1>6. ASSUME NEW h \in 1 .. n + 1 PROVE r[h] = l[h]
  <2>1. CASE h = n + 1
    <3>1. r[h] = a[((n + 1) - h) + 1] /\ ((n + 1) - h) + 1 = 1
      BY <1>2, <1>3, <2>1
    <3> QED
      BY <1>2, <1>5, <2>1, <3>1
  <2>2. CASE h # n + 1
    <3>1. h \in 1 .. n /\ (n - h) + 1 \in 1 .. n /\ ((n + 1) - h) + 1 = ((n - h) + 1) + 1
      BY <1>2, <2>2
    <3>2. r[h] = a[((n + 1) - h) + 1] /\ l[h] = t[h]
      BY <1>3, <1>5, <3>1
    <3>3. t[h] = p[(n - h) + 1]
      BY <1>4, <3>1
    <3>4. a[((n - h) + 1) + 1] = p[(n - h) + 1]
      BY <1>2, <3>1
    <3> QED
      BY <3>1, <3>2, <3>3, <3>4
  <2> QED
    BY <2>1, <2>2
<1>7. r = l
  BY <1>2, <1>3, <1>5, <1>6, SeqEqual
<1> QED
  BY <1>7 DEF r, t, l, a

\* The loop of uitoa leaves the digits in their order.
LEMMA UitoaIs ==
  ASSUME NEW n \in Nat
  PROVE  Uitoa(n, 10) = Decimal(n)
<1> DEFINE C == Seq(Ciphers)
           D == [k \in Nat |-> k \div 10]
           A == [k \in Nat |-> <<>>]
           F == [k \in Nat |-> [x \in C |-> <<Digit[k % 10]>> \o x]]
           Rule(f) == f = [v \in 0 .. n |-> IF v = 0 THEN <<>> ELSE <<digits[(v % 10) + 1]>> \o f[v \div 10]]
<1>1. \A k \in Nat : k \div 10 \in Nat /\ (k # 0 => k \div 10 < k) /\ k % 10 \in 0 .. 9
  OBVIOUS
<1>2. \A d \in 0 .. 9 : digits[d + 1] = Digit[d]
  <2>1. \A d \in 0 .. 9 : Digit[d] = <<"0","1","2","3","4","5","6","7","8","9">>[d + 1]
    BY DEF Digit
  <2>2. \A d \in 0 .. 9 : digits[d + 1] = <<"0","1","2","3","4","5","6","7","8","9">>[d + 1]
    BY DEF digits
  <2> QED
    BY <2>1, <2>2
<1>3. <<>> \in C /\ \A k \in Nat, x \in C : Digit[k % 10] \in Ciphers /\ <<Digit[k % 10]>> \o x \in C
  <2>1. \A c \in Ciphers, x \in C : <<c>> \o x \in C
    OBVIOUS
  <2>2. \A k \in Nat : Digit[k % 10] \in Ciphers
    BY <1>1, DigitIs
  <2>3. <<>> \in C
    OBVIOUS
  <2> QED
    BY <2>1, <2>2, <2>3
<1> HIDE DEF C
<1>4. A \in [Nat -> C] /\ D \in [Nat -> Nat] /\ F \in [Nat -> [C -> C]]
      /\ \A k \in Nat : k \in {0} \/ D[k] < k
  BY <1>1, <1>3
<1>5. \A k \in Nat : A[k] = <<>> /\ D[k] = k \div 10 /\ \A x \in C : F[k][x] = <<Digit[k % 10]>> \o x
  OBVIOUS
<1> HIDE DEF A, D, F
<1>6. PICK g : Descends(g, Nat, {0}, A, D, F) /\ g \in [Nat -> C]
  BY <1>4, Descent
<1>7. \A v \in Nat : g[v] = IF v = 0 THEN <<>> ELSE <<digits[(v % 10) + 1]>> \o g[v \div 10]
  <2> TAKE v \in Nat
  <2>1. g[v] = IF v = 0 THEN A[v] ELSE F[v][g[D[v]]]
    BY <1>6 DEF Descends
  <2>2. g[v \div 10] \in C /\ digits[(v % 10) + 1] = Digit[v % 10]
    BY <1>1, <1>2, <1>6
  <2> QED
    BY <1>5, <2>1, <2>2
<1>8. \E f : Rule(f)
  <2> DEFINE f == [v \in 0 .. n |-> g[v]]
  <2>1. ASSUME NEW v \in 0 .. n
        PROVE  f[v] = IF v = 0 THEN <<>> ELSE <<digits[(v % 10) + 1]>> \o f[v \div 10]
    <3>1. v \in Nat /\ (v # 0 => v \div 10 \in 0 .. n)
      BY <1>1
    <3> QED
      BY <1>7, <3>1
  <2>2. Rule(f)
    BY <2>1
  <2> HIDE DEF Rule, f
  <2> QED
    BY <2>2
<1> DEFINE tmp == CHOOSE f : Rule(f)
<1>9. Rule(tmp)
  <2> HIDE DEF Rule
  <2> QED
    BY <1>8
<1>10. Uitoa(n, 10) = IF n = 0 THEN <<"0">> ELSE Reverse(tmp[n])
  BY DEF Uitoa
<1> HIDE DEF tmp
<1>11. ASSUME NEW v \in 0 .. n
       PROVE  tmp[v] = IF v = 0 THEN <<>> ELSE <<Digit[v % 10]>> \o tmp[v \div 10]
  <2>1. v % 10 \in 0 .. 9
    OBVIOUS
  <2>2. tmp[v] = IF v = 0 THEN <<>> ELSE <<digits[(v % 10) + 1]>> \o tmp[v \div 10]
    BY <1>9
  <2> QED
    BY <1>2, <2>1, <2>2
<1> DEFINE Good(v) == tmp[v] \in C /\ Reverse(tmp[v]) = Decimal(v)
           Bad == {v \in Nat : 0 < v /\ v <= n /\ ~Good(v)}
<1>12. Bad = {}
  <2> SUFFICES ASSUME Bad # {} PROVE FALSE
    OBVIOUS
  <2>1. PICK v \in Bad : \A k \in Bad : v <= k
    <3>1. Bad \in SUBSET Nat
      OBVIOUS
    <3> HIDE DEF Bad
    <3> QED
      BY <3>1, Least
  <2>2. v \in Nat /\ v \in 0 .. n /\ v # 0 /\ v \div 10 \in 0 .. n /\ v \div 10 < v /\ v % 10 \in 0 .. 9
    BY <1>1, <2>1
  <2> DEFINE d == Digit[v % 10]
             x == tmp[v \div 10]
  <2>3. tmp[v] = <<d>> \o x /\ d \in Ciphers
    BY <1>11, <2>2, DigitIs
  <2>4. CASE v < 10
    <3>1. v \div 10 = 0 /\ v % 10 = v /\ 0 \in 0 .. n
      BY <2>2, <2>4
    <3>2. x = <<>>
      BY <1>11, <3>1
    <3>3. Decimal(v) = <<d>>
      BY <2>2, <2>4, <3>1, DecimalIs
    <3> HIDE DEF d, x
    <3>4. tmp[v] = <<d>> /\ <<d>> \in C
      BY <2>3, <3>2 DEF C
    <3>5. Reverse(<<d>>) = <<d>>
      BY DEF Reverse
    <3>6. Good(v)
      BY <3>3, <3>4, <3>5
    <3> QED
      BY <2>1, <3>6
  <2>5. CASE v >= 10
    <3>1. v \div 10 \in Nat /\ 0 < v \div 10 /\ v \div 10 <= n
      BY <2>2, <2>5
    <3>2. v \div 10 \notin Bad
      BY <2>1, <2>2, <3>1
    <3>3. x \in C /\ Reverse(x) = Decimal(v \div 10)
      BY <3>1, <3>2
    <3>4. Decimal(v) = Append(Decimal(v \div 10), d)
      BY <2>2, <2>5, DecimalIs
    <3> HIDE DEF d, x
    <3>5. Reverse(<<d>> \o x) = Append(Reverse(x), d) /\ <<d>> \o x \in C
      BY <2>3, <3>3, ReversePrepended DEF C
    <3>6. Good(v)
      BY <2>3, <3>3, <3>4, <3>5
    <3> QED
      BY <2>1, <3>6
  <2> QED
    BY <2>2, <2>4, <2>5
<1>13. CASE n = 0
  <2>1. Decimal(0) = <<Digit[0]>>
    BY DecimalIs
  <2>2. Digit[0] = "0"
    <3>1. 0 \in 0 .. 9 /\ digits[0 + 1] = "0"
      BY DEF digits
    <3> QED
      BY <1>2, <3>1
  <2> QED
    BY <1>10, <1>13, <2>1, <2>2
<1>14. CASE n # 0
  <2>1. n \notin Bad /\ 0 < n /\ n <= n
    BY <1>12, <1>14
  <2>2. Good(n)
    BY <2>1
  <2> QED
    BY <1>10, <1>14, <2>2
<1> QED
  BY <1>13, <1>14

-----------------------------------------------------------------------------
(* What the first kernel's calls of kprintf put on the console.            *)

\* The marks without a directive in the formats of the report.
Plain == {LF, "  bootloader : ", "  mbi2 size  : ", " bytes", "  mem lower  : ", " KiB",
          "  mem upper  : ", " KiB (", " MiB)", "[ok]   Aurelion kernel reached idle loop.",
          "v1 baseline reached. Halting CPU.",
          "(Scheduler, filesystems, and Luma Shell are v2+ milestones.)"}
Headings == {LF, "banner", "[boot] long mode active", "[boot] initializing runtime GDT ...",
             "[boot] GDT loaded", "[boot] reading multiboot2 info ..."}
Given == Names \cup {"unknown"}
Marks == Plain \cup Headings \cup Given \cup Ciphers
Formats == Plain \cup {"%", "s", "u"}
Arguments == Given \cup Nat

\* A piece of a format, with the arguments it takes and what it is printed as.
PlainPiece(x) == [fmt |-> <<x>>, args |-> <<>>, text |-> <<x>>]
NamePiece(x) == [fmt |-> <<"%", "s">>, args |-> <<x>>, text |-> <<x>>]
NumberPiece(n) == [fmt |-> <<"%", "u">>, args |-> <<n>>, text |-> Decimal(n)]
Piece == {PlainPiece(x) : x \in Plain} \cup {NamePiece(x) : x \in Given}
         \cup {NumberPiece(n) : n \in Nat}
FmtOf == [p \in Piece |-> p.fmt]
ArgsOf == [p \in Piece |-> p.args]
TextOf == [p \in Piece |-> p.text]

\* A call made of pieces, and what it prints.
Flat(F, r) == FlattenSeq(Mapped(F, r))
CallOf(r) == Call(Flat(FmtOf, r), Flat(ArgsOf, r))
OneCall == [r \in Seq(Piece) |-> <<CallOf(r)>>]
OneText == [r \in Seq(Piece) |-> Flat(TextOf, r)]
Calls == {Call(f, a) : f \in Seq(Formats), a \in Seq(Arguments)}

\* The calls c, run to their end, print t.
Prints(c, t) == \E r \in Seq(Seq(Piece)) : c = Flat(OneCall, r) /\ t = Flat(OneText, r)
PrintsOne(c, t) == \E r \in Seq(Piece) : c = CallOf(r) /\ t = Flat(TextOf, r)
-----------------------------------------------------------------------------
\* The tables of pieces are typed.
LEMMA PieceIs ==
  /\ FmtOf \in [Piece -> Seq(Formats)] /\ ArgsOf \in [Piece -> Seq(Arguments)]
  /\ TextOf \in [Piece -> Seq(Marks)]
<1>1. \A x \in Plain : /\ PlainPiece(x).fmt \in Seq(Formats) /\ PlainPiece(x).args \in Seq(Arguments)
                       /\ PlainPiece(x).text \in Seq(Marks)
  <2> TAKE x \in Plain
  <2>1. x \in Formats /\ x \in Marks
    BY DEF Formats, Marks
  <2> QED
    BY <2>1 DEF PlainPiece
<1>2. \A x \in Given : /\ NamePiece(x).fmt \in Seq(Formats) /\ NamePiece(x).args \in Seq(Arguments)
                       /\ NamePiece(x).text \in Seq(Marks)
  <2> TAKE x \in Given
  <2>1. x \in Arguments /\ x \in Marks /\ "%" \in Formats /\ "s" \in Formats
    BY DEF Formats, Marks, Arguments
  <2> QED
    BY <2>1 DEF NamePiece
<1>3. \A n \in Nat : /\ NumberPiece(n).fmt \in Seq(Formats) /\ NumberPiece(n).args \in Seq(Arguments)
                     /\ NumberPiece(n).text \in Seq(Marks)
  <2> TAKE n \in Nat
  <2>1. n \in Arguments /\ "%" \in Formats /\ "u" \in Formats
    BY DEF Formats, Arguments
  <2>2. Decimal(n) \in Seq(Marks)
    <3>1. Decimal(n) \in Seq(Ciphers)
      BY DecimalIs
    <3>2. \A s \in Seq(Ciphers) : s \in Seq(Marks)
      <4>1. \A c \in Ciphers : c \in Marks
        BY DEF Marks
      <4> QED
        BY <4>1
    <3> QED
      BY <3>1, <3>2
  <2> QED
    BY <2>1, <2>2 DEF NumberPiece
<1>4. \A p \in Piece : p.fmt \in Seq(Formats) /\ p.args \in Seq(Arguments) /\ p.text \in Seq(Marks)
  BY <1>1, <1>2, <1>3 DEF Piece
<1> QED
  BY <1>4 DEF FmtOf, ArgsOf, TextOf

\* Calls made of pieces are typed, and so is what they print.
LEMMA CallIs ==
  /\ OneCall \in [Seq(Piece) -> Seq(Calls)] /\ OneText \in [Seq(Piece) -> Seq(Marks)]
  /\ \A r \in Seq(Piece) : /\ Flat(FmtOf, r) \in Seq(Formats) /\ Flat(ArgsOf, r) \in Seq(Arguments)
                           /\ Flat(TextOf, r) \in Seq(Marks)
                           /\ OneCall[r] = <<CallOf(r)>> /\ OneText[r] = Flat(TextOf, r)
                           /\ CallOf(r) \in Calls
<1>1. ASSUME NEW r \in Seq(Piece), NEW p \in Piece
      PROVE  /\ Flat(FmtOf, r) \in Seq(Formats) /\ Flat(ArgsOf, r) \in Seq(Arguments)
             /\ Flat(TextOf, r) \in Seq(Marks)
  <2>1. Flat(FmtOf, r) \in Seq(Formats)
    BY PieceIs, MappedHead DEF Flat
  <2>2. Flat(ArgsOf, r) \in Seq(Arguments)
    BY PieceIs, MappedHead DEF Flat
  <2>3. Flat(TextOf, r) \in Seq(Marks)
    BY PieceIs, MappedHead DEF Flat
  <2> QED
    BY <2>1, <2>2, <2>3
<1>2. PlainPiece(LF) \in Piece
  BY DEF Piece, Plain
<1>3. ASSUME NEW r \in Seq(Piece)
      PROVE  /\ Flat(FmtOf, r) \in Seq(Formats) /\ Flat(ArgsOf, r) \in Seq(Arguments)
             /\ Flat(TextOf, r) \in Seq(Marks) /\ CallOf(r) \in Calls
  BY <1>1, <1>2 DEF Calls, CallOf
<1>4. \A c \in Calls : <<c>> \in Seq(Calls)
  OBVIOUS
<1> QED
  BY <1>3, <1>4 DEF OneCall, OneText

\* A piece in front of a call, and a call in front of others.
LEMMA PieceFirst ==
  ASSUME NEW p \in Piece, NEW r \in Seq(Piece)
  PROVE  /\ Flat(FmtOf, <<p>> \o r) = p.fmt \o Flat(FmtOf, r)
         /\ Flat(ArgsOf, <<p>> \o r) = p.args \o Flat(ArgsOf, r)
         /\ Flat(TextOf, <<p>> \o r) = p.text \o Flat(TextOf, r)
         /\ <<p>> \o r \in Seq(Piece)
<1>1. /\ Flat(FmtOf, <<p>> \o r) = FmtOf[p] \o Flat(FmtOf, r)
      /\ Flat(ArgsOf, <<p>> \o r) = ArgsOf[p] \o Flat(ArgsOf, r)
      /\ Flat(TextOf, <<p>> \o r) = TextOf[p] \o Flat(TextOf, r)
  <2>1. Flat(FmtOf, <<p>> \o r) = FmtOf[p] \o Flat(FmtOf, r)
        /\ Flat(FmtOf, r) \in Seq(Formats)
    BY PieceIs, MappedHead DEF Flat
  <2>2. Flat(ArgsOf, <<p>> \o r) = ArgsOf[p] \o Flat(ArgsOf, r)
        /\ Flat(ArgsOf, r) \in Seq(Arguments)
    BY PieceIs, MappedHead DEF Flat
  <2>3. Flat(TextOf, <<p>> \o r) = TextOf[p] \o Flat(TextOf, r)
        /\ Flat(TextOf, r) \in Seq(Marks)
    BY PieceIs, MappedHead DEF Flat
  <2> QED
    BY <2>1, <2>2, <2>3
<1>2. FmtOf[p] = p.fmt /\ ArgsOf[p] = p.args /\ TextOf[p] = p.text
  BY DEF FmtOf, ArgsOf, TextOf
<1>3. <<p>> \o r \in Seq(Piece)
  OBVIOUS
<1> QED
  BY <1>1, <1>2, <1>3

\* The first call can be taken out, with what it prints.
LEMMA CallFirst ==
  ASSUME NEW r \in Seq(Piece), NEW R \in Seq(Seq(Piece))
  PROVE  /\ Flat(OneCall, <<r>> \o R) = <<CallOf(r)>> \o Flat(OneCall, R)
         /\ Flat(OneText, <<r>> \o R) = Flat(TextOf, r) \o Flat(OneText, R)
         /\ Flat(OneCall, R) \in Seq(Calls) /\ Flat(OneText, R) \in Seq(Marks)
         /\ <<r>> \o R \in Seq(Seq(Piece))
<1> DEFINE S == Seq(Piece)
<1>1. OneCall \in [S -> Seq(Calls)] /\ OneText \in [S -> Seq(Marks)] /\ r \in S /\ R \in Seq(S)
  BY CallIs
<1> HIDE DEF S
<1>2. /\ Flat(OneCall, <<r>> \o R) = OneCall[r] \o Flat(OneCall, R)
      /\ Flat(OneText, <<r>> \o R) = OneText[r] \o Flat(OneText, R)
      /\ Flat(OneCall, R) \in Seq(Calls) /\ Flat(OneText, R) \in Seq(Marks)
      /\ <<r>> \o R \in Seq(S)
  <2>1. Flat(OneCall, <<r>> \o R) = OneCall[r] \o Flat(OneCall, R)
        /\ Flat(OneCall, R) \in Seq(Calls)
    BY <1>1, MappedHead DEF Flat
  <2>2. Flat(OneText, <<r>> \o R) = OneText[r] \o Flat(OneText, R)
        /\ Flat(OneText, R) \in Seq(Marks)
    BY <1>1, MappedHead DEF Flat
  <2>3. <<r>> \o R \in Seq(S)
    BY <1>1
  <2> QED
    BY <2>1, <2>2, <2>3
<1> QED
  BY <1>2, CallIs DEF S

\* No calls, and a call of the empty format, print nothing.
LEMMA NothingFirst ==
  /\ \A F : Flat(F, <<>>) = <<>>
  /\ Prints(<<>>, <<>>) /\ PrintsOne(Call(<<>>, <<>>), <<>>)
<1>1. ASSUME NEW F PROVE Flat(F, <<>>) = <<>>
  <2>1. Mapped(F, <<>>) = <<>>
    BY DEF Mapped
  <2>2. FlattenSeq(<<>>) = <<>>
    BY FlattenHead DEF FlattenSeq
  <2> QED
    BY <2>1, <2>2 DEF Flat
<1>2. <<>> \in Seq(Seq(Piece)) /\ <<>> \in Seq(Piece)
  OBVIOUS
<1>3. CallOf(<<>>) = Call(<<>>, <<>>)
  BY <1>1 DEF CallOf
<1>4. Flat(OneCall, <<>>) = <<>> /\ Flat(OneText, <<>>) = <<>> /\ Flat(TextOf, <<>>) = <<>>
  BY <1>1
<1>5. Prints(<<>>, <<>>)
  BY <1>2, <1>4 DEF Prints
<1>6. PrintsOne(Call(<<>>, <<>>), <<>>)
  BY <1>2, <1>3, <1>4 DEF PrintsOne
<1> QED
  BY <1>1, <1>5, <1>6

\* A call put before others prints first.
LEMMA PrintsFirst ==
  ASSUME NEW c, NEW t, PrintsOne(c, t), NEW rest, NEW ts, Prints(rest, ts)
  PROVE  Prints(<<c>> \o rest, t \o ts)
<1>1. PICK r \in Seq(Piece) : c = CallOf(r) /\ t = Flat(TextOf, r)
  BY DEF PrintsOne
<1>2. PICK R \in Seq(Seq(Piece)) : rest = Flat(OneCall, R) /\ ts = Flat(OneText, R)
  BY DEF Prints
<1> QED
  BY <1>1, <1>2, CallFirst DEF Prints

\* A piece put before a format prints first, its arguments before the others.
LEMMA PrintsPiece ==
  ASSUME NEW p \in Piece, NEW f, NEW a, NEW t, PrintsOne(Call(f, a), t)
  PROVE  PrintsOne(Call(p.fmt \o f, p.args \o a), p.text \o t)
<1>1. PICK r \in Seq(Piece) : Call(f, a) = CallOf(r) /\ t = Flat(TextOf, r)
  BY DEF PrintsOne
<1>2. f = Flat(FmtOf, r) /\ a = Flat(ArgsOf, r)
  BY <1>1 DEF CallOf, Call
<1> QED
  BY <1>1, <1>2, PieceFirst DEF PrintsOne, CallOf

\* Calls that print something begin with a call; and so with pieces.
LEMMA PrintsTyped ==
  ASSUME NEW c, NEW t
  PROVE  /\ Prints(c, t) => c \in Seq(Calls) /\ t \in Seq(Marks)
         /\ PrintsOne(c, t) => c \in Calls /\ t \in Seq(Marks)
<1>1. ASSUME NEW R \in Seq(Seq(Piece))
      PROVE Flat(OneCall, R) \in Seq(Calls) /\ Flat(OneText, R) \in Seq(Marks)
  <2>1. <<>> \in Seq(Piece)
    OBVIOUS
  <2> QED
    BY <2>1, CallFirst
<1> QED
  BY <1>1, CallIs DEF Prints, PrintsOne

\* A sequence with one more element at its front.
LEMMA OneMore ==
  ASSUME NEW S, NEW e \in S, NEW q \in Seq(S)
  PROVE  /\ <<e>> \o q # <<>> /\ Head(<<e>> \o q) = e /\ Tail(<<e>> \o q) = q
         /\ Len(<<e>> \o q) = Len(q) + 1 /\ <<e>> \o q \in Seq(S) /\ Len(q) \in Nat
OBVIOUS

\* Two sequences put together.
LEMMA Together ==
  ASSUME NEW S, NEW u \in Seq(S), NEW v \in Seq(S)
  PROVE  u \o v \in Seq(S)
OBVIOUS
\* A step of kprintf prints the first piece of its call.
LEMMA KprintfPiece ==
  ASSUME Kprintf, NEW p \in Piece, NEW f \in Seq(Formats), NEW a \in Seq(Arguments),
         NEW rest \in Seq(Calls), calls = <<Call(p.fmt \o f, p.args \o a)>> \o rest
  PROVE  printed' = printed \o p.text /\ calls' = <<Call(f, a)>> \o rest
<1> DEFINE g == p.fmt \o f
           b == p.args \o a
           c == Call(g, b)
<1>1. p.fmt \in Seq(Formats) /\ p.args \in Seq(Arguments)
  BY PieceIs DEF FmtOf, ArgsOf
<1>2. c \in Calls /\ c.fmt = g /\ c.args = b
  <2>1. g \in Seq(Formats)
    BY <1>1, Together
  <2>2. b \in Seq(Arguments)
    BY <1>1, Together
  <2> HIDE DEF g, b
  <2> QED
    BY <2>1, <2>2 DEF Calls, Call
<1> HIDE DEF c
<1>3. Head(calls) = c /\ Tail(calls) = rest
  BY <1>2, OneMore DEF c
<1>4. \/ c.fmt = <<>>
      \/ /\ c.fmt # <<>> /\ Head(c.fmt) # "%"
         /\ printed' = Append(printed, Head(c.fmt)) /\ calls' = <<Call(Tail(c.fmt), c.args)>> \o rest
      \/ /\ Len(c.fmt) > 1 /\ Head(c.fmt) = "%"
         /\ printed' = printed \o (IF Takes(c.fmt[2]) THEN Conversion(c.fmt[2], Head(c.args))
                                   ELSE IF c.fmt[2] = "%" THEN <<"%">> ELSE <<"%", c.fmt[2]>>)
         /\ calls' = <<Call(Tail(Tail(c.fmt)), IF Takes(c.fmt[2]) THEN Tail(c.args) ELSE c.args)>> \o rest
  BY <1>3 DEF Kprintf
<1>5. ASSUME NEW m \in Plain, p = PlainPiece(m) PROVE printed' = printed \o p.text /\ calls' = <<Call(f, a)>> \o rest
  <2>1. p.fmt = <<m>> /\ p.args = <<>> /\ p.text = <<m>> /\ m # "%" /\ m \in Formats
    BY <1>5 DEF PlainPiece, Plain, LF, Formats
  <2>2. g # <<>> /\ Head(g) = m /\ Tail(g) = f
    BY <2>1, OneMore
  <2>3. b = a
    BY <2>1
  <2> HIDE DEF g, b
  <2>4. printed' = Append(printed, m) /\ calls' = <<Call(f, a)>> \o rest
    BY <1>2, <1>4, <2>1, <2>2, <2>3
  <2> QED
    BY <2>1, <2>4
<1>6. ASSUME NEW d \in {"s", "u"}, NEW x \in Arguments, p.fmt = <<"%", d>>, p.args = <<x>>,
             p.text = Conversion(d, x)
      PROVE  printed' = printed \o p.text /\ calls' = <<Call(f, a)>> \o rest
  <2> DEFINE h == <<d>> \o f
  <2>1. d \in Formats /\ "%" \in Formats
    BY DEF Formats
  <2>2. h \in Seq(Formats) /\ h[1] = d /\ Tail(h) = f /\ Len(h) > 0
    BY <2>1
  <2>3. g = <<"%">> \o h
    <3>1. <<"%", d>> = <<"%">> \o <<d>>
      BY PairIs
    <3> DEFINE k == <<"%">>
               l == <<d>>
    <3>2. k \in Seq(Formats) /\ l \in Seq(Formats) /\ g = (k \o l) \o f /\ h = l \o f
      BY <1>6, <2>1, <3>1
    <3> HIDE DEF k, l, g, h
    <3>3. Cat(Cat(k, l), f) = Cat(k, Cat(l, f))
      BY <3>2, CatIs
    <3> QED
      BY <3>2, <3>3 DEF k, Cat
  <2> HIDE DEF g, h
  <2>4. Head(g) = "%" /\ Tail(g) = h /\ Len(g) > 1 /\ g # <<>> /\ g[2] = d
    <3>1. Len(g) = Len(h) + 1 /\ g # <<>> /\ Head(g) = "%" /\ Tail(g) = h /\ Len(h) \in Nat
      BY <2>1, <2>2, <2>3, OneMore
    <3>2. g[2] = h[1]
      BY <2>1, <2>2, <2>3
    <3> QED
      BY <2>2, <3>1, <3>2
  <2>5. Head(b) = x /\ Tail(b) = a
    BY <1>6, OneMore
  <2>6. Takes(d)
    BY DEF Takes
  <2> HIDE DEF b
  <2>7. printed' = printed \o Conversion(d, x) /\ calls' = <<Call(f, a)>> \o rest
    BY <1>2, <1>4, <2>2, <2>4, <2>5, <2>6
  <2> QED
    BY <1>6, <2>7
<1>7. ASSUME NEW x \in Given, p = NamePiece(x)
      PROVE  printed' = printed \o p.text /\ calls' = <<Call(f, a)>> \o rest
  <2>1. p.fmt = <<"%", "s">> /\ p.args = <<x>> /\ p.text = <<x>> /\ x \in Arguments
    BY <1>7 DEF NamePiece, Arguments
  <2>2. Conversion("s", x) = <<x>>
    BY DEF Conversion
  <2> QED
    BY <1>6, <2>1, <2>2
<1>8. ASSUME NEW n \in Nat, p = NumberPiece(n)
      PROVE  printed' = printed \o p.text /\ calls' = <<Call(f, a)>> \o rest
  <2>1. p.fmt = <<"%", "u">> /\ p.args = <<n>> /\ p.text = Decimal(n) /\ n \in Arguments
    BY <1>8 DEF NumberPiece, Arguments
  <2>2. Conversion("u", n) = Uitoa(n, 10)
    BY DEF Conversion
  <2>3. Uitoa(n, 10) = Decimal(n)
    BY UitoaIs
  <2> QED
    BY <1>6, <2>1, <2>2, <2>3
<1> QED
  BY <1>5, <1>7, <1>8 DEF Piece

\* What is printed and what the calls to come print stay the same together.
LEMMA KprintfPrints ==
  ASSUME Kprintf, NEW t, Prints(calls, t), printed \in Seq(Marks)
  PROVE  /\ printed' \in Seq(Marks)
         /\ \E u : Prints(calls', u) /\ printed' \o u = printed \o t
<1>1. PICK R \in Seq(Seq(Piece)) : calls = Flat(OneCall, R) /\ t = Flat(OneText, R)
  BY DEF Prints
<1>2. R # <<>>
  BY <1>1, NothingFirst DEF Kprintf
<1> DEFINE r == Head(R)
           Q == Tail(R)
           rest == Flat(OneCall, Q)
           ts == Flat(OneText, Q)
<1>3. r \in Seq(Piece) /\ Q \in Seq(Seq(Piece)) /\ R = <<r>> \o Q
  BY <1>2, SplitHead
<1> HIDE DEF r, Q
<1>4. /\ calls = <<CallOf(r)>> \o rest /\ t = Flat(TextOf, r) \o ts
      /\ rest \in Seq(Calls) /\ ts \in Seq(Marks) /\ Prints(rest, ts)
  BY <1>1, <1>3, CallFirst DEF Prints
<1> HIDE DEF rest, ts
<1>5. CASE r = <<>>
  <2>1. CallOf(r) = Call(<<>>, <<>>) /\ Flat(TextOf, r) = <<>>
    BY <1>5, NothingFirst DEF CallOf
  <2>2. CallOf(r) \in Calls
    BY <1>3, CallIs
  <2>3. Head(calls) = CallOf(r) /\ Tail(calls) = rest
    BY <1>4, <2>2, OneMore
  <2>4. Head(calls).fmt = <<>>
    BY <2>1, <2>3 DEF Call
  <2>5. calls' = rest /\ printed' = printed
    <3> DEFINE g == Head(calls).fmt
    <3>1. \/ calls' = Tail(calls) /\ printed' = printed
          \/ g # <<>> \/ Len(g) > 1
      BY DEF Kprintf
    <3>2. ~(g # <<>>) /\ ~(Len(g) > 1)
      BY <2>4
    <3> HIDE DEF g
    <3> QED
      BY <2>3, <3>1, <3>2
  <2>6. t = ts
    BY <1>4, <2>1
  <2> QED
    BY <1>4, <2>5, <2>6
<1>6. CASE r # <<>>
  <2> DEFINE p == Head(r)
             q == Tail(r)
             f == Flat(FmtOf, q)
             a == Flat(ArgsOf, q)
             x == Flat(TextOf, q)
  <2>1. p \in Piece /\ q \in Seq(Piece) /\ r = <<p>> \o q
    BY <1>3, <1>6, SplitHead
  <2> HIDE DEF p, q
  <2>2. f \in Seq(Formats) /\ a \in Seq(Arguments) /\ x \in Seq(Marks) /\ PrintsOne(Call(f, a), x)
    BY <2>1, CallIs DEF PrintsOne, CallOf
  <2>3. CallOf(r) = Call(p.fmt \o f, p.args \o a) /\ Flat(TextOf, r) = p.text \o x
    BY <2>1, PieceFirst DEF CallOf
  <2> HIDE DEF f, a, x
  <2>4. printed' = printed \o p.text /\ calls' = <<Call(f, a)>> \o rest
    BY <1>4, <2>1, <2>2, <2>3, KprintfPiece
  <2>5. Prints(calls', x \o ts)
    BY <1>4, <2>2, <2>4, PrintsFirst
  <2>6. p.text \in Seq(Marks)
    BY <2>1, PieceIs DEF TextOf
  <2> DEFINE y == p.text
             z == printed
  <2>7. (z \o y) \o (x \o ts) = z \o ((y \o x) \o ts)
    <3>1. y \in Seq(Marks) /\ z \in Seq(Marks) /\ x \in Seq(Marks) /\ ts \in Seq(Marks)
      BY <1>4, <2>2, <2>6
    <3> HIDE DEF y, z
    <3> QED
      BY <3>1
  <2>8. printed' \o (x \o ts) = printed \o t
    BY <1>4, <2>3, <2>4, <2>7
  <2>9. printed' \in Seq(Marks)
    <3>1. \A u, v \in Seq(Marks) : u \o v \in Seq(Marks)
      OBVIOUS
    <3> QED
      BY <2>4, <2>6, <3>1, Zenon
  <2> QED
    BY <2>5, <2>8, <2>9
<1> QED
  BY <1>5, <1>6

\* A pair in front of a sequence.
LEMMA PairFirst ==
  ASSUME NEW S, NEW a \in S, NEW b \in S, NEW q \in Seq(S)
  PROVE  <<a, b>> \o q = <<a>> \o (<<b>> \o q)
<1> DEFINE x == <<a>>
           y == <<b>>
<1>1. x \in Seq(S) /\ y \in Seq(S) /\ q \in Seq(S)
  OBVIOUS
<1>2. <<a, b>> = x \o y
  BY PairIs
<1> HIDE DEF x, y
<1>3. (x \o y) \o q = x \o (y \o q)
  BY <1>1
<1> QED
  BY <1>2, <1>3 DEF x, y

-----------------------------------------------------------------------------
\* The call c and then those in s print u.
PrintsThen(c, s, u) == \E t, v : PrintsOne(c, t) /\ Prints(s, v) /\ u = t \o v

\* A piece put before the format of the first call prints first.
LEMMA ThenPiece ==
  ASSUME NEW p \in Piece, NEW f, NEW a, NEW s, NEW u, PrintsThen(Call(f, a), s, u)
  PROVE  PrintsThen(Call(p.fmt \o f, p.args \o a), s, p.text \o u) /\ a \in Seq(Arguments)
<1>1. PICK t, v : PrintsOne(Call(f, a), t) /\ Prints(s, v) /\ u = t \o v
  BY DEF PrintsThen
<1>2. PrintsOne(Call(p.fmt \o f, p.args \o a), p.text \o t)
  BY <1>1, PrintsPiece
<1> DEFINE w == p.text
<1>3. t \in Seq(Marks) /\ v \in Seq(Marks) /\ w \in Seq(Marks)
  BY <1>1, PrintsTyped, PieceIs DEF TextOf
<1> HIDE DEF w
<1>4. w \o (t \o v) = (w \o t) \o v
  BY <1>3
<1>5. PICK r \in Seq(Piece) : Call(f, a) = CallOf(r)
  BY <1>1 DEF PrintsOne
<1>6. a \in Seq(Arguments)
  BY <1>5, CallIs DEF CallOf, Call
<1> QED
  BY <1>1, <1>2, <1>4, <1>6 DEF PrintsThen, w

\* The three kinds of pieces: plain text, a name and a number.
LEMMA ThenFirst ==
  ASSUME NEW f, NEW a, NEW s, NEW u, PrintsThen(Call(f, a), s, u)
  PROVE  /\ \A x \in Plain : PrintsThen(Call(<<x>> \o f, a), s, <<x>> \o u)
         /\ \A x \in Given : PrintsThen(Call(<<"%", "s">> \o f, <<x>> \o a), s, <<x>> \o u)
         /\ \A n \in Nat : PrintsThen(Call(<<"%", "u">> \o f, <<n>> \o a), s, Decimal(n) \o u)
<1>1. ASSUME NEW x \in Plain PROVE PrintsThen(Call(<<x>> \o f, a), s, <<x>> \o u)
  <2> DEFINE p == PlainPiece(x)
  <2>1. p \in Piece /\ p.fmt = <<x>> /\ p.args = <<>> /\ p.text = <<x>>
    BY DEF Piece, PlainPiece
  <2> HIDE DEF p
  <2>2. PrintsThen(Call(p.fmt \o f, p.args \o a), s, p.text \o u) /\ a \in Seq(Arguments)
    BY <2>1, ThenPiece
  <2>3. <<>> \o a = a
    BY <2>2
  <2> QED
    BY <2>1, <2>2, <2>3
<1>2. ASSUME NEW x \in Given
      PROVE  PrintsThen(Call(<<"%", "s">> \o f, <<x>> \o a), s, <<x>> \o u)
  <2> DEFINE p == NamePiece(x)
  <2>1. p \in Piece /\ p.fmt = <<"%", "s">> /\ p.args = <<x>> /\ p.text = <<x>>
    BY DEF Piece, NamePiece
  <2> HIDE DEF p
  <2>2. PrintsThen(Call(p.fmt \o f, p.args \o a), s, p.text \o u)
    BY <2>1, ThenPiece
  <2> QED
    BY <2>1, <2>2
<1>3. ASSUME NEW n \in Nat
      PROVE  PrintsThen(Call(<<"%", "u">> \o f, <<n>> \o a), s, Decimal(n) \o u)
  <2> DEFINE p == NumberPiece(n)
  <2>1. p \in Piece /\ p.fmt = <<"%", "u">> /\ p.args = <<n>> /\ p.text = Decimal(n)
    BY DEF Piece, NumberPiece
  <2> HIDE DEF p
  <2>2. PrintsThen(Call(p.fmt \o f, p.args \o a), s, p.text \o u)
    BY <2>1, ThenPiece
  <2> QED
    BY <2>1, <2>2
<1> QED
  BY <1>1, <1>2, <1>3

\* A call that is done, or has only its end of line left.
LEMMA ThenLast ==
  ASSUME NEW s, NEW u, Prints(s, u)
  PROVE  PrintsThen(Call(<<>>, <<>>), s, u) /\ PrintsThen(Call(<<LF>>, <<>>), s, <<LF>> \o u)
<1>1. <<>> \o u = u
  BY PrintsTyped
<1>2. PrintsThen(Call(<<>>, <<>>), s, u)
  BY <1>1, NothingFirst DEF PrintsThen
<1>3. PrintsThen(Call(<<LF>> \o <<>>, <<>>), s, <<LF>> \o u)
  BY <1>2, ThenFirst DEF Plain
<1>4. <<LF>> = <<LF>> \o <<>>
  OBVIOUS
<1> QED
  BY <1>2, <1>3, <1>4

\* A whole call, then the others.
LEMMA ThenAll ==
  ASSUME NEW c, NEW s, NEW u, PrintsThen(c, s, u)
  PROVE  Prints(<<c>> \o s, u)
BY PrintsFirst DEF PrintsThen

\* The calls of the report: a line, a name, a number, two numbers.
LEMMA LinePrints ==
  ASSUME NEW s, NEW u, Prints(s, u)
  PROVE  /\ Prints(<<Call(<<LF>>, <<>>)>> \o s, <<LF>> \o u)
         /\ \A x \in Plain : Prints(<<CallLn(x)>> \o s, <<x, LF>> \o u)
<1>1. PrintsThen(Call(<<LF>>, <<>>), s, <<LF>> \o u)
  BY ThenLast
<1>2. ASSUME NEW x \in Plain PROVE Prints(<<CallLn(x)>> \o s, <<x, LF>> \o u)
  <2>1. PrintsThen(Call(<<x>> \o <<LF>>, <<>>), s, <<x>> \o (<<LF>> \o u))
    BY <1>1, ThenFirst
  <2>2. x \in Marks /\ LF \in Marks /\ u \in Seq(Marks)
    BY PrintsTyped DEF Marks, Plain
  <2>3. <<x, LF>> = <<x>> \o <<LF>>
    BY PairIs
  <2>4. <<x, LF>> \o u = <<x>> \o (<<LF>> \o u)
    BY <2>2, PairFirst
  <2> QED
    BY <2>1, <2>3, <2>4, ThenAll DEF CallLn
<1> QED
  BY <1>1, <1>2, ThenAll

\* The line of the report that names the boot loader.
LEMMA NamePrints ==
  ASSUME NEW s, NEW u, Prints(s, u), NEW x \in Given, NEW b \in Plain
  PROVE  Prints(<<Call(<<b, "%", "s", LF>>, <<x>>)>> \o s, <<b, x, LF>> \o u)
<1>1. PrintsThen(Call(<<"%", "s">> \o <<LF>>, <<x>> \o <<>>), s, <<x>> \o (<<LF>> \o u))
  BY ThenLast, ThenFirst
<1>2. <<x>> = <<x>> \o <<>>
  OBVIOUS
<1>3. <<"%", "s", LF>> = <<"%", "s">> \o <<LF>>
  OBVIOUS
<1> DEFINE f == <<"%", "s", LF>>
           v == <<x>> \o (<<LF>> \o u)
<1>4. PrintsThen(Call(f, <<x>>), s, v)
  BY <1>1, <1>2, <1>3
<1>5. <<b, "%", "s", LF>> = <<b>> \o f
  OBVIOUS
<1>6. <<b, x, LF>> \o u = <<b>> \o v
  <2>1. b \in Marks /\ x \in Marks /\ LF \in Marks /\ u \in Seq(Marks)
    BY PrintsTyped DEF Marks, Plain
  <2>2. <<x, LF>> \o u = v
    BY <2>1, PairFirst
  <2> DEFINE j == <<b>>
             k == <<x, LF>>
  <2>3. j \in Seq(Marks) /\ k \in Seq(Marks) /\ u \in Seq(Marks)
    BY <2>1
  <2>4. <<b, x, LF>> = j \o k
    OBVIOUS
  <2> HIDE DEF j, k
  <2>5. (j \o k) \o u = j \o (k \o u)
    BY <2>3
  <2> HIDE DEF v
  <2> QED
    BY <2>2, <2>4, <2>5 DEF j, k
<1> HIDE DEF f, v
<1>7. PrintsThen(Call(<<b>> \o f, <<x>>), s, <<b>> \o v)
  BY <1>4, ThenFirst
<1> QED
  BY <1>5, <1>6, <1>7, ThenAll

\* A line of the report with a number.
LEMMA NumberPrints ==
  ASSUME NEW s, NEW u, Prints(s, u), NEW n \in Nat, NEW b \in Plain, NEW c \in Plain
  PROVE  /\ PrintsThen(Call(<<b, "%", "u", c, LF>>, <<n>>), s,
                       <<b>> \o (Decimal(n) \o (<<c, LF>> \o u)))
         /\ Prints(<<Call(<<b, "%", "u", c, LF>>, <<n>>)>> \o s,
                   <<b>> \o (Decimal(n) \o (<<c, LF>> \o u)))
<1>1. PrintsThen(Call(<<c>> \o <<LF>>, <<>>), s, <<c>> \o (<<LF>> \o u))
  BY ThenLast, ThenFirst
<1> DEFINE e == <<c, LF>>
           v == <<c, LF>> \o u
           f == <<"%", "u", c, LF>>
           w == Decimal(n) \o v
<1>2. PrintsThen(Call(e, <<>>), s, v)
  <2>1. c \in Marks /\ LF \in Marks /\ u \in Seq(Marks)
    BY PrintsTyped DEF Marks, Plain
  <2>2. v = <<c>> \o (<<LF>> \o u)
    BY <2>1, PairFirst
  <2>3. e = <<c>> \o <<LF>>
    BY PairIs
  <2> HIDE DEF e, v
  <2> QED
    BY <1>1, <2>2, <2>3
<1>3. f = <<"%", "u">> \o e
  OBVIOUS
<1>4. <<n>> = <<n>> \o <<>>
  OBVIOUS
<1>5. <<b, "%", "u", c, LF>> = <<b>> \o f
  OBVIOUS
<1> HIDE DEF e, f, v
<1>6. PrintsThen(Call(f, <<n>>), s, w)
  BY <1>2, <1>3, <1>4, ThenFirst
<1> HIDE DEF w
<1>7. PrintsThen(Call(<<b>> \o f, <<n>>), s, <<b>> \o w)
  BY <1>6, ThenFirst
<1> QED
  BY <1>5, <1>7, ThenAll DEF v, w

\* The line of the report with two numbers.
LEMMA NumbersPrint ==
  ASSUME NEW s, NEW u, Prints(s, u), NEW n \in Nat, NEW m \in Nat,
         NEW b \in Plain, NEW c \in Plain, NEW d \in Plain
  PROVE  Prints(<<Call(<<b, "%", "u", c, "%", "u", d, LF>>, <<n, m>>)>> \o s,
                <<b>> \o (Decimal(n) \o (<<c>> \o (Decimal(m) \o (<<d, LF>> \o u)))))
<1> DEFINE v == <<c>> \o (Decimal(m) \o (<<d, LF>> \o u))
           g == <<c, "%", "u", d, LF>>
           h == <<"%", "u", c, "%", "u", d, LF>>
           w == Decimal(n) \o v
<1>1. PrintsThen(Call(g, <<m>>), s, v)
  BY NumberPrints
<1>2. <<n, m>> = <<n>> \o <<m>>
  BY PairIs
<1>3. h = <<"%", "u">> \o g
  OBVIOUS
<1>4. <<b, "%", "u", c, "%", "u", d, LF>> = <<b>> \o h
  OBVIOUS
<1> HIDE DEF g, h, v
<1>5. PrintsThen(Call(h, <<n, m>>), s, w)
  BY <1>1, <1>2, <1>3, ThenFirst
<1> HIDE DEF w
<1>6. PrintsThen(Call(<<b>> \o h, <<n, m>>), s, <<b>> \o w)
  BY <1>5, ThenFirst
<1> QED
  BY <1>4, <1>6, ThenAll DEF v, w

\* The first part of a list of parts, put together.
Texts == Seq(Marks)
\* Texts and sequences of texts, which FlattenSeq puts together.
Parts == Seq(Texts)
\* The first text can be taken out.
LEMMA FlattenFirst ==
  ASSUME NEW a \in Texts, NEW n \in Parts, NEW m, m = <<a>> \o n
  PROVE  FlattenSeq(m) = a \o FlattenSeq(n) /\ FlattenSeq(n) \in Texts /\ m \in Parts
<1>1. a \in Texts /\ n \in Seq(Texts)
  BY DEF Parts
<1>2. FlattenSeq(<<a>> \o n) = a \o FlattenSeq(n) /\ FlattenSeq(n) \in Seq(Marks)
  BY <1>1, FlattenHead DEF Texts
<1>3. <<a>> \o n \in Seq(Texts)
  BY <1>1
<1> QED
  BY <1>2, <1>3 DEF Texts, Parts

\* A tuple in front of a sequence, its first element first.
LEMMA TupleFirst ==
  ASSUME NEW S, NEW a \in S, NEW r \in Seq(S), NEW q \in Seq(S),
         NEW t, t = <<a>> \o r, NEW n, n = r \o q, NEW m, m = <<a>> \o n
  PROVE  m = t \o q
<1> DEFINE x == <<a>>
<1>1. x \in Seq(S) /\ r \in Seq(S) /\ q \in Seq(S)
  OBVIOUS
<1> HIDE DEF x
<1>2. (x \o r) \o q = x \o (r \o q)
  BY <1>1
<1> QED
  BY <1>2 DEF x

\* A sequence of four, an element at a time.
LEMMA FourIs ==
  ASSUME NEW a, NEW b, NEW c, NEW d
  PROVE  <<a, b, c, d>> = <<a>> \o (<<b>> \o (<<c>> \o (<<d>> \o <<>>)))
<1>1. <<a, b, c, d>> = <<a>> \o <<b, c, d>>
  OBVIOUS
<1>2. <<b, c, d>> = <<b>> \o <<c, d>>
  OBVIOUS
<1>3. <<c, d>> = <<c>> \o <<d>>
  BY PairIs
<1>4. <<d>> = <<d>> \o <<>>
  OBVIOUS
<1> QED
  BY <1>1, <1>2, <1>3, <1>4

\* The closing calls print their formats.
ClosingTexts == [k \in DOMAIN Closing |-> Closing[k].fmt]
\* What the kernel prints before it halts.
LEMMA ClosingPrints ==
  /\ Prints(Closing, FlattenSeq(ClosingTexts))
  /\ ClosingTexts \in Seq(Seq(Marks)) /\ Closing \in Seq(Calls)
<1> DEFINE a == "[ok]   Aurelion kernel reached idle loop."
           b == "v1 baseline reached. Halting CPU."
           c == "(Scheduler, filesystems, and Luma Shell are v2+ milestones.)"
           A == CallLn(a)
           L == Call(<<LF>>, <<>>)
           B == CallLn(b)
           C == CallLn(c)
           x == <<a, LF>>
           y == <<LF>>
           z == <<b, LF>>
           w == <<c, LF>>
<1>1. a \in Plain /\ b \in Plain /\ c \in Plain /\ LF \in Plain
  BY DEF Plain
<1>2. Closing = <<A, L, B, C>>
  BY DEF Closing
<1>3. A.fmt = x /\ L.fmt = y /\ B.fmt = z /\ C.fmt = w
  BY DEF CallLn, Call
<1>4. ASSUME NEW s, NEW u, Prints(s, u)
      PROVE  /\ Prints(<<A>> \o s, x \o u) /\ Prints(<<L>> \o s, y \o u)
             /\ Prints(<<B>> \o s, z \o u) /\ Prints(<<C>> \o s, w \o u)
  BY <1>1, <1>4, LinePrints
<1>5. x \in Seq(Marks) /\ y \in Seq(Marks) /\ z \in Seq(Marks) /\ w \in Seq(Marks)
  <2>1. \A e \in Plain : e \in Marks
    BY DEF Marks
  <2>2. a \in Marks /\ b \in Marks /\ c \in Marks /\ LF \in Marks
    BY <1>1, <2>1
  <2> HIDE DEF a, b, c
  <2> QED
    BY <2>2
<1> HIDE DEF a, b, c, A, B, C, L, x, y, z, w
<1>6. Prints(<<C>> \o <<>>, w \o <<>>)
  BY <1>4, NothingFirst
<1>7. Prints(<<B>> \o (<<C>> \o <<>>), z \o (w \o <<>>))
  BY <1>4, <1>6
<1>8. Prints(<<L>> \o (<<B>> \o (<<C>> \o <<>>)), y \o (z \o (w \o <<>>)))
  BY <1>4, <1>7
<1>9. Prints(<<A>> \o (<<L>> \o (<<B>> \o (<<C>> \o <<>>))), x \o (y \o (z \o (w \o <<>>))))
  BY <1>4, <1>8
<1>10. <<A, L, B, C>> = <<A>> \o (<<L>> \o (<<B>> \o (<<C>> \o <<>>)))
  BY FourIs
<1>11. ClosingTexts = <<x, y, z, w>> /\ ClosingTexts \in Seq(Seq(Marks))
  <2>1. DOMAIN <<A, L, B, C>> = 1 .. 4
    OBVIOUS
  <2> DEFINE q == [k \in 1 .. 4 |-> <<A, L, B, C>>[k].fmt]
             r == <<x, y, z, w>>
             S == Seq(Marks)
  <2>2. \A k \in 1 .. 4 : <<A, L, B, C>>[k].fmt = r[k]
    BY <1>3
  <2>3. r \in Seq(S) /\ Len(r) = 4
    BY <1>5
  <2>4. \A k \in 1 .. 4 : r[k] \in S
    BY <1>5
  <2> HIDE DEF r, S
  <2>5. q = [k \in 1 .. 4 |-> r[k]]
    BY <2>2
  <2>6. q \in Seq(S) /\ Len(q) = 4 /\ \A k \in 1 .. 4 : q[k] = r[k]
    BY <2>4, <2>5
  <2> HIDE DEF q
  <2>7. q = r
    BY <2>3, <2>6, SeqEqual
  <2> QED
    BY <1>2, <2>1, <2>6, <2>7 DEF q, r, S, ClosingTexts
<1>12. FlattenSeq(<<x, y, z, w>>) = x \o (y \o (z \o (w \o <<>>)))
  <2>1. <<x, y, z, w>> = <<x>> \o (<<y>> \o (<<z>> \o (<<w>> \o <<>>)))
    BY FourIs
  <2> DEFINE S == Seq(Marks)
             h == <<w>> \o <<>>
             j == <<z>> \o h
             k == <<y>> \o j
  <2>2. <<>> \in Seq(S) /\ h \in Seq(S) /\ j \in Seq(S) /\ k \in Seq(S)
    BY <1>5
  <2> HIDE DEF h, j, k
  <2>3. FlattenSeq(<<x>> \o k) = x \o FlattenSeq(k)
    BY <1>5, <2>2, FlattenHead
  <2>4. FlattenSeq(<<y>> \o j) = y \o FlattenSeq(j)
    BY <1>5, <2>2, FlattenHead
  <2>5. FlattenSeq(<<z>> \o h) = z \o FlattenSeq(h)
    BY <1>5, <2>2, FlattenHead
  <2>6. FlattenSeq(<<w>> \o <<>>) = w \o FlattenSeq(<<>>)
    BY <1>5, <2>2, FlattenHead
  <2>7. FlattenSeq(<<>>) = <<>>
    BY DEF FlattenSeq
  <2> QED
    BY <2>1, <2>3, <2>4, <2>5, <2>6, <2>7 DEF h, j, k
<1> QED
  BY <1>2, <1>9, <1>10, <1>11, <1>12, PrintsTyped

\* What the report's calls say of a memory tag.
MemoryCalls(l, u) ==
  <<Call(<<"  mem lower  : ", "%", "u", " KiB", LF>>, <<l>>),
    Call(<<"  mem upper  : ", "%", "u", " KiB (", "%", "u", " MiB)", LF>>, <<u, u \div 1024>>)>>
MemoryTexts(l, u) ==
  <<<<"  mem lower  : ">>, Decimal(l), <<" KiB", LF>>,
    <<"  mem upper  : ">>, Decimal(u), <<" KiB (">>, Decimal(u \div 1024), <<" MiB)", LF>>>>

\* A memory tag's lines print its two sizes.
LEMMA MemoryPrints ==
  ASSUME NEW l \in Nat, NEW u \in Nat, NEW s, NEW q \in Seq(Seq(Marks)), Prints(s, FlattenSeq(q))
  PROVE  /\ Prints(MemoryCalls(l, u) \o s, FlattenSeq(MemoryTexts(l, u) \o q))
         /\ MemoryTexts(l, u) \in Seq(Seq(Marks)) /\ MemoryCalls(l, u) \in Seq(Calls)
<1> DEFINE v == u \div 1024
           A == Call(<<"  mem lower  : ", "%", "u", " KiB", LF>>, <<l>>)
           B == Call(<<"  mem upper  : ", "%", "u", " KiB (", "%", "u", " MiB)", LF>>, <<u, v>>)
           a == <<"  mem lower  : ">>
           b == Decimal(l)
           c == <<" KiB", LF>>
           d == <<"  mem upper  : ">>
           e == Decimal(u)
           f == <<" KiB (">>
           g == Decimal(v)
           h == <<" MiB)", LF>>
           p == FlattenSeq(q)
<1>1. v \in Nat
  OBVIOUS
<1>2. {"  mem lower  : ", " KiB", "  mem upper  : ", " KiB (", " MiB)", LF} \subseteq Plain
  BY DEF Plain
<1>3. /\ MemoryCalls(l, u) = <<A, B>>
      /\ MemoryTexts(l, u) = <<a, b, c, d, e, f, g, h>>
  BY DEF MemoryCalls, MemoryTexts
<1>4. Prints(<<B>> \o s, d \o (e \o (f \o (g \o (h \o p)))))
  <2> HIDE DEF v, p
  <2> QED
    BY <1>1, <1>2, NumbersPrint DEF p
<1>5. Prints(<<A>> \o (<<B>> \o s), a \o (b \o (c \o (d \o (e \o (f \o (g \o (h \o p))))))))
  <2> DEFINE w == d \o (e \o (f \o (g \o (h \o p))))
             t == <<B>> \o s
  <2> HIDE DEF A, B, a, b, c, d, e, f, g, h, p
  <2>1. Prints(t, w)
    BY <1>4
  <2> HIDE DEF t, w
  <2>2. Prints(<<A>> \o t, a \o (b \o (c \o w)))
    BY <2>1, <1>2, NumberPrints DEF A, a, b, c
  <2> QED
    BY <2>2 DEF t, w
<1>6. {a, b, c, d, e, f, g, h} \subseteq Seq(Marks)
  <2>1. \A n \in Nat : Decimal(n) \in Seq(Marks)
    <3> TAKE n \in Nat
    <3>1. NumberPiece(n) \in Piece /\ NumberPiece(n).text = Decimal(n)
      BY DEF Piece, NumberPiece
    <3>2. TextOf[NumberPiece(n)] = Decimal(n)
      BY <3>1 DEF TextOf
    <3> QED
      BY <3>1, <3>2, PieceIs
  <2>2. b \in Seq(Marks) /\ e \in Seq(Marks) /\ g \in Seq(Marks)
    BY <1>1, <2>1
  <2>3. \A x \in Plain : x \in Marks
    BY DEF Marks
  <2>4. a \in Seq(Marks) /\ c \in Seq(Marks) /\ d \in Seq(Marks) /\ f \in Seq(Marks) /\ h \in Seq(Marks)
    <3>1. {"  mem lower  : ", " KiB", "  mem upper  : ", " KiB (", " MiB)", LF} \subseteq Marks
      BY <1>2, <2>3
    <3>2. \A x, y \in Marks : <<x>> \in Seq(Marks) /\ <<x, y>> \in Seq(Marks)
      OBVIOUS
    <3> HIDE DEF Marks
    <3> QED
      BY <3>1, <3>2
  <2> HIDE DEF a, b, c, d, e, f, g, h
  <2> QED
    BY <2>2, <2>4
<1>7. A \in Calls /\ B \in Calls
  <2> DEFINE x == <<"  mem lower  : ", "%", "u", " KiB", LF>>
             y == <<"  mem upper  : ", "%", "u", " KiB (", "%", "u", " MiB)", LF>>
             z == <<l>>
             w == <<u, v>>
  <2>1. /\ "  mem lower  : " \in Formats /\ " KiB" \in Formats /\ "  mem upper  : " \in Formats
        /\ " KiB (" \in Formats /\ " MiB)" \in Formats /\ LF \in Formats
        /\ "%" \in Formats /\ "u" \in Formats
    BY <1>2 DEF Formats
  <2>2. x \in Seq(Formats)
    <3> HIDE DEF LF
    <3>1. \A k0, j, k, m, n \in Formats : <<k0, j, k, m, n>> \in Seq(Formats)
      OBVIOUS
    <3> QED
      BY <2>1, <3>1
  <2>3. y \in Seq(Formats)
    <3>1. \A k0, j, k, m, n, o, q1, r \in Formats : <<k0, j, k, m, n, o, q1, r>> \in Seq(Formats)
      OBVIOUS
    <3> QED
      BY <2>1, <3>1
  <2>4. z \in Seq(Arguments) /\ w \in Seq(Arguments)
    BY <1>1 DEF Arguments
  <2> HIDE DEF x, y, z, w
  <2>5. Call(x, z) \in Calls /\ Call(y, w) \in Calls
    BY <2>2, <2>3, <2>4 DEF Calls
  <2> QED
    BY <2>5 DEF x, y, z, w
<1> HIDE DEF A, B, a, b, c, d, e, f, g, h, p
<1> DEFINE m8 == <<h>> \o q
           m7 == <<g>> \o m8
           m6 == <<f>> \o m7
           m5 == <<e>> \o m6
           m4 == <<d>> \o m5
           m3 == <<c>> \o m4
           m2 == <<b>> \o m3
           m1 == <<a>> \o m2
           t1 == <<a, b, c, d, e, f, g, h>>
           t2 == <<b, c, d, e, f, g, h>>
           t3 == <<c, d, e, f, g, h>>
           t4 == <<d, e, f, g, h>>
           t5 == <<e, f, g, h>>
           t6 == <<f, g, h>>
           t7 == <<g, h>>
           t8 == <<h>>
<1>8. /\ a \in Texts /\ b \in Texts /\ c \in Texts /\ d \in Texts
      /\ e \in Texts /\ f \in Texts /\ g \in Texts /\ h \in Texts /\ q \in Parts
  BY <1>6 DEF Texts, Parts
<1>9. FlattenSeq(m8) = h \o p /\ m8 \in Parts
  BY <1>8, FlattenFirst DEF p
<1> HIDE DEF m8
<1>10. FlattenSeq(m7) = g \o FlattenSeq(m8) /\ m7 \in Parts
  BY <1>8, <1>9, FlattenFirst
<1> HIDE DEF m7
<1>11. FlattenSeq(m6) = f \o FlattenSeq(m7) /\ m6 \in Parts
  BY <1>8, <1>10, FlattenFirst
<1> HIDE DEF m6
<1>12. FlattenSeq(m5) = e \o FlattenSeq(m6) /\ m5 \in Parts
  BY <1>8, <1>11, FlattenFirst
<1> HIDE DEF m5
<1>13. FlattenSeq(m4) = d \o FlattenSeq(m5) /\ m4 \in Parts
  BY <1>8, <1>12, FlattenFirst
<1> HIDE DEF m4
<1>14. FlattenSeq(m3) = c \o FlattenSeq(m4) /\ m3 \in Parts
  BY <1>8, <1>13, FlattenFirst
<1> HIDE DEF m3
<1>15. FlattenSeq(m2) = b \o FlattenSeq(m3) /\ m2 \in Parts
  BY <1>8, <1>14, FlattenFirst
<1> HIDE DEF m2
<1>16. FlattenSeq(m1) = a \o FlattenSeq(m2) /\ m1 \in Parts
  BY <1>8, <1>15, FlattenFirst
<1> HIDE DEF m1
<1>17. FlattenSeq(m1) = a \o (b \o (c \o (d \o (e \o (f \o (g \o (h \o p)))))))
  BY <1>9, <1>10, <1>11, <1>12, <1>13, <1>14, <1>15, <1>16
<1>18. t8 \in Seq(Texts) /\ m8 = t8 \o q
  BY <1>8 DEF m8
<1>19. t7 = <<g>> \o t8
  BY PairIs
<1>20. t6 = <<f>> \o t7
  OBVIOUS
<1>21. t5 = <<e>> \o t6
  OBVIOUS
<1>22. t4 = <<d>> \o t5
  OBVIOUS
<1>23. t3 = <<c>> \o t4
  OBVIOUS
<1>24. t2 = <<b>> \o t3
  OBVIOUS
<1>25. t1 = <<a>> \o t2
  OBVIOUS
<1> HIDE DEF t1, t2, t3, t4, t5, t6, t7, t8
<1>26. t7 \in Seq(Texts) /\ m7 = t7 \o q
  <2>1. t7 \in Seq(Texts)
    BY <1>8, <1>18, <1>19
  <2> QED
    BY <2>1, <1>8, <1>18, <1>19, TupleFirst DEF m7, Parts
<1>27. t6 \in Seq(Texts) /\ m6 = t6 \o q
  <2>1. t6 \in Seq(Texts)
    BY <1>8, <1>26, <1>20
  <2> QED
    BY <2>1, <1>8, <1>26, <1>20, TupleFirst DEF m6, Parts
<1>28. t5 \in Seq(Texts) /\ m5 = t5 \o q
  <2>1. t5 \in Seq(Texts)
    BY <1>8, <1>27, <1>21
  <2> QED
    BY <2>1, <1>8, <1>27, <1>21, TupleFirst DEF m5, Parts
<1>29. t4 \in Seq(Texts) /\ m4 = t4 \o q
  <2>1. t4 \in Seq(Texts)
    BY <1>8, <1>28, <1>22
  <2> QED
    BY <2>1, <1>8, <1>28, <1>22, TupleFirst DEF m4, Parts
<1>30. t3 \in Seq(Texts) /\ m3 = t3 \o q
  <2>1. t3 \in Seq(Texts)
    BY <1>8, <1>29, <1>23
  <2> QED
    BY <2>1, <1>8, <1>29, <1>23, TupleFirst DEF m3, Parts
<1>31. t2 \in Seq(Texts) /\ m2 = t2 \o q
  <2>1. t2 \in Seq(Texts)
    BY <1>8, <1>30, <1>24
  <2> QED
    BY <2>1, <1>8, <1>30, <1>24, TupleFirst DEF m2, Parts
<1>32. t1 \in Seq(Texts) /\ m1 = t1 \o q
  <2>1. t1 \in Seq(Texts)
    BY <1>8, <1>31, <1>25
  <2> QED
    BY <2>1, <1>8, <1>31, <1>25, TupleFirst DEF m1, Parts
<1>33. <<A, B>> \o s = <<A>> \o (<<B>> \o s)
  <2>1. s \in Seq(Calls)
    BY PrintsTyped
  <2> QED
    BY <1>7, <2>1, PairFirst
<1>34. <<A, B>> \in Seq(Calls)
  BY <1>7
<1> QED
  BY <1>3, <1>5, <1>17, <1>32, <1>33, <1>34 DEF t1, Parts, Texts

\* What is printed before the report, and every number, is a text.
LEMMA OpeningIs == Opening \in Texts
<1> DEFINE a == "banner"
           b == LF
           c == "[boot] long mode active"
           d == "[boot] initializing runtime GDT ..."
           e == "[boot] GDT loaded"
           f == "[boot] reading multiboot2 info ..."
<1>1. a \in Marks /\ b \in Marks /\ c \in Marks /\ d \in Marks /\ e \in Marks /\ f \in Marks
  BY DEF Marks, Headings
<1>2. Opening = <<a, b, c, b, d, b, e, b, f, b>>
  BY DEF Opening
<1> HIDE DEF a, b, c, d, e, f
<1>3. <<a, b, c, b, d, b, e, b, f, b>> \in Seq(Marks)
  BY <1>1
<1> QED
  BY <1>2, <1>3 DEF Texts

\* A number's digits are a text.
LEMMA NumberTyped == \A n \in Nat : Decimal(n) \in Texts
<1> TAKE n \in Nat
<1>1. NumberPiece(n) \in Piece /\ NumberPiece(n).text = Decimal(n)
  BY DEF Piece, NumberPiece
<1>2. TextOf[NumberPiece(n)] = Decimal(n)
  BY <1>1 DEF TextOf
<1> QED
  BY <1>1, <1>2, PieceIs DEF Texts

\* What follows the report's memory part.
Ending == <<Call(<<LF>>, <<>>)>> \o Closing
EndingTexts == <<<<LF>>>> \o ClosingTexts
\* The end of the report and the closing lines.
LEMMA EndingPrints ==
  Prints(Ending, FlattenSeq(EndingTexts)) /\ Ending \in Seq(Calls) /\ EndingTexts \in Parts
<1> DEFINE a == <<LF>>
           m == <<a>> \o ClosingTexts
<1>1. a \in Texts /\ ClosingTexts \in Parts
  <2>1. LF \in Marks
    BY DEF Marks, Headings
  <2> QED
    BY <2>1, ClosingPrints DEF Texts, Parts
<1> HIDE DEF a
<1>2. FlattenSeq(m) = a \o FlattenSeq(ClosingTexts) /\ m \in Parts
  BY <1>1, FlattenFirst
<1>3. Prints(Ending, a \o FlattenSeq(ClosingTexts))
  BY ClosingPrints, LinePrints DEF Ending, a
<1> QED
  BY <1>2, <1>3, PrintsTyped DEF EndingTexts, a

\* The memory part, if there is a memory tag, and what follows it.
TagCalls(kept) == IF kept = NoTag THEN <<>> ELSE MemoryCalls(kept.lower, kept.upper)
TagTexts(kept) == IF kept = NoTag THEN <<>> ELSE MemoryTexts(kept.lower, kept.upper)
\* The memory part and what follows it.
LEMMA LaterPrints ==
  ASSUME NEW kept \in Tags \cup {NoTag}
  PROVE  /\ Prints(TagCalls(kept) \o Ending, FlattenSeq(TagTexts(kept) \o EndingTexts))
         /\ TagCalls(kept) \in Seq(Calls) /\ TagTexts(kept) \in Parts
<1> DEFINE M == TagCalls(kept)
           T == TagTexts(kept)
<1>1. /\ Prints(Ending, FlattenSeq(EndingTexts))
      /\ Ending \in Seq(Calls) /\ EndingTexts \in Parts /\ EndingTexts \in Seq(Seq(Marks))
  BY EndingPrints DEF Parts, Texts
<1>2. CASE kept = NoTag
  <2>1. M = <<>> /\ T = <<>>
    BY <1>2 DEF TagCalls, TagTexts
  <2>2. <<>> \o Ending = Ending
    BY <1>1
  <2>3. <<>> \o EndingTexts = EndingTexts
    BY <1>1
  <2>4. <<>> \in Seq(Calls) /\ <<>> \in Parts
    BY DEF Parts
  <2> QED
    BY <1>1, <2>1, <2>2, <2>3, <2>4
<1>3. CASE kept # NoTag
  <2> DEFINE l == kept.lower
             u == kept.upper
  <2>1. M = MemoryCalls(l, u) /\ T = MemoryTexts(l, u) /\ l \in Nat /\ u \in Nat
    BY <1>3 DEF TagCalls, TagTexts, Tags
  <2> HIDE DEF l, u, M, T
  <2>2. /\ Prints(MemoryCalls(l, u) \o Ending, FlattenSeq(MemoryTexts(l, u) \o EndingTexts))
        /\ MemoryTexts(l, u) \in Seq(Seq(Marks)) /\ MemoryCalls(l, u) \in Seq(Calls)
    BY <1>1, <2>1, MemoryPrints
  <2> QED
    BY <2>1, <2>2 DEF M, T, Parts, Texts
<1> QED
  BY <1>2, <1>3

\* Five texts in front of a list of parts, put together.
Five(o, a, b, c, d, p) == o \o (a \o (b \o (c \o (d \o p))))
\* Five texts and a sequence of texts, put together.
LEMMA FiveFirst ==
  ASSUME NEW o \in Texts, NEW a \in Texts, NEW b \in Texts, NEW c \in Texts, NEW d \in Texts,
         NEW Q \in Parts
  PROVE  /\ <<o, a, b, c, d>> \in Parts
         /\ FlattenSeq(<<o, a, b, c, d>> \o Q) = Five(o, a, b, c, d, FlattenSeq(Q))
<1> DEFINE F == <<o, a, b, c, d>>
           t2 == <<a, b, c, d>>
           t3 == <<b, c, d>>
           t4 == <<c, d>>
           t5 == <<d>>
           m5 == <<d>> \o Q
           m4 == <<c>> \o m5
           m3 == <<b>> \o m4
           m2 == <<a>> \o m3
           m1 == <<o>> \o m2
<1>1. FlattenSeq(m5) = d \o FlattenSeq(Q) /\ m5 \in Parts
  BY FlattenFirst
<1>2. t5 \in Seq(Texts) /\ m5 = t5 \o Q
  OBVIOUS
<1>3. t4 = <<c>> \o t5
  BY PairIs
<1>4. t3 = <<b>> \o t4
  OBVIOUS
<1>5. t2 = <<a>> \o t3
  OBVIOUS
<1>6. F = <<o>> \o t2
  OBVIOUS
<1> HIDE DEF F, m5, t2, t3, t4, t5
<1>7. FlattenSeq(m4) = c \o FlattenSeq(m5) /\ m4 \in Parts
  BY <1>1, FlattenFirst
<1> HIDE DEF m4
<1>8. FlattenSeq(m3) = b \o FlattenSeq(m4) /\ m3 \in Parts
  BY <1>7, FlattenFirst
<1> HIDE DEF m3
<1>9. FlattenSeq(m2) = a \o FlattenSeq(m3) /\ m2 \in Parts
  BY <1>8, FlattenFirst
<1> HIDE DEF m2
<1>10. FlattenSeq(m1) = o \o FlattenSeq(m2) /\ m1 \in Parts
  BY <1>9, FlattenFirst
<1> HIDE DEF m1
<1>11. Q \in Seq(Texts)
  BY DEF Parts
<1>12. t4 \in Seq(Texts) /\ m4 = t4 \o Q
  <2>1. t4 \in Seq(Texts)
    BY <1>2, <1>3
  <2> QED
    BY <2>1, <1>2, <1>3, <1>11, TupleFirst DEF m4, Parts
<1>13. t3 \in Seq(Texts) /\ m3 = t3 \o Q
  <2>1. t3 \in Seq(Texts)
    BY <1>12, <1>4
  <2> QED
    BY <2>1, <1>12, <1>4, <1>11, TupleFirst DEF m3, Parts
<1>14. t2 \in Seq(Texts) /\ m2 = t2 \o Q
  <2>1. t2 \in Seq(Texts)
    BY <1>13, <1>5
  <2> QED
    BY <2>1, <1>13, <1>5, <1>11, TupleFirst DEF m2, Parts
<1>15. F \in Seq(Texts) /\ m1 = F \o Q
  <2>1. F \in Seq(Texts)
    BY <1>14, <1>6
  <2> QED
    BY <2>1, <1>14, <1>6, <1>11, TupleFirst DEF m1, Parts
<1>16. FlattenSeq(m1) = o \o (a \o (b \o (c \o (d \o FlattenSeq(Q)))))
  BY <1>1, <1>7, <1>8, <1>9, <1>10
<1> QED
  BY <1>15, <1>16 DEF Parts, F, Five

\* A pair is a sequence.
LEMMA PairTyped == ASSUME NEW S, NEW a \in S, NEW b \in S PROVE <<a, b>> \in Seq(S)
OBVIOUS

\* The calls of the report that name the boot loader and give a number.
NameCall(h, x) == Call(<<h, "%", "s", LF>>, <<x>>)
NumberCall(j, z, k) == Call(<<j, "%", "u", k, LF>>, <<z>>)
HeadCalls(h, x, j, z, k) == <<NameCall(h, x), NumberCall(j, z, k)>>
HeadTexts(o, h, x, j, z, k) == <<o, <<h, x, LF>>, <<j>>, Decimal(z), <<k, LF>>>>
\* Calls with one directive are typed.
LEMMA ReportTyped ==
  ASSUME NEW x \in Given, NEW z \in Nat, NEW h \in Plain, NEW j \in Plain, NEW k \in Plain
  PROVE  NameCall(h, x) \in Calls /\ NumberCall(j, z, k) \in Calls
<1> DEFINE f == <<h, "%", "s", LF>>
           g == <<j, "%", "u", k, LF>>
           u == <<x>>
           v == <<z>>
<1>1. h \in Formats /\ j \in Formats /\ k \in Formats /\ LF \in Formats
      /\ "%" \in Formats /\ "u" \in Formats /\ "s" \in Formats
  BY DEF Formats, Plain
<1>2. \A a, b, c, d \in Formats : <<a, b, c, d>> \in Seq(Formats)
  OBVIOUS
<1>3. \A a, b, c, d, e \in Formats : <<a, b, c, d, e>> \in Seq(Formats)
  OBVIOUS
<1>4. f \in Seq(Formats)
  BY <1>1, <1>2
<1>5. g \in Seq(Formats)
  BY <1>1, <1>3
<1>6. x \in Arguments /\ z \in Arguments
  BY DEF Arguments
<1>7. \A a \in Arguments : <<a>> \in Seq(Arguments)
  OBVIOUS
<1>8. u \in Seq(Arguments) /\ v \in Seq(Arguments)
  BY <1>6, <1>7
<1> HIDE DEF f, g, u, v
<1>9. Call(f, u) \in Calls /\ Call(g, v) \in Calls
  BY <1>4, <1>5, <1>8 DEF Calls
<1> QED
  BY <1>9 DEF f, g, u, v, NameCall, NumberCall

\* The calls c complete the characters o to those of the parts q.
Completes(c, o, q) == \E t : Prints(c, t) /\ o \o t = FlattenSeq(q)

\* Two such calls, with others after them, print what is expected of them.
LEMMA TwoPrint ==
  ASSUME NEW x \in Given, NEW z \in Nat, NEW h \in Plain, NEW j \in Plain, NEW k \in Plain,
         NEW K \in Seq(Calls), NEW Q \in Parts, Prints(K, FlattenSeq(Q)), NEW o \in Texts
  PROVE  /\ Completes(HeadCalls(h, x, j, z, k) \o K, o, HeadTexts(o, h, x, j, z, k) \o Q)
         /\ HeadCalls(h, x, j, z, k) \in Seq(Calls)
         /\ HeadTexts(o, h, x, j, z, k) \in Parts
<1> DEFINE A == NameCall(h, x)
           B == NumberCall(j, z, k)
           a == <<h, x, LF>>
           b == <<j>>
           c == Decimal(z)
           d == <<k, LF>>
           p == FlattenSeq(Q)
           w == b \o (c \o (d \o p))
           s == <<B>> \o K
<1>1. LF \in Plain /\ LF \in Marks
  BY DEF Plain, Marks
<1>2. h \in Marks /\ j \in Marks /\ k \in Marks /\ x \in Marks
  BY DEF Marks
<1>3. c \in Texts
  BY NumberTyped
<1>4. A \in Calls /\ B \in Calls
  BY ReportTyped
<1>5. a \in Seq(Marks) /\ b \in Seq(Marks) /\ d \in Seq(Marks)
  BY <1>1, <1>2
<1>6. Prints(s, w)
  <2>1. Prints(K, p)
    OBVIOUS
  <2> HIDE DEF p
  <2> QED
    BY <1>1, <2>1, NumberPrints DEF NumberCall
<1> HIDE DEF s, w
<1>7. Prints(<<A>> \o s, a \o w)
  BY <1>1, <1>6, NamePrints DEF NameCall
<1> HIDE DEF A, B, a, b, c, d, p
<1>8. <<A, B>> \o K = <<A>> \o s
  <2> HIDE DEF Calls
  <2>1. <<A, B>> \o K = <<A>> \o (<<B>> \o K)
    BY <1>4, PairFirst
  <2> QED
    BY <2>1 DEF s
<1>9. <<A, B>> \in Seq(Calls)
  BY <1>4, PairTyped
<1>10. FlattenSeq(<<o, a, b, c, d>> \o Q) = o \o (a \o (b \o (c \o (d \o p))))
       /\ <<o, a, b, c, d>> \in Parts
  <2>1. a \in Texts /\ b \in Texts /\ d \in Texts
    BY <1>5 DEF Texts
  <2>2. /\ <<o, a, b, c, d>> \in Parts
        /\ FlattenSeq(<<o, a, b, c, d>> \o Q) = Five(o, a, b, c, d, FlattenSeq(Q))
    BY <1>3, <2>1, FiveFirst
  <2> QED
    BY <2>2 DEF p, Five
<1>11. \E t : Prints(<<A, B>> \o K, t) /\ o \o t = FlattenSeq(<<o, a, b, c, d>> \o Q)
  BY <1>7, <1>8, <1>10 DEF w
<1> QED
  BY <1>9, <1>10, <1>11 DEF A, B, a, b, c, d, HeadCalls, HeadTexts, Completes

\* Everything the kernel prints after its opening, in the order kmain calls for it.
AllCalls(h, x, j, z, k, kept) ==
  HeadCalls(h, x, j, z, k) \o TagCalls(kept) \o <<Call(<<LF>>, <<>>)>> \o Closing
AllTexts(o, h, x, j, z, k, kept) ==
  HeadTexts(o, h, x, j, z, k) \o TagTexts(kept) \o <<<<LF>>>> \o ClosingTexts
\* The calls the report makes print what is expected of it.
LEMMA AllPrint ==
  ASSUME NEW x \in Given, NEW z \in Nat, NEW kept \in Tags \cup {NoTag},
         NEW h \in Plain, NEW j \in Plain, NEW k \in Plain, NEW o \in Texts
  PROVE  Completes(AllCalls(h, x, j, z, k, kept), o, AllTexts(o, h, x, j, z, k, kept))
<1> DEFINE P == HeadCalls(h, x, j, z, k)
           F == HeadTexts(o, h, x, j, z, k)
           L == <<Call(<<LF>>, <<>>)>>
           N == <<<<LF>>>>
           M == TagCalls(kept)
           T == TagTexts(kept)
           K == M \o Ending
           Q == T \o EndingTexts
           C == Closing
           D == ClosingTexts
<1>1. /\ M \in Seq(Calls) /\ Ending \in Seq(Calls) /\ T \in Seq(Texts) /\ EndingTexts \in Seq(Texts)
      /\ Prints(K, FlattenSeq(Q))
  BY LaterPrints, EndingPrints DEF Parts
<1>2. K \in Seq(Calls)
  BY <1>1
<1>3. Q \in Parts
  BY <1>1 DEF Parts
<1>4. C \in Seq(Calls) /\ D \in Seq(Texts)
  BY ClosingPrints DEF Texts
<1>5. L \in Seq(Calls) /\ N \in Seq(Texts)
  <2>1. LF \in Plain /\ LF \in Formats /\ LF \in Marks
    BY DEF Plain, Formats, Marks
  <2> DEFINE a == <<LF>>
             b == <<>>
  <2>2. a \in Seq(Formats) /\ b \in Seq(Arguments) /\ a \in Texts
    BY <2>1 DEF Texts
  <2> HIDE DEF a, b
  <2>3. Call(a, b) \in Calls
    BY <2>2 DEF Calls
  <2>4. <<Call(a, b)>> \in Seq(Calls)
    BY <2>3
  <2>5. <<a>> \in Seq(Texts)
    BY <2>2
  <2> QED
    BY <2>4, <2>5 DEF a, b
<1>6. Completes(P \o K, o, F \o Q) /\ P \in Seq(Calls) /\ F \in Parts
  <2> HIDE DEF K, Q
  <2> QED
    BY <1>1, <1>2, <1>3, TwoPrint
<1>7. P \in Seq(Calls) /\ F \in Seq(Texts)
  BY <1>6 DEF Parts
<1>8. Ending = L \o C /\ EndingTexts = N \o D
  BY DEF Ending, EndingTexts
<1> HIDE DEF P, F, L, N, M, T, C, D
<1>9. ((P \o M) \o L) \o C = P \o (M \o (L \o C))
  <2>1. P \in Seq(Calls) /\ M \in Seq(Calls) /\ L \in Seq(Calls) /\ C \in Seq(Calls)
    BY <1>1, <1>4, <1>5, <1>7
  <2>2. Cat(Cat(Cat(P, M), L), C) = Cat(P, Cat(M, Cat(L, C)))
    BY <2>1, Regrouped
  <2> QED
    BY <2>2 DEF Cat
<1>10. ((F \o T) \o N) \o D = F \o (T \o (N \o D))
  <2>1. F \in Seq(Texts) /\ T \in Seq(Texts) /\ N \in Seq(Texts) /\ D \in Seq(Texts)
    BY <1>1, <1>4, <1>5, <1>7
  <2>2. Cat(Cat(Cat(F, T), N), D) = Cat(F, Cat(T, Cat(N, D)))
    BY <2>1, Regrouped
  <2> QED
    BY <2>2 DEF Cat
<1>11. Completes(((P \o M) \o L) \o C, o, ((F \o T) \o N) \o D)
  BY <1>6, <1>8, <1>9, <1>10
<1> QED
  BY <1>11 DEF P, F, L, N, M, T, C, D, AllCalls, AllTexts

\* When the walk ends, the calls to come print the rest of what is expected.
LEMMA EndWalkPrints ==
  ASSUME V1IInv, EndWalk, mbi.page = 0, printed = Opening
  PROVE  \E t : Prints(calls', t) /\ Opening \o t = Expected
<1>1. /\ V1TypeOK /\ Walking /\ pc = "walk" /\ ~(tag < total)
      /\ mbi.tags \in TagLists
  BY DEF V1IInv, EndWalk, InList, V1TypeOK
<1>2. total = TotalOf(mbi.tags) /\ \E j \in 0 .. Len(mbi.tags) : WalkedPast(j)
  BY <1>1 DEF Walking
<1>3. WalkedPast(Len(mbi.tags))
  BY <1>1, <1>2, LastTag DEF WalkedPast
<1> DEFINE n == LastOf(2)
           kept == LastOf(4)
           z == total
<1>4. seen.name = n /\ seen.mem = kept
  BY <1>1, <1>3, TagsTyped, LastFound DEF WalkedPast
<1>5. n \in Tags \cup {NoTag} /\ kept \in Tags \cup {NoTag} /\ z \in Nat
  BY <1>1, <1>4 DEF V1TypeOK
<1> DEFINE h == "  bootloader : "
           j == "  mbi2 size  : "
           k == " bytes"
           x == n.name
<1>6. h \in Plain /\ j \in Plain /\ k \in Plain /\ Opening \in Texts
  BY OpeningIs DEF Plain
<1>7. x \in Given
  BY <1>5 DEF Tags, NoTag, Given
<1>8. calls' = AllCalls(h, x, j, z, k, kept)
  <2>1. calls' = AllCalls(h, seen.name.name, j, z, k, seen.mem)
    BY DEF EndWalk, Report, AllCalls, HeadCalls, NameCall, NumberCall, TagCalls, MemoryCalls
  <2> HIDE DEF h, j, k, z, n, kept
  <2> QED
    BY <1>4, <2>1
<1>9. Expected = FlattenSeq(AllTexts(Opening, h, x, j, z, k, kept))
  <2>1. z = TotalOf(mbi.tags)
    BY <1>2
  <2>2. Expected = FlattenSeq(AllTexts(Opening, h, x, j, TotalOf(mbi.tags), k, kept))
    BY DEF Expected, AllTexts, HeadTexts, TagTexts, MemoryTexts, ClosingTexts
  <2> HIDE DEF h, j, k, x, z, kept
  <2> QED
    BY <2>1, <2>2
<1> HIDE DEF h, j, k, x, z, kept, n
<1>10. Completes(AllCalls(h, x, j, z, k, kept), Opening, AllTexts(Opening, h, x, j, z, k, kept))
  BY <1>5, <1>6, <1>7, AllPrint
<1> QED
  BY <1>8, <1>9, <1>10 DEF Completes
\* No call prints nothing.
LEMMA NothingPrints == ASSUME NEW t, Prints(<<>>, t) PROVE t = <<>>
<1>1. PICK R \in Seq(Seq(Piece)) : <<>> = Flat(OneCall, R) /\ t = Flat(OneText, R)
  BY DEF Prints
<1>2. R = <<>>
  <2> SUFFICES ASSUME R # <<>> PROVE FALSE
    OBVIOUS
  <2>1. PICK r \in Seq(Piece), Q \in Seq(Seq(Piece)) : R = <<r>> \o Q
    BY SplitHead
  <2>2. <<>> = <<CallOf(r)>> \o Flat(OneCall, Q) /\ Flat(OneCall, Q) \in Seq(Calls)
    BY <1>1, <2>1, CallFirst
  <2>3. CallOf(r) \in Calls
    BY CallIs
  <2> QED
    BY <2>2, <2>3, OneMore
<1> QED
  BY <1>1, <1>2, NothingFirst
-----------------------------------------------------------------------------
\* With the information in low memory, what has been printed and what the
\* calls to come print are together what is expected.
Reports ==
  mbi.page = 0 =>
    /\ pc \in {"info", "walk"} => printed = Opening
    /\ pc = "print" => /\ printed \in Seq(Marks)
                       /\ \E t : Prints(calls, t) /\ printed \o t = Expected
    /\ pc = "halted" => printed = Expected

\* Every step keeps what is printed and what the calls to come print together
\* equal to what is expected.
LEMMA ReportsStep ==
  ASSUME V1IInv, Reports, [V1Next]_v1vars
  PROVE  Reports'
<1> SUFFICES ASSUME mbi'.page = 0 PROVE Reports'
  BY DEF Reports
<1>1. mbi' = mbi
  BY DEF V1Next, v1vars, Enter, ClearTables, LinkTables, FillPd, EnablePae, LoadCr3, EnableLme,
         EnablePaging, FarJump, LongMode, GdtInit, PrintBootInfo, WalkTag, EndWalk, Kprintf, Halt
<1>2. Expected' = Expected
  BY <1>1 DEF Expected, LastOf
<1>3. mbi.page = 0
  BY <1>1
<1> HIDE DEF Expected
<1>4. CASE BootStep
  <2>1. pc' \notin {"info", "walk", "print", "halted"}
    BY <1>4 DEF BootStep, Enter, ClearTables, LinkTables, FillPd, EnablePae, LoadCr3, EnableLme,
                EnablePaging, FarJump, LongMode
  <2> QED
    BY <2>1 DEF Reports
<1>5. CASE GdtInit
  BY <1>5 DEF GdtInit, Reports
<1>6. CASE PrintBootInfo
  BY <1>3, <1>6 DEF PrintBootInfo, Reports, info
<1>7. CASE WalkTag
  BY <1>3, <1>7 DEF WalkTag, Reports
<1>8. CASE EndWalk
  <2>1. printed = Opening /\ pc' = "print" /\ printed' = printed
    BY <1>3, <1>8 DEF EndWalk, Reports
  <2>2. Opening \in Seq(Marks)
    BY OpeningIs DEF Texts
  <2>3. \E t : Prints(calls', t) /\ Opening \o t = Expected
    BY <1>3, <1>8, <2>1, EndWalkPrints
  <2> QED
    BY <1>2, <2>1, <2>2, <2>3 DEF Reports
<1>9. CASE Kprintf
  <2>1. pc = "print" /\ pc' = "print"
    BY <1>9 DEF Kprintf
  <2>2. printed \in Seq(Marks)
    BY <1>3, <2>1 DEF Reports
  <2>3. PICK t : Prints(calls, t) /\ printed \o t = Expected
    BY <1>3, <2>1 DEF Reports
  <2>4. printed' \in Seq(Marks) /\ \E u : Prints(calls', u) /\ printed' \o u = Expected
    BY <1>9, <2>2, <2>3, KprintfPrints
  <2> QED
    BY <1>2, <2>1, <2>4 DEF Reports
<1>10. CASE Halt
  <2>1. pc = "print" /\ pc' = "halted" /\ calls = <<>> /\ printed' = printed
    BY <1>10 DEF Halt, info
  <2>2. printed \in Seq(Marks)
    BY <1>3, <2>1 DEF Reports
  <2>3. PICK t : Prints(<<>>, t) /\ printed \o t = Expected
    BY <1>3, <2>1 DEF Reports
  <2>4. t = <<>>
    BY <2>3, NothingPrints
  <2>5. printed = Expected
    BY <2>2, <2>3, <2>4
  <2> QED
    BY <1>2, <2>1, <2>5 DEF Reports
<1>11. CASE UNCHANGED v1vars
  BY <1>2, <1>11 DEF v1vars, Reports
<1> QED
  BY <1>4, <1>5, <1>6, <1>7, <1>8, <1>9, <1>10, <1>11 DEF V1Next, BootStep

\* print_boot_info and kprintf keep the report true: if the information lies in
\* low memory, then when the first kernel halts its console shows the opening
\* lines, the name of the loader the list gives last (or that it is unknown), the
\* list's size, the sizes in its last memory tag, if it has one, every number with
\* all of its digits, and the closing lines, in this order and nothing else.
THEOREM ReportsTrue == V1Spec => []ReportTrue
<1>1. V1Init => V1IInv /\ Reports
  BY V1InitInvariant DEF V1Init, Reports
<1>2. V1IInv /\ Reports /\ [V1Next]_v1vars => (V1IInv /\ Reports)'
  BY V1NextInvariant, ReportsStep
<1>3. Reports => ReportTrue
  BY DEF Reports, ReportTrue
<1> QED
  BY <1>1, <1>2, <1>3, PTL DEF V1Spec
=============================================================================
