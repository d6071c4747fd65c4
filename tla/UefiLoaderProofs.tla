-------------------------- MODULE UefiLoaderProofs --------------------------
(***************************************************************************)
(* Proofs about the UEFI loader, for every kernel file, every memory and   *)
(* firmware that fails any call and changes its map at any time.           *)
(***************************************************************************)
EXTENDS UefiLoader, FiniteSetTheorems, TLAPS

Before == {"rsdp", "volume", "open", "info_size", "info_pool", "info", "buffer",
           "read", "validate"}
FileOpen == {"info_size", "info_pool", "info", "buffer", "read"}
Retrying == {"retry_map", "retry_convert", "retry_exit"}
Leaving == {"boot_info", "kernel"}
Phases == Before \cup {"segments", "map_size", "map_pool", "map", "convert", "exit"}
            \cup Retrying \cup Leaving \cup {"returned"}

\* What is open, allocated and active in each phase; once ExitBootServices has
\* been tried, what can keep its second call from succeeding.
Control ==
  /\ pc \in Phases
  /\ "file" \in open => pc \in FileOpen
  /\ "info" \in pool => pc = "info"
  /\ ~bs_active => pc \in Leaving
  /\ exit_tried <=> pc \in Retrying \cup Leaving
  /\ pc \in {"retry_convert", "retry_exit"} => map_key = fw_key \/ changes > 0 \/ retry_answer # "filled"
  /\ pc \in Leaving /\ bs_active => changes > 0 \/ retry_answer # "filled"

\* The buffer holds the firmware's map of the key the loader has, unless the
\* retry did not get it, and the regions are made from that.  The firmware never
\* returns to a key.
Whole(first, second) ==
  pc \in first \/ (pc \in second \cup Leaving /\ retry_answer \in {"none", "filled"})
Mapped ==
  /\ map_key <= fw_key /\ changes < fw_key
  /\ Whole({"convert", "exit"}, {"retry_convert", "retry_exit"}) =>
       /\ map_size = Len(memory_map)
       /\ map_key = fw_key => memory_map = fw_map
  /\ Whole({"exit"}, {"retry_exit"}) => memory_regions = Convert(memory_map)
  /\ pc \in Leaving /\ ~bs_active => map_key = fw_key

\* The segments ks of a file are in memory m, none over another, and nothing
\* else is: those the loop has passed.
Laid(phdrs, ks, m) ==
  /\ m = [p \in DOMAIN m |-> m[p]]
  /\ DOMAIN m = UNION {Target(phdrs[k]) : k \in ks}
  /\ \A k \in ks : \A p \in Target(phdrs[k]) : m[p] = Image(phdrs[k], k)[p]
  /\ \A k, l \in ks : k # l => Target(phdrs[k]) \cap Target(phdrs[l]) = {}
Passed == {k \in Segments : k < i}
Placed ==
  /\ elf.phdrs \in Seq(Headers)
  /\ pc \in Before => i = 1 /\ mem = [p \in {} |-> 0]
  /\ pc \notin Before \cup {"segments", "returned"} => i > Len(elf.phdrs)
  /\ allocated = UNION {Target(elf.phdrs[k]) : k \in Passed}
  /\ Fits => Laid(elf.phdrs, Passed, mem)

\* The inductive invariant.
IInv == TypeOK /\ Control /\ Mapped /\ Placed
-----------------------------------------------------------------------------
(* The invariant.                                                          *)

LEMMA Sizes ==
  /\ Extra \in Nat /\ MaxRegions \in Nat /\ MaxKey \in Nat \ {0}
  /\ FirmwareMaps \subseteq Seq(Descriptors) /\ Garbage \subseteq Descriptors
  BY UefiAssumption

LEMMA Numbers == Extra \in Nat /\ MaxRegions \in Nat /\ MaxKey \in Nat \ {0}
  BY UefiAssumption

\* The array is not overrun, and nothing is dropped while there is room: of the
\* non-empty descriptors each has a number of them before it of its own.
LEMMA KeptBounded ==
  ASSUME NEW map \in Seq(Descriptors)
  PROVE  /\ IsFiniteSet(Kept(map)) /\ Cardinality(Kept(map)) <= MaxRegions
         /\ Cardinality(Nonempty(map)) <= MaxRegions => Kept(map) = Nonempty(map)
<1> DEFINE N == Nonempty(map)
           Prior(k) == {l \in N : l < k}
<1>1. N \subseteq 1 .. Len(map) /\ Len(map) \in Nat
  BY DEF Nonempty
<1>2. IsFiniteSet(N)
  <2>1. IsFiniteSet(1 .. Len(map))
    BY <1>1, FS_Interval
  <2> HIDE DEF N
  <2> QED
    BY <1>1, <2>1, FS_Subset
<1>3. ASSUME NEW k \in N PROVE IsFiniteSet(Prior(k)) /\ Cardinality(Prior(k)) \in Nat
  BY <1>2, FS_Subset, FS_CardinalityType
<1>4. Kept(map) = {k \in N : Cardinality(Prior(k)) < MaxRegions}
  BY DEF Kept
<1>5. N \subseteq Nat
  BY <1>1
<1> HIDE DEF N
<1>6. Kept(map) \subseteq N /\ IsFiniteSet(Kept(map)) /\ Cardinality(Kept(map)) \in Nat
  BY <1>2, <1>4, FS_Subset, FS_CardinalityType
<1>7. Cardinality(Kept(map)) <= MaxRegions
  <2> DEFINE Room == 0 .. MaxRegions - 1
             f == [k \in Kept(map) |-> Cardinality(Prior(k))]
  <2>1. IsFiniteSet(Room) /\ Cardinality(Room) = MaxRegions
    BY Sizes, FS_Interval
  <2>2. f \in [Kept(map) -> Room]
    <3>1. ASSUME NEW k \in Kept(map) PROVE Cardinality(Prior(k)) \in Room
      <4>1. Cardinality(Prior(k)) \in Nat /\ Cardinality(Prior(k)) < MaxRegions
        BY <1>3, <1>4
      <4> HIDE DEF Prior
      <4> QED
        BY <4>1, Sizes
    <3> HIDE DEF Prior, Room
    <3> QED
      BY <3>1
  <2>3. ASSUME NEW x \in Kept(map), NEW y \in Kept(map), x < y PROVE f[x] # f[y]
    <3>0. x \in Nat /\ y \in Nat /\ \A l \in N : l \in Nat
      BY <1>5, <1>6
    <3>1. Prior(x) \subseteq Prior(y) /\ x \in Prior(y) /\ x \notin Prior(x)
      BY <3>0, <1>6, <2>3
    <3>2. IsFiniteSet(Prior(y))
      BY <1>3, <1>6
    <3> HIDE DEF Prior
    <3>3. Cardinality(Prior(y)) = Cardinality(Prior(x)) => Prior(y) = Prior(x)
      BY <3>1, <3>2, FS_Subset
    <3>4. f[x] = Cardinality(Prior(x)) /\ f[y] = Cardinality(Prior(y))
      OBVIOUS
    <3> HIDE DEF f
    <3> QED
      BY <3>1, <3>3, <3>4
  <2> HIDE DEF f, Room
  <2>4. ASSUME MaxRegions < Cardinality(Kept(map)) PROVE FALSE
    <3>1. PICK x \in Kept(map), y \in Kept(map) : x # y /\ f[x] = f[y]
      BY <1>6, <2>1, <2>2, <2>4, FS_PigeonHole
    <3>2. x \in Nat /\ y \in Nat
      BY <1>5, <1>6
    <3>3. x < y \/ y < x
      BY <3>1, <3>2
    <3> QED
      BY <2>3, <3>1, <3>3
  <2> QED
    BY <1>6, <2>4, Sizes
<1>8. ASSUME Cardinality(N) <= MaxRegions, NEW k \in N PROVE Cardinality(Prior(k)) < MaxRegions
  <2>1. Prior(k) \subseteq N /\ k \notin Prior(k)
    BY <1>5
  <2> HIDE DEF Prior
  <2>2. Cardinality(Prior(k)) <= Cardinality(N) /\ Cardinality(Prior(k)) # Cardinality(N)
    BY <1>2, <2>1, FS_Subset
  <2>3. Cardinality(N) \in Nat
    BY <1>2, FS_CardinalityType
  <2> QED
    BY <1>3, <1>8, <2>2, <2>3, Sizes
<1>9. Cardinality(N) <= MaxRegions => Kept(map) = N
  BY <1>4, <1>8
<1> QED
  BY <1>6, <1>7, <1>9 DEF N

LEMMA MapSized ==
  ASSUME TypeOK
  PROVE  Len(fw_map) \in Nat /\ fw_map \in BufferMaps
<1>1. \A map \in FirmwareMaps : map \in Seq(Descriptors)
  BY Sizes
<1>2. \A map \in FirmwareMaps : Len(map) \in Nat
  BY <1>1
<1> QED
  BY <1>2 DEF TypeOK, BufferMaps

\* Whatever is read as the map, the regions fit their array; what is read is the
\* map itself if the size is its length.
LEMMA ReadFits ==
  ASSUME NEW map \in BufferMaps, NEW size \in Nat, NEW read \in Buffer(map, size)
  PROVE  /\ InArray(Convert(read))
         /\ size = Len(map) => read = map
<1>1. map \in Seq(Descriptors) /\ Len(map) \in Nat
  <2>1. map \in Seq(Descriptors)
    <3>1. <<>> \in Seq(Descriptors)
      OBVIOUS
    <3> QED
      BY <3>1, Sizes DEF BufferMaps
  <2> QED
    BY <2>1
<1>2. PICK rest \in [1 .. size - Len(map) -> Garbage] : read = map \o rest
  BY DEF Buffer
<1>3. rest \in Seq(Descriptors) /\ (size = Len(map) => rest = <<>>)
  <2>1. CASE size <= Len(map)
    <3>1. 1 .. size - Len(map) = {}
      BY <1>1, <2>1
    <3>2. rest = <<>>
      BY <1>2, <3>1
    <3> QED
      BY <3>2
  <2>2. CASE size > Len(map)
    <3>1. size - Len(map) \in Nat
      BY <1>1, <2>2
    <3> DEFINE n == size - Len(map)
    <3>2. rest \in [1 .. n -> Garbage] /\ n \in Nat
      BY <1>2, <3>1
    <3> HIDE DEF n
    <3>3. rest \in Seq(Garbage)
      BY <3>2
    <3> QED
      BY <2>2, <3>3, Sizes
  <2> QED
    BY <1>1, <2>1, <2>2
<1>4. read \in Seq(Descriptors) /\ (size = Len(map) => read = map)
  BY <1>1, <1>2, <1>3
<1>5. DOMAIN Convert(read) = Kept(read)
  BY DEF Convert
<1> QED
  BY <1>4, <1>5, KeptBounded DEF InArray

LEMMA InitInv == Init => IInv
<1> SUFFICES ASSUME Init PROVE IInv
  OBVIOUS
<1>1. TypeOK
  <2>1. /\ path = 1 /\ i = 1 /\ open = {} /\ pool = {} /\ allocated = {}
        /\ map_size = 0 /\ map_key = 0 /\ capacity = 0 /\ changes = 0
        /\ memory_map \in BufferMaps /\ retry_answer = "none"
        /\ bs_active = TRUE /\ fw_key = 1 /\ fw_map \in FirmwareMaps
    BY DEF Init, BufferMaps
  <2>2. InArray(memory_regions)
    <3>1. DOMAIN memory_regions = Kept(<<>>) /\ <<>> \in Seq(Descriptors)
      BY DEF Init, Convert
    <3> QED
      BY <3>1, KeptBounded DEF InArray
  <2>3. /\ path \in {1, 2} /\ i \in Nat \ {0} /\ map_size \in Nat
        /\ map_key \in 0 .. MaxKey /\ capacity \in Nat /\ changes \in 0 .. MaxKey
        /\ fw_key \in 1 .. MaxKey
    BY <2>1, Sizes
  <2> QED
    BY <2>1, <2>2, <2>3 DEF TypeOK
<1>2. Control
  BY DEF Init, Control, Phases, Before, FileOpen, Retrying, Leaving
<1>3. Mapped
  BY DEF Init, Mapped, Whole, Retrying, Leaving
<1>4. Placed
  <2>1. elf.phdrs = <<>> /\ elf.phdrs \in Seq(Headers)
    BY DEF Init, NoFile
  <2>2. Passed = {}
    BY <2>1 DEF Passed, Segments
  <2>3. DOMAIN mem = {} /\ allocated = {}
    BY DEF Init
  <2>4. mem = [p \in DOMAIN mem |-> mem[p]]
    BY DEF Init
  <2> QED
    BY <2>1, <2>2, <2>3, <2>4 DEF Init, Placed, Laid, Before
<1> QED
  BY <1>1, <1>2, <1>3, <1>4 DEF IInv

\* Whatever GetMemoryMap answers, size, key and buffer are those of before or of
\* the firmware's map.
LEMMA Answered ==
  ASSUME TypeOK, NEW answer \in Answers, GetMemoryMap(answer)
  PROVE  /\ map_size' \in Nat /\ map_key' \in 0 .. MaxKey /\ memory_map' \in BufferMaps
         /\ map_key' \in {map_key, fw_key}
         /\ answer = "filled" => memory_map' = fw_map /\ map_size' = Len(memory_map')
<1>1. Len(fw_map) \in Nat /\ fw_map \in BufferMaps
  BY MapSized
<1>2. map_size \in Nat /\ map_key \in 0 .. MaxKey /\ fw_key \in 0 .. MaxKey /\ memory_map \in BufferMaps
  BY Numbers DEF TypeOK
<1>3. /\ map_size' \in {map_size, Len(fw_map)} /\ map_key' \in {map_key, fw_key}
      /\ memory_map' \in {memory_map, fw_map}
      /\ answer = "filled" => memory_map' = fw_map /\ map_size' = Len(memory_map')
  BY DEF Answers, GetMemoryMap
<1> QED
  BY <1>1, <1>2, <1>3

\* Sizes, keys and sets stay in their types: the converted map in its array, the
\* memory loaded in memory there is.
LEMMA TypesKept ==
  ASSUME TypeOK, Mapped, Next
  PROVE  TypeOK'
<1> USE Numbers DEF TypeOK, Goto, Keep, KeepFile, KeepRead,
            ReadFails, firmware
<1>1. CASE RsdpScan
  BY <1>1 DEF RsdpScan
<1>2. CASE OpenVolume
  BY <1>2 DEF OpenVolume
<1>3. CASE Open
  BY <1>3 DEF Open
<1>4. CASE GetInfoSize
  BY <1>4 DEF GetInfoSize
<1>5. CASE AllocInfo
  BY <1>5 DEF AllocInfo
<1>6. CASE GetInfo
  BY <1>6 DEF GetInfo
<1>7. CASE AllocBuffer
  BY <1>7 DEF AllocBuffer
<1>8. CASE Read
  BY <1>8 DEF Read
<1>9. CASE Validate
  BY <1>9 DEF Validate
<1>10. CASE LoadSegment
  <2>1. i' \in Nat \ {0} /\ allocated' \subseteq Pages
    <3>1. i' \in {i, i + 1}
      BY <1>10 DEF LoadSegment
    <3>2. \/ allocated' = allocated
          \/ allocated' = allocated \cup Target(elf.phdrs[i]) /\ Target(elf.phdrs[i]) \subseteq Pages
      BY <1>10 DEF LoadSegment, Grantable
    <3>3. i' \in Nat \ {0}
      BY <3>1
    <3> QED
      BY <3>2, <3>3
  <2>2. UNCHANGED <<path, open, pool, map_size, map_key, capacity, memory_map,
                    memory_regions, bs_active, fw_key, fw_map, retry_answer, changes>>
    BY <1>10 DEF LoadSegment
  <2> QED
    BY <2>1, <2>2
<1>11. CASE SegmentsDone
  BY <1>11 DEF SegmentsDone
<1>12. CASE AskMapSize
  BY <1>12, MapSized DEF AskMapSize
<1>13. CASE AllocMap
  BY <1>13 DEF AllocMap
<1>14. CASE GetMap
  BY <1>14, Answered DEF GetMap
<1>15. CASE ConvertMap
  BY <1>15, ReadFits DEF ConvertMap
<1>16. CASE Exit
  BY <1>16 DEF Exit, ExitBootServices
<1>17. CASE RetryGetMap
  BY <1>17, Answered DEF RetryGetMap
<1>18. CASE RetryConvert
  BY <1>18, ReadFits DEF RetryConvert
<1>19. CASE RetryExit
  BY <1>19 DEF RetryExit, ExitBootServices
<1>20. CASE EnterKernel
  BY <1>20 DEF EnterKernel
<1>21. CASE FirmwareChange
  BY <1>21 DEF FirmwareChange, Mapped
<1>22. CASE Finished
  BY <1>22 DEF Finished, vars, loader
<1> QED
  BY <1>1, <1>2, <1>3, <1>4, <1>5, <1>6, <1>7, <1>8, <1>9, <1>10, <1>11,
     <1>12, <1>13, <1>14, <1>15, <1>16, <1>17, <1>18, <1>19, <1>20, <1>21,
     <1>22 DEF Next, LoaderStep

\* What is open and active follows the phases; a retry fails only for a change
\* of the map or because it did not get it.
LEMMA ControlKept ==
  ASSUME TypeOK, Control, Next
  PROVE  Control'
<1> USE DEF Control, Phases, Before, FileOpen, Retrying, Leaving, Goto, Keep,
            KeepFile, KeepRead, ReadFails, firmware
<1>1. CASE RsdpScan \/ OpenVolume \/ Validate \/ SegmentsDone
  BY <1>1 DEF RsdpScan, OpenVolume, Validate, SegmentsDone
<1>2. CASE Open
  BY <1>2 DEF Open
<1>3. CASE GetInfoSize
  BY <1>3 DEF GetInfoSize
<1>4. CASE AllocInfo
  BY <1>4 DEF AllocInfo
<1>5. CASE GetInfo
  BY <1>5 DEF GetInfo
<1>6. CASE AllocBuffer
  BY <1>6 DEF AllocBuffer
<1>7. CASE Read
  BY <1>7 DEF Read
<1>8. CASE LoadSegment
  BY <1>8 DEF LoadSegment
<1>9. CASE AskMapSize
  BY <1>9 DEF AskMapSize
<1>10. CASE AllocMap
  BY <1>10 DEF AllocMap
<1>11. CASE GetMap
  BY <1>11 DEF GetMap, GetMemoryMap
<1>12. CASE ConvertMap
  BY <1>12 DEF ConvertMap
<1>13. CASE Exit
  BY <1>13 DEF Exit, ExitBootServices
<1>14. CASE RetryGetMap
  BY <1>14 DEF RetryGetMap, GetMemoryMap, Answers, TypeOK
<1>15. CASE RetryConvert
  BY <1>15 DEF RetryConvert
<1>16. CASE RetryExit
  BY <1>16 DEF RetryExit, ExitBootServices
<1>17. CASE EnterKernel
  BY <1>17 DEF EnterKernel
<1>18. CASE FirmwareChange
  BY <1>18 DEF FirmwareChange, TypeOK
<1>19. CASE Finished
  BY <1>19 DEF Finished, vars, loader
<1> QED
  BY <1>1, <1>2, <1>3, <1>4, <1>5, <1>6, <1>7, <1>8, <1>9, <1>10, <1>11,
     <1>12, <1>13, <1>14, <1>15, <1>16, <1>17, <1>18, <1>19 DEF Next,
     LoaderStep

\* The map in the buffer is the firmware's, if the keys agree.
LEMMA MappedKept ==
  ASSUME TypeOK, Control, Mapped, Next
  PROVE  Mapped'
<1> USE Numbers DEF Mapped, Whole, Control, Retrying, Leaving, TypeOK, Goto,
            Keep, KeepFile, KeepRead, ReadFails, firmware
<1>1. CASE RsdpScan \/ OpenVolume \/ Validate \/ LoadSegment \/ SegmentsDone
  BY <1>1 DEF RsdpScan, OpenVolume, Validate, LoadSegment, SegmentsDone
<1>2. CASE Open \/ GetInfoSize \/ AllocInfo
  BY <1>2 DEF Open, GetInfoSize, AllocInfo
<1>3. CASE GetInfo \/ AllocBuffer \/ Read
  BY <1>3 DEF GetInfo, AllocBuffer, Read
<1>4. CASE AskMapSize \/ AllocMap
  BY <1>4 DEF AskMapSize, AllocMap
<1>5. CASE GetMap
  BY <1>5, Answered DEF GetMap
<1>6. CASE ConvertMap
  BY <1>6, ReadFits DEF ConvertMap
<1>7. CASE Exit
  BY <1>7 DEF Exit, ExitBootServices
<1>8. CASE RetryGetMap
  <2>1. PICK answer \in Answers : GetMemoryMap(answer) /\ retry_answer' = answer
    BY <1>8 DEF RetryGetMap
  <2>2. /\ map_key' \in {map_key, fw_key}
        /\ answer = "filled" => memory_map' = fw_map /\ map_size' = Len(memory_map')
    BY <2>1, Answered
  <2>3. answer = retry_answer' /\ retry_answer' # "none"
    BY <2>1 DEF Answers
  <2>4. pc' = "retry_convert" /\ UNCHANGED <<fw_key, fw_map, changes>>
    BY <1>8 DEF RetryGetMap
  <2>5. map_key' <= fw_key /\ changes < fw_key
    BY <2>2
  <2> QED
    BY <2>2, <2>3, <2>4, <2>5
<1>9. CASE RetryConvert
  BY <1>9, ReadFits DEF RetryConvert
<1>10. CASE RetryExit
  BY <1>10 DEF RetryExit, ExitBootServices
<1>11. CASE EnterKernel
  BY <1>11 DEF EnterKernel
<1>12. CASE FirmwareChange
  BY <1>12 DEF FirmwareChange
<1>13. CASE Finished
  BY <1>13 DEF Finished, vars, loader
<1> QED
  BY <1>1, <1>2, <1>3, <1>4, <1>5, <1>6, <1>7, <1>8, <1>9, <1>10, <1>11,
     <1>12, <1>13 DEF Next, LoaderStep

\* Nothing to show where the loop over the segments has not begun or has ended.
LEMMA PlacedStays ==
  ASSUME Placed, UNCHANGED <<elf, i, allocated, mem>>,
         pc' \in Before => pc \in Before,
         pc' \notin Before \cup {"segments", "returned"} =>
           pc \notin Before \cup {"segments", "returned"} \/ i > Len(elf.phdrs)
  PROVE  Placed'
<1>1. Passed' = Passed /\ Fits' = Fits
  BY DEF Passed, Segments, Fits
<1> QED
  BY <1>1 DEF Placed

\* Before the first header has been looked at no segment has been passed.
LEMMA PlacedAnew ==
  ASSUME Placed, pc \in Before, elf' \in Elfs, UNCHANGED <<i, allocated, mem>>,
         pc' \in Before
  PROVE  Placed'
<1>1. elf'.phdrs \in Seq(Headers)
  BY UefiAssumption
<1>2. i = 1 /\ Passed = {} /\ Passed' = {} /\ mem = [p \in {} |-> 0]
  BY <1>1 DEF Placed, Passed, Segments
<1>3. Laid(elf'.phdrs, {}, mem) /\ allocated = {}
  BY <1>2 DEF Placed, Laid
<1> QED
  BY <1>1, <1>2, <1>3 DEF Placed

\* A header passed over, or a segment placed where nothing was: the copy stays
\* within what was allocated if the file asks for memory enough.
LEMMA PlacedMore ==
  ASSUME TypeOK, Placed, LoadSegment
  PROVE  Placed'
<1> DEFINE ph == elf.phdrs[i]
<1>1. /\ elf' = elf /\ pc = "segments" /\ i \in DOMAIN elf.phdrs /\ i \in Nat
      /\ elf.phdrs \in Seq(Headers) /\ ph \in Headers
  BY DEF LoadSegment, Keep, TypeOK, Placed
<1>2. Segments' = Segments /\ Segments \subseteq Nat /\ Fits' = Fits
  BY <1>1 DEF Segments, Fits
<1>3. CASE ~Loadable(ph) /\ i' = i + 1 /\ UNCHANGED <<pc, allocated, mem>>
  <2>1. Passed' = Passed
    BY <1>1, <1>2, <1>3 DEF Passed, Segments
  <2> QED
    BY <1>1, <1>2, <1>3, <2>1 DEF Placed, Before
<1>4. CASE /\ Loadable(ph) /\ Grantable(ph) /\ i' = i + 1 /\ UNCHANGED pc
           /\ allocated' = allocated \cup Target(ph)
           /\ mem' = [p \in DOMAIN mem \cup DOMAIN Image(ph, i) |->
                        IF p \in DOMAIN Image(ph, i) THEN Image(ph, i)[p] ELSE mem[p]]
  <2>1. Passed' = Passed \cup {i} /\ i \notin Passed /\ i \in Segments
    BY <1>1, <1>2, <1>4 DEF Passed, Segments
  <2>2. allocated' = UNION {Target(elf.phdrs[k]) : k \in Passed'}
    <3>1. allocated = UNION {Target(elf.phdrs[k]) : k \in Passed}
      BY DEF Placed
    <3> QED
      BY <1>4, <2>1, <3>1
  <2>3. ASSUME Fits PROVE Laid(elf.phdrs, Passed', mem')
    <3>1. ph.filesz <= ph.memsz
      BY <2>1, <2>3 DEF Fits
    <3>2. Copied(ph) \subseteq Target(ph)
      BY <1>1, <3>1 DEF Copied, Target, Headers
    <3>3. DOMAIN mem = UNION {Target(elf.phdrs[k]) : k \in Passed}
      BY <2>3 DEF Placed, Laid
    <3>4. DOMAIN mem = allocated
      BY <3>3 DEF Placed
    <3>5. DOMAIN Image(ph, i) = Target(ph) /\ Target(ph) \cap DOMAIN mem = {}
      BY <1>4, <3>2, <3>4 DEF Image, Grantable
    <3>6. DOMAIN mem' = DOMAIN mem \cup Target(ph)
      BY <1>4, <3>5
    <3>7. \A p \in Target(ph) : mem'[p] = Image(ph, i)[p]
      BY <1>4, <3>5
    <3>8. \A p \in DOMAIN mem : mem'[p] = mem[p]
      BY <1>4, <3>5
    <3>9. \A k \in Passed : Target(elf.phdrs[k]) \subseteq DOMAIN mem
      BY <3>3
    <3>10. DOMAIN mem' = UNION {Target(elf.phdrs[k]) : k \in Passed \cup {i}}
      BY <3>3, <3>6
    <3>11. \A k \in Passed \cup {i} :
             \A p \in Target(elf.phdrs[k]) : mem'[p] = Image(elf.phdrs[k], k)[p]
      BY <2>3, <3>7, <3>8, <3>9 DEF Placed, Laid
    <3>12. \A k, l \in Passed \cup {i} :
             k # l => Target(elf.phdrs[k]) \cap Target(elf.phdrs[l]) = {}
      BY <2>3, <3>5, <3>9 DEF Placed, Laid
    <3>13. mem' = [p \in DOMAIN mem' |-> mem'[p]]
      BY <1>4
    <3> QED
      BY <2>1, <3>10, <3>11, <3>12, <3>13 DEF Laid
  <2> QED
    BY <1>1, <1>2, <1>4, <2>2, <2>3 DEF Placed, Before
<1>5. CASE pc' = "returned" /\ UNCHANGED <<i, allocated, mem>>
  BY <1>1, <1>5, PlacedStays DEF Before
<1> QED
  BY <1>3, <1>4, <1>5 DEF LoadSegment, Goto

LEMMA PlacedKept ==
  ASSUME TypeOK, Placed, Next
  PROVE  Placed'
<1> USE DEF Before, Goto, Keep, KeepFile, KeepRead, ReadFails, firmware
<1>1. CASE RsdpScan \/ OpenVolume \/ Open \/ GetInfoSize \/ AllocInfo \/ GetInfo
  BY <1>1, PlacedStays DEF RsdpScan, OpenVolume, Open, GetInfoSize, AllocInfo, GetInfo
<1>2. CASE AllocBuffer \/ Validate
  BY <1>2, PlacedStays DEF AllocBuffer, Validate
<1>3. CASE Read
  BY <1>3, PlacedStays, PlacedAnew DEF Read
<1>4. CASE LoadSegment
  BY <1>4, PlacedMore
<1>5. CASE SegmentsDone
  BY <1>5, PlacedStays DEF SegmentsDone
<1>6. CASE AskMapSize \/ AllocMap \/ GetMap \/ ConvertMap \/ Exit
  BY <1>6, PlacedStays DEF AskMapSize, AllocMap, GetMap, ConvertMap, Exit
<1>7. CASE RetryGetMap \/ RetryConvert \/ RetryExit \/ EnterKernel
  BY <1>7, PlacedStays DEF RetryGetMap, RetryConvert, RetryExit, EnterKernel
<1>8. CASE FirmwareChange \/ Finished
  BY <1>8, PlacedStays DEF FirmwareChange, Finished, vars, loader
<1> QED
  BY <1>1, <1>2, <1>3, <1>4, <1>5, <1>6, <1>7, <1>8 DEF Next, LoaderStep

LEMMA StepKeeps == IInv /\ [Next]_vars => IInv'
<1> SUFFICES ASSUME IInv, [Next]_vars PROVE IInv'
  OBVIOUS
<1>1. CASE Next
  BY <1>1, TypesKept, ControlKept, MappedKept, PlacedKept DEF IInv
<1>2. CASE UNCHANGED vars
  <2>1. TypeOK'
    BY <1>2 DEF vars, loader, firmware, IInv, TypeOK
  <2>2. Control'
    BY <1>2 DEF vars, loader, firmware, IInv, Control
  <2>3. Mapped'
    BY <1>2 DEF vars, loader, firmware, IInv, Mapped, Whole
  <2>4. Placed'
    BY <1>2, PlacedStays DEF vars, loader, IInv
  <2> QED
    BY <2>1, <2>2, <2>3, <2>4 DEF IInv
<1> QED
  BY <1>1, <1>2

LEMMA SpecInv == Spec => []IInv
  BY InitInv, StepKeeps, PTL DEF Spec
-----------------------------------------------------------------------------
(* What the loader promises.                                               *)

\* An early return leaves boot services active, no file open and no file
\* information allocated; the kernel is entered with services active only if the
\* map changed once more during the retry, or the retry did not get it; and the
\* array of regions is never overrun.
THEOREM LoaderSound == Spec => []Inv
<1>1. ASSUME IInv PROVE Inv
  BY <1>1 DEF IInv, Inv, FilesClosed, RetrySuffices, Control, FileOpen, Leaving
<1> QED
  BY <1>1, SpecInv, PTL

\* No boot service but the two of the retry is used once ExitBootServices has
\* been called: nothing is opened, allocated or freed.
THEOREM QuietOnceExited == Spec => QuietAfterExit
<1>1. ASSUME IInv, [Next]_vars, exit_tried PROVE UNCHANGED <<open, pool, allocated, mem>>
  <2>1. pc \in Retrying \cup Leaving
    BY <1>1 DEF IInv, Control
  <2>2. CASE Next
    <3> USE DEF Retrying, Leaving
    <3>1. RetryGetMap \/ RetryConvert \/ RetryExit \/ EnterKernel \/ FirmwareChange \/ Finished
      BY <2>1, <2>2 DEF Next, LoaderStep, RsdpScan, OpenVolume, Open, GetInfoSize,
         AllocInfo, GetInfo, AllocBuffer, Read, Validate, LoadSegment,
         SegmentsDone, AskMapSize, AllocMap, GetMap, ConvertMap, Exit
    <3> QED
      BY <3>1 DEF RetryGetMap, RetryConvert, RetryExit, EnterKernel,
         FirmwareChange, Finished, Keep, KeepFile, vars, loader
  <2>3. CASE UNCHANGED vars
    BY <2>3 DEF vars, loader
  <2> QED
    BY <1>1, <2>2, <2>3
<1>2. ASSUME IInv, [Next]_vars
      PROVE  [exit_tried => UNCHANGED <<open, pool, allocated, mem>>]_vars
  BY <1>1, <1>2
<1> QED
  BY <1>2, SpecInv, PTL DEF Spec, QuietAfterExit

\* Once all headers have been passed, memory is the image the file asks for.
LEMMA ImageComplete ==
  ASSUME TypeOK, Placed, i > Len(elf.phdrs), Fits
  PROVE  mem = Wanted
<1>1. Passed = Segments
  <2>1. elf.phdrs \in Seq(Headers) /\ i \in Nat
    BY DEF Placed, TypeOK
  <2> QED
    BY <2>1 DEF Passed, Segments
<1>2. ~ \E k, l \in Segments : k # l /\ Target(elf.phdrs[k]) \cap Target(elf.phdrs[l]) # {}
  BY <1>1 DEF Placed, Laid
<1> DEFINE Cover == UNION {Target(elf.phdrs[k]) : k \in Segments}
           Of(p) == CHOOSE k \in Segments : p \in Target(elf.phdrs[k])
<1>3. Wanted = [p \in Cover |-> Image(elf.phdrs[Of(p)], Of(p))[p]]
  BY <1>2 DEF Wanted
<1>4. mem = [p \in Cover |-> mem[p]]
  BY <1>1 DEF Placed, Laid
<1>5. ASSUME NEW p \in Cover PROVE mem[p] = Image(elf.phdrs[Of(p)], Of(p))[p]
  <2>1. \E k \in Segments : p \in Target(elf.phdrs[k])
    BY <1>5
  <2>2. Of(p) \in Segments /\ p \in Target(elf.phdrs[Of(p)])
    BY <2>1
  <2>3. \A k \in Segments : \A q \in Target(elf.phdrs[k]) : mem[q] = Image(elf.phdrs[k], k)[q]
    BY <1>1 DEF Placed, Laid
  <2> HIDE DEF Of
  <2> QED
    BY <2>2, <2>3
<1> HIDE DEF Cover, Of
<1>6. [p \in Cover |-> mem[p]] = [p \in Cover |-> Image(elf.phdrs[Of(p)], Of(p))[p]]
  BY <1>5
<1> QED
  BY <1>3, <1>4, <1>6

\* Every step keeps loading, gives up, leaves for the kernel or does nothing.
LEMMA StepKinds ==
  ASSUME Next
  PROVE  \/ pc \notin {"returned", "kernel"} /\ pc' \notin {"returned", "kernel"}
         \/ /\ pc \notin {"returned", "kernel"} /\ pc' = "returned"
            /\ UNCHANGED <<elf, fw_map>>
         \/ EnterKernel
         \/ UNCHANGED vars
<1> USE DEF Goto, Keep, KeepFile, KeepRead, ReadFails, firmware
<1>1. CASE RsdpScan \/ Validate \/ SegmentsDone \/ AskMapSize \/ ConvertMap
  BY <1>1 DEF RsdpScan, Validate, SegmentsDone, AskMapSize, ConvertMap
<1>2. CASE OpenVolume \/ AllocMap \/ LoadSegment
  BY <1>2 DEF OpenVolume, AllocMap, LoadSegment
<1>3. CASE Open \/ GetInfoSize \/ AllocInfo
  BY <1>3 DEF Open, GetInfoSize, AllocInfo
<1>4. CASE GetInfo \/ AllocBuffer \/ Read
  BY <1>4 DEF GetInfo, AllocBuffer, Read
<1>5. CASE GetMap \/ Exit \/ RetryGetMap \/ RetryConvert \/ RetryExit
  BY <1>5 DEF GetMap, Exit, RetryGetMap, RetryConvert, RetryExit
<1>6. CASE FirmwareChange \/ Finished
  BY <1>6 DEF FirmwareChange, Finished
<1> QED
  BY <1>1, <1>2, <1>3, <1>4, <1>5, <1>6 DEF Next, LoaderStep

\* What is told is true, and complete if the array has room for it.
LEMMA ToldTrue ==
  ASSUME NEW map \in Seq(Descriptors)
  PROVE  /\ Told(Convert(map)) \subseteq Truth(map)
         /\ Cardinality(Nonempty(map)) <= MaxRegions => Told(Convert(map)) = Truth(map)
<1> DEFINE R == Convert(map)
<1>1. DOMAIN R = Kept(map) /\ Kept(map) \subseteq Nonempty(map) /\ Nonempty(map) \subseteq DOMAIN map
  BY DEF Convert, Kept, Nonempty
<1>2. \A k \in DOMAIN map : map[k] \in Descriptors
  OBVIOUS
<1>3. ASSUME NEW k \in Kept(map)
      PROVE  /\ PagesOf(R[k]) = PagesOf(map[k])
             /\ {R[k].type} \ {"reserved"} = {use \in DOMAIN MemoryType : MemoryType[use] = map[k].type}
  <2>1. R[k].base = map[k].base /\ R[k].pages = map[k].pages /\ R[k].type = AurelionType(map[k].type)
    BY <1>3 DEF Convert
  <2>2. map[k].type \in FirmwareTypes
    BY <1>1, <1>2 DEF Descriptors
  <2>3. \A t \in FirmwareTypes :
          {AurelionType(t)} \ {"reserved"} = {use \in DOMAIN MemoryType : MemoryType[use] = t}
    BY DEF FirmwareTypes, AurelionType, MemoryType
  <2> QED
    BY <2>1, <2>2, <2>3 DEF PagesOf
<1> HIDE DEF R
<1> DEFINE Told1(k) == PagesOf(R[k]) \X ({R[k].type} \ {"reserved"})
           True1(k) == PagesOf(map[k]) \X {use \in DOMAIN MemoryType : MemoryType[use] = map[k].type}
<1>4. \A k \in Kept(map) : Told1(k) = True1(k)
  BY <1>3
<1>5. ASSUME NEW k \in DOMAIN map, k \notin Nonempty(map) PROVE True1(k) = {}
  <2>1. map[k].pages = 0 /\ map[k].base \in Nat
    BY <1>2, <1>5 DEF Nonempty, Descriptors
  <2>2. PagesOf(map[k]) = {}
    BY <2>1 DEF PagesOf
  <2> QED
    BY <2>2
<1>6. Told(R) = UNION {Told1(k) : k \in Kept(map)}
  BY <1>1 DEF Told
<1>7. Truth(map) = UNION {True1(k) : k \in DOMAIN map}
  BY DEF Truth
<1> HIDE DEF Told1, True1
<1>8. Told(R) \subseteq Truth(map)
  BY <1>1, <1>4, <1>6, <1>7
<1>9. Kept(map) = Nonempty(map) => Truth(map) \subseteq Told(R)
  BY <1>1, <1>4, <1>5, <1>6, <1>7
<1> QED
  BY <1>8, <1>9, KeptBounded DEF R

\* The loader implements what a loader promises: unless services are still
\* active, the retry did not get the map or a segment has more in the file than
\* in memory, the kernel is entered with exactly the segments its file asks for,
\* and what it is told of memory is true, and complete if the array has room.
THEOREM LoaderImplements == Spec => Implements
<1>1. Init => Promise!Init
  BY DEF Init, Promise!Init, Entered
<1>2. ASSUME IInv, [Next]_vars PROVE [Promise!Next]_(Promise!vars)
  <2>1. CASE pc \notin {"returned", "kernel"} /\ pc' \notin {"returned", "kernel"}
    BY <2>1 DEF Entered, Promise!Next, Promise!Learn
  <2>2. CASE /\ pc \notin {"returned", "kernel"} /\ pc' = "returned"
             /\ UNCHANGED <<elf, fw_map>>
    <3>1. Wanted' = Wanted
      BY <2>2 DEF Wanted, Segments, Image, Target, Copied
    <3> QED
      BY <2>2, <3>1 DEF Entered, Promise!Next, Promise!GiveUp
  <2>3. CASE EnterKernel
    <3>1. /\ pc = "boot_info" /\ pc' = "kernel"
          /\ UNCHANGED <<elf, mem, fw_key, fw_map, memory_regions, bs_active, retry_answer>>
      BY <2>3 DEF EnterKernel, Goto, KeepFile, Keep, firmware
    <3>2. Wanted' = Wanted /\ Fits' = Fits
      BY <3>1 DEF Wanted, Segments, Image, Target, Copied, Fits
    <3>3. CASE ~Entered'
      BY <3>1, <3>2, <3>3 DEF Entered, Promise!Next, Promise!GiveUp
    <3>4. CASE Entered'
      <4>1. ~bs_active /\ retry_answer \in {"none", "filled"} /\ Fits
        BY <3>1, <3>2, <3>4 DEF Entered
      <4>2. mem = Wanted
        BY <1>2, <3>1, <4>1, ImageComplete DEF IInv, Placed, Before
      <4>3. memory_regions = Convert(fw_map) /\ fw_map \in Seq(Descriptors)
        BY <1>2, <3>1, <4>1, Sizes DEF IInv, TypeOK, Mapped, Whole, Leaving
      <4>4. Told(memory_regions) \subseteq Truth(fw_map)
        BY <4>3, ToldTrue
      <4>5. Cardinality(Nonempty(fw_map)) <= MaxRegions => Told(memory_regions) = Truth(fw_map)
        BY <4>3, ToldTrue
      <4>6. ~Entered
        BY <3>1 DEF Entered
      <4> QED
        BY <3>1, <3>2, <3>4, <4>2, <4>4, <4>5, <4>6 DEF Promise!Next, Promise!Leave
    <3> QED
      BY <3>3, <3>4
  <2>4. CASE UNCHANGED vars
    <3>1. Wanted' = Wanted /\ Fits' = Fits
      BY <2>4 DEF vars, loader, Wanted, Segments, Image, Target, Copied, Fits
    <3> QED
      BY <2>4, <3>1 DEF vars, loader, firmware, Entered, Promise!vars
  <2> QED
    BY <1>2, <2>1, <2>2, <2>3, <2>4, StepKinds
<1> QED
  BY <1>1, <1>2, SpecInv, PTL DEF Spec, Implements, Promise!Spec
=============================================================================
