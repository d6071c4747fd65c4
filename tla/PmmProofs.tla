----------------------------- MODULE PmmProofs -----------------------------
(***************************************************************************)
(* Proofs about the physical memory manager, for every frame size, bitmap  *)
(* position and set of memory maps.                                        *)
(***************************************************************************)
EXTENDS Pmm, FiniteSetTheorems, TLAPS

\* Before init the statics are 0; after it every frame that must not be handed
\* out is still reserved, or a caller has freed it.
Guarded ==
  /\ ~booted => pmm_total_pages = 0 /\ pmm_bitmap = {} /\ released = {}
  /\ booted /\ pmm_total_pages > 0 =>
       BitmapFrames(pmm_total_pages) \cup {0} \subseteq reserved \cup released

\* The inductive invariant.
IInv == TypeOK /\ OneOwner /\ Guarded /\ CountNeverShort

\* A quotient of naturals is a natural.
LEMMA DivNat == \A a \in Nat, b \in Nat \ {0} : a \div b \in Nat
  OBVIOUS

\* The frames below a bound are finitely many, and so is each of their subsets.
LEMMA FramesFinite ==
  ASSUME NEW total \in Nat, NEW S, S \subseteq Frames(total)
  PROVE  IsFiniteSet(S) /\ Cardinality(S) \in Nat
<1>1. IsFiniteSet(0..total)
  BY FS_Interval
<1>2. S \in SUBSET (0..total)
  BY DEF Frames
<1> QED
  BY <1>1, <1>2, FS_Subset, FS_CardinalityType

\* The search sees finitely many frames, so their number is a natural.
LEMMA FreeFinite ==
  ASSUME TypeOK
  PROVE  IsFiniteSet(FreeFrames) /\ Cardinality(FreeFrames) \in Nat
<1>1. pmm_total_pages \in Nat /\ FreeFrames \subseteq Frames(pmm_total_pages)
  BY DEF TypeOK, FreeFrames
<1> QED
  BY <1>1, FramesFinite

\* What init leaves behind: bounded, counted at least as high as what is free.
LEMMA InitEffect ==
  ASSUME PmmAssumption, TypeOK, NEW m \in MemoryMaps, PmmInit(m)
  PROVE  /\ pmm_total_pages' \in Nat
         /\ pmm_bitmap' \subseteq 0..pmm_total_pages'
         /\ BitmapFrames(pmm_total_pages') \cup {0} \subseteq pmm_bitmap'
         /\ pmm_free_pages' \in Nat
         /\ pmm_free_pages' >= Cardinality(FreeFrames')
<1>1. PICK max_phys \in {End(m[i]) : i \in DOMAIN m} :
        LET total == max_phys \div PageSize
            usable == MarkedFree(m, total)
        IN  /\ pmm_total_pages' = total
            /\ pmm_free_pages' = Cardinality(usable)
            /\ pmm_bitmap' = (Frames(total) \ usable)
                                \cup BitmapFrames(total) \cup {0}
  BY DEF PmmInit, InitialBits, CountFree
<1> DEFINE total == max_phys \div PageSize
           usable == MarkedFree(m, total)
<1>2. max_phys \in Nat
  <2>1. PICK i \in DOMAIN m : max_phys = End(m[i])
    OBVIOUS
  <2>2. m \in Seq(Region)
    BY PmmAssumption DEF PmmAssumption
  <2>3. m[i] \in Region
    BY <2>1, <2>2
  <2> QED
    BY <2>1, <2>3 DEF End, Region
<1>3. total \in Nat
  BY <1>2, DivNat, PmmAssumption DEF PmmAssumption
<1>4. usable \subseteq Frames(total)
  BY DEF MarkedFree, MarkRegion
<1>5. BitmapFrames(total) \subseteq Frames(total) /\ Frames(total) \subseteq 0..total
  BY DEF BitmapFrames, Frames
<1>6. FreeFrames' \in SUBSET usable
  <2>1. FreeFrames' = Frames(total) \ pmm_bitmap'
    BY <1>1 DEF FreeFrames, Frames
  <2> QED
    BY <1>1, <2>1
<1>7. IsFiniteSet(usable) /\ Cardinality(usable) \in Nat
  BY <1>3, <1>4, FramesFinite
<1>8. Cardinality(FreeFrames') <= Cardinality(usable)
  BY <1>6, <1>7, FS_Subset
<1>9. Cardinality(FreeFrames') \in Nat
  BY <1>6, <1>7, FS_Subset, FS_CardinalityType
<1> QED
  BY <1>1, <1>3, <1>5, <1>7, <1>8, <1>9

\* A grant takes one clear bit, which had no owner, from the free frames.
LEMMA AllocEffect ==
  ASSUME PmmAssumption, IInv, AllocPage
  PROVE  /\ TypeOK'
         /\ OneOwner'
         /\ Cardinality(FreeFrames) = Cardinality(FreeFrames') + 1
         /\ Cardinality(FreeFrames') \in Nat
         /\ pmm_free_pages' = pmm_free_pages - 1
<1>1. PICK i \in FreeFrames :
        /\ pmm_bitmap' = pmm_bitmap \cup {i}
        /\ pmm_free_pages' = pmm_free_pages - 1
        /\ ret' = i * PageSize
        /\ held' = held \cup {i}
        /\ UNCHANGED <<booted, pmm_total_pages, regions, reserved, released>>
  BY DEF AllocPage
<1>2. i \in 0..pmm_total_pages /\ i \notin pmm_bitmap
  BY DEF FreeFrames, Frames
<1>3. FreeFrames' = FreeFrames \ {i}
  BY <1>1 DEF FreeFrames, Frames
<1>4. IsFiniteSet(FreeFrames) /\ Cardinality(FreeFrames) \in Nat
  BY FreeFinite DEF IInv
<1>5. Cardinality(FreeFrames') = Cardinality(FreeFrames) - 1
  BY <1>1, <1>3, <1>4, FS_RemoveElement
<1>6. IsFiniteSet(FreeFrames') /\ Cardinality(FreeFrames') \in Nat
  BY <1>3, <1>4, FS_RemoveElement, FS_CardinalityType
<1>7. pmm_free_pages' \in Nat
  BY <1>1, <1>4, <1>5, <1>6 DEF IInv, TypeOK, CountNeverShort
<1>8. ret' \in Nat
  <2>1. i \in Nat /\ PageSize \in Nat
    BY <1>2, PmmAssumption DEF IInv, TypeOK, PmmAssumption
  <2> QED
    BY <1>1, <2>1
<1>9. TypeOK'
  BY <1>1, <1>2, <1>7, <1>8 DEF IInv, TypeOK
<1>10. OneOwner'
  BY <1>1, <1>2 DEF IInv, OneOwner
<1> QED
  BY <1>1, <1>4, <1>5, <1>6, <1>9, <1>10

\* A free that clears a bit: the frame was held, or reserved since init.
Frees(f) ==
  /\ f \in held \cup reserved /\ f < pmm_total_pages
  /\ held' = held \ {f} /\ reserved' = reserved \ {f}
  /\ released' = released \cup ({f} \cap reserved)
  /\ FreeFrames' = FreeFrames \cup {f} /\ f \notin FreeFrames
  /\ pmm_bitmap' = pmm_bitmap \ {f}
  /\ pmm_free_pages' = pmm_free_pages + 1
  /\ UNCHANGED <<booted, pmm_total_pages, ret, regions>>

\* A free either changes nothing, or makes one owned frame a free one.
LEMMA FreeEffect ==
  ASSUME PmmAssumption, IInv, NEW page, FreePage(page)
  PROVE  UNCHANGED vars \/ \E f \in Nat : Frees(f)
<1>0. PICK f : f = page \div PageSize
  OBVIOUS
<1>1. CASE f < pmm_total_pages /\ f \in pmm_bitmap
  <2>1. f \in held \cup reserved /\ f \in Nat
    BY <1>1 DEF IInv, TypeOK, OneOwner
  <2>2. /\ held' = held \ {f} /\ reserved' = reserved \ {f}
        /\ released' = released \cup ({f} \cap reserved)
        /\ pmm_bitmap' = pmm_bitmap \ {f}
        /\ pmm_free_pages' = pmm_free_pages + 1
        /\ UNCHANGED <<booted, pmm_total_pages, ret, regions>>
    BY <1>0, <1>1 DEF FreePage
  <2>3. f \in Frames(pmm_total_pages) /\ f \notin FreeFrames
    BY <1>1, <2>1 DEF IInv, TypeOK, Frames, FreeFrames
  <2>4. FreeFrames' = FreeFrames \cup {f}
    BY <2>2, <2>3 DEF FreeFrames, Frames
  <2> QED
    BY <1>1, <2>1, <2>2, <2>3, <2>4 DEF Frees
<1>2. CASE ~(f < pmm_total_pages /\ f \in pmm_bitmap)
  BY <1>0, <1>2 DEF FreePage
<1> QED
  BY <1>1, <1>2

\* The number of free frames after a free that clears a bit.
LEMMA FreeCount ==
  ASSUME TypeOK, NEW f, f \notin FreeFrames, FreeFrames' = FreeFrames \cup {f}
  PROVE  /\ Cardinality(FreeFrames') = Cardinality(FreeFrames) + 1
         /\ Cardinality(FreeFrames') \in Nat
  BY FreeFinite, FS_AddElement, FS_CardinalityType
-----------------------------------------------------------------------------
\* The statics start in the invariant.
LEMMA InitInv == Init => IInv
<1> SUFFICES ASSUME Init PROVE IInv
  OBVIOUS
<1>1. TypeOK /\ OneOwner /\ Guarded
  BY DEF Init, TypeOK, OneOwner, Guarded, NULL
<1>2. FreeFrames = {}
  BY DEF Init, FreeFrames, Frames
<1>3. CountNeverShort
  BY <1>2, FS_EmptySet DEF Init, CountNeverShort
<1> QED
  BY <1>1, <1>3 DEF IInv

\* Every call preserves it.
LEMMA StepInv == PmmAssumption /\ IInv /\ [Next]_vars => IInv'
<1> SUFFICES ASSUME PmmAssumption, IInv, [Next]_vars PROVE IInv'
  OBVIOUS
<1>0. CASE UNCHANGED vars
  BY <1>0 DEF vars, IInv, TypeOK, OneOwner, Guarded, CountNeverShort,
              FreeFrames, Frames, BitmapFrames
<1>1. CASE PmmInitNoMap
  <2>1. FreeFrames' = FreeFrames
    BY <1>1 DEF PmmInitNoMap, FreeFrames, Frames
  <2> QED
    BY <1>1, <2>1 DEF PmmInitNoMap, IInv, TypeOK, OneOwner, Guarded,
                      CountNeverShort
<1>2. ASSUME NEW m \in MemoryMaps, PmmInit(m)
      PROVE  IInv'
  <2>1. /\ pmm_total_pages' \in Nat
        /\ pmm_bitmap' \subseteq 0..pmm_total_pages'
        /\ BitmapFrames(pmm_total_pages') \cup {0} \subseteq pmm_bitmap'
        /\ pmm_free_pages' \in Nat
        /\ pmm_free_pages' >= Cardinality(FreeFrames')
    BY <1>2, InitEffect DEF IInv
  <2>2. /\ ~booted /\ booted' = TRUE
        /\ reserved' = pmm_bitmap'
        /\ UNCHANGED <<ret, held, released>>
    BY <1>2 DEF PmmInit
  <2>3. held = {} /\ released = {}
    BY <2>2 DEF IInv, Guarded, OneOwner
  <2>4. TypeOK' /\ OneOwner'
    BY <2>1, <2>2, <2>3 DEF IInv, TypeOK, OneOwner
  <2>5. Guarded'
    BY <2>1, <2>2 DEF Guarded, BitmapFrames, Frames
  <2> QED
    BY <2>1, <2>4, <2>5 DEF IInv, CountNeverShort
<1>3. CASE AllocPage
  <2>1. /\ TypeOK' /\ OneOwner'
        /\ Cardinality(FreeFrames) = Cardinality(FreeFrames') + 1
        /\ Cardinality(FreeFrames') \in Nat
        /\ pmm_free_pages' = pmm_free_pages - 1
    BY <1>3, AllocEffect
  <2>2. UNCHANGED <<booted, pmm_total_pages, reserved, released>>
    BY <1>3 DEF AllocPage
  <2>3. booted
    BY <1>3 DEF AllocPage, FreeFrames, Frames, IInv, Guarded
  <2>4. Guarded'
    BY <2>2, <2>3 DEF IInv, Guarded, BitmapFrames, Frames
  <2>5. CountNeverShort'
    BY <2>1 DEF IInv, CountNeverShort, TypeOK
  <2> QED
    BY <2>1, <2>4, <2>5 DEF IInv
<1>4. CASE AllocFails
  <2>1. FreeFrames' = FreeFrames
    BY <1>4 DEF AllocFails, FreeFrames, Frames
  <2> QED
    BY <1>4, <2>1 DEF AllocFails, IInv, TypeOK, OneOwner, Guarded,
                      CountNeverShort, NULL, BitmapFrames, Frames
<1>5. ASSUME NEW page \in Freeable, FreePage(page)
      PROVE  IInv'
  <2>1. CASE UNCHANGED vars
    BY <2>1, <1>0
  <2>2. ASSUME NEW f \in Nat, Frees(f)
        PROVE  IInv'
    <3>1. TypeOK' /\ OneOwner'
      BY <2>2 DEF Frees, IInv, TypeOK, OneOwner
    <3>2. Guarded'
      BY <2>2 DEF Frees, IInv, Guarded, BitmapFrames, Frames
    <3>3. /\ Cardinality(FreeFrames') = Cardinality(FreeFrames) + 1
          /\ Cardinality(FreeFrames) \in Nat
      BY <2>2, FreeCount, FreeFinite DEF Frees, IInv
    <3>4. CountNeverShort'
      BY <2>2, <3>3 DEF Frees, IInv, CountNeverShort, TypeOK
    <3> QED
      BY <3>1, <3>2, <3>4 DEF IInv
  <2> QED
    BY <1>5, <2>1, <2>2, FreeEffect
<1> QED
  BY <1>0, <1>1, <1>2, <1>3, <1>4, <1>5 DEF Next

\* The invariant holds throughout.
LEMMA SpecInv == Spec => []IInv
<1>1. PmmAssumption
  BY PmmAssumption
<1> QED
  BY <1>1, InitInv, StepInv, PTL DEF Spec
-----------------------------------------------------------------------------
\* Type correctness of every static of pmm.c; in particular the unsigned
\* pmm_free_pages never becomes negative, that is, never wraps.
THEOREM TypeCorrect == Spec => []TypeOK
  BY SpecInv, PTL DEF IInv

\* Every set bit of the bitmap has exactly one owner.
THEOREM OwnerUnique == Spec => []OneOwner
  BY SpecInv, PTL DEF IInv

\* Whatever is requested and freed in whatever order, frame 0 and the bitmap's
\* own frames are free or handed out only if a caller has freed them, which
\* pmm.c:148-155 accepts; in particular a double free, a free out of range and
\* the order in which init marks them (pmm.c:71-99) never cost one of them.
THEOREM GuardsAlwaysKept == Spec => []GuardsKept
<1>1. IInv => GuardsKept
  BY DEF IInv, OneOwner, Guarded, GuardsKept, FreeFrames
<1> QED
  BY <1>1, SpecInv, PTL

\* pmm_free_pages never claims fewer pages than are free.
THEOREM CountIsUpperBound == Spec => []CountNeverShort
  BY SpecInv, PTL DEF IInv

\* The four together, which is what the allocator's callers rely on between any
\* two calls, for every memory map and frame size.
THEOREM AllocatorSound == Spec => []Inv
<1>1. IInv => GuardsKept
  BY DEF IInv, OneOwner, Guarded, GuardsKept, FreeFrames
<1>2. IInv => Inv
  BY <1>1 DEF IInv, Inv
<1> QED
  BY <1>2, SpecInv, PTL

\* After init, every call moves the counter and the bitmap together.
THEOREM DriftNeverChanges == Spec => DriftConstant
<1> DEFINE Drift == booted => pmm_free_pages' + Cardinality(FreeFrames)
                                = pmm_free_pages + Cardinality(FreeFrames')
<1>1. IInv /\ [Next]_vars => [Drift]_vars
  <2> SUFFICES ASSUME IInv, Next PROVE Drift
    OBVIOUS
  <2>0. Cardinality(FreeFrames) \in Nat /\ pmm_free_pages \in Nat
    BY FreeFinite DEF IInv, TypeOK
  <2>1. CASE PmmInitNoMap \/ \E m \in MemoryMaps : PmmInit(m)
    BY <2>1 DEF PmmInitNoMap, PmmInit
  <2>2. CASE AllocPage
    BY <2>0, <2>2, AllocEffect, PmmAssumption
  <2>3. CASE AllocFails
    <3>1. FreeFrames' = FreeFrames /\ pmm_free_pages' = pmm_free_pages
      BY <2>3 DEF AllocFails, FreeFrames, Frames
    <3> QED
      BY <3>1
  <2>4. ASSUME NEW page \in Freeable, FreePage(page)
        PROVE  Drift
    <3>1. CASE UNCHANGED vars
      <4>1. FreeFrames' = FreeFrames /\ pmm_free_pages' = pmm_free_pages
        BY <3>1 DEF vars, FreeFrames, Frames
      <4> QED
        BY <4>1
    <3>2. ASSUME NEW f \in Nat, Frees(f)
          PROVE  Drift
      BY <2>0, <3>2, FreeCount DEF Frees, IInv
    <3> QED
      BY <2>4, <3>1, <3>2, FreeEffect, PmmAssumption
  <2> QED
    BY <2>1, <2>2, <2>3, <2>4 DEF Next
<1> QED
  BY <1>1, SpecInv, PTL DEF Spec, DriftConstant

\* The manager implements the abstract page allocator: in particular a frame
\* is granted to one caller at a time, and a request is refused only when no
\* frame is free.  A free of a reserved frame gives the allocator a frame.
THEOREM PmmImplements == Spec => Implements
<1>1. Init => Abstract!Init
  BY DEF Init, Abstract!Init, FreeFrames, Frames
<1>2. IInv /\ IInv' /\ [Next]_vars => [Abstract!Next]_(Abstract!vars)
  <2> SUFFICES ASSUME IInv, IInv', [Next]_vars
               PROVE  [Abstract!Next]_(Abstract!vars)
    OBVIOUS
  <2>0. CASE UNCHANGED vars
    BY <2>0 DEF vars, Abstract!vars, FreeFrames, Frames
  <2>1. CASE PmmInitNoMap
    <3>1. Abstract!SetUp
      BY <2>1 DEF PmmInitNoMap, Abstract!SetUp, FreeFrames, Frames, IInv, TypeOK
    <3> QED
      BY <3>1 DEF Abstract!Next
  <2>2. ASSUME NEW m \in MemoryMaps, PmmInit(m)
        PROVE  Abstract!Next
    <3>1. FreeFrames' \subseteq Nat
      BY DEF FreeFrames, Frames, IInv, TypeOK
    <3>2. Abstract!SetUp
      BY <2>2, <3>1 DEF PmmInit, Abstract!SetUp
    <3> QED
      BY <3>2 DEF Abstract!Next
  <2>3. CASE AllocPage
    <3>1. PICK i \in FreeFrames :
            /\ pmm_bitmap' = pmm_bitmap \cup {i}
            /\ ret' = i * PageSize
            /\ held' = held \cup {i}
            /\ UNCHANGED <<booted, pmm_total_pages, regions, reserved, released>>
      BY <2>3 DEF AllocPage
    <3>2. FreeFrames' = FreeFrames \ {i}
      BY <3>1 DEF FreeFrames, Frames
    <3>3. i \in Nat /\ (i = 0 => 0 \in released)
      <4>1. i \in Frames(pmm_total_pages) /\ i \notin pmm_bitmap
        BY DEF FreeFrames
      <4>2. pmm_total_pages > 0
        BY <4>1 DEF Frames, IInv, TypeOK
      <4>3. booted
        BY <4>2 DEF IInv, Guarded
      <4>4. 0 \in pmm_bitmap \cup released
        BY <4>2, <4>3 DEF IInv, Guarded, OneOwner
      <4> QED
        BY <4>1, <4>4 DEF Frames
    <3>4. i * PageSize # NULL \/ i \in released
      BY <3>3, PmmAssumption DEF PmmAssumption, NULL
    <3>5. Abstract!Grant(i)
      BY <3>1, <3>2, <3>4 DEF Abstract!Grant
    <3> QED
      BY <3>5 DEF Abstract!Next
  <2>4. CASE AllocFails
    <3>1. FreeFrames' = FreeFrames
      BY <2>4 DEF AllocFails, FreeFrames, Frames
    <3>2. Abstract!Refuse
      BY <2>4, <3>1 DEF AllocFails, Abstract!Refuse
    <3> QED
      BY <3>2 DEF Abstract!Next
  <2>5. ASSUME NEW page \in Freeable, FreePage(page)
        PROVE  [Abstract!Next]_(Abstract!vars)
    <3>1. CASE UNCHANGED vars
      BY <3>1, <2>0
    <3>2. ASSUME NEW f \in held, Frees(f)
          PROVE  Abstract!Next
      <4>1. f \notin reserved
        BY DEF IInv, OneOwner
      <4>2. Abstract!Return(f)
        BY <3>2, <4>1 DEF Frees, Abstract!Return
      <4> QED
        BY <4>2 DEF Abstract!Next
    <3>3. ASSUME NEW f, f \notin held, Frees(f)
          PROVE  Abstract!Next
      <4>1. Abstract!Give(f) /\ f \in FreeFrames'
        BY <3>3 DEF Frees, Abstract!Give
      <4> QED
        BY <4>1 DEF Abstract!Next
    <3> QED
      BY <2>5, <3>1, <3>2, <3>3, FreeEffect, PmmAssumption
  <2> QED
    BY <2>0, <2>1, <2>2, <2>3, <2>4, <2>5 DEF Next
<1> QED
  BY <1>1, <1>2, SpecInv, PTL DEF Spec, Implements, Abstract!Spec

\* The frames that can be had are those init cleared, and those given to it.
Cleared ==
  /\ regions \in MemoryMaps \cup {<<>>}
  /\ ~booted => regions = <<>>
  /\ (FreeFrames \cup held) \ released \subseteq MarkedFree(regions, pmm_total_pages)

LEMMA ClearedKept == IInv /\ Cleared /\ [Next]_vars => Cleared'
<1> SUFFICES ASSUME IInv, Cleared, [Next]_vars PROVE Cleared'
  OBVIOUS
<1>1. CASE UNCHANGED vars
  BY <1>1 DEF vars, Cleared, FreeFrames
<1>2. CASE PmmInitNoMap
  BY <1>2 DEF PmmInitNoMap, Cleared, FreeFrames
<1>3. ASSUME NEW m \in MemoryMaps, PmmInit(m) PROVE Cleared'
  <2>1. held' = {} /\ regions' = m /\ booted'
    BY <1>3 DEF PmmInit, IInv, Guarded, OneOwner
  <2>2. FreeFrames' \subseteq MarkedFree(m, pmm_total_pages')
    BY <1>3 DEF PmmInit, FreeFrames, InitialBits
  <2> QED
    BY <2>1, <2>2 DEF Cleared
<1>4. CASE AllocPage
  <2>1. PICK i \in FreeFrames :
          /\ pmm_bitmap' = pmm_bitmap \cup {i} /\ held' = held \cup {i}
          /\ UNCHANGED <<booted, pmm_total_pages, regions, released>>
    BY <1>4 DEF AllocPage
  <2> QED
    BY <2>1 DEF Cleared, FreeFrames
<1>5. CASE AllocFails
  BY <1>5 DEF AllocFails, Cleared, FreeFrames
<1>6. ASSUME NEW page \in Freeable, FreePage(page) PROVE Cleared'
  <2>1. UNCHANGED <<booted, pmm_total_pages, regions>>
    BY <1>6 DEF FreePage, vars
  <2>2. CASE UNCHANGED vars
    BY <1>1, <2>2
  <2>3. ASSUME NEW f \in Nat, Frees(f) PROVE Cleared'
    <3>1. (FreeFrames' \cup held') \ released' \subseteq (FreeFrames \cup held) \ released
      BY <2>3 DEF Frees
    <3> QED
      BY <2>1, <3>1 DEF Cleared
  <2> QED
    BY <1>6, <2>2, <2>3, FreeEffect, PmmAssumption
<1> QED
  BY <1>1, <1>2, <1>3, <1>4, <1>5, <1>6 DEF Next

\* What a map must provide: usable regions that start where a frame does.
Aligned == \A m \in MemoryMaps : \A i \in DOMAIN m :
             m[i].type = "usable" => m[i].base % PageSize = 0

\* A frame marked free lies in a usable region, every byte of it.
LEMMA MarkedUsable ==
  ASSUME PmmAssumption, Aligned, NEW m \in MemoryMaps, NEW total,
         NEW f \in MarkedFree(m, total), NEW b \in f * PageSize .. (f + 1) * PageSize - 1
  PROVE  \E i \in DOMAIN m : m[i].type = "usable" /\ b \in m[i].base .. End(m[i]) - 1
<1>1. PICK i \in DOMAIN m : m[i].type = "usable" /\ f \in MarkRegion(m[i], total)
  BY DEF MarkedFree
<1>2. m[i] \in Region /\ PageSize \in Nat \ {0}
  BY DEF PmmAssumption
<1> DEFINE base == m[i].base
           end == End(m[i])
           low == base \div PageSize
           high == end \div PageSize
<1>3. base \in Nat /\ end \in Nat /\ base % PageSize = 0
  BY <1>1, <1>2 DEF Region, End, Aligned
<1>4. f \in Nat /\ low <= f /\ f < high
  BY <1>1 DEF MarkRegion, Frames
<1> HIDE DEF base, end
<1>5. /\ low \in Nat /\ base = low * PageSize
      /\ high \in Nat /\ high * PageSize <= end
  BY <1>2, <1>3
<1> HIDE DEF low, high
<1>6. low * PageSize <= f * PageSize /\ (f + 1) * PageSize <= high * PageSize
  <2>1. (f - low) * PageSize >= 0 /\ (high - (f + 1)) * PageSize >= 0
    <3>1. f - low \in Nat /\ high - (f + 1) \in Nat
      BY <1>4, <1>5
    <3> QED
      BY <1>2, <3>1
  <2> QED
    BY <1>2, <1>4, <1>5, <2>1
<1>7. b \in base .. end - 1
  BY <1>2, <1>3, <1>4, <1>5, <1>6
<1> QED
  BY <1>1, <1>7 DEF base, end

\* pmm.c:22-33: if usable regions start where frames do, nobody is handed a frame
\* that is not entirely usable memory, unless a caller has freed it unowned.
THEOREM UsableOnly == Aligned => (Spec => []OnlyUsable)
<1> SUFFICES ASSUME Aligned PROVE Spec => []OnlyUsable
  OBVIOUS
<1>1. Init => Cleared
  BY DEF Init, Cleared, FreeFrames, Frames
<1>2. Cleared => OnlyUsable
  <2> SUFFICES ASSUME Cleared, NEW f \in (FreeFrames \cup held) \ released,
                      NEW b \in f * PageSize .. (f + 1) * PageSize - 1
               PROVE  \E i \in DOMAIN regions : /\ regions[i].type = "usable"
                                               /\ b \in regions[i].base .. End(regions[i]) - 1
    BY DEF OnlyUsable
  <2>1. f \in MarkedFree(regions, pmm_total_pages) /\ regions # <<>>
    BY DEF Cleared, MarkedFree
  <2> QED
    BY <2>1, MarkedUsable, PmmAssumption DEF Cleared
<1> QED
  BY <1>1, <1>2, ClearedKept, SpecInv, PTL DEF Spec
============================================================================
