----------------------------- MODULE VmmProofs -----------------------------
(***************************************************************************)
(* Proofs about the virtual memory manager, for tables of every size and   *)
(* pools of any frames, in the kernel's reach or not.  The tables in       *)
(* memory form a tree, and every theorem rests on that: a level is         *)
(* assigned to each frame in use, an entry leads one level down, and no    *)
(* frame is entered from two places but the directory that the identity    *)
(* and the high alias share.                                               *)
(***************************************************************************)
EXTENDS Vmm, FiniteSetTheorems, WellFoundedInduction, TLAPS

VPages == [1..4 -> Index]
Statics == {Pml4, Pdpt, Pd, PtLow}

\* What callers must respect: they map no page of the kernel's own or of the
\* display, to no frame the page tables may come from.
Elsewhere == \A v \in Virts : v[1] # SlotFb
Outside == /\ Targets \cap (Pool \cup {0}) = {}
           /\ \A d \in Framebuffers : Mappable(d) => \A k \in 0 .. DisplayPages(d) - 1 :
                (d.address \div PageBytes) + k \notin Pool

\* The tables in memory m, when the frames fr hold none, form a tree: lev says how many
\* levels are below a table and itself, 0 if a frame is none.
Levels(fr, lev) ==
  /\ lev \in [Frames -> 0 .. 4]
  /\ lev[Pml4] = 4 /\ lev[Pdpt] = 3 /\ lev[Pd] = 2 /\ lev[PtLow] = 1
  /\ \A t \in Frames : lev[t] # 0 <=> t \in Statics \cup (Pool \ fr)
  /\ \A t \in Frames : lev[t] = 4 => t = Pml4
Linked(m, lev) ==
  \A t \in Frames, k \in Index : lev[t] >= 2 /\ m[t][k].present =>
    \/ /\ m[t][k] = To(m[t][k].frame) /\ m[t][k].frame \in Frames
       /\ lev[m[t][k].frame] = lev[t] - 1
    \/ t = Pd /\ m[t][k].large
Once(m, lev) ==
  \A t, u \in Frames, k, l \in Index, f \in Frames :
    lev[t] >= 2 /\ lev[u] >= 2 /\ m[t][k] = To(f) /\ m[u][l] = To(f) =>
      t = u /\ (k = l \/ (f = Pdpt /\ {k, l} \subseteq {0, SlotAlias}))
Fixed(m) ==
  /\ m[Pml4][0] = To(Pdpt) /\ m[Pml4][SlotAlias] = To(Pdpt)
  /\ m[Pdpt][0] = To(Pd) /\ m[Pd][0] = To(PtLow)
  /\ \A k \in 1 .. EarlyLarge - 1 : m[Pd][k] = LargeTo(k * Fan)
  /\ \A k \in Index : m[PtLow][k] = To(k)
  /\ \A k \in Index : k # 0 => ~m[Pdpt][k].present
  /\ \A k \in Index : k >= EarlyLarge => ~m[Pd][k].present
Owned(m, fr, lev) ==
  \A f \in Pool \ fr : \E t \in Frames, k \in Index : lev[t] >= 2 /\ m[t][k] = To(f)
Leaves(m, lev) ==
  \A t \in Frames, k \in Index :
    lev[t] = 1 /\ t # PtLow /\ m[t][k].present => m[t][k].frame \notin Pool
Tree(m, fr, lev) ==
  /\ m \in [Frames -> [Index -> Entry]] /\ fr \subseteq Pool
  /\ Levels(fr, lev) /\ Linked(m, lev) /\ Once(m, lev) /\ Fixed(m)
  /\ Owned(m, fr, lev) /\ Leaves(m, lev)

\* The assumptions, in the forms the proofs use.
LEMMA Layout ==
  /\ Fan \in Nat \ {0, 1} /\ EarlyLarge \in 2 .. Fan /\ 0 \in Index
  /\ {SlotAlias, SlotHigh, SlotFb} \subseteq Index \ {0} /\ SlotFb # SlotAlias
  /\ Statics \cup Pool \subseteq Frames \ {0} /\ Statics \cap Pool = {}
  /\ Pml4 \notin {Pdpt, Pd, PtLow} /\ Pdpt \notin {Pd, PtLow} /\ Pd # PtLow
  /\ Frames \subseteq Nat /\ Index \subseteq Nat /\ Pml4 \in Near
  BY VmmAssumption DEF Statics, Index, Frames, Early, Near, NULL

\* The fields of the entries the manager writes.
LEMMA Fields ==
  /\ \A f : To(f).present /\ ~To(f).large /\ To(f).frame = f
  /\ \A f : LargeTo(f).present /\ LargeTo(f).large /\ LargeTo(f).frame = f
  /\ ~Empty.present
  BY DEF To, LargeTo, Empty

\* What an assignment to one entry of one table makes of memory.
LEMMA Assign ==
  ASSUME NEW m \in [Frames -> [Index -> Entry]], NEW t \in Frames, NEW k \in Index,
         NEW e \in Entry
  PROVE  /\ [m EXCEPT ![t][k] = e] \in [Frames -> [Index -> Entry]]
         /\ \A u \in Frames, l \in Index :
              [m EXCEPT ![t][k] = e][u][l] = IF u = t /\ l = k THEN e ELSE m[u][l]
  OBVIOUS

\* ... and what clearing table f and linking it to entry k of table t does.
WithLink(m, t, k, f) == [m EXCEPT ![f] = ZeroTable, ![t][k] = To(f)]

LEMMA Linking ==
  ASSUME NEW m \in [Frames -> [Index -> Entry]], NEW t \in Frames, NEW k \in Index,
         NEW f \in Frames, f # t
  PROVE  /\ WithLink(m, t, k, f) \in [Frames -> [Index -> Entry]]
         /\ \A u \in Frames, l \in Index :
              WithLink(m, t, k, f)[u][l] = IF u = f THEN Empty ELSE IF u = t /\ l = k THEN To(f) ELSE m[u][l]
<1> DEFINE m1 == [m EXCEPT ![f] = ZeroTable]
<1>1. Empty \in Entry /\ To(f) \in Entry /\ ZeroTable \in [Index -> Entry]
  BY Layout DEF Empty, To, Entry, ZeroTable
<1>2. /\ m1 \in [Frames -> [Index -> Entry]]
      /\ \A u \in Frames, l \in Index : m1[u][l] = IF u = f THEN Empty ELSE m[u][l]
  BY <1>1 DEF ZeroTable
<1>3. WithLink(m, t, k, f) = [m1 EXCEPT ![t][k] = To(f)]
  BY DEF WithLink
<1> QED
  <2> HIDE DEF m1
  <2> QED
    BY <1>1, <1>2, <1>3, Assign

\* The tables before and after free frame f becomes a table, at an empty slot.
Linkage(m, fr, lev, t, k, f, m2, lev2) ==
  /\ t \in Frames \ {Pdpt, Pd} /\ lev[t] >= 2 /\ k \in Index
  /\ ~m[t][k].present /\ f \in fr
  /\ m2 \in [Frames -> [Index -> Entry]]
  /\ \A u \in Frames, l \in Index :
       m2[u][l] = IF u = f THEN Empty ELSE IF u = t /\ l = k THEN To(f) ELSE m[u][l]
  /\ lev2 \in [Frames -> 0 .. 4]
  /\ \A u \in Frames : lev2[u] = IF u = f THEN lev[t] - 1 ELSE lev[u]

\* The entries the processor reads on its way to page w.
E4(m, w) == m[Pml4][w[1]]
E3(m, w) == m[E4(m, w).frame][w[2]]
E2(m, w) == m[E3(m, w).frame][w[3]]
E1(m, w) == m[E2(m, w).frame][w[4]]

\* All the tables on the way are within reach.
Reachable(m, w, within) ==
  /\ E4(m, w).present => E4(m, w).frame \in within
  /\ E4(m, w).present /\ E3(m, w).present => E3(m, w).frame \in within
  /\ E4(m, w).present /\ E3(m, w).present /\ E2(m, w).present =>
       E2(m, w).large \/ E2(m, w).frame \in within

\* What it makes of them.
LEMMA Translating ==
  ASSUME NEW m, NEW w
  PROVE  /\ ~E4(m, w).present => Translate(m, w) = -1
         /\ E4(m, w).present /\ ~E3(m, w).present => Translate(m, w) = -1
         /\ E4(m, w).present /\ E3(m, w).present /\ ~E2(m, w).present => Translate(m, w) = -1
         /\ E4(m, w).present /\ E3(m, w).present /\ E2(m, w).present /\ E2(m, w).large =>
              Translate(m, w) = E2(m, w).frame + w[4]
         /\ E4(m, w).present /\ E3(m, w).present /\ E2(m, w).present /\ ~E2(m, w).large =>
              Translate(m, w) = IF E1(m, w).present THEN E1(m, w).frame ELSE -1
  BY Zenon DEF Translate, E4, E3, E2, E1

\* What a present entry of a table of a tree is.
LEMMA Child ==
  ASSUME NEW m, NEW lev, Linked(m, lev), NEW u \in Frames, NEW l \in Index,
         lev[u] >= 2, NEW e, e = m[u][l], e.present
  PROVE  \/ e = To(e.frame) /\ e.frame \in Frames /\ lev[e.frame] = lev[u] - 1
         \/ u = Pd /\ e.large
  BY DEF Linked

\* The tables of a tree on the way to a page.
LEMMA Descending ==
  ASSUME NEW m, NEW fr, NEW lev, Tree(m, fr, lev), NEW w \in VPages
  PROVE  /\ E4(m, w).present =>
              /\ E4(m, w) = To(E4(m, w).frame) /\ E4(m, w).frame \in Frames
              /\ lev[E4(m, w).frame] = 3
         /\ E4(m, w).present /\ E3(m, w).present =>
              /\ E3(m, w) = To(E3(m, w).frame) /\ E3(m, w).frame \in Frames
              /\ lev[E3(m, w).frame] = 2
         /\ E4(m, w).present /\ E3(m, w).present /\ E2(m, w).present =>
              \/ /\ E2(m, w) = To(E2(m, w).frame) /\ E2(m, w).frame \in Frames
                 /\ lev[E2(m, w).frame] = 1 /\ ~E2(m, w).large
              \/ E3(m, w).frame = Pd /\ E2(m, w).large
<1>1. Linked(m, lev) /\ lev[Pml4] = 4 /\ lev[Pd] = 2 /\ Pml4 \in Frames /\ Pml4 # Pd
  BY Layout DEF Tree, Levels, Statics
<1>2. w[1] \in Index /\ w[2] \in Index /\ w[3] \in Index
  BY DEF VPages
<1>3. ASSUME E4(m, w).present
      PROVE  /\ E4(m, w) = To(E4(m, w).frame) /\ E4(m, w).frame \in Frames
             /\ lev[E4(m, w).frame] = 3
  <2>1. \/ /\ E4(m, w) = To(E4(m, w).frame) /\ E4(m, w).frame \in Frames
           /\ lev[E4(m, w).frame] = lev[Pml4] - 1
        \/ Pml4 = Pd /\ E4(m, w).large
    BY <1>1, <1>2, <1>3, Child DEF E4
  <2> QED
    BY <2>1, <1>1
<1>4. ASSUME E4(m, w).present, E3(m, w).present
      PROVE  /\ E3(m, w) = To(E3(m, w).frame) /\ E3(m, w).frame \in Frames
             /\ lev[E3(m, w).frame] = 2
  <2>1. E4(m, w).frame \in Frames /\ lev[E4(m, w).frame] = 3
    BY <1>3, <1>4
  <2>2. \/ /\ E3(m, w) = To(E3(m, w).frame) /\ E3(m, w).frame \in Frames
           /\ lev[E3(m, w).frame] = lev[E4(m, w).frame] - 1
        \/ E4(m, w).frame = Pd /\ E3(m, w).large
    BY <1>1, <1>2, <1>4, <2>1, Child DEF E3
  <2> QED
    BY <2>1, <2>2, <1>1
<1>5. ASSUME E4(m, w).present, E3(m, w).present, E2(m, w).present
      PROVE  \/ /\ E2(m, w) = To(E2(m, w).frame) /\ E2(m, w).frame \in Frames
                /\ lev[E2(m, w).frame] = 1 /\ ~E2(m, w).large
             \/ E3(m, w).frame = Pd /\ E2(m, w).large
  <2>1. E3(m, w).frame \in Frames /\ lev[E3(m, w).frame] = 2
    BY <1>4, <1>5
  <2>2. \/ /\ E2(m, w) = To(E2(m, w).frame) /\ E2(m, w).frame \in Frames
           /\ lev[E2(m, w).frame] = lev[E3(m, w).frame] - 1
        \/ E3(m, w).frame = Pd /\ E2(m, w).large
    BY <1>1, <1>2, <1>5, <2>1, Child DEF E2
  <2> QED
    BY <2>1, <2>2, Fields
<1> QED
  BY <1>3, <1>4, <1>5

\* A table linked to an empty slot extends the tree, and no page is translated
\* to anything else for it, or put out of reach.
LEMMA LinkTree ==
  ASSUME NEW m, NEW fr, NEW lev, Tree(m, fr, lev),
         NEW t, NEW k, NEW f, NEW m2, NEW lev2, Linkage(m, fr, lev, t, k, f, m2, lev2)
  PROVE  /\ Tree(m2, fr \ {f}, lev2)
         /\ \A w \in VPages : Translate(m2, w) = Translate(m, w)
         /\ \A w \in VPages, within \in SUBSET Frames :
              f \in within /\ Reachable(m, w, within) => Reachable(m2, w, within)
<1> t \in Frames /\ t # Pdpt /\ t # Pd /\ lev[t] >= 2 /\ k \in Index /\ ~m[t][k].present /\ f \in fr
  BY DEF Linkage
<1>1. /\ lev \in [Frames -> 0 .. 4] /\ lev[t] \in 2 .. 4
      /\ f \in Frames /\ f \in Pool /\ lev[f] = 0 /\ f # t /\ f \notin Statics
  <2>1. lev \in [Frames -> 0 .. 4] /\ \A u \in Frames : lev[u] # 0 <=> u \in Statics \cup (Pool \ fr)
    BY DEF Tree, Levels
  <2>2. fr \subseteq Pool
    BY DEF Tree
  <2>3. f \in Frames /\ f \in Pool /\ f \notin Statics
    BY <2>2, Layout
  <2>4. lev[f] = 0
    BY <2>1, <2>2, <2>3
  <2>5. lev[t] \in 2 .. 4
    BY <2>1
  <2> QED
    BY <2>1, <2>3, <2>4, <2>5
<1>2. /\ m2 \in [Frames -> [Index -> Entry]]
      /\ \A u \in Frames, l \in Index :
           m2[u][l] = IF u = f THEN Empty ELSE IF u = t /\ l = k THEN To(f) ELSE m[u][l]
  BY DEF Linkage
<1>3. /\ lev2 \in [Frames -> 0 .. 4]
      /\ \A u \in Frames : lev2[u] = IF u = f THEN lev[t] - 1 ELSE lev[u]
      /\ lev[t] \in 2 .. 4
  BY <1>1 DEF Linkage
<1>4. Levels(fr \ {f}, lev2)
  <2>1. Levels(fr, lev) /\ f \in fr /\ fr \subseteq Pool
    BY DEF Tree
  <2>2. \A u \in Statics : u \in Frames /\ lev2[u] = lev[u]
    BY <1>1, <1>3, Layout
  <2>3. lev2[Pml4] = 4 /\ lev2[Pdpt] = 3 /\ lev2[Pd] = 2 /\ lev2[PtLow] = 1
    BY <2>1, <2>2 DEF Levels, Statics
  <2>4. \A u \in Frames : lev2[u] # 0 <=> u \in Statics \cup (Pool \ (fr \ {f}))
    BY <2>1, <1>1, <1>3 DEF Levels
  <2>5. \A u \in Frames : lev2[u] = 4 => u = Pml4
    BY <2>1, <1>3 DEF Levels
  <2> QED
    BY <1>3, <2>3, <2>4, <2>5 DEF Levels
<1>5. Linked(m2, lev2)
  <2> SUFFICES ASSUME NEW u \in Frames, NEW l \in Index, lev2[u] >= 2,
                      NEW e, e = m2[u][l], e.present
               PROVE  \/ e = To(e.frame) /\ e.frame \in Frames /\ lev2[e.frame] = lev2[u] - 1
                      \/ u = Pd /\ e.large
    BY DEF Linked
  <2>1. u # f
    BY <1>2, Fields
  <2>2. CASE u = t /\ l = k
    <3>1. e = To(f) /\ e.frame = f /\ lev2[f] = lev[t] - 1 /\ lev2[u] = lev[t]
      BY <2>1, <2>2, <1>1, <1>2, <1>3, Fields
    <3> QED
      BY <3>1, <1>1
  <2>3. CASE ~(u = t /\ l = k)
    <3>1. e = m[u][l] /\ lev2[u] = lev[u]
      BY <2>1, <2>3, <1>2, <1>3
    <3>2. \/ e = To(e.frame) /\ e.frame \in Frames /\ lev[e.frame] = lev[u] - 1
          \/ u = Pd /\ e.large
      BY <3>1 DEF Tree, Linked
    <3>3. e.frame \in Frames /\ lev[e.frame] = lev[u] - 1 => e.frame # f
      BY <3>1, <1>1
    <3> QED
      BY <3>1, <3>2, <3>3, <1>3
  <2> QED
    BY <2>2, <2>3
<1>6. \A u \in Frames, l \in Index : lev[u] >= 2 => m[u][l] # To(f)
  <2>1. Linked(m, lev)
    BY DEF Tree
  <2>2. ASSUME NEW u \in Frames, NEW l \in Index, lev[u] >= 2, m[u][l] = To(f) PROVE FALSE
    <3>1. m[u][l].present /\ ~m[u][l].large /\ m[u][l].frame = f
      BY <2>2, Fields
    <3>2. lev[f] = lev[u] - 1
      BY <2>1, <2>2, <3>1, Child
    <3> QED
      BY <3>2, <2>2, <1>1
  <2> QED
    BY <2>2
<1>7. Once(m2, lev2)
  <2> SUFFICES ASSUME NEW u \in Frames, NEW v \in Frames, NEW l \in Index, NEW j \in Index,
                      NEW g \in Frames, lev2[u] >= 2, lev2[v] >= 2,
                      m2[u][l] = To(g), m2[v][j] = To(g)
               PROVE  u = v /\ (l = j \/ (g = Pdpt /\ {l, j} \subseteq {0, SlotAlias}))
    BY DEF Once
  <2>1. u # f /\ v # f
    BY <1>2, Fields
  <2>2. lev[u] >= 2 /\ lev[v] >= 2
    BY <2>1, <1>3
  <2>3. CASE g = f
    BY <2>1, <2>2, <2>3, <1>2, <1>6
  <2>4. CASE g # f
    <3>1. To(f) # To(g)
      BY <2>4, Fields
    <3>2. m[u][l] = To(g) /\ m[v][j] = To(g)
      BY <3>1, <2>1, <1>2
    <3> QED
      BY <3>2, <2>2 DEF Tree, Once
  <2> QED
    BY <2>3, <2>4
<1>8. Fixed(m2)
  <2>1. Fixed(m)
    BY DEF Tree
  <2>2. t \in Statics => \A l \in Index : m[t][l].present => m2[t][l] = m[t][l]
    BY <1>1, <1>2
  <2>3. \A u \in Statics, l \in Index : m[u][l].present => m2[u][l] = m[u][l]
    BY <1>1, <1>2, Layout
  <2>4. Statics \subseteq Frames /\ 0 \in Index /\ SlotAlias \in Index
    BY Layout
  <2>5. \A j \in 1 .. EarlyLarge - 1 : j \in Index
    BY Layout DEF Index
  <2>6. \A l \in Index : m2[Pdpt][l] = m[Pdpt][l] /\ m2[Pd][l] = m[Pd][l]
    BY <1>1, <1>2, <2>4 DEF Statics
  <2> QED
    BY <2>1, <2>3, <2>4, <2>5, <2>6, Fields DEF Fixed, Statics
<1>9. Owned(m2, fr \ {f}, lev2)
  <2> SUFFICES ASSUME NEW g \in Pool \ (fr \ {f})
               PROVE  \E u \in Frames, l \in Index : lev2[u] >= 2 /\ m2[u][l] = To(g)
    BY DEF Owned
  <2>1. CASE g = f
    BY <2>1, <1>1, <1>2, <1>3
  <2>2. CASE g # f
    <3>1. PICK u \in Frames, l \in Index : lev[u] >= 2 /\ m[u][l] = To(g)
      BY <2>2 DEF Tree, Owned
    <3>2. m2[u][l] = m[u][l] /\ lev2[u] = lev[u]
      BY <3>1, <1>1, <1>2, <1>3, Fields
    <3> QED
      BY <3>1, <3>2
  <2> QED
    BY <2>1, <2>2
<1>10. Leaves(m2, lev2)
  BY <1>1, <1>2, <1>3, Fields DEF Tree, Leaves
<1>11. ASSUME NEW w \in VPages
       PROVE  /\ Translate(m2, w) = Translate(m, w)
              /\ \A within \in SUBSET Frames :
                   f \in within /\ Reachable(m, w, within) => Reachable(m2, w, within)
  <2>1. w[1] \in Index /\ w[2] \in Index /\ w[3] \in Index /\ w[4] \in Index
    BY DEF VPages
  <2>2. Pml4 \in Frames /\ Pml4 # f
    BY <1>1, Layout DEF Statics
  <2>3. \A u \in Frames, l \in Index : u # f =>
          \/ m2[u][l] = m[u][l]
          \/ /\ ~m[u][l].present /\ m2[u][l].present /\ ~m2[u][l].large
             /\ m2[u][l].frame = f
             /\ \A j \in Index : ~m2[m2[u][l].frame][j].present
    BY <1>1, <1>2, Fields
  <2>4. /\ E4(m, w).present => E4(m, w).frame \in Frames /\ E4(m, w).frame # f
        /\ E4(m, w).present /\ E3(m, w).present =>
             E3(m, w).frame \in Frames /\ E3(m, w).frame # f
        /\ E4(m, w).present /\ E3(m, w).present /\ E2(m, w).present =>
             E2(m, w).large \/ (E2(m, w).frame \in Frames /\ E2(m, w).frame # f)
    BY Descending, <1>1
  <2>5. \/ E4(m2, w) = E4(m, w)
        \/ /\ ~E4(m, w).present /\ E4(m2, w).present /\ ~E3(m2, w).present
           /\ E4(m2, w).frame = f
    <3>1. \/ E4(m2, w) = E4(m, w)
          \/ /\ ~E4(m, w).present /\ E4(m2, w).present /\ E4(m2, w).frame = f
             /\ \A j \in Index : ~m2[E4(m2, w).frame][j].present
      BY <2>1, <2>2, <2>3 DEF E4
    <3>2. (\A j \in Index : ~m2[E4(m2, w).frame][j].present) => ~E3(m2, w).present
      BY <2>1 DEF E3
    <3> QED
      BY <3>1, <3>2
  <2>6. E4(m2, w) = E4(m, w) /\ E4(m, w).present =>
          \/ E3(m2, w) = E3(m, w)
          \/ /\ ~E3(m, w).present /\ E3(m2, w).present /\ ~E2(m2, w).present
             /\ E3(m2, w).frame = f
    <3> SUFFICES ASSUME E4(m2, w) = E4(m, w), E4(m, w).present
                 PROVE  \/ E3(m2, w) = E3(m, w)
                        \/ /\ ~E3(m, w).present /\ E3(m2, w).present /\ ~E2(m2, w).present
                           /\ E3(m2, w).frame = f
      OBVIOUS
    <3>1. \/ E3(m2, w) = E3(m, w)
          \/ /\ ~E3(m, w).present /\ E3(m2, w).present /\ E3(m2, w).frame = f
             /\ \A j \in Index : ~m2[E3(m2, w).frame][j].present
      BY <2>1, <2>3, <2>4 DEF E3
    <3>2. (\A j \in Index : ~m2[E3(m2, w).frame][j].present) => ~E2(m2, w).present
      BY <2>1 DEF E2
    <3> QED
      BY <3>1, <3>2
  <2>7. E4(m2, w) = E4(m, w) /\ E4(m, w).present /\ E3(m2, w) = E3(m, w) /\ E3(m, w).present =>
          \/ E2(m2, w) = E2(m, w)
          \/ /\ ~E2(m, w).present /\ E2(m2, w).present /\ ~E2(m2, w).large
             /\ ~E1(m2, w).present /\ E2(m2, w).frame = f
    <3> SUFFICES ASSUME E3(m2, w) = E3(m, w), E4(m, w).present, E3(m, w).present
                 PROVE  \/ E2(m2, w) = E2(m, w)
                        \/ /\ ~E2(m, w).present /\ E2(m2, w).present
                           /\ ~E2(m2, w).large /\ ~E1(m2, w).present /\ E2(m2, w).frame = f
      OBVIOUS
    <3>1. \/ E2(m2, w) = E2(m, w)
          \/ /\ ~E2(m, w).present /\ E2(m2, w).present /\ ~E2(m2, w).large
             /\ E2(m2, w).frame = f
             /\ \A j \in Index : ~m2[E2(m2, w).frame][j].present
      BY <2>1, <2>3, <2>4 DEF E2
    <3>2. (\A j \in Index : ~m2[E2(m2, w).frame][j].present) => ~E1(m2, w).present
      BY <2>1 DEF E1
    <3> QED
      BY <3>1, <3>2
  <2>8. E2(m2, w) = E2(m, w) /\ E4(m, w).present /\ E3(m, w).present /\ E2(m, w).present
        /\ ~E2(m, w).large => E1(m2, w) = E1(m, w)
    <3>1. \A u \in Frames, l \in Index : lev[u] = 1 => m2[u][l] = m[u][l]
      BY <1>1, <1>2
    <3> QED
      BY <3>1, <2>1, Descending DEF E1
  <2>9. Translate(m2, w) = Translate(m, w)
    BY Translating, <2>5, <2>6, <2>7, <2>8
  <2>10. \A within \in SUBSET Frames :
           f \in within /\ Reachable(m, w, within) => Reachable(m2, w, within)
    BY <2>5, <2>6, <2>7 DEF Reachable
  <2> QED
    BY <2>9, <2>10
<1> QED
  BY <1>1, <1>2, <1>4, <1>5, <1>7, <1>8, <1>9, <1>10, <1>11 DEF Tree

\* A set of numbers has a least one.
LEMMA Least ==
  ASSUME NEW S \in SUBSET Nat, S # {}
  PROVE  \E x \in S : \A y \in S : x <= y
<1> DEFINE Below(x) == {y \in S : y <= x}
           Family == {Below(x) : x \in S}
<1>1. Family \subseteq FiniteSubsetsOf(Nat) /\ Family # {}
  <2>1. ASSUME NEW x \in S PROVE IsFiniteSet(Below(x)) /\ Below(x) \subseteq Nat
    <3>1. \A y \in Below(x) : y <= x
      OBVIOUS
    <3>2. Below(x) \in SUBSET Nat /\ x \in Nat
      OBVIOUS
    <3> QED
      BY <3>1, <3>2, FS_BoundedSetOfNaturals
  <2> QED
    BY <2>1 DEF FiniteSubsetsOf
<1> HIDE DEF Family
<1>2. PICK F \in Family : \A G \in Family : ~(<<G, F>> \in StrictSubsetOrdering(Nat))
  BY <1>1, FS_StrictSubsetOrderingWellFounded, WFMin
<1>3. PICK x \in S : F = Below(x)
  BY <1>2 DEF Family
<1>4. \A y \in S : x <= y
  <2> SUFFICES ASSUME NEW y \in S, ~(x <= y) PROVE FALSE
    OBVIOUS
  <2>1. x \in Nat /\ y \in Nat /\ y < x
    OBVIOUS
  <2>2. Below(y) \subseteq Below(x) /\ x \in Below(x) /\ x \notin Below(y)
    <3>1. x <= x /\ ~(x <= y) /\ \A z \in S : z <= y => z <= x
      BY <2>1
    <3> QED
      BY <3>1, Zenon
  <2>3. Below(y) \in Family /\ Below(x) \in SUBSET Nat /\ Below(y) \in SUBSET Nat
    BY DEF Family
  <2> HIDE DEF Below
  <2>4. <<Below(y), Below(x)>> \in StrictSubsetOrdering(Nat)
    BY <2>2, <2>3, Zenon DEF StrictSubsetOrdering
  <2> QED
    BY <1>2, <1>3, <2>3, <2>4
<1> QED
  BY <1>4

\* Tables grow: nothing that was there changes, nor what any page translates to,
\* and what was within reach still is.
Grown(within, m, fr, lev, m2, fr2, lev2) ==
  /\ Tree(m2, fr2, lev2) /\ fr2 \subseteq fr
  /\ \A w \in VPages : Reachable(m, w, within) => Reachable(m2, w, within)
  /\ \A w \in VPages : Translate(m2, w) = Translate(m, w)
  /\ \A u \in Frames : lev[u] # 0 => lev2[u] = lev[u]
  /\ \A u \in Frames, l \in Index : lev[u] # 0 /\ m[u][l].present => m2[u][l] = m[u][l]

LEMMA GrownTwice ==
  ASSUME NEW within, NEW m, NEW fr, NEW lev, NEW m2, NEW fr2, NEW lev2,
         NEW m3, NEW fr3, NEW lev3,
         Grown(within, m, fr, lev, m2, fr2, lev2), Grown(within, m2, fr2, lev2, m3, fr3, lev3)
  PROVE  Grown(within, m, fr, lev, m3, fr3, lev3)
  BY DEF Grown

\* The state vmm_get_next_level reads and writes.
S(m, fr, t) == [mem |-> m, free |-> fr, table |-> t]

LEMMA State ==
  ASSUME NEW m, NEW fr, NEW t, NEW x
  PROVE  /\ S(m, fr, t).mem = m /\ S(m, fr, t).free = fr /\ S(m, fr, t).table = t
         /\ [S(m, fr, t) EXCEPT !.table = x] = S(m, fr, x)
  BY DEF S

\* vmm_get_next_level, with and without leave to allocate, case by case.
Alloc(s, k, within) == NextLevel(s, k, within, TRUE)
Look(s, k) == NextLevel(s, k, Near, FALSE)

LEMMA Failing ==
  ASSUME NEW m, NEW fr, NEW k, NEW t
  PROVE  /\ \A within : t \notin within => Alloc(S(m, fr, t), k, within) = S(m, fr, t)
         /\ t \notin Near => Look(S(m, fr, t), k) = S(m, fr, t)
  BY State DEF NextLevel, Alloc, Look

Follows(m, fr, t, k) ==
  m[t][k].present =>
    \A within : t \in within => Alloc(S(m, fr, t), k, within) = S(m, fr, m[t][k].frame)

LEMMA Following ==
  ASSUME NEW m, NEW fr, NEW t, NEW k
  PROVE  /\ Follows(m, fr, t, k)
         /\ m[t][k].present /\ t \in Near => Look(S(m, fr, t), k) = S(m, fr, m[t][k].frame)
<1>1. /\ \A within : m[t][k].present /\ t \in within =>
           Alloc(S(m, fr, t), k, within)
             = [S(m, fr, t) EXCEPT !.table = S(m, fr, t).mem[t][k].frame]
      /\ m[t][k].present /\ t \in Near => Look(S(m, fr, t), k)
                         = [S(m, fr, t) EXCEPT !.table = S(m, fr, t).mem[t][k].frame]
  BY State DEF NextLevel, Alloc, Look
<1> QED
  BY <1>1, State DEF Follows

LEMMA Refused ==
  ASSUME NEW m, NEW fr, NEW t, NEW k, ~m[t][k].present
  PROVE  /\ \A within : t \in within /\ fr = {} =>
              Alloc(S(m, fr, t), k, within) = S(m, fr, NULL)
         /\ t \in Near => Look(S(m, fr, t), k) = S(m, fr, NULL)
<1>1. ~S(m, fr, t).mem[S(m, fr, t).table][k].present /\ S(m, fr, t).table = t
  BY State
<1>2. ASSUME t \in Near PROVE Look(S(m, fr, t), k) = [S(m, fr, t) EXCEPT !.table = NULL]
  BY <1>1, <1>2 DEF NextLevel, Look
<1>3. ASSUME NEW within, t \in within, fr = {}
      PROVE  Alloc(S(m, fr, t), k, within) = [S(m, fr, t) EXCEPT !.table = NULL]
  <2>1. S(m, fr, t).free = {}
    BY <1>3, State
  <2> QED
    BY <1>1, <1>3, <2>1 DEF NextLevel, Alloc
<1> QED
  BY <1>2, <1>3, State

Allots(m, fr, within, t, k) ==
  LET f == Lowest(fr) IN
    /\ f \in fr /\ \A g \in fr : f <= g
    /\ f \in within =>
         Alloc(S(m, fr, t), k, within) = S(WithLink(m, t, k, f), fr \ {f}, f)
    /\ f \notin within => Alloc(S(m, fr, t), k, within) = S(m, fr \ {f}, f)

LEMMA Allocating ==
  ASSUME NEW m, NEW fr, fr \subseteq Nat, fr # {}, NEW within, NEW t, t \in within, NEW k,
         ~m[t][k].present
  PROVE  Allots(m, fr, within, t, k)
<1>1. Lowest(fr) \in fr /\ \A g \in fr : Lowest(fr) <= g
  BY Least DEF Lowest
<1>2. /\ S(m, fr, t).table \in within /\ ~S(m, fr, t).mem[S(m, fr, t).table][k].present
      /\ S(m, fr, t).free = fr
  BY State
<1>3. ASSUME Lowest(fr) \in within
      PROVE  Alloc(S(m, fr, t), k, within) = Link(S(m, fr, t), k, Lowest(S(m, fr, t).free))
  <2>1. Lowest(S(m, fr, t).free) \in within /\ S(m, fr, t).free # {}
    BY <1>2, <1>3
  <2> QED
    BY <1>2, <2>1 DEF NextLevel, Alloc
<1>4. ASSUME Lowest(fr) \notin within
      PROVE  Alloc(S(m, fr, t), k, within)
               = [mem |-> S(m, fr, t).mem,
                  free |-> S(m, fr, t).free \ {Lowest(S(m, fr, t).free)},
                  table |-> Lowest(S(m, fr, t).free)]
  <2>1. Lowest(S(m, fr, t).free) \notin within /\ S(m, fr, t).free # {}
    BY <1>2, <1>4
  <2> QED
    BY <1>2, <2>1 DEF NextLevel, Alloc
<1>5. \A x : Link(S(m, fr, t), k, x) = S(WithLink(m, t, k, x), fr \ {x}, x)
  BY DEF Link, S, WithLink
<1>6. ASSUME Lowest(fr) \notin within
      PROVE  Alloc(S(m, fr, t), k, within) = S(m, fr \ {Lowest(fr)}, Lowest(fr))
  BY <1>4, <1>6, State DEF S
<1> QED
  BY <1>1, <1>2, <1>3, <1>5, <1>6 DEF Allots

\* A reach: frames of memory, and with a frame of the pool all those below it.
Reach(within) ==
  /\ within \subseteq Frames \ {NULL} /\ Pml4 \in within
  /\ \A f, g \in Pool : f \notin within /\ f <= g => g \notin within

LEMMA Reaches == Reach(Near) /\ Reach(Anywhere) /\ Pool \subseteq Anywhere
<1>1. /\ Pool \subseteq Nat \ {0} /\ Pml4 \in Early \ {0}
      /\ EarlyLarge \in Nat /\ Fan \in Nat /\ EarlyLarge * Fan \in Nat
  BY VmmAssumption
<1>2. \A f, g \in Pool : f \notin Near /\ f <= g => g \notin Near
  <2> SUFFICES ASSUME NEW f \in Pool, NEW g \in Pool, f \notin Near, f <= g, g \in Near
               PROVE  FALSE
    OBVIOUS
  <2>1. f \in Nat /\ f # 0 /\ g \in Nat
    BY <1>1
  <2>2. PICK n \in Nat : n = EarlyLarge * Fan
    BY <1>1
  <2>3. ~(f \in 0 .. n - 1) /\ g \in 0 .. n - 1
    BY <2>1, <2>2 DEF Near, Early, NULL
  <2> QED
    BY <2>1, <2>2, <2>3
<1>3. Pml4 \in Near /\ Near \subseteq Frames \ {NULL} /\ Pml4 \in Anywhere
  BY <1>1 DEF Near, Anywhere, Frames, NULL
<1>4. Pool \subseteq Anywhere
  BY <1>1 DEF Anywhere, Frames, NULL
<1> QED
  BY <1>2, <1>3, <1>4 DEF Reach, Anywhere

\* The frames left to allocate, of those without tables: all but some that are
\* not the manager's to have, always the same unless it loses one to a fault.
Same(fr, un, fr2, un2) == un2 \ fr2 = un \ fr
Left(fr, un, fr2, un2) == fr2 \subseteq fr /\ fr2 \subseteq un2

\* What a walk with leave to allocate comes to: a table, no frame left, or none
\* left within reach.
Dry(within, fr, un, fr2, un2, x) == x = NULL /\ fr2 = {} /\ Same(fr, un, fr2, un2)
Beyond(within, fr, un, fr2, un2, x) ==
  x \notin within \cup {NULL} /\ fr2 \cap within = {} /\ fr \ within # {}

\* vmm_get_next_level, asked to allocate at entry k of table t.
Grows(within, m, fr, un, lev, t, k) ==
  \E m2, fr2, un2, lev2, x :
    /\ Alloc(S(m, fr, t), k, within) = S(m2, fr2, x)
    /\ Grown(within, m, un, lev, m2, un2, lev2) /\ Left(fr, un, fr2, un2)
    /\ \A u \in Frames, l \in Index :
         lev[u] # 0 /\ ~(u = t /\ l = k) => m2[u][l] = m[u][l]
    /\ \/ Dry(within, fr, un, fr2, un2, x)
       \/ Beyond(within, fr, un, fr2, un2, x)
       \/ /\ x \in within /\ lev2[x] = lev[t] - 1 /\ m2[t][k] = To(x)
          /\ Same(fr, un, fr2, un2)

LEMMA Growing ==
  ASSUME NEW within, Reach(within), NEW m, NEW fr, NEW un, fr \subseteq un, NEW lev,
         Tree(m, un, lev), NEW t \in within \ {Pdpt, Pd}, lev[t] >= 2, NEW k \in Index,
         m[t][k].present => m[t][k].frame \in within
  PROVE  Grows(within, m, fr, un, lev, t, k)
<1>1. /\ t \in Frames /\ t # NULL /\ lev \in [Frames -> 0 .. 4] /\ within \in SUBSET Frames
      /\ \A u \in Frames : lev[u] # 0 => u # NULL
  BY Layout DEF Tree, Levels, NULL, Reach
<1>2. /\ Grown(within, m, un, lev, m, un, lev) /\ fr \subseteq Pool /\ fr \subseteq Nat
      /\ Same(fr, un, fr, un) /\ Left(fr, un, fr, un)
  BY Layout DEF Grown, Tree, Same, Left
<1>3. CASE m[t][k].present
  <2>1. Linked(m, lev)
    BY DEF Tree
  <2>2. m[t][k] = To(m[t][k].frame) /\ m[t][k].frame \in Frames /\ lev[m[t][k].frame] = lev[t] - 1
    BY <1>1, <1>3, <2>1, Child
  <2>3. m[t][k].frame \in within
    BY <1>3
  <2>4. Alloc(S(m, fr, t), k, within) = S(m, fr, m[t][k].frame)
    <3>1. Follows(m, fr, t, k)
      BY <1>3, Following
    <3> QED
      BY <3>1, <1>3 DEF Follows
  <2> QED
    BY <2>2, <2>3, <2>4, <1>1, <1>2 DEF Grows
<1>4. CASE ~m[t][k].present /\ fr = {}
  <2>1. Alloc(S(m, fr, t), k, within) = S(m, fr, NULL)
    <3>1. t \in within /\ fr = {} /\ ~m[t][k].present
      BY <1>4
    <3>2. \A w : t \in w /\ fr = {} => Alloc(S(m, fr, t), k, w) = S(m, fr, NULL)
      BY <3>1, Refused
    <3> QED
      BY <3>1, <3>2
  <2>2. Dry(within, fr, un, fr, un, NULL)
    BY <1>2, <1>4 DEF Dry
  <2> QED
    BY <2>1, <2>2, <1>2 DEF Grows
<1>5. CASE ~m[t][k].present /\ fr # {}
  <2> DEFINE f == Lowest(fr)
  <2>1. /\ f \in fr /\ \A g \in fr : f <= g
        /\ f \in within => Alloc(S(m, fr, t), k, within) = S(WithLink(m, t, k, f), fr \ {f}, f)
        /\ f \notin within => Alloc(S(m, fr, t), k, within) = S(m, fr \ {f}, f)
    <3>1. fr \subseteq Nat /\ fr # {} /\ t \in within /\ ~m[t][k].present
      BY <1>2, <1>5
    <3>2. Allots(m, fr, within, t, k)
      BY <3>1, Allocating
    <3> QED
      BY <3>2 DEF Allots
  <2> HIDE DEF f
  <2>2. CASE f \notin within
    <3>1. \A g \in fr : g \notin within
      BY <1>2, <2>1, <2>2 DEF Reach
    <3>2. f # NULL
      BY <1>2, <2>1, Layout DEF NULL
    <3>3. Beyond(within, fr, un, fr \ {f}, un, f) /\ Left(fr, un, fr \ {f}, un)
      BY <2>1, <2>2, <3>1, <3>2 DEF Beyond, Left
    <3> QED
      BY <2>1, <2>2, <3>3, <1>2 DEF Grows
  <2>3. CASE f \in within
    <3> DEFINE m2 == WithLink(m, t, k, f)
               lev2 == [lev EXCEPT ![f] = lev[t] - 1]
    <3>1. /\ lev \in [Frames -> 0 .. 4] /\ f \in Frames /\ f # t /\ f # NULL /\ lev[f] = 0
          /\ m \in [Frames -> [Index -> Entry]] /\ f \in un
      <4>1. lev \in [Frames -> 0 .. 4] /\ \A u \in Frames : lev[u] # 0 <=> u \in Statics \cup (Pool \ un)
        BY DEF Tree, Levels
      <4>2. un \subseteq Pool /\ m \in [Frames -> [Index -> Entry]]
        BY DEF Tree
      <4>3. f \in Frames /\ f \in Pool /\ f \notin Statics /\ f # NULL
        BY <2>1, <4>2, Layout DEF NULL
      <4> QED
        BY <2>1, <4>1, <4>2, <4>3
    <3>2. /\ m2 \in [Frames -> [Index -> Entry]]
          /\ \A u \in Frames, l \in Index :
               m2[u][l] = IF u = f THEN Empty ELSE IF u = t /\ l = k THEN To(f) ELSE m[u][l]
      BY <3>1, <1>1, Linking
    <3>3. /\ lev2 \in [Frames -> 0 .. 4]
          /\ \A u \in Frames : lev2[u] = IF u = f THEN lev[t] - 1 ELSE lev[u]
      BY <3>1, <1>1
    <3>4. Alloc(S(m, fr, t), k, within) = S(m2, fr \ {f}, f)
      BY <2>1, <2>3
    <3> HIDE DEF m2, lev2
    <3>5. Linkage(m, un, lev, t, k, f, m2, lev2)
      BY <3>1, <3>2, <3>3, <1>1, <1>5 DEF Linkage
    <3>6. /\ Tree(m2, un \ {f}, lev2) /\ \A w \in VPages : Translate(m2, w) = Translate(m, w)
          /\ \A w \in VPages : Reachable(m, w, within) => Reachable(m2, w, within)
      BY <3>5, <1>1, <2>3, LinkTree
    <3>7. Grown(within, m, un, lev, m2, un \ {f}, lev2)
      BY <3>1, <3>2, <3>3, <3>6, <1>5 DEF Grown
    <3>8. lev2[f] = lev[t] - 1 /\ m2[t][k] = To(f)
      BY <3>1, <3>2, <3>3, <1>1
    <3>9. Same(fr, un, fr \ {f}, un \ {f}) /\ Left(fr, un, fr \ {f}, un \ {f})
      BY <2>1 DEF Same, Left
    <3>10. \A u \in Frames, l \in Index : lev[u] # 0 /\ ~(u = t /\ l = k) => m2[u][l] = m[u][l]
      BY <3>1, <3>2
    <3> QED
      BY <2>3, <3>4, <3>7, <3>8, <3>9, <3>10 DEF Grows
  <2> QED
    BY <2>2, <2>3
<1> QED
  BY <1>3, <1>4, <1>5

\* Pages outside the kernel's own share of the address space, and whether all
\* the tables down to their page table are there.
Remote(v) == v \in VPages /\ v[1] \notin {0, SlotAlias}
Covered(m, v) == E4(m, v).present /\ E3(m, v).present /\ E2(m, v).present /\ ~E2(m, v).large

\* They share no table with the kernel's.
LEMMA Apart ==
  ASSUME NEW m, NEW fr, NEW lev, Tree(m, fr, lev), NEW v, Remote(v)
  PROVE  /\ E4(m, v).present => E4(m, v).frame # Pdpt
         /\ E4(m, v).present /\ E3(m, v).present => E3(m, v).frame # Pd
         /\ E4(m, v).present /\ E3(m, v).present /\ E2(m, v).present =>
              /\ ~E2(m, v).large /\ E2(m, v) = To(E2(m, v).frame) /\ E2(m, v).frame \in Frames
              /\ lev[E2(m, v).frame] = 1 /\ E2(m, v).frame # PtLow
<1>1. Once(m, lev) /\ Fixed(m)
  BY DEF Tree
<1>2. v \in VPages /\ v[1] \in Index /\ v[2] \in Index /\ v[3] \in Index /\ v[1] \notin {0, SlotAlias}
  BY DEF Remote, VPages
<1>3. /\ lev[Pml4] >= 2 /\ lev[Pdpt] >= 2 /\ lev[Pd] >= 2
      /\ Pml4 \in Frames /\ Pdpt \in Frames /\ Pd \in Frames /\ PtLow \in Frames
      /\ 0 \in Index /\ SlotAlias \in Index /\ Pdpt # Pd /\ Pdpt # PtLow
  BY Layout DEF Tree, Levels, Statics
<1>4. ASSUME E4(m, v).present PROVE E4(m, v).frame # Pdpt
  <2> SUFFICES ASSUME E4(m, v).frame = Pdpt PROVE FALSE
    OBVIOUS
  <2>1. m[Pml4][v[1]] = To(Pdpt) /\ m[Pml4][0] = To(Pdpt)
    BY <1>1, <1>2, <1>4, Descending DEF E4, Fixed
  <2>2. v[1] = 0 \/ (Pdpt = Pdpt /\ {v[1], 0} \subseteq {0, SlotAlias})
    BY <2>1, <1>1, <1>2, <1>3 DEF Once
  <2> QED
    BY <2>2, <1>2
<1>5. ASSUME E4(m, v).present, E3(m, v).present PROVE E3(m, v).frame # Pd
  <2> SUFFICES ASSUME E3(m, v).frame = Pd PROVE FALSE
    OBVIOUS
  <2>1. E4(m, v).frame \in Frames /\ lev[E4(m, v).frame] >= 2
    BY <1>2, <1>5, Descending
  <2>2. m[E4(m, v).frame][v[2]] = To(Pd) /\ m[Pdpt][0] = To(Pd)
    BY <1>1, <1>2, <1>5, Descending DEF E3, Fixed
  <2>3. E4(m, v).frame = Pdpt
    BY <2>1, <2>2, <1>1, <1>2, <1>3 DEF Once
  <2> QED
    BY <2>3, <1>4, <1>5
<1>6. ASSUME E4(m, v).present, E3(m, v).present, E2(m, v).present
      PROVE  /\ ~E2(m, v).large /\ E2(m, v) = To(E2(m, v).frame) /\ E2(m, v).frame \in Frames
             /\ lev[E2(m, v).frame] = 1 /\ E2(m, v).frame # PtLow
  <2>1. E3(m, v).frame # Pd /\ E3(m, v).frame \in Frames /\ lev[E3(m, v).frame] >= 2
    BY <1>2, <1>5, <1>6, Descending
  <2>2. /\ ~E2(m, v).large /\ E2(m, v) = To(E2(m, v).frame) /\ E2(m, v).frame \in Frames
        /\ lev[E2(m, v).frame] = 1
    BY <2>1, <1>2, <1>6, Descending
  <2>3. ASSUME E2(m, v).frame = PtLow PROVE FALSE
    <3>1. m[E3(m, v).frame][v[3]] = To(PtLow) /\ m[Pd][0] = To(PtLow)
      BY <2>2, <2>3, <1>1 DEF E2, Fixed
    <3> QED
      BY <3>1, <2>1, <1>1, <1>2, <1>3 DEF Once
  <2> QED
    BY <2>2, <2>3
<1> QED
  BY <1>4, <1>5, <1>6

\* Two pages with the same page table differ in their last index only.
LEMMA SameTable ==
  ASSUME NEW m, NEW fr, NEW lev, Tree(m, fr, lev), NEW v, Remote(v), NEW w \in VPages,
         Covered(m, v), Covered(m, w), E2(m, w).frame = E2(m, v).frame
  PROVE  w[1] = v[1] /\ w[2] = v[2] /\ w[3] = v[3]
<1>1. Once(m, lev) /\ lev[Pml4] = 4 /\ Pml4 \in Frames
  BY Layout DEF Tree, Levels, Statics
<1>2. /\ v \in VPages /\ v[1] \in Index /\ v[2] \in Index /\ v[3] \in Index
      /\ w[1] \in Index /\ w[2] \in Index /\ w[3] \in Index /\ v[1] \notin {0, SlotAlias}
  BY DEF Remote, VPages
<1>3. /\ E4(m, v) = To(E4(m, v).frame) /\ E3(m, v) = To(E3(m, v).frame)
      /\ E2(m, v) = To(E2(m, v).frame)
      /\ E4(m, v).frame \in Frames /\ E3(m, v).frame \in Frames /\ E2(m, v).frame \in Frames
      /\ lev[E4(m, v).frame] = 3 /\ lev[E3(m, v).frame] = 2 /\ lev[E2(m, v).frame] = 1
  BY <1>2, Descending DEF Covered
<1>4. /\ E4(m, w) = To(E4(m, w).frame) /\ E3(m, w) = To(E3(m, w).frame)
      /\ E2(m, w) = To(E2(m, w).frame)
      /\ E4(m, w).frame \in Frames /\ E3(m, w).frame \in Frames
      /\ lev[E4(m, w).frame] = 3 /\ lev[E3(m, w).frame] = 2
  BY <1>2, Descending DEF Covered
<1>5. lev[Pdpt] = 3
  BY DEF Tree, Levels
<1>6. E3(m, w).frame = E3(m, v).frame /\ w[3] = v[3]
  <2>1. m[E3(m, w).frame][w[3]] = To(E2(m, v).frame) /\ m[E3(m, v).frame][v[3]] = To(E2(m, v).frame)
    BY <1>3, <1>4 DEF E2
  <2>2. E2(m, v).frame # Pdpt
    BY <1>3, <1>5
  <2>3. lev[E3(m, w).frame] >= 2 /\ lev[E3(m, v).frame] >= 2
    BY <1>3, <1>4
  <2> QED
    BY <2>1, <2>2, <2>3, <1>1, <1>2, <1>3, <1>4 DEF Once
<1>7. E4(m, w).frame = E4(m, v).frame /\ w[2] = v[2]
  <2>1. m[E4(m, w).frame][w[2]] = To(E3(m, v).frame) /\ m[E4(m, v).frame][v[2]] = To(E3(m, v).frame)
    BY <1>3, <1>4, <1>6 DEF E3
  <2>2. E3(m, v).frame # Pdpt
    BY <1>3, <1>5
  <2> QED
    BY <2>1, <2>2, <1>1, <1>2, <1>3, <1>4 DEF Once
<1>8. w[1] = v[1]
  <2>1. m[Pml4][w[1]] = To(E4(m, v).frame) /\ m[Pml4][v[1]] = To(E4(m, v).frame)
    BY <1>3, <1>4, <1>7 DEF E4
  <2>2. E4(m, v).frame # Pdpt
    BY Apart DEF Covered
  <2> QED
    BY <2>1, <2>2, <1>1, <1>2, <1>3 DEF Once
<1> QED
  BY <1>6, <1>7, <1>8

\* Memory m with e for the entry of remote page v.
Written(m, v, e, m2) ==
  /\ e \in Entry /\ (e.present => e.frame \notin Pool)
  /\ m2 \in [Frames -> [Index -> Entry]]
  /\ \A u \in Frames, l \in Index :
       m2[u][l] = IF u = E2(m, v).frame /\ l = v[4] THEN e ELSE m[u][l]

\* Its page is translated by e, every other page as before, and the tables are
\* still a tree.
LEMMA Writing ==
  ASSUME NEW m, NEW fr, NEW lev, Tree(m, fr, lev), NEW v, Remote(v), Covered(m, v),
         NEW e, NEW m2, Written(m, v, e, m2)
  PROVE  /\ Tree(m2, fr, lev) /\ Covered(m2, v)
         /\ E4(m2, v) = E4(m, v) /\ E3(m2, v) = E3(m, v) /\ E2(m2, v) = E2(m, v)
         /\ Translate(m2, v) = IF e.present THEN e.frame ELSE -1
         /\ \A w \in VPages : w # v => Translate(m2, w) = Translate(m, w)
         /\ \A w \in VPages : \A within : Reachable(m, w, within) => Reachable(m2, w, within)
         /\ \A l \in Index : m2[Pml4][l] = m[Pml4][l]
<1> DEFINE x == E2(m, v).frame
<1>1. /\ x \in Frames /\ lev[x] = 1 /\ x # PtLow /\ v \in VPages /\ v[4] \in Index
      /\ \A u \in Frames, l \in Index : m2[u][l] = IF u = x /\ l = v[4] THEN e ELSE m[u][l]
  BY Apart DEF Remote, VPages, Covered, Written
<1> HIDE DEF x
<1>2. \A u \in Frames, l \in Index : lev[u] # 1 => m2[u][l] = m[u][l]
  BY <1>1
<1>3. /\ lev[Pml4] = 4 /\ lev[Pdpt] = 3 /\ lev[Pd] = 2 /\ lev \in [Frames -> 0 .. 4]
      /\ Statics \subseteq Frames
  BY Layout DEF Tree, Levels
<1>4. Linked(m2, lev)
  <2>1. Linked(m, lev) /\ \A u \in Frames, l \in Index : lev[u] >= 2 => m2[u][l] = m[u][l]
    BY <1>2 DEF Tree
  <2> QED
    BY <2>1 DEF Linked
<1>5. Once(m2, lev)
  <2>1. Once(m, lev) /\ \A u \in Frames, l \in Index : lev[u] >= 2 => m2[u][l] = m[u][l]
    BY <1>2 DEF Tree
  <2> QED
    BY <2>1 DEF Once
<1>6. Fixed(m2)
  <2>1. Fixed(m)
    BY DEF Tree
  <2>2. \A u \in Statics, l \in Index : m2[u][l] = m[u][l]
    BY <1>1, <1>2, <1>3 DEF Statics
  <2>3. 0 \in Index /\ SlotAlias \in Index /\ \A j \in 1 .. EarlyLarge - 1 : j \in Index
    BY Layout DEF Index
  <2> QED
    BY <2>1, <2>2, <2>3 DEF Fixed, Statics
<1>7. Owned(m2, fr, lev)
  <2>1. Owned(m, fr, lev) /\ \A u \in Frames, l \in Index : lev[u] >= 2 => m2[u][l] = m[u][l]
    BY <1>2 DEF Tree
  <2> QED
    BY <2>1 DEF Owned
<1>8. Leaves(m2, lev)
  <2>1. Leaves(m, lev) /\ (e.present => e.frame \notin Pool)
    BY DEF Tree, Written
  <2> QED
    BY <2>1, <1>1 DEF Leaves
<1>9. Tree(m2, fr, lev)
  BY <1>4, <1>5, <1>6, <1>7, <1>8 DEF Tree, Written
<1>10. ASSUME NEW w \in VPages
       PROVE  /\ E4(m2, w) = E4(m, w)
              /\ E4(m, w).present => E3(m2, w) = E3(m, w)
              /\ E4(m, w).present /\ E3(m, w).present => E2(m2, w) = E2(m, w)
  <2>1. w[1] \in Index /\ w[2] \in Index /\ w[3] \in Index
    BY DEF VPages
  <2>2. E4(m2, w) = E4(m, w)
    BY <2>1, <1>2, <1>3 DEF E4, Statics
  <2>3. E4(m, w).present => E3(m2, w) = E3(m, w)
    BY <2>1, <2>2, <1>2, Descending DEF E3
  <2>4. E4(m, w).present /\ E3(m, w).present => E2(m2, w) = E2(m, w)
    BY <2>1, <2>3, <1>2, Descending DEF E2
  <2> QED
    BY <2>2, <2>3, <2>4
<1>11. /\ Covered(m2, v) /\ Translate(m2, v) = IF e.present THEN e.frame ELSE -1
       /\ E4(m2, v) = E4(m, v) /\ E3(m2, v) = E3(m, v) /\ E2(m2, v) = E2(m, v)
  <2>1. Covered(m2, v) /\ E4(m2, v) = E4(m, v) /\ E3(m2, v) = E3(m, v) /\ E2(m2, v) = E2(m, v)
    BY <1>1, <1>10 DEF Covered
  <2>2. E1(m2, v) = e
    BY <2>1, <1>1 DEF E1, x
  <2> QED
    BY <2>1, <2>2, Translating DEF Covered
<1>12. ASSUME NEW w \in VPages, w # v PROVE Translate(m2, w) = Translate(m, w)
  <2>1. Covered(m, w) => E1(m2, w) = E1(m, w)
    <3> SUFFICES ASSUME Covered(m, w) PROVE E1(m2, w) = E1(m, w)
      OBVIOUS
    <3>1. E2(m2, w).frame = E2(m, w).frame /\ E2(m, w).frame \in Frames /\ w[4] \in Index
      BY <1>10, Descending DEF Covered, VPages
    <3>2. ~(E2(m, w).frame = x /\ w[4] = v[4])
      <4> SUFFICES ASSUME E2(m, w).frame = x, w[4] = v[4] PROVE FALSE
        OBVIOUS
      <4>1. w[1] = v[1] /\ w[2] = v[2] /\ w[3] = v[3]
        BY SameTable DEF x
      <4>2. \A i \in 1 .. 4 : w[i] = v[i]
        BY <4>1
      <4>3. w = v
        BY <4>2, <1>1 DEF VPages
      <4> QED
        BY <4>3, <1>12
    <3> QED
      BY <3>1, <3>2, <1>1 DEF E1
  <2> QED
    BY <2>1, <1>10, <1>12, Translating DEF Covered
<1>13. \A w \in VPages : \A within : Reachable(m, w, within) => Reachable(m2, w, within)
  BY <1>10 DEF Reachable
<1>14. \A l \in Index : m2[Pml4][l] = m[Pml4][l]
  BY <1>2, <1>3 DEF Statics
<1> QED
  BY <1>9, <1>11, <1>12, <1>13, <1>14

\* With leave: to the page's own table, or nowhere when no frame is left, or none
\* within reach.
LEMMA WalkingDown ==
  ASSUME NEW within, Reach(within), NEW m, NEW fr, NEW un, fr \subseteq un, NEW lev,
         Tree(m, un, lev), NEW v, Remote(v), Reachable(m, v, within)
  PROVE  \E m2, fr2, un2, lev2, x :
           /\ Creating(m, fr, within, v) = S(m2, fr2, x)
           /\ Grown(within, m, un, lev, m2, un2, lev2) /\ Left(fr, un, fr2, un2)
           /\ \A l \in Index : l # v[1] => m2[Pml4][l] = m[Pml4][l]
           /\ \/ Dry(within, fr, un, fr2, un2, x)
              \/ Beyond(within, fr, un, fr2, un2, x)
              \/ /\ x \in within /\ Covered(m2, v) /\ E2(m2, v).frame = x
                 /\ Same(fr, un, fr2, un2)
<1> /\ v \in VPages /\ v[1] \in Index /\ v[2] \in Index /\ v[3] \in Index
  BY DEF Remote, VPages
<1>1. Creating(m, fr, within, v)
        = Alloc(Alloc(Alloc(S(m, fr, Pml4), v[1], within), v[2], within), v[3], within)
  BY DEF Creating, At, Alloc, S
<1>2. /\ Pml4 \in Frames /\ Pml4 \in within \ {Pdpt, Pd} /\ lev[Pml4] = 4 /\ Pml4 # Pd
      /\ \A mm, ff, ll : Tree(mm, ff, ll) => ll[Pd] = 2 /\ ll[Pml4] = 4
      /\ within \subseteq Frames /\ NULL \notin within
  BY Layout DEF Tree, Levels, Statics, Reach
<1>3. PICK m1, fr1, un1, lev1, x1 :
        /\ Alloc(S(m, fr, Pml4), v[1], within) = S(m1, fr1, x1)
        /\ Grown(within, m, un, lev, m1, un1, lev1) /\ Left(fr, un, fr1, un1)
        /\ \A u \in Frames, l \in Index :
             lev[u] # 0 /\ ~(u = Pml4 /\ l = v[1]) => m1[u][l] = m[u][l]
        /\ \/ Dry(within, fr, un, fr1, un1, x1)
           \/ Beyond(within, fr, un, fr1, un1, x1)
           \/ /\ x1 \in within /\ lev1[x1] = lev[Pml4] - 1 /\ m1[Pml4][v[1]] = To(x1)
              /\ Same(fr, un, fr1, un1)
  <2>1. m[Pml4][v[1]].present => m[Pml4][v[1]].frame \in within
    BY DEF Reachable, E4
  <2>2. lev[Pml4] >= 2
    BY <1>2
  <2>3. Grows(within, m, fr, un, lev, Pml4, v[1])
    BY <2>1, <2>2, <1>2, Growing
  <2> QED
    BY <2>3 DEF Grows
<1>4. \A l \in Index : l # v[1] => m1[Pml4][l] = m[Pml4][l]
  BY <1>2, <1>3
<1>5. CASE x1 \notin within
  <2>1. \A k : Alloc(S(m1, fr1, x1), k, within) = S(m1, fr1, x1)
    BY <1>5, Failing
  <2>2. Creating(m, fr, within, v) = S(m1, fr1, x1)
    BY <1>1, <1>3, <2>1
  <2> QED
    BY <2>2, <1>3, <1>4, <1>5
<1>6. CASE x1 \in within
  <2>1. /\ x1 \in Frames /\ lev1[x1] = 3 /\ m1[Pml4][v[1]] = To(x1) /\ Tree(m1, un1, lev1)
        /\ x1 # Pd /\ lev1[x1] >= 2 /\ fr1 \subseteq un1 /\ Reachable(m1, v, within)
        /\ Same(fr, un, fr1, un1) /\ x1 # Pml4 /\ lev1[Pml4] = 4
    <3>1. ~Dry(within, fr, un, fr1, un1, x1) /\ ~Beyond(within, fr, un, fr1, un1, x1)
      BY <1>2, <1>6 DEF Dry, Beyond
    <3> QED
      BY <3>1, <1>2, <1>3, <1>6 DEF Grown, Left
  <2>2. /\ E4(m1, v) = To(x1) /\ E4(m1, v).present /\ E4(m1, v).frame = x1
        /\ x1 \in within \ {Pdpt, Pd}
    <3>1. E4(m1, v) = To(x1) /\ E4(m1, v).present /\ E4(m1, v).frame = x1
      BY <2>1, Fields DEF E4
    <3> QED
      BY <3>1, <2>1, <1>6, Apart
  <2>3. m1[x1][v[2]].present => m1[x1][v[2]].frame \in within
    BY <2>1, <2>2 DEF Reachable, E3
  <2>4. PICK m2, fr2, un2, lev2, x2 :
          /\ Alloc(S(m1, fr1, x1), v[2], within) = S(m2, fr2, x2)
          /\ Grown(within, m1, un1, lev1, m2, un2, lev2) /\ Left(fr1, un1, fr2, un2)
          /\ \A u \in Frames, l \in Index :
               lev1[u] # 0 /\ ~(u = x1 /\ l = v[2]) => m2[u][l] = m1[u][l]
          /\ \/ Dry(within, fr1, un1, fr2, un2, x2)
             \/ Beyond(within, fr1, un1, fr2, un2, x2)
             \/ /\ x2 \in within /\ lev2[x2] = lev1[x1] - 1 /\ m2[x1][v[2]] = To(x2)
                /\ Same(fr1, un1, fr2, un2)
    <3>1. Grows(within, m1, fr1, un1, lev1, x1, v[2])
      BY <2>1, <2>2, <2>3, Growing
    <3> QED
      BY <3>1 DEF Grows
  <2>5. /\ Grown(within, m, un, lev, m2, un2, lev2) /\ Left(fr, un, fr2, un2)
        /\ Same(fr1, un1, fr2, un2) => Same(fr, un, fr2, un2)
        /\ \A l \in Index : m2[Pml4][l] = m1[Pml4][l]
    <3>1. Grown(within, m, un, lev, m2, un2, lev2)
      BY <1>3, <2>4, GrownTwice
    <3>2. Left(fr, un, fr2, un2) /\ (Same(fr1, un1, fr2, un2) => Same(fr, un, fr2, un2))
      BY <1>3, <2>1, <2>4 DEF Left, Same
    <3>3. \A l \in Index : m2[Pml4][l] = m1[Pml4][l]
      BY <1>2, <2>1, <2>4
    <3> QED
      BY <3>1, <3>2, <3>3
  <2>6. CASE x2 \notin within
    <3>0. \A k : Alloc(S(m2, fr2, x2), k, within) = S(m2, fr2, x2)
      BY <2>6, Failing
    <3>1. Creating(m, fr, within, v) = S(m2, fr2, x2)
      BY <1>1, <1>3, <2>4, <3>0
    <3>2. \/ Dry(within, fr, un, fr2, un2, x2)
          \/ Beyond(within, fr, un, fr2, un2, x2)
      <4>1. Dry(within, fr1, un1, fr2, un2, x2) => Dry(within, fr, un, fr2, un2, x2)
        BY <2>5 DEF Dry
      <4>2. Beyond(within, fr1, un1, fr2, un2, x2) => Beyond(within, fr, un, fr2, un2, x2)
        BY <1>3 DEF Beyond, Left
      <4> QED
        BY <4>1, <4>2, <2>4, <2>6
    <3> QED
      BY <3>1, <3>2, <2>5, <1>4
  <2>7. CASE x2 \in within
    <3>1. /\ x2 \in Frames /\ lev2[x2] = 2 /\ m2[x1][v[2]] = To(x2) /\ Tree(m2, un2, lev2)
          /\ lev2[x2] >= 2 /\ fr2 \subseteq un2 /\ Reachable(m2, v, within)
          /\ Same(fr, un, fr2, un2) /\ lev2[Pml4] = 4 /\ x2 # Pml4
      <4>1. ~Dry(within, fr1, un1, fr2, un2, x2) /\ ~Beyond(within, fr1, un1, fr2, un2, x2)
        BY <1>2, <2>7 DEF Dry, Beyond
      <4>2. /\ x2 \in within /\ lev2[x2] = 2 /\ m2[x1][v[2]] = To(x2) /\ Same(fr1, un1, fr2, un2)
        BY <4>1, <2>1, <2>4
      <4>3. Tree(m2, un2, lev2) /\ fr2 \subseteq un2 /\ Reachable(m2, v, within)
        BY <2>1, <2>4 DEF Grown, Left
      <4> QED
        BY <4>2, <4>3, <1>2, <2>5
    <3>2. m2[Pml4][v[1]] = To(x1)
      BY <2>1, <2>5
    <3>3. /\ E4(m2, v) = To(x1) /\ E3(m2, v) = To(x2) /\ E4(m2, v).frame = x1
          /\ E4(m2, v).present /\ E3(m2, v).present /\ E3(m2, v).frame = x2
      BY <3>1, <3>2, Fields DEF E4, E3
    <3>4. x2 \in within \ {Pdpt, Pd}
      <4>1. x2 # Pd
        BY <3>1, <3>3, Apart
      <4>2. lev2[Pdpt] = 3
        BY <3>1 DEF Tree, Levels
      <4> QED
        BY <4>1, <4>2, <3>1, <2>7
    <3>5. m2[x2][v[3]].present => m2[x2][v[3]].frame \in within
      <4>1. E2(m2, v) = m2[x2][v[3]]
        BY <3>3 DEF E2
      <4>2. E2(m2, v).present => ~E2(m2, v).large
        BY <3>1, <3>3, Apart
      <4> QED
        BY <4>1, <4>2, <3>1, <3>3 DEF Reachable
    <3>6. PICK m3, fr3, un3, lev3, x3 :
            /\ Alloc(S(m2, fr2, x2), v[3], within) = S(m3, fr3, x3)
            /\ Grown(within, m2, un2, lev2, m3, un3, lev3) /\ Left(fr2, un2, fr3, un3)
            /\ \A u \in Frames, l \in Index :
                 lev2[u] # 0 /\ ~(u = x2 /\ l = v[3]) => m3[u][l] = m2[u][l]
            /\ \/ Dry(within, fr2, un2, fr3, un3, x3)
               \/ Beyond(within, fr2, un2, fr3, un3, x3)
               \/ /\ x3 \in within /\ lev3[x3] = lev2[x2] - 1 /\ m3[x2][v[3]] = To(x3)
                  /\ Same(fr2, un2, fr3, un3)
      <4>1. Grows(within, m2, fr2, un2, lev2, x2, v[3])
        BY <3>1, <3>4, <3>5, Growing
      <4> QED
        BY <4>1 DEF Grows
    <3>7. /\ Grown(within, m, un, lev, m3, un3, lev3) /\ Left(fr, un, fr3, un3)
          /\ Same(fr2, un2, fr3, un3) => Same(fr, un, fr3, un3)
          /\ \A l \in Index : m3[Pml4][l] = m2[Pml4][l]
      <4>1. Grown(within, m, un, lev, m3, un3, lev3)
        BY <2>5, <3>6, GrownTwice
      <4>2. Left(fr, un, fr3, un3) /\ (Same(fr2, un2, fr3, un3) => Same(fr, un, fr3, un3))
        BY <2>5, <3>1, <3>6 DEF Left, Same
      <4>3. \A l \in Index : m3[Pml4][l] = m2[Pml4][l]
        BY <1>2, <3>1, <3>6
      <4> QED
        BY <4>1, <4>2, <4>3
    <3>8. Creating(m, fr, within, v) = S(m3, fr3, x3)
      BY <1>1, <1>3, <2>4, <3>6
    <3>9. \A l \in Index : l # v[1] => m3[Pml4][l] = m[Pml4][l]
      BY <1>4, <2>5, <3>7
    <3>10. CASE x3 \notin within
      <4>1. Dry(within, fr2, un2, fr3, un3, x3) => Dry(within, fr, un, fr3, un3, x3)
        BY <3>7 DEF Dry
      <4>2. Beyond(within, fr2, un2, fr3, un3, x3) => Beyond(within, fr, un, fr3, un3, x3)
        BY <2>5 DEF Beyond, Left
      <4> QED
        BY <4>1, <4>2, <3>6, <3>7, <3>8, <3>9, <3>10
    <3>11. CASE x3 \in within
      <4>1. m3[x2][v[3]] = To(x3) /\ m3[x1][v[2]] = To(x2) /\ m3[Pml4][v[1]] = To(x1)
            /\ Same(fr, un, fr3, un3)
        <5>1. lev2[x1] = 3
          BY <2>1, <2>4 DEF Grown
        <5>2. m3[x1][v[2]] = m2[x1][v[2]]
          BY <5>1, <2>1, <3>1, <3>6
        <5>3. ~Dry(within, fr2, un2, fr3, un3, x3) /\ ~Beyond(within, fr2, un2, fr3, un3, x3)
          BY <1>2, <3>11 DEF Dry, Beyond
        <5> QED
          BY <5>2, <5>3, <3>1, <3>2, <3>6, <3>7
      <4>2. E4(m3, v) = To(x1)
        BY <4>1 DEF E4
      <4>3. E3(m3, v) = To(x2)
        BY <4>1, <4>2, Fields DEF E3
      <4>4. E2(m3, v) = To(x3)
        BY <4>1, <4>3, Fields DEF E2
      <4>5. Covered(m3, v) /\ E2(m3, v).frame = x3
        BY <4>2, <4>3, <4>4, Fields DEF Covered
      <4> QED
        BY <4>1, <4>5, <3>7, <3>8, <3>9, <3>11
    <3> QED
      BY <3>10, <3>11
  <2> QED
    BY <2>6, <2>7
<1> QED
  BY <1>5, <1>6

\* Without: to the page's table, or nowhere when there is none.
LEMMA LookingDown ==
  ASSUME NEW m, NEW fr, NEW lev, Tree(m, fr, lev), NEW v, Remote(v), Reachable(m, v, Near)
  PROVE  /\ Covered(m, v) => /\ Finding(m, v) = S(m, {}, E2(m, v).frame)
                             /\ E2(m, v).frame \in Near
         /\ ~Covered(m, v) => /\ Finding(m, v) = S(m, {}, NULL)
                              /\ Translate(m, v) = -1
<1> /\ v \in VPages
  BY DEF Remote
<1>1. Finding(m, v) = Look(Look(Look(S(m, {}, Pml4), v[1]), v[2]), v[3])
  BY DEF Finding, At, Look, S
<1>2. NULL \notin Near /\ Pml4 \in Near
  BY Layout DEF Near
<1>3. /\ E4(m, v).present => E4(m, v).frame \in Near
      /\ E4(m, v).present /\ E3(m, v).present => E3(m, v).frame \in Near
      /\ E4(m, v).present /\ E3(m, v).present /\ E2(m, v).present =>
           E2(m, v).frame \in Near /\ ~E2(m, v).large
  BY Apart DEF Reachable
<1>4. CASE ~E4(m, v).present
  <2>1. Look(S(m, {}, Pml4), v[1]) = S(m, {}, NULL)
    BY <1>2, <1>4, Refused DEF E4
  <2>2. Finding(m, v) = S(m, {}, NULL)
    BY <2>1, <1>1, <1>2, Failing
  <2> QED
    BY <2>2, <1>4, Translating DEF Covered
<1>5. CASE E4(m, v).present
  <2>1. Look(S(m, {}, Pml4), v[1]) = S(m, {}, E4(m, v).frame)
    BY <1>2, <1>5, Following DEF E4
  <2>2. CASE ~E3(m, v).present
    <3>1. Look(S(m, {}, E4(m, v).frame), v[2]) = S(m, {}, NULL)
      BY <1>3, <1>5, <2>2, Refused DEF E3
    <3> QED
      BY <3>1, <2>1, <2>2, <1>1, <1>2, <1>5, Failing, Translating DEF Covered
  <2>3. CASE E3(m, v).present
    <3>1. Look(S(m, {}, E4(m, v).frame), v[2]) = S(m, {}, E3(m, v).frame)
      BY <1>3, <1>5, <2>3, Following DEF E3
    <3>2. CASE ~E2(m, v).present
      <4>1. Look(S(m, {}, E3(m, v).frame), v[3]) = S(m, {}, NULL)
        BY <1>3, <1>5, <2>3, <3>2, Refused DEF E2
      <4>2. Finding(m, v) = S(m, {}, NULL)
        BY <4>1, <3>1, <2>1, <1>1
      <4> QED
        BY <4>2, <3>2, <2>3, <1>5, Translating DEF Covered
    <3>3. CASE E2(m, v).present
      <4>1. Look(S(m, {}, E3(m, v).frame), v[3]) = S(m, {}, E2(m, v).frame)
        BY <1>3, <1>5, <2>3, <3>3, Following DEF E2
      <4> QED
        BY <4>1, <3>1, <3>3, <2>1, <2>3, <1>1, <1>3, <1>5 DEF Covered
    <3> QED
      BY <3>2, <3>3
  <2> QED
    BY <2>2, <2>3
<1> QED
  BY <1>4, <1>5

\* aurelion_vmm_map_page: the page is translated to the frame asked for, or no
\* frame is left, or none within reach; no other page is disturbed.
Maps(within, m, fr, un, v, f) ==
  \E m2, fr2, un2, lev2, x :
    /\ MapPage(m, fr, within, v, f) = S(m2, fr2, x)
    /\ Tree(m2, un2, lev2) /\ Left(fr, un, fr2, un2)
    /\ \A w \in VPages : w # v => Translate(m2, w) = Translate(m, w)
    /\ \A w \in VPages : Reachable(m, w, within) => Reachable(m2, w, within)
    /\ \A l \in Index : l # v[1] => m2[Pml4][l] = m[Pml4][l]
    /\ \/ Dry(within, fr, un, fr2, un2, x) /\ Translate(m2, v) = Translate(m, v)
       \/ Beyond(within, fr, un, fr2, un2, x) /\ Translate(m2, v) = Translate(m, v)
       \/ x \in within /\ Translate(m2, v) = f /\ Same(fr, un, fr2, un2)

LEMMA Mapping ==
  ASSUME NEW within, Reach(within), NEW m, NEW fr, NEW un, fr \subseteq un, NEW lev,
         Tree(m, un, lev), NEW v, Remote(v), Reachable(m, v, within),
         NEW f, f \in Nat, f \notin Pool
  PROVE  Maps(within, m, fr, un, v, f)
<1>1. PICK m2, fr2, un2, lev2, x :
        /\ Creating(m, fr, within, v) = S(m2, fr2, x)
        /\ Grown(within, m, un, lev, m2, un2, lev2) /\ Left(fr, un, fr2, un2)
        /\ \A l \in Index : l # v[1] => m2[Pml4][l] = m[Pml4][l]
        /\ \/ Dry(within, fr, un, fr2, un2, x)
           \/ Beyond(within, fr, un, fr2, un2, x)
           \/ /\ x \in within /\ Covered(m2, v) /\ E2(m2, v).frame = x
              /\ Same(fr, un, fr2, un2)
  BY WalkingDown
<1>2. /\ Tree(m2, un2, lev2) /\ v \in VPages /\ v[4] \in Index
      /\ \A w \in VPages : Translate(m2, w) = Translate(m, w)
      /\ \A w \in VPages : Reachable(m, w, within) => Reachable(m2, w, within)
  BY <1>1 DEF Grown, Remote, VPages
<1>3. CASE x \notin within
  <2>1. MapPage(m, fr, within, v, f) = S(m2, fr2, x)
    <3>1. Creating(m, fr, within, v).table = x
      BY <1>1, State
    <3> QED
      BY <1>1, <1>3, <3>1 DEF MapPage
  <2> QED
    BY <2>1, <1>1, <1>2, <1>3 DEF Maps
<1>4. CASE x \in within
  <2> DEFINE m3 == [m2 EXCEPT ![x][v[4]] = To(f)]
  <2>1. Covered(m2, v) /\ E2(m2, v).frame = x /\ x \in Frames /\ Same(fr, un, fr2, un2)
    <3>1. ~Dry(within, fr, un, fr2, un2, x) /\ ~Beyond(within, fr, un, fr2, un2, x)
      BY <1>4 DEF Dry, Beyond, Reach
    <3> QED
      BY <3>1, <1>1, <1>4 DEF Reach
  <2>2. MapPage(m, fr, within, v, f) = S(m3, fr2, x)
    <3>1. S(m2, fr2, x).table = x
      BY State
    <3>2. MapPage(m, fr, within, v, f)
            = [S(m2, fr2, x) EXCEPT !.mem[S(m2, fr2, x).table][v[4]] = To(f)]
      BY <1>1, <1>4, <3>1 DEF MapPage
    <3>3. [S(m2, fr2, x) EXCEPT !.mem[x][v[4]] = To(f)] = S(m3, fr2, x)
      BY DEF S
    <3> QED
      BY <3>1, <3>2, <3>3
  <2>3. Written(m2, v, To(f), m3)
    <3>1. To(f) \in Entry
      BY DEF To, Entry
    <3>2. m2 \in [Frames -> [Index -> Entry]]
      BY <1>2 DEF Tree
    <3>3. /\ m3 \in [Frames -> [Index -> Entry]]
          /\ \A u \in Frames, l \in Index : m3[u][l] = IF u = x /\ l = v[4] THEN To(f) ELSE m2[u][l]
      BY <3>1, <3>2, <2>1, <1>2, Assign
    <3> QED
      BY <3>1, <3>3, <2>1, Fields DEF Written
  <2> HIDE DEF m3
  <2>4. /\ Tree(m3, un2, lev2) /\ Translate(m3, v) = f
        /\ \A w \in VPages : w # v => Translate(m3, w) = Translate(m2, w)
        /\ \A w \in VPages : Reachable(m2, w, within) => Reachable(m3, w, within)
        /\ \A l \in Index : m3[Pml4][l] = m2[Pml4][l]
    BY <2>1, <2>3, <1>2, Writing, Fields
  <2> QED
    BY <2>1, <2>2, <2>4, <1>1, <1>2, <1>4 DEF Maps
<1> QED
  BY <1>3, <1>4

\* aurelion_vmm_get_physical: what the processor would translate the page to.
LEMMA Asking ==
  ASSUME NEW m, NEW fr, NEW lev, Tree(m, fr, lev), NEW v, Remote(v), Reachable(m, v, Near)
  PROVE  GetPhysical(m, v) = IF Translate(m, v) = -1 THEN 0 ELSE Translate(m, v)
<1>1. CASE ~Covered(m, v)
  <2>1. Finding(m, v).table = NULL
    <3>1. Finding(m, v) = S(m, {}, NULL)
      BY <1>1, LookingDown
    <3> QED
      BY <3>1, State
  <2> QED
    BY <2>1, <1>1, LookingDown DEF GetPhysical
<1>2. CASE Covered(m, v)
  <2>1. Finding(m, v).table = E2(m, v).frame /\ E2(m, v).frame \in Near
    <3>1. Finding(m, v) = S(m, {}, E2(m, v).frame) /\ E2(m, v).frame \in Near
      BY <1>2, LookingDown
    <3> QED
      BY <3>1, State
  <2>2. Finding(m, v).table # NULL /\ Finding(m, v).table \in Near
    BY <2>1 DEF Near
  <2>3. GetPhysical(m, v) = IF E1(m, v).present THEN E1(m, v).frame ELSE 0
    BY <2>1, <2>2 DEF GetPhysical, E1
  <2>4. Translate(m, v) = IF E1(m, v).present THEN E1(m, v).frame ELSE -1
    BY <1>2, Translating DEF Covered
  <2>5. E1(m, v).frame \in Nat
    <3>1. m \in [Frames -> [Index -> Entry]] /\ E2(m, v).frame \in Frames /\ v[4] \in Index
      BY <1>2, Apart DEF Tree, Covered, Remote, VPages
    <3> QED
      BY <3>1 DEF E1, Entry
  <2> QED
    BY <2>3, <2>4, <2>5
<1> QED
  BY <1>1, <1>2

\* What clearing one entry makes of memory.
Erased(m, x, l) == [m EXCEPT ![x][l] = Empty]

LEMMA Erasing ==
  ASSUME NEW m \in [Frames -> [Index -> Entry]], NEW x \in Frames, NEW l \in Index
  PROVE  /\ Erased(m, x, l) \in [Frames -> [Index -> Entry]]
         /\ \A u \in Frames, k \in Index :
              Erased(m, x, l)[u][k] = IF u = x /\ k = l THEN Empty ELSE m[u][k]
<1>1. Empty \in Entry
  BY DEF Empty, Entry
<1> QED
  BY <1>1, Assign DEF Erased

\* aurelion_vmm_unmap_page, for a page whose tables are there.
LEMMA Unmapping ==
  ASSUME NEW m, NEW fr, NEW lev, Tree(m, fr, lev), NEW v, Remote(v), Reachable(m, v, Near),
         NEW m2, Finding(m, v).table # NULL,
         m2 = IF Faults(Finding(m, v), Near) THEN m ELSE Erased(m, Finding(m, v).table, v[4])
  PROVE  /\ Tree(m2, fr, lev) /\ Translate(m2, v) = -1 /\ ~Faults(Finding(m, v), Near)
         /\ \A w \in VPages : w # v => Translate(m2, w) = Translate(m, w)
         /\ \A w \in VPages : \A within : Reachable(m, w, within) => Reachable(m2, w, within)
<1> DEFINE x == Finding(m, v).table
<1>0. ~Faults(Finding(m, v), Near)
  BY LookingDown, State DEF Faults
<1>1. Covered(m, v) /\ x = E2(m, v).frame
  BY LookingDown, State
<1> HIDE DEF x
<1>2. Written(m, v, Empty, m2)
  <2>1. m \in [Frames -> [Index -> Entry]] /\ x \in Frames /\ v[4] \in Index
    BY <1>1, Apart DEF Tree, Covered, Remote, VPages
  <2>2. Empty \in Entry
    BY DEF Empty, Entry
  <2>3. m2 = Erased(m, x, v[4])
    BY <1>0 DEF x
  <2>4. /\ m2 \in [Frames -> [Index -> Entry]]
        /\ \A u \in Frames, l \in Index : m2[u][l] = IF u = x /\ l = v[4] THEN Empty ELSE m[u][l]
    BY <2>1, <2>3, Erasing
  <2> QED
    BY <2>2, <2>4, <1>1, Fields DEF Written
<1>3. ~Empty.present
  BY Fields
<1> QED
  BY <1>0, <1>1, <1>2, <1>3, Writing

\* The tables that init writes are a tree, which maps nothing outside the
\* kernel's own share.
LEMMA Starting ==
  ASSUME NEW m \in [Frames -> [Index -> Entry]]
  PROVE  \E lev : /\ Tree(InitialTables(m), Pool, lev)
                  /\ \A v \in VPages : Remote(v) => Translate(InitialTables(m), v) = -1
                  /\ \A k \in Index \ {0, SlotAlias} : ~InitialTables(m)[Pml4][k].present
<1> DEFINE m2 == InitialTables(m)
           top == [k \in Index |-> IF k \in {0, SlotAlias} THEN To(Pdpt) ELSE Empty]
           mid == [k \in Index |-> IF k = 0 THEN To(Pd) ELSE Empty]
           dir == [k \in Index |-> CASE k = 0 -> To(PtLow)
                                     [] k \in 1 .. EarlyLarge - 1 -> LargeTo(k * Fan)
                                     [] OTHER -> Empty]
           low == [k \in Index |-> To(k)]
           lev == [f \in Frames |-> IF f = Pml4 THEN 4 ELSE IF f = Pdpt THEN 3
                                    ELSE IF f = Pd THEN 2 ELSE IF f = PtLow THEN 1 ELSE 0]
<1>1. /\ Statics \subseteq Frames /\ Statics \cap Pool = {} /\ 0 \in Index /\ SlotAlias \in Index
      /\ Pml4 \notin {Pdpt, Pd, PtLow} /\ Pdpt \notin {Pd, PtLow} /\ Pd # PtLow
      /\ Fan \in Nat /\ Frames \subseteq Nat /\ Index \subseteq Nat
      /\ Pml4 \in Frames /\ Pdpt \in Frames /\ Pd \in Frames /\ PtLow \in Frames
  BY Layout DEF Statics
<1>2. /\ Empty \in Entry /\ \A f \in Nat : To(f) \in Entry /\ LargeTo(f) \in Entry
      /\ \A k \in Nat : k * Fan \in Nat
  BY <1>1 DEF Empty, To, LargeTo, Entry
<1>3. m2 = [m EXCEPT ![Pml4] = top, ![Pdpt] = mid, ![Pd] = dir, ![PtLow] = low]
  BY DEF InitialTables
<1>4. /\ top \in [Index -> Entry] /\ mid \in [Index -> Entry] /\ low \in [Index -> Entry]
  BY <1>1, <1>2
<1>5. dir \in [Index -> Entry]
  BY <1>1, <1>2
<1>6. /\ \A k \in Index : top[k] = IF k \in {0, SlotAlias} THEN To(Pdpt) ELSE Empty
      /\ \A k \in Index : mid[k] = IF k = 0 THEN To(Pd) ELSE Empty
      /\ \A k \in Index : low[k] = To(k)
      /\ dir[0] = To(PtLow)
      /\ \A k \in 1 .. EarlyLarge - 1 : k \in Index => dir[k] = LargeTo(k * Fan)
      /\ \A k \in Index : k >= EarlyLarge => dir[k] = Empty
      /\ \A k \in Index : k # 0 => dir[k] = Empty \/ (\E f \in Nat : dir[k] = LargeTo(f))
  BY <1>1, <1>2, Layout
<1> HIDE DEF top, mid, dir, low, m2
<1>7. /\ m2 \in [Frames -> [Index -> Entry]]
      /\ m2[Pml4] = top /\ m2[Pdpt] = mid /\ m2[Pd] = dir /\ m2[PtLow] = low
  BY <1>1, <1>3, <1>4, <1>5
<1>8. /\ lev \in [Frames -> 0 .. 4]
      /\ lev[Pml4] = 4 /\ lev[Pdpt] = 3 /\ lev[Pd] = 2 /\ lev[PtLow] = 1
      /\ \A f \in Frames : lev[f] # 0 <=> f \in Statics
      /\ \A f \in Frames : lev[f] >= 2 => f \in {Pml4, Pdpt, Pd}
      /\ \A f \in Frames : lev[f] = 4 => f = Pml4
      /\ \A f \in Frames : lev[f] = 1 => f = PtLow
  BY <1>1 DEF Statics
<1> HIDE DEF lev
<1>9. Levels(Pool, lev)
  BY <1>8 DEF Levels
<1>10. Linked(m2, lev)
  <2> SUFFICES ASSUME NEW u \in Frames, NEW k \in Index, lev[u] >= 2, m2[u][k].present
               PROVE  \/ /\ m2[u][k] = To(m2[u][k].frame) /\ m2[u][k].frame \in Frames
                         /\ lev[m2[u][k].frame] = lev[u] - 1
                      \/ u = Pd /\ m2[u][k].large
    BY DEF Linked
  <2>1. CASE u = Pml4
    BY <2>1, <1>1, <1>6, <1>7, <1>8, Fields
  <2>2. CASE u = Pdpt
    BY <2>2, <1>1, <1>6, <1>7, <1>8, Fields
  <2>3. CASE u = Pd
    BY <2>3, <1>1, <1>6, <1>7, <1>8, Fields
  <2> QED
    BY <2>1, <2>2, <2>3, <1>8
<1>11. Once(m2, lev)
  <2>1. \A u \in Frames, k \in Index, f \in Frames : lev[u] >= 2 /\ m2[u][k] = To(f) =>
          \/ u = Pml4 /\ f = Pdpt /\ k \in {0, SlotAlias}
          \/ u = Pdpt /\ f = Pd /\ k = 0
          \/ u = Pd /\ f = PtLow /\ k = 0
    <3> SUFFICES ASSUME NEW u \in Frames, NEW k \in Index, NEW f \in Frames,
                        lev[u] >= 2, m2[u][k] = To(f)
                 PROVE  \/ u = Pml4 /\ f = Pdpt /\ k \in {0, SlotAlias}
                        \/ u = Pdpt /\ f = Pd /\ k = 0
                        \/ u = Pd /\ f = PtLow /\ k = 0
      OBVIOUS
    <3>1. m2[u][k].present /\ ~m2[u][k].large /\ m2[u][k].frame = f
      BY Fields
    <3>2. CASE u = Pml4
      BY <3>1, <3>2, <1>1, <1>6, <1>7, Fields
    <3>3. CASE u = Pdpt
      BY <3>1, <3>3, <1>1, <1>6, <1>7, Fields
    <3>4. CASE u = Pd
      BY <3>1, <3>4, <1>1, <1>6, <1>7, Fields
    <3> QED
      BY <3>2, <3>3, <3>4, <1>8
  <2> QED
    BY <2>1, <1>1 DEF Once
<1>12. Fixed(m2)
  <2>1. \A k \in 1 .. EarlyLarge - 1 : k \in Index
    BY Layout DEF Index
  <2> QED
    BY <2>1, <1>1, <1>6, <1>7, Fields DEF Fixed
<1>13. Owned(m2, Pool, lev) /\ Leaves(m2, lev)
  BY <1>8 DEF Owned, Leaves
<1>14. Tree(m2, Pool, lev)
  BY <1>7, <1>9, <1>10, <1>11, <1>12, <1>13 DEF Tree
<1>15. ASSUME NEW v \in VPages, Remote(v) PROVE Translate(m2, v) = -1
  <2>1. v[1] \in Index /\ v[1] \notin {0, SlotAlias}
    BY <1>15 DEF Remote, VPages
  <2>2. ~E4(m2, v).present
    BY <2>1, <1>6, <1>7, Fields DEF E4
  <2> QED
    BY <2>2, Translating
<1>16. \A k \in Index \ {0, SlotAlias} : ~m2[Pml4][k].present
  BY <1>6, <1>7, Fields
<1> QED
  BY <1>14, <1>15, <1>16 DEF m2

\* In every tree the kernel stays mapped under itself, and nothing else in the
\* first slot.
LEMMA KernelMapped ==
  ASSUME NEW m, NEW fr, NEW lev, Tree(m, fr, lev), NEW v \in Identity
  PROVE  v \in VPages /\ Translate(m, v) = v[3] * Fan + v[4]
<1>1. PICK k \in 0 .. EarlyLarge - 1, l \in Index : v = <<0, 0, k, l>>
  BY DEF Identity
<1>2. /\ v[1] = 0 /\ v[2] = 0 /\ v[3] = k /\ v[4] = l
      /\ k \in Index /\ 0 \in Index /\ l \in Nat /\ Fan \in Nat /\ v \in VPages
  BY <1>1, Layout DEF Index, VPages
<1>3. Fixed(m)
  BY DEF Tree
<1>4. /\ E4(m, v) = To(Pdpt) /\ E4(m, v).frame = Pdpt /\ E4(m, v).present
  BY <1>2, <1>3, Fields DEF E4, Fixed
<1>5. /\ E3(m, v) = To(Pd) /\ E3(m, v).frame = Pd /\ E3(m, v).present
  BY <1>2, <1>3, <1>4, Fields DEF E3, Fixed
<1>6. CASE k = 0
  <2>1. E2(m, v) = To(PtLow)
    BY <1>2, <1>3, <1>5, <1>6 DEF E2, Fixed
  <2>2. E1(m, v) = To(l)
    BY <1>2, <1>3, <2>1, Fields DEF E1, Fixed
  <2>3. Translate(m, v) = l
    BY <1>4, <1>5, <2>1, <2>2, Translating, Fields
  <2> QED
    BY <2>3, <1>2, <1>6
<1>7. CASE k # 0
  <2>1. E2(m, v) = LargeTo(k * Fan)
    BY <1>2, <1>3, <1>5, <1>7 DEF E2, Fixed
  <2>2. E2(m, v).present /\ E2(m, v).large /\ E2(m, v).frame = k * Fan
    BY <2>1, Fields
  <2>3. Translate(m, v) = E2(m, v).frame + v[4]
    BY <1>4, <1>5, <2>2, Translating
  <2> QED
    BY <1>2, <2>2, <2>3
<1> QED
  BY <1>2, <1>6, <1>7

LEMMA NothingElse ==
  ASSUME NEW m, NEW fr, NEW lev, Tree(m, fr, lev), NEW v \in FirstSlot, v \notin Identity
  PROVE  Translate(m, v) = -1
<1>1. PICK j \in Index, k \in Index, l \in Index : v = <<0, j, k, l>>
  BY DEF FirstSlot
<1>2. v[1] = 0 /\ v[2] = j /\ v[3] = k /\ v[4] = l
  BY <1>1
<1>3. j # 0 \/ k >= EarlyLarge
  <2> SUFFICES ASSUME j = 0, ~(k >= EarlyLarge) PROVE FALSE
    OBVIOUS
  <2>1. k \in 0 .. EarlyLarge - 1
    BY Layout DEF Index
  <2> QED
    BY <2>1, <1>1 DEF Identity
<1>4. Fixed(m)
  BY DEF Tree
<1>5. E4(m, v).frame = Pdpt /\ E4(m, v).present
  BY <1>2, <1>4, Fields DEF E4, Fixed
<1>6. CASE j # 0
  <2>1. ~E3(m, v).present
    BY <1>2, <1>4, <1>5, <1>6 DEF E3, Fixed
  <2> QED
    BY <2>1, <1>5, Translating
<1>7. CASE j = 0 /\ k >= EarlyLarge
  <2>1. E3(m, v).frame = Pd /\ E3(m, v).present
    BY <1>2, <1>4, <1>5, <1>7, Fields DEF E3, Fixed
  <2>2. ~E2(m, v).present
    BY <1>2, <1>4, <1>7, <2>1 DEF E2, Fixed
  <2> QED
    BY <2>1, <2>2, <1>5, Translating
<1> QED
  BY <1>3, <1>6, <1>7

\* The pages of a display: as many pages of the display's own slot.
LEMMA Dividing ==
  ASSUME NEW k \in Nat
  PROVE  /\ k \div Fan \in Nat /\ k % Fan \in Index
         /\ k = (k \div Fan) * Fan + (k % Fan)
  BY VmmAssumption DEF Index

LEMMA DividingLittle ==
  ASSUME NEW k \in Nat, k < Fan * Fan
  PROVE  k \div Fan \in Index
<1> DEFINE q == k \div Fan
<1>1. /\ q \in Nat /\ Fan \in Nat /\ k = q * Fan + (k % Fan) /\ k % Fan \in Nat
  BY Dividing, Layout
<1> HIDE DEF q
<1>2. ASSUME q >= Fan PROVE FALSE
  <2>1. q * Fan >= Fan * Fan
    BY <1>1, <1>2
  <2> QED
    BY <2>1, <1>1
<1> QED
  BY <1>1, <1>2, Layout DEF Index, q

LEMMA DisplayCount ==
  ASSUME NEW d \in Framebuffers, Mappable(d)
  PROVE  /\ DisplayPages(d) \in Nat /\ DisplayPages(d) <= Fan * Fan
         /\ d.address \div PageBytes \in Nat
<1>1. d.address \in Nat /\ d.pitch \in Nat /\ d.height \in Nat /\ PageBytes \in Nat \ {0}
  BY VmmAssumption DEF Descriptions
<1>2. Bytes(d) \in Nat /\ Offset(d) \in Nat
  BY <1>1 DEF Bytes, Offset
<1>3. DisplayPages(d) \in Nat
  BY <1>1, <1>2 DEF DisplayPages
<1> QED
  BY <1>1, <1>3, DisplayAssumption

LEMMA DisplayPage ==
  ASSUME NEW d \in Framebuffers, Mappable(d), NEW k \in 0 .. DisplayPages(d) - 1
  PROVE  /\ k \in Nat /\ Remote(FbPage(k)) /\ FbPage(k)[1] = SlotFb
         /\ \A j \in 0 .. DisplayPages(d) - 1 : FbPage(j) = FbPage(k) => j = k
<1>1. \A j \in 0 .. DisplayPages(d) - 1 :
         /\ j \in Nat /\ j \div Fan \in Index /\ j % Fan \in Index
         /\ j = (j \div Fan) * Fan + (j % Fan)
  <2> TAKE j \in 0 .. DisplayPages(d) - 1
  <2>1. j \in Nat /\ j < Fan * Fan
    BY DisplayCount, Layout
  <2> QED
    BY <2>1, Dividing, DividingLittle
<1>2. SlotFb \in Index /\ SlotFb # 0 /\ SlotFb # SlotAlias /\ 0 \in Index
  BY Layout
<1>3. \A j \in 0 .. DisplayPages(d) - 1 :
         /\ FbPage(j) \in VPages /\ FbPage(j)[1] = SlotFb
         /\ FbPage(j)[3] = j \div Fan /\ FbPage(j)[4] = j % Fan
  BY <1>1, <1>2 DEF FbPage, VPages
<1>4. ASSUME NEW j \in 0 .. DisplayPages(d) - 1, FbPage(j) = FbPage(k) PROVE j = k
  <2>1. j \div Fan = k \div Fan /\ j % Fan = k % Fan
    BY <1>3, <1>4
  <2> QED
    BY <2>1, <1>1
<1> QED
  BY <1>1, <1>2, <1>3, <1>4 DEF Remote

\* The states that aurelion_vmm_map_framebuffer goes through, page by page.
Through(m, fr, d, n, g) ==
  g = [k \in 0 .. n |->
        IF k = 0 THEN At(m, fr)
        ELSE MapPage(g[k-1].mem, g[k-1].free, Anywhere, FbPage(k-1),
                     (d.address \div PageBytes) + k - 1)]

LEMMA Going ==
  ASSUME NEW m, NEW fr, NEW d, NEW N \in Nat
  PROVE  \E g : Through(m, fr, d, N, g)
<1> DEFINE Stuck == {n \in Nat : ~\E g : Through(m, fr, d, n, g)}
<1> SUFFICES ASSUME Stuck # {} PROVE FALSE
  OBVIOUS
<1>1. PICK n \in Stuck : \A i \in Stuck : n <= i
  <2>1. Stuck \in SUBSET Nat
    OBVIOUS
  <2> HIDE DEF Stuck
  <2> QED
    BY <2>1, Least
<1>2. n \in Nat /\ ~\E g : Through(m, fr, d, n, g)
  OBVIOUS
<1>3. CASE n = 0
  <2> DEFINE g == [k \in 0 .. 0 |-> At(m, fr)]
  <2>1. Through(m, fr, d, 0, g)
    BY DEF Through
  <2> QED
    BY <2>1, <1>2, <1>3
<1>4. CASE n # 0
  <2>1. n - 1 \in Nat /\ n - 1 \notin Stuck
    BY <1>1, <1>2, <1>4
  <2>2. PICK g : Through(m, fr, d, n - 1, g)
    BY <2>1
  <2> DEFINE Stage(k, h) ==
               IF k = 0 THEN At(m, fr)
               ELSE MapPage(h[k-1].mem, h[k-1].free, Anywhere, FbPage(k-1),
                            (d.address \div PageBytes) + k - 1)
             h == [k \in 0 .. n |-> Stage(k, g)]
  <2>3. g = [k \in 0 .. n - 1 |-> Stage(k, g)]
    BY <2>2 DEF Through
  <2>4. \A k \in 0 .. n - 1 : h[k] = g[k]
    <3> HIDE DEF Stage
    <3> QED
      BY <2>3, <1>2
  <2>5. \A k \in 0 .. n : Stage(k, g) = Stage(k, h)
    <3> HIDE DEF h
    <3> TAKE k \in 0 .. n
    <3>1. k # 0 => h[k-1] = g[k-1]
      BY <2>4, <1>2
    <3> QED
      BY <3>1
  <2>6. h = [k \in 0 .. n |-> Stage(k, h)]
    <3>1. h = [k \in 0 .. n |-> Stage(k, g)]
      OBVIOUS
    <3> HIDE DEF h, Stage
    <3> QED
      BY <3>1, <2>5
  <2>7. Through(m, fr, d, n, h)
    <3> HIDE DEF h
    <3> QED
      BY <2>6 DEF Through
  <2> QED
    BY <2>7, <1>2
<1> QED
  BY <1>3, <1>4

LEMMA Arriving ==
  ASSUME NEW m, NEW fr, NEW d \in Framebuffers, Mappable(d)
  PROVE  \E g : /\ Through(m, fr, d, DisplayPages(d), g)
                /\ MapFramebuffer(m, fr, d) = g[DisplayPages(d)]
<1> DEFINE g == CHOOSE g : Through(m, fr, d, DisplayPages(d), g)
<1>1. Through(m, fr, d, DisplayPages(d), g)
  BY Going, DisplayCount
<1>2. MapFramebuffer(m, fr, d) = g[DisplayPages(d)]
  <2>1. MapPages(m, fr, d, DisplayPages(d)) = g[DisplayPages(d)]
    BY Zenon DEF MapPages, Through
  <2> QED
    BY <2>1 DEF MapFramebuffer
<1> QED
  BY <1>1, <1>2

\* What callers map are pages of their own.
LEMMA Callers ==
  ASSUME Elsewhere, Outside
  PROVE  /\ \A v \in Virts : Remote(v) /\ v[1] # SlotFb /\ v \notin Identity
         /\ \A f \in Targets : f \in Nat /\ f \notin Pool /\ f # 0
<1>1. \A v \in Virts : v \in VPages /\ v[1] \notin {0, SlotAlias}
  BY VmmAssumption DEF VPages
<1>2. \A v \in Identity : v[1] = 0
  BY DEF Identity
<1>3. \A f \in Targets : f \in Nat /\ f \notin Pool /\ f # 0
  BY VmmAssumption DEF Outside
<1>4. \A v \in Virts : v[1] # SlotFb
  BY DEF Elsewhere
<1> QED
  BY <1>1, <1>2, <1>3, <1>4 DEF Remote

\* How far a display is mapped after k pages: all of them, or no frame is left.
Shown(m, fr, d, k) ==
  fr = {} \/ \A j \in 0 .. k - 1 : Translate(m, FbPage(j)) = (d.address \div PageBytes) + j

\* Before init ends the manager reaches every frame, so that it cannot fault.
LEMMA Everywhere ==
  ASSUME NEW m, NEW fr, NEW lev, Tree(m, fr, lev), NEW w \in VPages
  PROVE  Reachable(m, w, Anywhere)
<1>1. \A t \in Frames : lev[t] # 0 => t \in Anywhere
  BY Layout DEF Tree, Levels, Anywhere, NULL
<1> QED
  BY <1>1, Descending DEF Reachable

\* aurelion_vmm_map_framebuffer: the display's pages, unless frames run out, and
\* no page beside them.
LEMMA Displaying ==
  ASSUME Outside, NEW m, NEW fr, NEW un, fr \subseteq un, NEW lev, Tree(m, un, lev),
         NEW d \in Framebuffers
  PROVE  \E m2, fr2, un2, lev2, x :
           /\ MapFramebuffer(m, fr, d) = S(m2, fr2, x)
           /\ Tree(m2, un2, lev2) /\ Left(fr, un, fr2, un2) /\ Same(fr, un, fr2, un2)
           /\ \A v \in VPages : v[1] # SlotFb => Translate(m2, v) = Translate(m, v)
           /\ \A l \in Index : l # SlotFb => m2[Pml4][l] = m[Pml4][l]
           /\ Mappable(d) => Shown(m2, fr2, d, DisplayPages(d))
<1>0. /\ At(m, fr) = S(m, fr, Pml4) /\ Left(fr, un, fr, un) /\ Same(fr, un, fr, un)
      /\ Reach(Anywhere) /\ Pool \subseteq Anywhere
  BY Reaches DEF At, S, Left, Same
<1>a. CASE ~Mappable(d)
  <2>1. MapFramebuffer(m, fr, d) = S(m, fr, Pml4)
    BY <1>0, <1>a DEF MapFramebuffer
  <2> QED
    BY <2>1, <1>0, <1>a
<1>b. CASE Mappable(d)
  <2> DEFINE N == DisplayPages(d)
             base == d.address \div PageBytes
             Mapped(s, k) ==
               \E m2, fr2, un2, lev2, x :
                 /\ s = S(m2, fr2, x)
                 /\ Tree(m2, un2, lev2) /\ Left(fr, un, fr2, un2) /\ Same(fr, un, fr2, un2)
                 /\ \A v \in VPages : v[1] # SlotFb => Translate(m2, v) = Translate(m, v)
                 /\ \A l \in Index : l # SlotFb => m2[Pml4][l] = m[Pml4][l]
                 /\ Shown(m2, fr2, d, k)
  <2>1. N \in Nat /\ base \in Nat
    BY <1>b, DisplayCount
  <2>2. PICK g : Through(m, fr, d, N, g) /\ MapFramebuffer(m, fr, d) = g[N]
    BY <1>b, Arriving
  <2> HIDE DEF N
  <2>3. /\ g[0] = At(m, fr)
        /\ \A k \in 1 .. N :
             g[k] = MapPage(g[k-1].mem, g[k-1].free, Anywhere, FbPage(k-1), base + k - 1)
    BY <2>1, <2>2 DEF Through
  <2>4. Mapped(g[0], 0)
    BY <1>0, <2>3 DEF Shown
  <2>5. ASSUME NEW k \in 1 .. N, Mapped(g[k-1], k - 1) PROVE Mapped(g[k], k)
    <3>1. PICK m2, fr2, un2, lev2, x :
            /\ g[k-1] = S(m2, fr2, x)
            /\ Tree(m2, un2, lev2) /\ Left(fr, un, fr2, un2) /\ Same(fr, un, fr2, un2)
            /\ \A v \in VPages : v[1] # SlotFb => Translate(m2, v) = Translate(m, v)
            /\ \A l \in Index : l # SlotFb => m2[Pml4][l] = m[Pml4][l]
            /\ Shown(m2, fr2, d, k - 1)
      BY <2>5
    <3>2. /\ Remote(FbPage(k-1)) /\ FbPage(k-1)[1] = SlotFb /\ k - 1 \in 0 .. N - 1
          /\ FbPage(k-1) \in VPages
          /\ \A j \in 0 .. N - 1 : FbPage(j) \in VPages /\ (FbPage(j) = FbPage(k-1) => j = k - 1)
      BY <2>1, <1>b, DisplayPage DEF N, Remote
    <3>3. base + k - 1 \in Nat /\ base + k - 1 \notin Pool
      <4>1. base + (k - 1) \notin Pool
        BY <3>2, <1>b DEF Outside, N
      <4> QED
        BY <4>1, <2>1
    <3>4. g[k] = MapPage(m2, fr2, Anywhere, FbPage(k-1), base + k - 1)
      BY <2>3, <3>1, State
    <3>5. fr2 \subseteq un2 /\ fr2 \subseteq Anywhere /\ Reachable(m2, FbPage(k-1), Anywhere)
      BY <3>1, <3>2, <1>0, Everywhere DEF Left, Tree
    <3> HIDE DEF base
    <3>6. PICK m3, fr3, un3, lev3, y :
            /\ MapPage(m2, fr2, Anywhere, FbPage(k-1), base + k - 1) = S(m3, fr3, y)
            /\ Tree(m3, un3, lev3) /\ Left(fr2, un2, fr3, un3)
            /\ \A w \in VPages : w # FbPage(k-1) => Translate(m3, w) = Translate(m2, w)
            /\ \A l \in Index : l # FbPage(k-1)[1] => m3[Pml4][l] = m2[Pml4][l]
            /\ \/ Dry(Anywhere, fr2, un2, fr3, un3, y)
               \/ Beyond(Anywhere, fr2, un2, fr3, un3, y)
               \/ Translate(m3, FbPage(k-1)) = base + k - 1 /\ Same(fr2, un2, fr3, un3)
      <4>1. Maps(Anywhere, m2, fr2, un2, FbPage(k-1), base + k - 1)
        BY <1>0, <3>1, <3>2, <3>3, <3>5, Mapping
      <4> QED
        BY <4>1 DEF Maps
    <3>7. /\ fr3 \subseteq fr2 /\ Same(fr2, un2, fr3, un3)
          /\ fr3 = {} \/ Translate(m3, FbPage(k-1)) = base + k - 1
      <4>1. ~Beyond(Anywhere, fr2, un2, fr3, un3, y)
        BY <3>5 DEF Beyond
      <4> QED
        BY <4>1, <3>6 DEF Dry, Left
    <3>8. Shown(m3, fr3, d, k)
      <4> SUFFICES ASSUME fr3 # {}, NEW j \in 0 .. k - 1
                   PROVE  Translate(m3, FbPage(j)) = base + j
        BY DEF Shown, base
      <4>1. CASE j = k - 1
        BY <4>1, <3>7, <2>1
      <4>2. CASE j # k - 1
        <5>1. j \in 0 .. N - 1 /\ j \in 0 .. (k - 1) - 1 /\ fr2 # {}
          BY <4>2, <2>1, <3>7
        <5>2. Translate(m2, FbPage(j)) = base + j
          BY <5>1, <3>1 DEF Shown, base
        <5> QED
          BY <5>1, <5>2, <4>2, <3>2, <3>6
      <4> QED
        BY <4>1, <4>2
    <3>9. /\ \A v \in VPages : v[1] # SlotFb => Translate(m3, v) = Translate(m, v)
          /\ \A l \in Index : l # SlotFb => m3[Pml4][l] = m[Pml4][l]
      BY <3>1, <3>2, <3>6
    <3>10. /\ g[k] = S(m3, fr3, y) /\ Tree(m3, un3, lev3)
           /\ Left(fr, un, fr3, un3) /\ Same(fr, un, fr3, un3)
      BY <3>1, <3>4, <3>6, <3>7 DEF Left, Same
    <3> QED
      BY <3>8, <3>9, <3>10
  <2> HIDE DEF Mapped
  <2>6. Mapped(g[N], N)
    <3> DEFINE Stuck == {k \in 0 .. N : ~Mapped(g[k], k)}
    <3> SUFFICES ASSUME Stuck # {} PROVE FALSE
      BY <2>1
    <3>1. PICK k \in Stuck : \A i \in Stuck : k <= i
      <4>1. Stuck \in SUBSET Nat
        BY <2>1
      <4> HIDE DEF Stuck
      <4> QED
        BY <4>1, Least
    <3>2. k \in 1 .. N /\ k - 1 \in 0 .. N /\ k - 1 \notin Stuck /\ ~Mapped(g[k], k)
      BY <3>1, <2>1, <2>4
    <3> QED
      BY <3>2, <2>5
  <2> QED
    BY <2>2, <2>6, <1>b DEF Mapped, N
<1> QED
  BY <1>a, <1>b

\* What holds of every state, and keeps holding: before CR3 is loaded nothing
\* has been taken; after, the tables are a tree, of which the callers' part is
\* within the kernel's reach, the frames the manager took hold it, unless one
\* was lost to a fault, every cached page is mapped and the display is whole,
\* or frames have run out.
Forest ==
  cr3 = "kernel" =>
    \E lev, un : /\ Tree(mem, un, lev) /\ free \subseteq un
                 /\ ~faulted => un \ free = Pool \ pool
                 /\ \A v \in Virts : Reachable(mem, v, Near)
Cached == /\ DOMAIN tlb \subseteq Virts
          /\ \A v \in DOMAIN tlb : tlb[v] # -1 /\ Translate(mem, v) # -1
NoneZero == cr3 = "kernel" => \A v \in Virts : Translate(mem, v) # 0
Whole == display \in Framebuffers /\ Mappable(display)
         /\ Shown(mem, free, display, DisplayPages(display))
Sound ==
  /\ mem \in [Frames -> [Index -> Entry]] /\ pool \in Pools /\ free \subseteq pool
  /\ cr3 \in {"loader", "kernel"} /\ faulted \in BOOLEAN /\ Forest /\ Cached /\ NoneZero
  /\ display \in Framebuffers \cup {NoDisplay} /\ mapping \in {NULL, 1}
  /\ cr3 = "loader" => /\ ~faulted /\ free = pool
                       /\ DOMAIN tlb = {} /\ mapping = NULL
  /\ mapping # NULL => Whole

LEMMA InitSound == Init => Sound
<1> SUFFICES ASSUME Init PROVE Sound
  OBVIOUS
<1>1. mem \in [Frames -> [Index -> Entry]]
  <2>1. Empty \in Entry /\ To(1) \in Entry
    BY DEF Empty, To, Entry
  <2> QED
    BY <2>1 DEF Init, ZeroTable
<1>2. /\ pool \in Pools /\ free = pool /\ cr3 = "loader" /\ DOMAIN tlb = {}
      /\ display = NoDisplay /\ mapping = NULL /\ faulted = FALSE
  BY DEF Init
<1> QED
  BY <1>1, <1>2 DEF Sound, Forest, Cached, NoneZero

\* aurelion_vmm_init.
LEMMA VmmInitSound ==
  ASSUME Elsewhere, Outside, Sound, NEW d \in Framebuffers, VmmInit(d)
  PROVE  /\ Sound' /\ cr3' = "kernel" /\ ~faulted' /\ DOMAIN tlb' = {}
         /\ \A v \in Virts : Translate(mem', v) = -1
<1>1. /\ mem \in [Frames -> [Index -> Entry]] /\ pool \in Pools /\ free = pool
      /\ cr3 = "loader" /\ ~faulted /\ pool \subseteq Pool
  BY DEF Sound, VmmInit, Pool
<1>2. PICK lev : /\ Tree(InitialTables(mem), Pool, lev)
                 /\ \A v \in VPages : Remote(v) => Translate(InitialTables(mem), v) = -1
                 /\ \A k \in Index \ {0, SlotAlias} : ~InitialTables(mem)[Pml4][k].present
  BY <1>1, Starting
<1>3. /\ cr3' = "kernel" /\ DOMAIN tlb' = {} /\ display' = d
      /\ mapping' = (IF Mappable(d) THEN 1 ELSE NULL) /\ pool' = pool /\ faulted' = faulted
  BY DEF VmmInit
<1>4. \A v \in Virts : /\ v \in VPages /\ Remote(v) /\ v[1] # SlotFb
                       /\ v[1] \in Index \ {0, SlotAlias}
  BY Callers DEF Remote, VPages
<1>5. PICK m2, fr2, un2, lev2, x :
        /\ MapFramebuffer(InitialTables(mem), pool, d) = S(m2, fr2, x)
        /\ Tree(m2, un2, lev2) /\ Left(pool, Pool, fr2, un2) /\ Same(pool, Pool, fr2, un2)
        /\ \A v \in VPages : v[1] # SlotFb =>
             Translate(m2, v) = Translate(InitialTables(mem), v)
        /\ \A l \in Index : l # SlotFb => m2[Pml4][l] = InitialTables(mem)[Pml4][l]
        /\ Mappable(d) => Shown(m2, fr2, d, DisplayPages(d))
  BY <1>1, <1>2, Displaying
<1>6. mem' = m2 /\ free' = fr2
  <2>1. /\ mem' = MapFramebuffer(InitialTables(mem), pool, d).mem
        /\ free' = MapFramebuffer(InitialTables(mem), pool, d).free
    BY <1>1 DEF VmmInit
  <2> QED
    BY <2>1, <1>5, State
<1>7. \A v \in Virts : Translate(mem', v) = -1
  BY <1>2, <1>4, <1>5, <1>6
<1>8. mem' \in [Frames -> [Index -> Entry]]
  BY <1>5, <1>6 DEF Tree
<1>9. \A v \in Virts : Reachable(m2, v, Near)
  <2> SUFFICES ASSUME NEW v \in Virts PROVE ~E4(m2, v).present
    BY DEF Reachable
  <2> QED
    BY <1>2, <1>4, <1>5 DEF E4
<1>10. Forest' /\ Cached' /\ NoneZero'
  <2>1. fr2 \subseteq un2 /\ un2 \ fr2 = Pool \ pool
    BY <1>5 DEF Left, Same
  <2>2. Forest'
    BY <2>1, <1>3, <1>5, <1>6, <1>9 DEF Forest
  <2> QED
    BY <2>2, <1>3, <1>7 DEF Cached, NoneZero
<1>11. mapping' # NULL => Whole'
  BY <1>3, <1>5, <1>6 DEF Whole, NULL
<1>12. free' \subseteq pool'
  BY <1>3, <1>5, <1>6 DEF Left
<1> QED
  BY <1>1, <1>3, <1>7, <1>8, <1>10, <1>11, <1>12 DEF Sound, NULL

\* Changing the translation of one page of a caller disturbs neither the display
\* nor another page.
LEMMA OnePage ==
  ASSUME Elsewhere, Outside, Sound, Running, NEW v \in Virts,
         UNCHANGED <<pool, cr3, display, mapping>>, free' \subseteq free,
         faulted' \in BOOLEAN, Forest',
         \A w \in VPages : w # v => Translate(mem', w) = Translate(mem, w),
         Translate(mem', v) # 0, Cached'
  PROVE  Sound'
<1>1. mem' \in [Frames -> [Index -> Entry]] /\ free' \subseteq pool'
  BY DEF Tree, Forest, Running, Sound
<1>2. NoneZero'
  BY Callers DEF Sound, NoneZero, Remote, Running
<1>3. mapping # NULL => Whole'
  <2> SUFFICES ASSUME mapping # NULL, free' # {}, NEW j \in 0 .. DisplayPages(display) - 1
               PROVE  /\ display \in Framebuffers /\ Mappable(display)
                      /\ Translate(mem', FbPage(j)) = (display.address \div PageBytes) + j
    BY DEF Shown, Sound, Whole
  <2>1. display \in Framebuffers /\ Mappable(display) /\ free # {}
    BY DEF Sound, Whole
  <2>2. Translate(mem, FbPage(j)) = (display.address \div PageBytes) + j
    BY <2>1 DEF Sound, Shown, Whole
  <2>3. FbPage(j) \in VPages /\ FbPage(j) # v
    BY <2>1, DisplayPage, Callers DEF Remote
  <2> QED
    BY <2>1, <2>2, <2>3
<1> QED
  BY <1>1, <1>2, <1>3 DEF Sound, Running

\* What a call of aurelion_vmm_map_page does.
LEMMA MapStep ==
  ASSUME Elsewhere, Outside, Sound, NEW v \in Virts, NEW f \in Targets, CallMapPage(v, f)
  PROVE  /\ Running /\ UNCHANGED <<pool, cr3, tlb, display, mapping>>
         /\ free' \subseteq free /\ faulted' \in BOOLEAN /\ Forest'
         /\ \A w \in VPages : w # v => Translate(mem', w) = Translate(mem, w)
         /\ Done(v, f) \/ RefusedDry(v) \/ OutOfReach(v)
<1>1. Running /\ cr3 = "kernel" /\ ~faulted /\ UNCHANGED <<pool, cr3, tlb, display, mapping>>
  BY DEF CallMapPage, Running
<1>2. PICK lev, un : /\ Tree(mem, un, lev) /\ free \subseteq un
                     /\ un \ free = Pool \ pool
                     /\ \A w \in Virts : Reachable(mem, w, Near)
  BY <1>1 DEF Sound, Forest
<1>3. Remote(v) /\ f \in Nat /\ f \notin Pool /\ Reachable(mem, v, Near) /\ Reach(Near)
  BY Callers, Reaches, <1>2
<1>4. Maps(Near, mem, free, un, v, f)
  BY <1>2, <1>3, Mapping
<1>5. PICK m2, fr2, un2, lev2, x :
        /\ MapPage(mem, free, Near, v, f) = S(m2, fr2, x)
        /\ Tree(m2, un2, lev2) /\ Left(free, un, fr2, un2)
        /\ \A w \in VPages : w # v => Translate(m2, w) = Translate(mem, w)
        /\ \A w \in VPages : Reachable(mem, w, Near) => Reachable(m2, w, Near)
        /\ \/ Dry(Near, free, un, fr2, un2, x) /\ Translate(m2, v) = Translate(mem, v)
           \/ Beyond(Near, free, un, fr2, un2, x) /\ Translate(m2, v) = Translate(mem, v)
           \/ x \in Near /\ Translate(m2, v) = f /\ Same(free, un, fr2, un2)
  BY <1>4 DEF Maps
<1>6. mem' = m2 /\ free' = fr2 /\ faulted' = (x \notin Near \cup {NULL})
  <2>1. /\ mem' = MapPage(mem, free, Near, v, f).mem
        /\ free' = MapPage(mem, free, Near, v, f).free
        /\ faulted' = (MapPage(mem, free, Near, v, f).table \notin Near \cup {NULL})
    BY DEF CallMapPage, Faults
  <2> QED
    BY <2>1, <1>5, State
<1>7. Done(v, f) \/ RefusedDry(v) \/ OutOfReach(v)
  BY <1>5, <1>6 DEF Done, RefusedDry, OutOfReach, Dry, Beyond
<1>8. Forest'
  <2>1. fr2 \subseteq un2 /\ \A w \in Virts : Reachable(m2, w, Near)
    BY <1>2, <1>5, Callers DEF Left, Remote
  <2>2. ~faulted' => un2 \ fr2 = Pool \ pool
    BY <1>2, <1>5, <1>6 DEF Dry, Beyond, Same
  <2> QED
    BY <2>1, <2>2, <1>1, <1>5, <1>6 DEF Forest
<1>9. free' \subseteq free
  BY <1>5, <1>6 DEF Left
<1> QED
  BY <1>1, <1>5, <1>6, <1>7, <1>8, <1>9

LEMMA MapSound ==
  ASSUME Elsewhere, Outside, Sound, NEW v \in Virts, NEW f \in Targets, CallMapPage(v, f)
  PROVE  Sound'
<1>1. f \in Nat /\ f # 0 /\ f # -1 /\ \A w \in Virts : w \in VPages
  BY Callers DEF Remote
<1>2. Translate(mem, v) # 0
  BY MapStep DEF Sound, NoneZero, Running
<1>3. Translate(mem', v) # 0 /\ (Translate(mem', v) = f \/ Translate(mem', v) = Translate(mem, v))
  BY MapStep, <1>1, <1>2 DEF Done, RefusedDry, OutOfReach
<1>4. Cached'
  <2>1. tlb' = tlb /\ Cached
    BY MapStep DEF Sound
  <2>2. \A w \in DOMAIN tlb : Translate(mem', w) # -1
    BY <2>1, <1>1, <1>3, MapStep DEF Cached
  <2> QED
    BY <2>1, <2>2 DEF Cached
<1> QED
  BY MapStep, <1>3, <1>4, OnePage

\* What a call of aurelion_vmm_unmap_page does.
LEMMA UnmapStep ==
  ASSUME Elsewhere, Outside, Sound, NEW v \in Virts, CallUnmapPage(v)
  PROVE  /\ Running /\ UNCHANGED <<pool, free, cr3, display, mapping, faulted>>
         /\ tlb' = [w \in DOMAIN tlb \ {v} |-> tlb[w]]
         /\ Forest'
         /\ \A w \in VPages : w # v => Translate(mem', w) = Translate(mem, w)
         /\ Translate(mem', v) = -1
<1>1. Running /\ cr3 = "kernel" /\ ~faulted /\ UNCHANGED <<pool, free, cr3, display, mapping>>
  BY DEF CallUnmapPage, Running
<1>2. PICK lev, un : /\ Tree(mem, un, lev) /\ free \subseteq un
                     /\ un \ free = Pool \ pool
                     /\ \A w \in Virts : Reachable(mem, w, Near)
  BY <1>1 DEF Sound, Forest
<1>3. Remote(v) /\ Reachable(mem, v, Near) /\ \A w \in Virts : w \in VPages
  BY Callers, <1>2 DEF Remote
<1>4. /\ Finding(mem, v).table # NULL
      /\ mem' = IF Faults(Finding(mem, v), Near) THEN mem
                ELSE Erased(mem, Finding(mem, v).table, v[4])
      /\ faulted' = Faults(Finding(mem, v), Near)
      /\ ~Faults(Finding(mem, v), Near) => tlb' = [w \in DOMAIN tlb \ {v} |-> tlb[w]]
  BY DEF CallUnmapPage, Erased
<1>5. /\ Tree(mem', un, lev) /\ Translate(mem', v) = -1 /\ ~Faults(Finding(mem, v), Near)
      /\ \A w \in VPages : w # v => Translate(mem', w) = Translate(mem, w)
      /\ \A w \in VPages : \A within : Reachable(mem, w, within) => Reachable(mem', w, within)
  BY <1>2, <1>3, <1>4, Unmapping
<1>6. faulted' = faulted
  <2>1. faulted = FALSE
    BY <1>1 DEF Sound
  <2>2. Faults(Finding(mem, v), Near) = FALSE
    BY <1>5 DEF Faults
  <2> QED
    BY <2>1, <2>2, <1>4
<1>7. Forest'
  BY <1>1, <1>2, <1>3, <1>5 DEF Forest
<1> QED
  BY <1>1, <1>4, <1>5, <1>6, <1>7

LEMMA UnmapSound ==
  ASSUME Elsewhere, Outside, Sound, NEW v \in Virts, CallUnmapPage(v)
  PROVE  Sound'
<1>1. \A w \in Virts : w \in VPages
  BY Callers DEF Remote
<1>2. Cached'
  <2>1. DOMAIN tlb' = DOMAIN tlb \ {v} /\ \A w \in DOMAIN tlb' : tlb'[w] = tlb[w]
    BY UnmapStep
  <2>2. Cached
    BY DEF Sound
  <2> QED
    BY <2>1, <2>2, <1>1, UnmapStep DEF Cached
<1>3. Translate(mem', v) # 0
  <2>1. Translate(mem', v) = -1
    BY UnmapStep
  <2> QED
    BY <2>1
<1>4. faulted' \in BOOLEAN /\ free' \subseteq free
  BY UnmapStep DEF Sound
<1> QED
  BY UnmapStep, <1>2, <1>3, <1>4, OnePage

\* The processor caches and drops translations.
LEMMA CacheSound ==
  ASSUME Sound, NEW v \in Virts, Access(v) \/ Evict(v)
  PROVE  Sound'
<1>1. UNCHANGED <<mem, pool, free, cr3, display, mapping, faulted>>
  BY DEF Access, Evict
<1>2. Cached' /\ (cr3 = "loader" => DOMAIN tlb' = {})
  <2>1. CASE Access(v)
    <3>1. /\ tlb' = [w \in DOMAIN tlb \cup {v} |-> IF w = v THEN Translate(mem, v) ELSE tlb[w]]
          /\ Translate(mem, v) # -1 /\ cr3 = "kernel" /\ mem' = mem
      BY <2>1 DEF Access, Running
    <3>2. /\ DOMAIN tlb' = DOMAIN tlb \cup {v} /\ tlb'[v] = Translate(mem, v)
          /\ \A w \in DOMAIN tlb : w # v => tlb'[w] = tlb[w]
      BY <3>1
    <3> QED
      BY <3>1, <3>2 DEF Sound, Cached
  <2>2. CASE Evict(v)
    <3>1. tlb' = [w \in DOMAIN tlb \ {v} |-> tlb[w]]
      BY <2>2 DEF Evict
    <3>2. DOMAIN tlb' = DOMAIN tlb \ {v} /\ \A w \in DOMAIN tlb' : tlb'[w] = tlb[w]
      BY <3>1
    <3> QED
      BY <3>2, <1>1 DEF Sound, Cached
  <2> QED
    BY <2>1, <2>2
<1>3. Forest' /\ NoneZero' /\ (mapping # NULL => Whole')
  BY <1>1 DEF Sound, Forest, NoneZero, Whole
<1> QED
  BY <1>1, <1>2, <1>3 DEF Sound

LEMMA NextSound ==
  ASSUME Elsewhere, Outside, Sound, [Next]_vars
  PROVE  Sound'
<1>1. CASE UNCHANGED vars
  BY <1>1 DEF vars, Sound, Forest, Cached, NoneZero, Whole
<1>2. ASSUME NEW d \in Framebuffers, VmmInit(d) PROVE Sound'
  BY <1>2, VmmInitSound
<1>3. ASSUME NEW v \in Virts, NEW f \in Targets, CallMapPage(v, f) PROVE Sound'
  BY <1>3, MapSound
<1>4. ASSUME NEW v \in Virts, CallUnmapPage(v) PROVE Sound'
  BY <1>4, UnmapSound
<1>5. ASSUME NEW v \in Virts, Access(v) \/ Evict(v) PROVE Sound'
  BY <1>5, CacheSound
<1> QED
  BY <1>1, <1>2, <1>3, <1>4, <1>5 DEF Next

THEOREM AlwaysSound == Elsewhere /\ Outside => (Spec => []Sound)
<1> SUFFICES ASSUME Elsewhere, Outside PROVE Spec => []Sound
  OBVIOUS
<1>1. Init => Sound
  BY InitSound
<1>2. Sound /\ [Next]_vars => Sound'
  BY NextSound
<1> QED
  BY <1>1, <1>2, PTL DEF Spec

\* The tables are well formed, and the kernel stays mapped under itself, and
\* nothing else with it, whatever callers map and unmap elsewhere.
THEOREM KernelKept == Elsewhere /\ Outside => (Spec => []Inv)
<1> SUFFICES ASSUME Elsewhere, Outside PROVE Spec => []Inv
  OBVIOUS
<1>1. Sound => Inv
  <2>1. Sound => TypeOK
    BY DEF Sound, Cached, TypeOK
  <2>2. Sound => IdentityKept
    BY KernelMapped, NothingElse DEF Sound, Forest, IdentityKept
  <2> QED
    BY <2>1, <2>2 DEF Inv
<1> QED
  BY <1>1, AlwaysSound, PTL

\* Until a fault, a frame taken from the physical memory manager is linked
\* exactly once, and any other nowhere.
THEOREM OneOwner == Elsewhere /\ Outside => (Spec => []TablesOwned)
<1> SUFFICES ASSUME Elsewhere, Outside PROVE Spec => []TablesOwned
  OBVIOUS
<1>1. Sound => TablesOwned
  <2> SUFFICES ASSUME Sound, Running, NEW f \in Pool
               PROVE  Cardinality({l \in ({Pml4, Pdpt, Pd} \cup (pool \ free)) \X Index :
                                     mem[l[1]][l[2]] = To(f)})
                        = IF f \in pool \ free THEN 1 ELSE 0
    BY DEF TablesOwned
  <2> DEFINE tables == {Pml4, Pdpt, Pd} \cup (pool \ free)
             links == {l \in tables \X Index : mem[l[1]][l[2]] = To(f)}
  <2>1. PICK lev, un : Tree(mem, un, lev) /\ free \subseteq un /\ un \ free = Pool \ pool
    BY DEF Sound, Forest, Running
  <2>a. Pool \ un = pool \ free
    <3>1. pool \subseteq Pool /\ free \subseteq pool /\ un \subseteq Pool
      BY <2>1 DEF Sound, Pool, Tree
    <3> QED
      BY <3>1, <2>1
  <2>2. /\ Pool \subseteq Frames /\ Statics \subseteq Frames /\ f \in Frames /\ Pdpt \notin Pool
        /\ PtLow \notin Pool /\ PtLow \notin {Pml4, Pdpt, Pd} /\ pool \subseteq Pool
    BY Layout DEF Statics, Sound, Pool
  <2>3. /\ \A t \in Frames : lev[t] # 0 <=> t \in Statics \cup (pool \ free)
        /\ lev[PtLow] = 1 /\ lev \in [Frames -> 0 .. 4]
        /\ Linked(mem, lev) /\ Once(mem, lev) /\ Owned(mem, un, lev) /\ Leaves(mem, lev)
    BY <2>1, <2>a DEF Tree, Levels
  <2>4. \A l \in links : /\ l[1] \in Frames /\ l[2] \in Index /\ l = <<l[1], l[2]>>
                         /\ lev[l[1]] >= 2 /\ mem[l[1]][l[2]] = To(f)
    <3> SUFFICES ASSUME NEW l \in links
                 PROVE  /\ l[1] \in Frames /\ l[2] \in Index /\ l = <<l[1], l[2]>>
                        /\ lev[l[1]] >= 2 /\ mem[l[1]][l[2]] = To(f)
      OBVIOUS
    <3>1. /\ l[1] \in tables /\ l[2] \in Index /\ l = <<l[1], l[2]>>
          /\ mem[l[1]][l[2]] = To(f)
      OBVIOUS
    <3>2. l[1] \in Frames /\ l[1] # PtLow /\ lev[l[1]] # 0
      BY <3>1, <2>2, <2>3 DEF Statics
    <3>3. lev[l[1]] # 1
      BY <3>1, <3>2, <2>3, Fields DEF Leaves
    <3> QED
      BY <3>1, <3>2, <3>3, <2>3
  <2>5. CASE f \notin pool \ free
    <3>1. lev[f] = 0
      BY <2>2, <2>3, <2>5, Layout DEF Statics
    <3>2. links = {}
      <4> SUFFICES ASSUME NEW l \in links PROVE FALSE
        OBVIOUS
      <4>1. /\ l[1] \in Frames /\ l[2] \in Index /\ lev[l[1]] >= 2
            /\ mem[l[1]][l[2]] = To(f)
        BY <2>4
      <4>2. lev[f] = lev[l[1]] - 1
        BY <4>1, <2>3, Child, Fields
      <4> QED
        BY <4>1, <4>2, <3>1, <2>3
    <3> QED
      BY <3>2, <2>5, FS_EmptySet
  <2>6. CASE f \in pool \ free
    <3>1. PICK t \in Frames, k \in Index : lev[t] >= 2 /\ mem[t][k] = To(f)
      BY <2>a, <2>3, <2>6 DEF Owned
    <3>2. <<t, k>> \in links
      <4>1. t \in tables
        BY <3>1, <2>3 DEF Statics
      <4> QED
        BY <3>1, <4>1
    <3>3. \A l \in links : l = <<t, k>>
      BY <2>2, <2>3, <2>4, <3>1 DEF Once
    <3> HIDE DEF links
    <3>4. links = {<<t, k>>}
      BY <3>2, <3>3
    <3> QED
      BY <3>4, <2>6, FS_Singleton DEF links
  <2> QED
    BY <2>5, <2>6
<1> QED
  BY <1>1, AlwaysSound, PTL

\* Mapping a page gives it the frame asked for, unless no frame is left, or none
\* within the kernel's reach, and gives no other page anything.
THEOREM MapsExactly == Elsewhere /\ Outside => (Spec => MapExact)
<1> SUFFICES ASSUME Elsewhere, Outside PROVE Spec => MapExact
  OBVIOUS
<1> DEFINE Exact ==
      \A v \in Virts, f \in Targets :
        CallMapPage(v, f) =>
          /\ Done(v, f) \/ RefusedDry(v) \/ OutOfReach(v)
          /\ \A w \in (Virts \cup Identity) \ {v} : Translate(mem', w) = Translate(mem, w)
<1>1. Sound /\ [Next]_vars => [Exact]_vars
  <2>1. \A w \in Virts \cup Identity : w \in VPages
    <3>1. \A w \in Identity : w \in VPages
      <4> SUFFICES ASSUME NEW k \in 0 .. EarlyLarge - 1, NEW l \in Index
                   PROVE  <<0, 0, k, l>> \in VPages
        BY DEF Identity
      <4>1. k \in Index /\ 0 \in Index
        BY Layout DEF Index
      <4> QED
        BY <4>1 DEF VPages
    <3> QED
      BY <3>1, Callers DEF Remote
  <2>2. ASSUME Sound, NEW v \in Virts, NEW f \in Targets, CallMapPage(v, f)
        PROVE  /\ Done(v, f) \/ RefusedDry(v) \/ OutOfReach(v)
               /\ \A w \in (Virts \cup Identity) \ {v} : Translate(mem', w) = Translate(mem, w)
    BY <2>1, <2>2, MapStep
  <2> QED
    BY <2>2
<1>2. Spec => []Sound
  BY AlwaysSound
<1> QED
  BY <1>1, <1>2, PTL DEF Spec, MapExact

\* A display that init says it mapped is mapped whole, as long as a frame is
\* left.
THEOREM DisplayWhole == Elsewhere /\ Outside => (Spec => [](free # {} => DisplayMapped))
<1> SUFFICES ASSUME Elsewhere, Outside PROVE Spec => [](free # {} => DisplayMapped)
  OBVIOUS
<1>1. Sound => (free # {} => DisplayMapped)
  BY DEF Sound, Whole, Shown, DisplayMapped
<1> QED
  BY <1>1, AlwaysSound, PTL

\* The pages the processor can reach are those mapped, and get_physical answers
\* with their translations.
MappedPages == IF cr3 = "loader" THEN {} ELSE {v \in Virts : Translate(mem, v) # -1}
MapView == [v \in Asked |-> GetPhysical(mem, v)]
SeenView == [v \in Seen |-> Reached(v)]
StateView == IF faulted THEN "stopped" ELSE IF cr3 = "kernel" THEN "up" ELSE "down"
Views == /\ MapView = [v \in MappedPages |-> Translate(mem, v)]
         /\ SeenView = [v \in MappedPages |-> Reached(v)]

LEMMA ViewsRight == Elsewhere /\ Outside => (Sound => Views)
<1> SUFFICES ASSUME Elsewhere, Outside, Sound PROVE Views
  OBVIOUS
<1>1. CASE cr3 = "loader"
  BY <1>1 DEF Views, MapView, SeenView, Asked, Seen, MappedPages
<1>2. CASE cr3 # "loader"
  <2>1. PICK lev, un : Tree(mem, un, lev) /\ \A v \in Virts : Reachable(mem, v, Near)
    BY <1>2 DEF Sound, Forest
  <2>2. \A v \in Virts : /\ GetPhysical(mem, v) = IF Translate(mem, v) = -1 THEN 0 ELSE Translate(mem, v)
                         /\ Translate(mem, v) # 0
    BY <1>2, <2>1, Asking, Callers DEF Sound, NoneZero
  <2>3. Asked = MappedPages
    BY <1>2, <2>2 DEF Asked, MappedPages
  <2>4. Seen = MappedPages
    BY <1>2 DEF Seen, MappedPages, Sound, Cached, Reached
  <2>5. MapView = [v \in MappedPages |-> Translate(mem, v)]
    BY <1>2, <2>2, <2>3 DEF MapView, MappedPages
  <2>6. SeenView = [v \in MappedPages |-> Reached(v)]
    BY <2>4 DEF SeenView
  <2> QED
    BY <2>5, <2>6 DEF Views
<1> QED
  BY <1>1, <1>2

LEMMA ViewsNext == Elsewhere /\ Outside => (Sound' => Views')
<1> SUFFICES ASSUME Elsewhere, Outside PROVE Sound' => Views'
  OBVIOUS
<1>1. Sound => Views
  BY ViewsRight
<1> QED
  BY <1>1, PTL

\* Every step is a step of the address space, or leaves it alone.
LEMMA SpaceInit == Init => Space!Init
<1> SUFFICES ASSUME Init PROVE Space!Init
  OBVIOUS
<1>1. cr3 = "loader" /\ ~faulted /\ Asked = {} /\ Seen = {}
  BY DEF Init, Asked, Seen
<1> QED
  BY <1>1 DEF Space!Init, Space!Nothing

LEMMA SpaceSetUp ==
  ASSUME Elsewhere, Outside, Sound, Sound', Views, Views', NEW d \in Framebuffers, VmmInit(d)
  PROVE  Space!SetUp
<1>1. /\ cr3 = "loader" /\ cr3' = "kernel" /\ \A v \in Virts : Translate(mem', v) = -1
      /\ ~faulted /\ ~faulted'
  BY VmmInitSound DEF VmmInit, Sound
<1>2. MappedPages = {} /\ MappedPages' = {}
  BY <1>1 DEF MappedPages
<1>3. MapView' = MapView /\ SeenView' = SeenView
  BY <1>2 DEF Views
<1> QED
  BY <1>1, <1>3 DEF Space!SetUp, MapView, SeenView

LEMMA SpaceMap ==
  ASSUME Elsewhere, Outside, Sound, Sound', Views, Views',
         NEW v \in Virts, NEW f \in Targets, CallMapPage(v, f)
  PROVE  Space!Map(v, f) \/ Space!Stop \/ UNCHANGED <<StateView, MapView, SeenView>>
<1>1. /\ cr3 = "kernel" /\ cr3' = "kernel" /\ ~faulted /\ tlb' = tlb /\ f # -1
      /\ \A w \in Virts : w # v => Translate(mem', w) = Translate(mem, w)
  <2>1. f \in Nat /\ \A w \in Virts : w \in VPages
    BY Callers DEF Remote
  <2> QED
    BY <2>1, MapStep DEF Running
<1>2. CASE Translate(mem', v) = Translate(mem, v)
  <2>1. \A w \in Virts : Translate(mem', w) = Translate(mem, w)
    BY <1>1, <1>2
  <2>2. MappedPages' = MappedPages
    BY <2>1, <1>1 DEF MappedPages
  <2>3. \A w \in MappedPages : w \in Virts /\ Reached(w)' = Reached(w)
    BY <2>1, <1>1 DEF MappedPages, Reached
  <2>4. MapView' = MapView /\ SeenView' = SeenView
    BY <2>1, <2>2, <2>3 DEF Views
  <2>5. CASE faulted'
    BY <2>4, <2>5, <1>1 DEF Space!Stop, MapView, SeenView
  <2>6. CASE ~faulted'
    BY <2>4, <2>6, <1>1 DEF StateView
  <2> QED
    BY <2>5, <2>6
<1>3. CASE Done(v, f)
  <2>0. Translate(mem', v) = f /\ ~faulted'
    BY <1>3 DEF Done
  <2>1. MappedPages' = MappedPages \cup {v} /\ MappedPages \subseteq Virts
    BY <1>1, <2>0 DEF MappedPages
  <2>2. /\ DOMAIN MapView = MappedPages /\ DOMAIN SeenView = MappedPages
        /\ \A w \in MappedPages : MapView[w] = Translate(mem, w) /\ SeenView[w] = Reached(w)
    BY DEF Views
  <2>3. MapView' = Space!With(MapView, v, f)
    BY <2>1, <2>2, <1>1, <2>0 DEF Views, Space!With
  <2>4. CASE v \in DOMAIN tlb
    <3>1. v \in MappedPages
      BY <2>4, <1>1 DEF Sound, Cached, MappedPages
    <3>2. \A w \in MappedPages : Reached(w)' = Reached(w)
      BY <2>1, <2>4, <1>1 DEF Reached
    <3>3. MappedPages' = MappedPages
      BY <2>1, <3>1
    <3>4. SeenView' = SeenView
      BY <3>2, <3>3 DEF Views
    <3> QED
      BY <2>0, <2>2, <2>3, <3>1, <3>4, <1>1 DEF Space!Map, MapView, SeenView
  <2>5. CASE v \notin DOMAIN tlb
    <3>1. Reached(v)' = f /\ \A w \in MappedPages : w # v => Reached(w)' = Reached(w)
      BY <2>1, <2>5, <1>1, <2>0 DEF Reached
    <3>2. SeenView' = Space!With(SeenView, v, f)
      BY <2>1, <2>2, <3>1 DEF Views, Space!With
    <3> QED
      BY <2>0, <2>3, <3>2, <1>1 DEF Space!Map, MapView, SeenView
  <2> QED
    BY <2>4, <2>5
<1> QED
  BY <1>2, <1>3, MapStep DEF RefusedDry, OutOfReach

LEMMA SpaceUnmap ==
  ASSUME Elsewhere, Outside, Sound, Sound', Views, Views', NEW v \in Virts, CallUnmapPage(v)
  PROVE  Space!Unmap(v)
<1>1. /\ cr3 = "kernel" /\ cr3' = "kernel" /\ ~faulted /\ ~faulted'
      /\ tlb' = [w \in DOMAIN tlb \ {v} |-> tlb[w]]
      /\ Translate(mem', v) = -1
      /\ \A w \in Virts : w # v => Translate(mem', w) = Translate(mem, w)
  <2>1. \A w \in Virts : w \in VPages
    BY Callers DEF Remote
  <2> QED
    BY <2>1, UnmapStep DEF Running
<1>2. MappedPages' = MappedPages \ {v} /\ MappedPages \subseteq Virts
  BY <1>1 DEF MappedPages
<1>3. \A w \in MappedPages : w # v => Reached(w)' = Reached(w)
  BY <1>1, <1>2 DEF Reached
<1>4. /\ DOMAIN MapView = MappedPages /\ DOMAIN SeenView = MappedPages
      /\ \A w \in MappedPages : MapView[w] = Translate(mem, w) /\ SeenView[w] = Reached(w)
  BY DEF Views
<1>5. MapView' = Space!Without(MapView, v)
  BY <1>1, <1>2, <1>4 DEF Views, Space!Without
<1>6. SeenView' = Space!Without(SeenView, v)
  BY <1>2, <1>3, <1>4 DEF Views, Space!Without
<1> QED
  BY <1>1, <1>5, <1>6 DEF Space!Unmap, MapView, SeenView

LEMMA SpaceAccess ==
  ASSUME Sound, Views, Views', NEW v \in Virts, Access(v)
  PROVE  UNCHANGED <<StateView, MapView, SeenView>>
<1>1. /\ mem' = mem /\ cr3' = cr3 /\ faulted' = faulted /\ v \notin DOMAIN tlb
      /\ tlb' = [w \in DOMAIN tlb \cup {v} |-> IF w = v THEN Translate(mem, v) ELSE tlb[w]]
  BY DEF Access
<1>2. MappedPages' = MappedPages
  BY <1>1 DEF MappedPages
<1>3. \A w \in MappedPages : Reached(w)' = Reached(w)
  BY <1>1 DEF Reached
<1>4. MapView' = MapView /\ SeenView' = SeenView
  BY <1>1, <1>2, <1>3 DEF Views
<1> QED
  BY <1>1, <1>4 DEF StateView

LEMMA SpaceSettle ==
  ASSUME Sound, Views, Views', NEW v \in Virts, Evict(v)
  PROVE  Space!Settle(v)
<1>1. /\ mem' = mem /\ cr3' = cr3 /\ faulted' = faulted /\ v \in DOMAIN tlb
      /\ tlb' = [w \in DOMAIN tlb \ {v} |-> tlb[w]]
  BY DEF Evict
<1>2. MappedPages' = MappedPages /\ v \in MappedPages
  BY <1>1 DEF MappedPages, Sound, Cached
<1>3. Reached(v)' = Translate(mem, v) /\ \A w \in MappedPages : w # v => Reached(w)' = Reached(w)
  BY <1>1 DEF Reached
<1>4. /\ DOMAIN MapView = MappedPages /\ DOMAIN SeenView = MappedPages
      /\ \A w \in MappedPages : MapView[w] = Translate(mem, w) /\ SeenView[w] = Reached(w)
  BY DEF Views
<1>5. MapView' = MapView
  BY <1>1, <1>2 DEF Views
<1>6. SeenView' = Space!With(SeenView, v, MapView[v])
  BY <1>2, <1>3, <1>4 DEF Views, Space!With
<1> QED
  BY <1>1, <1>2, <1>4, <1>5, <1>6 DEF Space!Settle, MapView, SeenView

\* Vmm implements an address space: get_physical answers with the frame last
\* asked for, the processor reaches it or, while it is cached, the former one,
\* until the kernel runs into a page fault.
THEOREM IsAddressSpace == Elsewhere /\ Outside => (Spec => Implements)
<1> SUFFICES ASSUME Elsewhere, Outside PROVE Spec => Implements
  OBVIOUS
<1>1. Init => Space!Init
  BY SpaceInit
<1>2. Sound /\ Sound' /\ Views /\ Views' /\ [Next]_vars => [Space!Next]_(Space!vars)
  <2> SUFFICES ASSUME Sound, Sound', Views, Views', [Next]_vars
               PROVE  Space!Next \/ UNCHANGED <<StateView, MapView, SeenView>>
    BY DEF Space!vars, StateView, MapView, SeenView
  <2>1. CASE UNCHANGED vars
    <3>1. UNCHANGED <<mem, cr3, tlb, faulted>>
      BY <2>1 DEF vars
    <3> QED
      BY <3>1 DEF StateView, MapView, SeenView, Asked, Seen, Reached
  <2>2. ASSUME NEW d \in Framebuffers, VmmInit(d) PROVE Space!Next
    BY <2>2, SpaceSetUp DEF Space!Next
  <2>3. ASSUME NEW v \in Virts, NEW f \in Targets, CallMapPage(v, f)
        PROVE  Space!Next \/ UNCHANGED <<StateView, MapView, SeenView>>
    BY <2>3, SpaceMap DEF Space!Next
  <2>4. ASSUME NEW v \in Virts, CallUnmapPage(v) PROVE Space!Next
    BY <2>4, SpaceUnmap DEF Space!Next
  <2>5. ASSUME NEW v \in Virts, Access(v) PROVE UNCHANGED <<StateView, MapView, SeenView>>
    BY <2>5, SpaceAccess
  <2>6. ASSUME NEW v \in Virts, Evict(v) PROVE Space!Next
    BY <2>6, SpaceSettle DEF Space!Next
  <2> QED
    BY <2>1, <2>2, <2>3, <2>4, <2>5, <2>6 DEF Next
<1>3. Spec => []Sound
  BY AlwaysSound
<1>4. Sound => Views
  BY ViewsRight
<1> QED
  BY <1>1, <1>2, <1>3, <1>4, PTL DEF Spec, Implements, Space!Spec
=============================================================================
