---------------------------- MODULE MemoryProofs ----------------------------
(***************************************************************************)
(* Proofs about the memory of the firmware.  First lwIP's heap alone, for   *)
(* every size of the heap, of a header and of the least area; then the      *)
(* packet buffers in it, for every number and size of them, whatever the    *)
(* clients do; and at the end the block allocator of malloc.c, for pools of *)
(* every size, any owners and requests.                                     *)
(***************************************************************************)
EXTENDS PacketBuffers, BlockPool, FiniteSetTheorems, WellFoundedInduction, TLAPS

USE DEF Offsets, ram_end, Areas, SizeOf

\* What mem_malloc and mem_trim make of a size.
LEMMA AtLeastMinBound ==
    ASSUME NEW n \in Nat
    PROVE  AtLeastMin(n) \in Nat /\ AtLeastMin(n) >= n /\ AtLeastMin(n) >= MIN_SIZE
  BY HeapAssumption DEF AtLeastMin

\* mem_init leaves one free area.
LEMMA HeapStart == HeapInit => HeapInv
<1>. SUFFICES ASSUME HeapInit PROVE HeapInv
  OBVIOUS
<1>1. /\ heads = {0, MEM_SIZE} /\ lfree = 0
      /\ MEM_SIZE \in Nat /\ 0 < MEM_SIZE
      /\ 0 + SIZEOF_STRUCT_MEM + MIN_SIZE <= MEM_SIZE
  BY HeapAssumption DEF HeapInit
<1>2. /\ next \in [Offsets -> Offsets] /\ next[0] = MEM_SIZE
      /\ prev \in [Offsets -> Offsets] /\ prev[0] = 0
  <2>1. 0 \in Offsets /\ MEM_SIZE \in Offsets /\ 0 # MEM_SIZE
    BY <1>1
  <2>. QED
    BY <1>1, <2>1 DEF HeapInit
<1>a. used \in [Offsets -> BOOLEAN]
  BY <1>1 DEF HeapInit
<1>b. used[MEM_SIZE] /\ ~used[0]
  <2>1. 0 \in Offsets /\ MEM_SIZE \in Offsets /\ 0 # MEM_SIZE
    BY <1>1
  <2>. QED
    BY <2>1, Zenon DEF HeapInit
<1>3. Areas = {0}
  BY <1>1
<1>4. HeapTypeOK
  <2>1. heads \subseteq Offsets /\ {0, ram_end} \subseteq heads /\ lfree \in heads
    BY <1>1
  <2>2. \A o \in Offsets \ heads : ~used[o]
    BY <1>1 DEF HeapInit
  <2>. QED
    BY <2>1, <2>2, <1>2, <1>a DEF HeapTypeOK
<1>5. Linked
  <2>1. \A o \in heads : o <= 0 \/ MEM_SIZE <= o
    BY <1>1
  <2>2. MEM_SIZE \in heads
    BY <1>1
  <2>. QED
    BY <1>1, <1>2, <1>b, <1>3, <2>1, <2>2 DEF Linked
<1>6. NoAdjacentFree /\ LfreeLowest
  <2>1. Areas = {0} /\ next[0] = MEM_SIZE /\ lfree = 0
    BY <1>1, <1>2, <1>3
  <2>2. NoAdjacentFree
    BY <2>1, <1>b, Zenon DEF NoAdjacentFree
  <2>3. LfreeLowest
    BY <2>1, <1>b DEF LfreeLowest
  <2>. QED
    BY <2>2, <2>3
<1>. QED
  BY <1>4, <1>5, <1>6 DEF HeapInv

\* What the invariant says of one area.
LEMMA AreaFacts ==
    ASSUME HeapInv, NEW h \in Areas
    PROVE  /\ h \in Offsets /\ next[h] \in heads /\ next[h] \in Offsets
           /\ MEM_SIZE \in Nat /\ SIZEOF_STRUCT_MEM \in Nat /\ MIN_SIZE \in Nat
           /\ SIZEOF_STRUCT_MEM > 0 /\ MIN_SIZE > 0
           /\ h + SIZEOF_STRUCT_MEM + MIN_SIZE <= next[h]
           /\ h < next[h] /\ h < MEM_SIZE
           /\ \A o \in heads : o <= h \/ next[h] <= o
<1>1. heads \subseteq Offsets /\ next \in [Offsets -> Offsets]
  BY DEF HeapInv, HeapTypeOK
<1>2. /\ next[h] \in heads /\ h + SIZEOF_STRUCT_MEM + MIN_SIZE <= next[h]
      /\ \A o \in heads : o <= h \/ next[h] <= o
  BY DEF HeapInv, Linked
<1>. QED
  BY <1>1, <1>2, HeapAssumption

\* A new header m2 inside area h, with room on both sides.
LEMMA InsertLinks ==
    ASSUME HeapInv, NEW h \in Areas, NEW m2 \in Int,
           h + SIZEOF_STRUCT_MEM + MIN_SIZE <= m2,
           m2 + SIZEOF_STRUCT_MEM + MIN_SIZE <= next[h],
           Insert(h, m2),
           used' \in [Offsets -> BOOLEAN], used'[ram_end]
    PROVE  /\ heads' \subseteq Offsets /\ {0, ram_end} \subseteq heads'
           /\ next' \in [Offsets -> Offsets]
           /\ prev' \in [Offsets -> Offsets]
           /\ m2 \notin heads
           /\ Linked'
<1>1. /\ next[h] \in heads /\ next[h] \in Offsets /\ m2 \in Offsets /\ h \in Offsets
      /\ h < m2 /\ m2 < next[h] /\ 0 < m2
  BY AreaFacts
<1>2. m2 \notin heads
  BY <1>1, AreaFacts
<1>3. /\ heads' = heads \cup {m2}
      /\ next' = [next EXCEPT ![h] = m2, ![m2] = next[h]]
  BY DEF Insert
<1>4. /\ next'[h] = m2 /\ next'[m2] = next[h]
      /\ \A o \in heads \ {h} : next'[o] = next[o]
  BY <1>1, <1>2, <1>3 DEF HeapInv, HeapTypeOK
<1>5. /\ prev' \in [Offsets -> Offsets]
      /\ prev'[m2] = h
      /\ next[h] # ram_end => prev'[next[h]] = m2
      /\ \A o \in heads \ {next[h]} : prev'[o] = prev[o]
  BY <1>1, <1>2 DEF HeapInv, HeapTypeOK, Insert
<1>6. ASSUME NEW a \in Areas'
      PROVE  /\ next'[a] \in heads'
             /\ a + SIZEOF_STRUCT_MEM + MIN_SIZE <= next'[a]
             /\ \A o \in heads' : o <= a \/ next'[a] <= o
  <2>1. CASE a = h
    <3>1. /\ \A o \in heads : o <= h \/ next[h] <= o
          /\ heads \subseteq Offsets
      BY AreaFacts DEF HeapInv, HeapTypeOK
    <3>2. \A o \in heads' : o <= h \/ m2 <= o
      <4>. SUFFICES ASSUME NEW o \in heads' PROVE o <= h \/ m2 <= o
        OBVIOUS
      <4>1. CASE o = m2
        BY <4>1, <1>1
      <4>2. CASE o \in heads
        BY <4>2, <3>1, <1>1
      <4>. QED
        BY <4>1, <4>2, <1>3
    <3>3. next'[a] = m2 /\ m2 \in heads'
      BY <2>1, <1>3, <1>4
    <3>. QED
      BY <2>1, <3>2, <3>3
  <2>2. CASE a = m2
    <3>1. \A o \in heads : o <= h \/ next[h] <= o
      BY AreaFacts
    <3>. QED
      BY <2>2, <3>1, <1>1, <1>3, <1>4 DEF HeapInv, HeapTypeOK
  <2>3. CASE a # h /\ a # m2
    <3>1. a \in Areas /\ next'[a] = next[a]
      BY <2>3, <1>3, <1>4
    <3>2. m2 <= a \/ next[a] <= m2
      BY <3>1, <2>3, <1>1, AreaFacts
    <3>. QED
      BY <3>1, <3>2, <1>3, AreaFacts
  <2>. QED
    BY <2>1, <2>2, <2>3
<1>7. ASSUME NEW a \in Areas' \ {0}
      PROVE  prev'[a] \in Areas' /\ next'[prev'[a]] = a
  <2>1. CASE a = m2
    BY <2>1, <1>1, <1>3, <1>4, <1>5
  <2>2. CASE a = next[h]
    BY <2>2, <1>1, <1>3, <1>4, <1>5
  <2>3. CASE a # m2 /\ a # next[h]
    <3>1. a \in Areas \ {0} /\ prev'[a] = prev[a]
      BY <2>3, <1>3, <1>5
    <3>2. prev[a] \in Areas /\ next[prev[a]] = a
      BY <3>1 DEF HeapInv, Linked
    <3>. QED
      BY <3>1, <3>2, <2>3, <1>3, <1>4
  <2>. QED
    BY <2>1, <2>2, <2>3
<1>8. prev'[0] = 0
  BY <1>1, <1>2, <1>5, HeapAssumption DEF HeapInv, HeapTypeOK, Linked
<1>9. next' \in [Offsets -> Offsets] /\ heads' \subseteq Offsets /\ {0, ram_end} \subseteq heads'
  BY <1>1, <1>3 DEF HeapInv, HeapTypeOK
<1>. QED
  BY <1>2, <1>5, <1>6, <1>7, <1>8, <1>9 DEF Linked

\* No two areas end at the same place.
LEMMA OnePredecessor ==
    ASSUME HeapInv, NEW a \in Areas, NEW b \in Areas, next[a] = next[b]
    PROVE  a = b
<1>1. a \in heads /\ b \in heads
  OBVIOUS
<1>. QED
  BY <1>1, AreaFacts
-----------------------------------------------------------------------------
\* mem_malloc takes a free area; with the end split off, or whole.
LEMMA MallocKeeps ==
    ASSUME HeapInv, NEW n \in Nat, NEW h, MemMalloc(n, h)
    PROVE  HeapInv'
<1>. DEFINE size == AtLeastMin(n)
            m2 == h + SIZEOF_STRUCT_MEM + size
<1>1. size \in Nat /\ size >= MIN_SIZE
  BY AtLeastMinBound
<1>2. /\ h \in heads /\ lfree <= h /\ h < MEM_SIZE - size /\ ~used[h]
      /\ used' = [used EXCEPT ![h] = TRUE]
      /\ lfree' \in IF h = lfree THEN LowestFreeAfter(h) ELSE {lfree}
  BY DEF MemMalloc, LowestOf, Fits
<1>3. h \in Areas /\ h \in Offsets /\ MEM_SIZE \in Nat /\ lfree \in Offsets
  BY <1>1, <1>2, HeapAssumption DEF HeapInv, HeapTypeOK
<1>4. /\ used' \in [Offsets -> BOOLEAN] /\ used'[h] /\ used'[ram_end]
      /\ \A o \in Offsets : o # h => used'[o] = used[o]
  BY <1>2, <1>3 DEF HeapInv, HeapTypeOK, Linked
<1>5. used[next[h]] /\ next[h] # h /\ next[h] \in Offsets
  BY <1>2, <1>3, AreaFacts DEF HeapInv, NoAdjacentFree
<1>6. /\ heads \subseteq Offsets /\ heads \subseteq heads'
      /\ heads' \subseteq Offsets /\ {0, ram_end} \subseteq heads'
      /\ \A o \in Offsets \ heads' : ~used'[o]
      /\ next' \in [Offsets -> Offsets] /\ prev' \in [Offsets -> Offsets]
      /\ Linked' /\ NoAdjacentFree'
      /\ \A a \in Areas' : a \in Areas \/ h < a
  <2>1. CASE MustSplit(h, size) /\ Insert(h, m2)
    <3>1. m2 \in Int /\ h + SIZEOF_STRUCT_MEM + MIN_SIZE <= m2
          /\ m2 + SIZEOF_STRUCT_MEM + MIN_SIZE <= next[h] /\ h < m2
      BY <2>1, <1>1, <1>3, <1>5, HeapAssumption DEF MustSplit
    <3>2. /\ heads' \subseteq Offsets /\ {0, ram_end} \subseteq heads'
          /\ next' \in [Offsets -> Offsets] /\ prev' \in [Offsets -> Offsets]
          /\ m2 \notin heads /\ Linked'
      BY <2>1, <3>1, <1>3, <1>4, InsertLinks
    <3>3. heads' = heads \cup {m2} /\ next' = [next EXCEPT ![h] = m2, ![m2] = next[h]]
      BY <2>1 DEF Insert
    <3>4. /\ m2 \in Offsets /\ next'[m2] = next[h]
          /\ \A a \in Areas \ {h} : next'[a] = next[a]
      BY <3>1, <3>2, <3>3, <1>3 DEF HeapInv, HeapTypeOK
    <3>5. heads \subseteq Offsets /\ \A o \in Offsets \ heads' : ~used'[o]
      BY <3>3, <1>3, <1>4 DEF HeapInv, HeapTypeOK
    <3>6. NoAdjacentFree'
      <4>. SUFFICES ASSUME NEW a \in Areas' PROVE used'[a] \/ used'[next'[a]]
        BY DEF NoAdjacentFree
      <4>1. CASE a = h
        BY <4>1, <1>4
      <4>2. CASE a = m2
        BY <4>2, <3>4, <1>4, <1>5
      <4>3. CASE a # h /\ a # m2
        <5>1. a \in Areas /\ next'[a] = next[a]
          BY <4>3, <3>3, <3>4
        <5>2. (used[a] \/ used[next[a]]) /\ next[a] \in Offsets /\ a \in Offsets
          BY <5>1, AreaFacts DEF HeapInv, NoAdjacentFree
        <5>. QED
          BY <5>1, <5>2, <1>4
      <4>. QED
        BY <4>1, <4>2, <4>3
    <3>. QED
      BY <3>1, <3>2, <3>3, <3>5, <3>6
  <2>2. CASE UNCHANGED <<heads, next, prev>>
    <3>1. Linked'
      BY <2>2, <1>4 DEF HeapInv, Linked
    <3>2. NoAdjacentFree'
      <4>. SUFFICES ASSUME NEW a \in Areas PROVE used'[a] \/ used'[next[a]]
        BY <2>2 DEF NoAdjacentFree
      <4>1. (used[a] \/ used[next[a]]) /\ next[a] \in Offsets /\ a \in Offsets
        BY AreaFacts DEF HeapInv, NoAdjacentFree
      <4>. QED
        BY <4>1, <1>4
    <3>. QED
      BY <2>2, <3>1, <3>2, <1>3, <1>4 DEF HeapInv, HeapTypeOK
  <2>. QED
    BY <2>1, <2>2 DEF MemMalloc
<1>7. lfree' \in heads' /\ LfreeLowest'
  <2>1. CASE h = lfree
    <3>1. lfree' \in LowestFreeAfter(h)
      BY <2>1, <1>2
    <3>2. /\ lfree' \in heads' /\ (~used'[lfree'] \/ lfree' = ram_end)
          /\ \A c \in heads' : h <= c /\ ~used'[c] => lfree' <= c
      BY <3>1, Zenon DEF LowestFreeAfter, LowestOf
    <3>3. \A a \in Areas' : ~used'[a] => h <= a
      <4>. SUFFICES ASSUME NEW a \in Areas', ~used'[a] PROVE h <= a
        OBVIOUS
      <4>1. CASE a \in Areas
        <5>1. ~used[a] /\ a \in Offsets
          BY <4>1, <1>2, <1>3, <1>4, AreaFacts
        <5>. QED
          BY <4>1, <5>1, <2>1 DEF HeapInv, LfreeLowest
      <4>2. CASE h < a
        BY <4>2, <1>3, <1>6
      <4>. QED
        BY <4>1, <4>2, <1>6
    <3>. QED
      BY <3>2, <3>3 DEF LfreeLowest
  <2>2. CASE h # lfree
    <3>1. lfree' = lfree /\ lfree # ram_end
      BY <2>2, <1>1, <1>2, <1>3
    <3>2. ~used[lfree] /\ ~used'[lfree] /\ lfree \in heads'
      BY <2>2, <3>1, <1>3, <1>4, <1>6 DEF HeapInv, HeapTypeOK, LfreeLowest
    <3>3. \A a \in Areas' : ~used'[a] => lfree <= a
      <4>. SUFFICES ASSUME NEW a \in Areas', ~used'[a] PROVE lfree <= a
        OBVIOUS
      <4>1. CASE a \in Areas
        <5>1. ~used[a] /\ a \in Offsets
          BY <4>1, <1>2, <1>3, <1>4, AreaFacts
        <5>. QED
          BY <4>1, <5>1 DEF HeapInv, LfreeLowest
      <4>2. CASE h < a
        BY <4>2, <1>2, <1>3, <1>6
      <4>. QED
        BY <4>1, <4>2, <1>6
    <3>. QED
      BY <3>1, <3>2, <3>3 DEF LfreeLowest
  <2>. QED
    BY <2>1, <2>2
<1>. QED
  BY <1>4, <1>6, <1>7 DEF HeapInv, HeapTypeOK
-----------------------------------------------------------------------------
\* mem_trim makes the end of a used area free: joined to the free area behind it,
\* or as an area of its own.
LEMMA MoveDownKeeps ==
    ASSUME HeapInv, NEW h \in Areas, used[h], NEW m2 \in Int,
           h + SIZEOF_STRUCT_MEM + MIN_SIZE <= m2, m2 < next[h],
           ~used[next[h]], MoveDown(h, m2), UNCHANGED used
    PROVE  HeapInv'
<1>. DEFINE old == next[h]
<1>1. /\ old \in Areas /\ old \in Offsets /\ h \in Offsets /\ m2 \in Offsets
      /\ h < m2 /\ m2 < old /\ MEM_SIZE \in Nat /\ lfree \in Offsets /\ heads \subseteq Offsets
  <2>1. old \in heads /\ used[ram_end] /\ old # ram_end
    BY AreaFacts DEF HeapInv, Linked
  <2>2. /\ old \in Offsets /\ h \in Offsets /\ MEM_SIZE \in Nat /\ h < m2
    BY AreaFacts
  <2>3. lfree \in Offsets /\ heads \subseteq Offsets
    BY DEF HeapInv, HeapTypeOK
  <2>. QED
    BY <2>1, <2>2, <2>3
<1>2. /\ next[old] \in heads /\ next[old] \in Offsets /\ old < next[old]
      /\ old + SIZEOF_STRUCT_MEM + MIN_SIZE <= next[old]
      /\ \A o \in heads : o <= old \/ next[old] <= o
      /\ \A o \in heads : o <= h \/ old <= o
      /\ m2 \notin heads
  BY <1>1, AreaFacts
<1>3. /\ heads' = (heads \ {old}) \cup {m2}
      /\ lfree' = IF lfree = old THEN m2 ELSE lfree
  BY DEF MoveDown
<1>4. /\ next' \in [Offsets -> Offsets] /\ next'[m2] = next[old] /\ next'[h] = m2
      /\ \A o \in Offsets : o # m2 /\ o # h /\ o # old => next'[o] = next[o]
  BY <1>1, <1>2 DEF MoveDown, HeapInv, HeapTypeOK
<1>5. /\ prev' \in [Offsets -> Offsets] /\ prev'[m2] = h
      /\ next[old] # ram_end => prev'[next[old]] = m2
      /\ \A o \in Offsets : o # m2 /\ o # old /\ o # next[old] => prev'[o] = prev[o]
  <2>1. 0 \in Offsets /\ prev \in [Offsets -> Offsets]
    BY <1>1 DEF HeapInv, HeapTypeOK
  <2>2. prev' = [o \in Offsets |-> IF o = m2 THEN h
                                  ELSE IF o = old THEN 0
                                  ELSE IF o = next[old] /\ o # ram_end THEN m2
                                  ELSE prev[o]]
    BY DEF MoveDown
  <2>3. prev' \in [Offsets -> Offsets]
    BY <2>1, <2>2, <1>1
  <2>4. next[old] # m2 /\ next[old] # old
    BY <1>1, <1>2
  <2>. QED
    BY <2>2, <2>3, <2>4, <1>1, <1>2
<1>6. ASSUME NEW a \in Areas'
      PROVE  /\ next'[a] \in heads'
             /\ a + SIZEOF_STRUCT_MEM + MIN_SIZE <= next'[a]
             /\ \A o \in heads' : o <= a \/ next'[a] <= o
  <2>1. CASE a = h
    <3>1. next'[a] = m2 /\ m2 \in heads'
      BY <2>1, <1>3, <1>4
    <3>2. \A o \in heads' : o <= a \/ m2 <= o
      BY <2>1, <1>1, <1>2, <1>3
    <3>. QED
      BY <2>1, <3>1, <3>2
  <2>2. CASE a = m2
    <3>1. next'[a] = next[old] /\ next[old] \in heads'
      BY <2>2, <1>1, <1>2, <1>3, <1>4
    <3>2. a + SIZEOF_STRUCT_MEM + MIN_SIZE <= next'[a]
      BY <2>2, <3>1, <1>1, <1>2, HeapAssumption
    <3>3. \A o \in heads' : o <= a \/ next'[a] <= o
      <4>. SUFFICES ASSUME NEW o \in heads' PROVE o <= a \/ next[old] <= o
        BY <3>1
      <4>1. CASE o = m2
        BY <4>1, <2>2, <1>1
      <4>2. CASE o \in heads /\ o # old
        BY <4>2, <2>2, <1>1, <1>2
      <4>. QED
        BY <4>1, <4>2, <1>3
    <3>. QED
      BY <3>1, <3>2, <3>3
  <2>3. CASE a # h /\ a # m2
    <3>1. a \in Areas /\ a # old /\ next'[a] = next[a]
      BY <2>3, <1>1, <1>3, <1>4
    <3>2. next[a] # old
      BY <3>1, <2>3, OnePredecessor
    <3>3. m2 <= a \/ next[a] <= m2
      <4>1. a <= h \/ old <= a
        BY <3>1, <1>2
      <4>2. h <= a \/ next[a] <= h
        BY <3>1, AreaFacts
      <4>. QED
        BY <4>1, <4>2, <3>1, <2>3, <1>1, AreaFacts
    <3>. QED
      BY <3>1, <3>2, <3>3, <1>3, AreaFacts
  <2>. QED
    BY <2>1, <2>2, <2>3
<1>7. ASSUME NEW a \in Areas' \ {0}
      PROVE  prev'[a] \in Areas' /\ next'[prev'[a]] = a
  <2>1. CASE a = m2
    BY <2>1, <1>1, <1>3, <1>4, <1>5
  <2>2. CASE a = next[old]
    <3>1. a # ram_end /\ m2 # ram_end /\ m2 \in heads'
      BY <1>1, <1>3
    <3>. QED
      BY <2>2, <3>1, <1>4, <1>5
  <2>3. CASE a # m2 /\ a # next[old]
    <3>1. a \in Areas \ {0} /\ a # old /\ a \in Offsets /\ prev'[a] = prev[a]
      BY <2>3, <1>1, <1>3, <1>5
    <3>2. prev[a] \in Areas /\ next[prev[a]] = a
      BY <3>1 DEF HeapInv, Linked
    <3>3. prev[a] # h /\ prev[a] # old /\ prev[a] # m2 /\ prev[a] \in Offsets
      BY <3>1, <3>2, <2>3, <1>1, <1>2
    <3>. QED
      BY <3>1, <3>2, <3>3, <1>3, <1>4
  <2>. QED
    BY <2>1, <2>2, <2>3
<1>8. prev'[0] = 0 /\ 0 \in heads' /\ ram_end \in heads'
  <2>1. 0 \in Offsets /\ 0 # m2 /\ 0 # old /\ 0 # next[old]
    BY <1>1, <1>2
  <2>2. prev[0] = 0 /\ 0 \in heads /\ ram_end \in heads /\ ram_end # old
    BY <1>1 DEF HeapInv, HeapTypeOK, Linked
  <2>. QED
    BY <2>1, <2>2, <1>3, <1>5
<1>9. HeapTypeOK' /\ Linked'
  <2>1. \A o \in Offsets \ heads' : ~used'[o]
    BY <1>1, <1>3 DEF HeapInv, HeapTypeOK
  <2>2. lfree' \in heads'
    BY <1>1, <1>3 DEF HeapInv, HeapTypeOK
  <2>3. heads' \subseteq Offsets
    BY <1>1, <1>3
  <2>4. used' \in [Offsets -> BOOLEAN] /\ used'[ram_end]
    BY DEF HeapInv, HeapTypeOK, Linked
  <2>. QED
    BY <2>1, <2>2, <2>3, <2>4, <1>4, <1>5, <1>6, <1>7, <1>8 DEF HeapTypeOK, Linked
<1>10. NoAdjacentFree'
  <2>. SUFFICES ASSUME NEW a \in Areas' PROVE used[a] \/ used[next'[a]]
    BY DEF NoAdjacentFree
  <2>1. CASE a = h
    BY <2>1
  <2>2. CASE a = m2
    BY <2>2, <1>1, <1>4 DEF HeapInv, NoAdjacentFree
  <2>3. CASE a # h /\ a # m2
    <3>1. a \in Areas /\ next'[a] = next[a]
      BY <2>3, <1>1, <1>3, <1>4
    <3>. QED
      BY <3>1 DEF HeapInv, NoAdjacentFree
  <2>. QED
    BY <2>1, <2>2, <2>3
<1>11. LfreeLowest'
  <2>1. ~used[m2]
    BY <1>1, <1>2 DEF HeapInv, HeapTypeOK
  <2>2. lfree' # ram_end => ~used[lfree']
    BY <2>1, <1>1, <1>3 DEF HeapInv, LfreeLowest
  <2>3. \A a \in Areas' : ~used[a] => lfree' <= a
    <3>. SUFFICES ASSUME NEW a \in Areas', ~used[a] PROVE lfree' <= a
      OBVIOUS
    <3>0. lfree <= old
      BY <1>1 DEF HeapInv, LfreeLowest
    <3>1. CASE a = m2
      <4>1. lfree # old => lfree <= h
        BY <3>0, <1>1, <1>2 DEF HeapInv, HeapTypeOK
      <4>. QED
        BY <4>1, <3>1, <1>1, <1>3
    <3>2. CASE a # m2
      <4>1. a \in Areas /\ a \in Offsets /\ lfree <= a
        BY <3>2, <1>1, <1>3 DEF HeapInv, LfreeLowest
      <4>. QED
        BY <4>1, <1>1, <1>3
    <3>. QED
      BY <3>1, <3>2
  <2>. QED
    BY <2>2, <2>3 DEF LfreeLowest
<1>. QED
  BY <1>9, <1>10, <1>11 DEF HeapInv

\* mem_trim, in each of its three ways.
LEMMA TrimKeeps ==
    ASSUME HeapInv, NEW h \in Areas, used[h], NEW n \in Nat, MemTrim(h, n)
    PROVE  HeapInv'
<1>. DEFINE newsize == AtLeastMin(n)
            m2 == h + SIZEOF_STRUCT_MEM + newsize
<1>1. newsize \in Nat /\ newsize >= MIN_SIZE
  BY AtLeastMinBound
<1>2. h \in Offsets /\ next[h] \in Offsets /\ MEM_SIZE \in Nat /\ m2 \in Int
  BY <1>1, AreaFacts
<1>3. CASE newsize < SizeOf(h) /\ ~used[next[h]] /\ MoveDown(h, m2) /\ UNCHANGED used
  BY <1>1, <1>2, <1>3, AreaFacts, MoveDownKeeps
<1>4. CASE /\ used[next[h]] /\ newsize + SIZEOF_STRUCT_MEM + MIN_SIZE <= SizeOf(h)
           /\ Insert(h, m2) /\ lfree' = (IF m2 < lfree THEN m2 ELSE lfree) /\ UNCHANGED used
  <2>1. /\ h + SIZEOF_STRUCT_MEM + MIN_SIZE <= m2
        /\ m2 + SIZEOF_STRUCT_MEM + MIN_SIZE <= next[h] /\ h < m2 /\ m2 # ram_end
    BY <1>1, <1>2, <1>4, AreaFacts
  <2>2. used' \in [Offsets -> BOOLEAN] /\ used'[ram_end] /\ used' = used
    BY <1>4 DEF HeapInv, HeapTypeOK, Linked
  <2>3. /\ heads' \subseteq Offsets /\ {0, ram_end} \subseteq heads'
        /\ next' \in [Offsets -> Offsets] /\ prev' \in [Offsets -> Offsets]
        /\ m2 \notin heads /\ Linked'
    BY <2>1, <2>2, <1>2, <1>4, InsertLinks
  <2>4. heads' = heads \cup {m2} /\ next' = [next EXCEPT ![h] = m2, ![m2] = next[h]]
    BY <1>4 DEF Insert
  <2>5. /\ m2 \in Offsets /\ next'[m2] = next[h] /\ ~used[m2]
        /\ \A a \in Areas \ {h} : next'[a] = next[a]
    BY <2>1, <2>3, <2>4, <1>2 DEF HeapInv, HeapTypeOK
  <2>6. HeapTypeOK'
    BY <2>2, <2>3, <2>4, <1>4 DEF HeapInv, HeapTypeOK
  <2>7. NoAdjacentFree'
    BY <2>2, <2>4, <2>5, <1>4 DEF HeapInv, NoAdjacentFree
  <2>8. LfreeLowest'
    <3>1. lfree \in Offsets /\ lfree' # ram_end => ~used[lfree']
      BY <2>5, <1>4 DEF HeapInv, HeapTypeOK, LfreeLowest
    <3>2. \A a \in Areas' : ~used[a] => lfree' <= a
      <4>. SUFFICES ASSUME NEW a \in Areas', ~used[a] PROVE lfree' <= a
        OBVIOUS
      <4>1. CASE a = m2
        BY <4>1, <2>5, <1>4 DEF HeapInv, HeapTypeOK
      <4>2. CASE a # m2
        <5>1. lfree <= a /\ a \in Offsets /\ lfree \in Offsets
          BY <4>2, <2>4 DEF HeapInv, HeapTypeOK, LfreeLowest
        <5>. QED
          BY <5>1, <2>5, <1>4
      <4>. QED
        BY <4>1, <4>2
    <3>. QED
      BY <3>1, <3>2, <2>2 DEF HeapInv, HeapTypeOK, LfreeLowest
  <2>. QED
    BY <2>3, <2>6, <2>7, <2>8 DEF HeapInv
<1>5. CASE UNCHANGED heapVars
  BY <1>5 DEF heapVars, HeapInv, HeapTypeOK, Linked, NoAdjacentFree, LfreeLowest
<1>. QED
  BY <1>3, <1>4, <1>5 DEF MemTrim
-----------------------------------------------------------------------------
\* mem_free: what is left of a freed area and its free neighbours is one area, from
\* `first` to `after`; the headers between are gone.
LEMMA FreeKeeps ==
    ASSUME HeapInv, NEW h \in Areas, used[h], MemFree(h)
    PROVE  HeapInv'
<1>. DEFINE F == Forward(h)
            B == Backward(h)
            after == IF F THEN next[next[h]] ELSE next[h]
            first == IF B THEN prev[h] ELSE h
            gone  == (IF F THEN {next[h]} ELSE {}) \cup (IF B THEN {h} ELSE {})
<1>1. /\ heads' = heads \ gone
      /\ used' = [used EXCEPT ![h] = FALSE]
      /\ next' = [o \in Offsets |-> IF o \in gone THEN 0 ELSE IF o = first THEN after ELSE next[o]]
      /\ prev' = [o \in Offsets |-> IF o \in gone THEN 0
                                    ELSE IF o = after /\ gone # {} THEN first ELSE prev[o]]
      /\ lfree' = LfreeFreed(h)
  BY DEF MemFree
<1>2. /\ h \in Offsets /\ h < next[h] /\ next[h] \in heads /\ next[h] \in Offsets
      /\ h # ram_end
      /\ h + SIZEOF_STRUCT_MEM + MIN_SIZE <= next[h]
      /\ MEM_SIZE \in Nat /\ heads \subseteq Offsets /\ lfree \in Offsets
      /\ \A o \in heads : o <= h \/ next[h] <= o
  BY AreaFacts DEF HeapInv, HeapTypeOK
<1>3. ASSUME F
      PROVE  /\ next[h] \in Areas /\ ~used[next[h]] /\ next[next[h]] \in heads
             /\ next[next[h]] \in Offsets /\ next[h] < next[next[h]]
             /\ next[h] + SIZEOF_STRUCT_MEM + MIN_SIZE <= next[next[h]]
             /\ used[next[next[h]]]
             /\ \A o \in heads : o <= next[h] \/ next[next[h]] <= o
  <2>1. next[h] \in Areas /\ ~used[next[h]]
    BY <1>2, <1>3 DEF Forward
  <2>. QED
    BY <2>1, AreaFacts DEF HeapInv, NoAdjacentFree
<1>4. ASSUME B
      PROVE  /\ prev[h] \in Areas /\ ~used[prev[h]] /\ next[prev[h]] = h /\ prev[h] < h
             /\ prev[h] \in Offsets
             /\ prev[h] + SIZEOF_STRUCT_MEM + MIN_SIZE <= h
             /\ \A o \in heads : o <= prev[h] \/ h <= o
             /\ h # 0
  <2>1. h # 0 /\ ~used[prev[h]]
    BY <1>4 DEF Backward, HeapInv, Linked
  <2>2. prev[h] \in Areas /\ next[prev[h]] = h
    BY <2>1 DEF HeapInv, Linked
  <2>. QED
    BY <2>1, <2>2, AreaFacts
<1>5. /\ after \in heads /\ after \in Offsets /\ first \in Areas /\ first \in Offsets
      /\ first <= h /\ h < after
      /\ first + SIZEOF_STRUCT_MEM + MIN_SIZE <= after
      /\ first \notin gone /\ after \notin gone /\ gone \subseteq Areas /\ 0 \notin gone
      /\ used[after]
  <2>1. /\ after \in heads /\ after \in Offsets /\ first \in Areas /\ first \in Offsets
        /\ first <= h /\ h < after
    BY <1>2, <1>3, <1>4
  <2>2. first + SIZEOF_STRUCT_MEM + MIN_SIZE <= after
    <3>1. h + SIZEOF_STRUCT_MEM + MIN_SIZE <= after
      BY <1>2, <1>3, HeapAssumption
    <3>. QED
      BY <3>1, <2>1, <1>2, HeapAssumption
  <2>3. gone \subseteq Areas /\ 0 \notin gone
    BY <1>2, <1>3, <1>4
  <2>4. first \notin gone
    BY <1>2, <1>3, <1>4
  <2>5. after \notin gone
    BY <1>2, <1>3, <1>4
  <2>6. used[after]
    <3>1. CASE F
      BY <3>1, <1>3
    <3>2. CASE ~F
      BY <3>2, <1>2 DEF Forward, HeapInv, Linked
    <3>. QED
      BY <3>1, <3>2
  <2>. QED
    BY <2>1, <2>2, <2>3, <2>4, <2>5, <2>6
<1>6. \A o \in heads' : o <= first \/ after <= o
  <2>. SUFFICES ASSUME NEW o \in heads' PROVE o <= first \/ after <= o
    OBVIOUS
  <2>1. o \in heads /\ o \notin gone /\ o \in Offsets
    BY <1>1, <1>2
  <2>2. o <= h \/ next[h] <= o
    BY <2>1, <1>2
  <2>3. F => o <= h \/ next[next[h]] <= o
    BY <2>1, <2>2, <1>2, <1>3
  <2>4. B => o <= prev[h] \/ h < o
    BY <2>1, <1>2, <1>4
  <2>. QED
    BY <2>1, <2>2, <2>3, <2>4, <1>2, <1>4
<1>7. /\ next' \in [Offsets -> Offsets] /\ next'[first] = after
      /\ \A o \in Offsets : o \notin gone /\ o # first => next'[o] = next[o]
  <2>1. 0 \in Offsets /\ next \in [Offsets -> Offsets]
    BY <1>2 DEF HeapInv, HeapTypeOK
  <2>. HIDE DEF after, first, gone
  <2>. QED
    BY <2>1, <1>1, <1>5
<1>8. /\ prev' \in [Offsets -> Offsets]
      /\ gone # {} => prev'[after] = first
      /\ \A o \in Offsets : o \notin gone /\ (o # after \/ gone = {}) => prev'[o] = prev[o]
  <2>1. 0 \in Offsets /\ prev \in [Offsets -> Offsets]
    BY <1>2 DEF HeapInv, HeapTypeOK
  <2>. HIDE DEF after, first, gone
  <2>. QED
    BY <2>1, <1>1, <1>5
<1>9. /\ used' \in [Offsets -> BOOLEAN] /\ ~used'[h]
      /\ \A o \in Offsets : o # h => used'[o] = used[o]
  BY <1>1, <1>2 DEF HeapInv, HeapTypeOK
<1>10. ASSUME NEW a \in Areas', a # first
       PROVE  /\ a \in Areas /\ a \in Offsets /\ next'[a] = next[a] /\ a # h
              /\ next[a] \notin gone
  <2>1. a \in Areas /\ a \in Offsets /\ a \notin gone /\ next'[a] = next[a]
    BY <1>1, <1>2, <1>7, <1>10
  <2>2. a # h
    BY <2>1, <1>10
  <2>3. F => next[a] # next[h]
    BY <2>1, <2>2, OnePredecessor
  <2>4. B => next[a] # h
    <3>. SUFFICES ASSUME B PROVE next[a] # next[prev[h]]
      BY <1>4
    <3>1. a # prev[h]
      BY <1>10
    <3>. QED
      BY <2>1, <3>1, <1>4, OnePredecessor
  <2>. QED
    BY <2>1, <2>2, <2>3, <2>4
<1>11. ASSUME NEW a \in Areas'
       PROVE  /\ next'[a] \in heads'
              /\ a + SIZEOF_STRUCT_MEM + MIN_SIZE <= next'[a]
              /\ \A o \in heads' : o <= a \/ next'[a] <= o
  <2>. HIDE DEF after, first, gone
  <2>1. CASE a = first
    BY <2>1, <1>1, <1>5, <1>6, <1>7
  <2>2. CASE a # first
    <3>1. a \in Areas /\ next'[a] = next[a] /\ next[a] \notin gone
      BY <2>2, <1>10
    <3>. QED
      BY <3>1, <1>1, AreaFacts
  <2>. QED
    BY <2>1, <2>2
<1>12. ASSUME NEW a \in Areas' \ {0}
       PROVE  prev'[a] \in Areas' /\ next'[prev'[a]] = a
  <2>1. a \in Areas \ {0} /\ a \in Offsets /\ a \notin gone
    BY <1>1, <1>2
  <2>2. prev[a] \in Areas /\ prev[a] \in Offsets /\ next[prev[a]] = a
    BY <2>1, <1>2 DEF HeapInv, Linked
  <2>3. CASE gone # {} /\ a = after
    <3>. HIDE DEF after, first, gone
    <3>. QED
      BY <2>3, <1>1, <1>5, <1>7, <1>8
  <2>4. CASE gone = {}
    <3>1. first = h /\ after = next[h]
      BY <2>4
    <3>. HIDE DEF after, first, gone
    <3>2. prev'[a] = prev[a] /\ prev[a] \in Areas'
      BY <2>1, <2>2, <2>4, <1>1, <1>8
    <3>. QED
      BY <3>1, <3>2, <2>2, <2>4, <1>7
  <2>5. CASE gone # {} /\ a # after
    <3>1. prev[a] # h
      BY <2>1, <2>2, <2>5, <1>2
    <3>2. F => prev[a] # next[h]
      BY <2>2, <2>5
    <3>3. prev[a] # first
      BY <2>1, <2>2, <2>5, <3>1, <1>4
    <3>4. prev[a] \notin gone
      BY <3>1, <3>2
    <3>. HIDE DEF after, first, gone
    <3>. QED
      BY <2>1, <2>2, <2>5, <3>3, <3>4, <1>1, <1>7, <1>8
  <2>. QED
    BY <2>3, <2>4, <2>5
<1>13. prev'[0] = 0 /\ 0 \in heads' /\ ram_end \in heads'
  <2>1. /\ 0 \in Offsets /\ 0 \in heads /\ ram_end \in heads
        /\ prev[0] = 0 /\ ram_end \notin gone
    BY <1>2, <1>5 DEF HeapInv, HeapTypeOK, Linked
  <2>. HIDE DEF after, first, gone
  <2>. QED
    BY <2>1, <1>1, <1>2, <1>5, <1>8
<1>14. /\ LfreeLowest' /\ lfree' \in heads'
  <2>1. lfree < h \/ h < lfree
    BY <1>2 DEF HeapInv, LfreeLowest
  <2>2. B => lfree <= prev[h]
    BY <1>4 DEF HeapInv, LfreeLowest
  <2>3. lfree' = IF h < lfree THEN h ELSE lfree
    BY <2>1, <2>2, <1>1, <1>2, <1>4 DEF LfreeFreed
  <2>4. CASE h < lfree
    <3>1. ~B
      BY <2>2, <2>4, <1>2, <1>4
    <3>2. h \in heads'
      BY <3>1, <1>1, <1>2
    <3>3. \A a \in Areas' : ~used'[a] => h <= a
      <4>. SUFFICES ASSUME NEW a \in Areas', ~used'[a], a # h PROVE h <= a
        BY <1>2
      <4>1. a \in Areas /\ a \in Offsets /\ ~used[a]
        BY <1>1, <1>2, <1>9
      <4>. QED
        BY <4>1, <2>4, <1>2 DEF HeapInv, LfreeLowest
    <3>. QED
      BY <3>2, <3>3, <2>3, <2>4, <1>9 DEF LfreeLowest
  <2>5. CASE lfree < h
    <3>1. lfree \in heads /\ ~used[lfree]
      BY <2>5, <1>2 DEF HeapInv, HeapTypeOK, LfreeLowest
    <3>2. lfree \in heads'
      BY <3>1, <2>5, <1>1, <1>2
    <3>3. \A a \in Areas' : ~used'[a] => lfree <= a
      <4>. SUFFICES ASSUME NEW a \in Areas', ~used'[a] PROVE lfree <= a
        OBVIOUS
      <4>1. CASE a = h
        BY <4>1, <2>5, <1>2
      <4>2. CASE a # h
        <5>1. a \in Areas /\ a \in Offsets /\ ~used[a]
          BY <4>2, <1>1, <1>2, <1>9
        <5>. QED
          BY <5>1 DEF HeapInv, LfreeLowest
      <4>. QED
        BY <4>1, <4>2
    <3>4. lfree' = lfree /\ ~used'[lfree]
      BY <2>3, <2>5, <3>1, <1>2, <1>9
    <3>. QED
      BY <3>2, <3>3, <3>4 DEF LfreeLowest
  <2>. QED
    BY <2>1, <2>4, <2>5
<1>15. NoAdjacentFree'
  <2>. SUFFICES ASSUME NEW a \in Areas' PROVE used'[a] \/ used'[next'[a]]
    BY DEF NoAdjacentFree
  <2>1. CASE a = first
    <3>. HIDE DEF after, first, gone
    <3>. QED
      BY <2>1, <1>2, <1>5, <1>7, <1>9
  <2>2. CASE a # first
    <3>1. a \in Areas /\ a \in Offsets /\ next'[a] = next[a] /\ a # h /\ next[a] \notin gone
      BY <2>2, <1>10
    <3>2. used[a] \/ used[next[a]]
      BY <3>1 DEF HeapInv, NoAdjacentFree
    <3>3. CASE used[a]
      BY <3>1, <3>3, <1>9
    <3>4. CASE ~used[a] /\ next[a] = h
      <4>1. h # 0 /\ h \in Areas
        BY <3>1, <3>4, AreaFacts
      <4>2. prev[h] \in Areas /\ next[prev[h]] = h
        BY <4>1 DEF HeapInv, Linked
      <4>3. prev[h] = a
        BY <3>1, <3>4, <4>2, OnePredecessor
      <4>4. B
        BY <3>1, <3>4, <4>3 DEF Backward
      <4>. QED
        BY <3>1, <3>4, <4>4
    <3>5. CASE used[next[a]] /\ next[a] # h
      BY <3>1, <3>5, <1>9, AreaFacts
    <3>. QED
      BY <3>2, <3>3, <3>4, <3>5
  <2>. QED
    BY <2>1, <2>2
<1>16. HeapTypeOK'
  <2>1. \A o \in Offsets \ heads' : ~used'[o]
    <3>. SUFFICES ASSUME NEW o \in Offsets, o \notin heads', o # h PROVE ~used[o]
      BY <1>9
    <3>1. CASE o \notin heads
      BY <3>1 DEF HeapInv, HeapTypeOK
    <3>2. CASE o \in gone
      BY <3>2, <1>3
    <3>. QED
      BY <3>1, <3>2, <1>1
  <2>2. heads' \subseteq Offsets
    BY <1>1, <1>2
  <2>. QED
    BY <2>1, <2>2, <1>7, <1>8, <1>9, <1>13, <1>14 DEF HeapTypeOK
<1>17. used'[ram_end]
  BY <1>2, <1>9 DEF HeapInv, Linked
<1>18. Linked'
  BY <1>11, <1>12, <1>13, <1>17 DEF Linked
<1>. QED
  BY <1>14, <1>15, <1>16, <1>18 DEF HeapInv
-----------------------------------------------------------------------------
\* Whatever callers allocate, trim and free, and in which order: the areas tile the
\* heap, are linked both ways, no two neighbours are free and nothing free lies
\* below lfree (mem_malloc, mem_trim, mem_free, plug_holes).
THEOREM HeapSound == HeapSpec => []HeapInv
<1>1. HeapInv /\ [HeapNext]_heapVars => HeapInv'
  <2>. SUFFICES ASSUME HeapInv, [HeapNext]_heapVars PROVE HeapInv'
    OBVIOUS
  <2>1. ASSUME NEW n \in 1 .. MEM_SIZE, NEW h \in Offsets, MemMalloc(n, h) PROVE HeapInv'
    <3>1. n \in Nat
      OBVIOUS
    <3>. QED
      BY <2>1, <3>1, MallocKeeps
  <2>2. ASSUME NEW h \in Areas, used[h], MemFree(h) PROVE HeapInv'
    BY <2>2, FreeKeeps
  <2>3. ASSUME NEW h \in Areas, NEW n \in 1 .. MEM_SIZE, used[h], MemTrim(h, n) PROVE HeapInv'
    <3>1. n \in Nat
      OBVIOUS
    <3>. QED
      BY <2>3, <3>1, TrimKeeps
  <2>4. CASE UNCHANGED heapVars
    BY <2>4 DEF heapVars, HeapInv, HeapTypeOK, Linked, NoAdjacentFree, LfreeLowest
  <2>. QED
    BY <2>1, <2>2, <2>3, <2>4 DEF HeapNext
<1>. QED
  BY <1>1, HeapStart, PTL DEF HeapSpec
-----------------------------------------------------------------------------
(***************************************************************************)
(* The heap implements the abstract allocator.                              *)
(***************************************************************************)
\* A step that touches no used area but h's changes no owner but h.
LEMMA OthersKeep ==
    ASSUME NEW h \in Offsets,
           \A o \in Offsets \ {h} : (o \in Areas' /\ used'[o]) <=> (o \in Areas /\ used[o]),
           \A o \in Offsets \ {h} : o \in Areas /\ used[o] => next'[o] = next[o]
    PROVE  area' = [area EXCEPT ![h] = area'[h]]
<1>1. area = [o \in Offsets |-> IF o \in Areas /\ used[o] THEN o .. next[o] - 1 ELSE {}]
  BY DEF area
<1>2. area' = [o \in Offsets |-> IF o \in Areas' /\ used'[o] THEN o .. next'[o] - 1 ELSE {}]
  BY DEF area
<1>3. ASSUME NEW o \in Offsets \ {h} PROVE area'[o] = area[o]
  BY <1>1, <1>2
<1>. QED
  BY <1>1, <1>2, <1>3

\* The area at a header, as the owner sees it.
LEMMA AreaOfHeader ==
    ASSUME NEW h \in Offsets
    PROVE  /\ area[h] = IF h \in Areas /\ used[h] THEN h .. next[h] - 1 ELSE {}
           /\ area'[h] = IF h \in Areas' /\ used'[h] THEN h .. next'[h] - 1 ELSE {}
<1>1. area = [o \in Offsets |-> IF o \in Areas /\ used[o] THEN o .. next[o] - 1 ELSE {}]
  BY DEF area
<1>2. area' = [o \in Offsets |-> IF o \in Areas' /\ used'[o] THEN o .. next'[o] - 1 ELSE {}]
  BY DEF area
<1>. QED
  BY <1>1, <1>2

\* What mem_malloc returns was nobody's.
LEMMA MallocGrants ==
    ASSUME HeapInv, HeapInv', NEW n \in Nat, NEW h \in Offsets, MemMalloc(n, h)
    PROVE  HeapAllocator!Grant(h)
<1>. DEFINE size == AtLeastMin(n)
            m2 == h + SIZEOF_STRUCT_MEM + size
<1>1. size \in Nat /\ size >= MIN_SIZE
  BY AtLeastMinBound
<1>2. /\ h \in Areas /\ ~used[h] /\ used' = [used EXCEPT ![h] = TRUE]
      /\ next[h] \in Offsets /\ h < next[h]
  <2>1. h \in heads /\ h < MEM_SIZE - size /\ ~used[h] /\ used' = [used EXCEPT ![h] = TRUE]
    BY DEF MemMalloc, LowestOf, Fits
  <2>2. h \in Areas
    BY <2>1, <1>1, HeapAssumption
  <2>. QED
    BY <2>1, <2>2, AreaFacts
<1>3. /\ h \in Areas' /\ next'[h] <= next[h] /\ next'[h] \in Offsets /\ h < next'[h]
      /\ \A o \in Offsets \ {h} :
            /\ (o \in Areas' /\ used'[o]) <=> (o \in Areas /\ used[o])
            /\ o \in Areas /\ used[o] => next'[o] = next[o]
  <2>0. \A o \in Offsets \ {h} : used'[o] = used[o]
    BY <1>2 DEF HeapInv, HeapTypeOK
  <2>1. CASE MustSplit(h, size) /\ Insert(h, m2)
    <3>1. /\ heads' = heads \cup {m2} /\ next' = [next EXCEPT ![h] = m2, ![m2] = next[h]]
          /\ m2 \in Offsets /\ h < m2 /\ m2 < next[h]
      BY <2>1, <1>1, <1>2, HeapAssumption DEF MustSplit, Insert
    <3>2. m2 \notin heads
      BY <3>1, <1>2, AreaFacts
    <3>3. ~used[m2]
      BY <3>1, <3>2 DEF HeapInv, HeapTypeOK
    <3>. QED
      BY <2>0, <3>1, <3>2, <3>3, <1>2 DEF HeapInv, HeapTypeOK
  <2>2. CASE UNCHANGED <<heads, next, prev>>
    BY <2>0, <2>2, <1>2
  <2>. QED
    BY <2>1, <2>2 DEF MemMalloc
<1>4. used'[h]
  BY <1>2 DEF HeapInv, HeapTypeOK
<1>5. area'[h] = h .. next'[h] - 1 /\ area'[h] # {}
  <2>1. area'[h] = h .. next'[h] - 1
    BY <1>3, <1>4, AreaOfHeader
  <2>2. h \in h .. next'[h] - 1
    BY <1>3
  <2>. QED
    BY <2>1, <2>2
<1>6. area'[h] \subseteq HeapAllocator!Free
  <2>. SUFFICES ASSUME NEW b \in h .. next'[h] - 1, NEW o \in Offsets
                PROVE  b \in 0 .. MEM_SIZE - 1 /\ b \notin area[o]
    BY <1>5 DEF HeapAllocator!Free
  <2>1. b \in Int /\ h <= b /\ b < next[h] /\ b \in 0 .. MEM_SIZE - 1
    BY <1>2, <1>3, HeapAssumption
  <2>2. CASE ~(o \in Areas /\ used[o])
    BY <2>1, <2>2, AreaOfHeader
  <2>3. CASE o \in Areas /\ used[o]
    <3>1. o # h /\ area[o] = o .. next[o] - 1 /\ next[o] \in Offsets
      BY <2>3, <1>2, AreaOfHeader, AreaFacts
    <3>2. (o <= h \/ next[h] <= o) /\ (h <= o \/ next[o] <= h)
      BY <2>3, <1>2, AreaFacts
    <3>. QED
      BY <2>1, <3>1, <3>2, <1>2
  <2>. QED
    BY <2>2, <2>3
<1>7. area' = [area EXCEPT ![h] = area'[h]]
  BY <1>3, OthersKeep
<1>. QED
  BY <1>5, <1>6, <1>7 DEF HeapAllocator!Grant

\* mem_free gives back what was held, and nothing else.
LEMMA FreeReleases ==
    ASSUME HeapInv, NEW h \in Areas, used[h], MemFree(h)
    PROVE  HeapAllocator!Release(h)
<1>. DEFINE after == IF Forward(h) THEN next[next[h]] ELSE next[h]
            first == IF Backward(h) THEN prev[h] ELSE h
            gone  == (IF Forward(h) THEN {next[h]} ELSE {}) \cup (IF Backward(h) THEN {h} ELSE {})
<1>1. /\ heads' = heads \ gone
      /\ used' = [used EXCEPT ![h] = FALSE]
      /\ next' = [o \in Offsets |-> IF o \in gone THEN 0 ELSE IF o = first THEN after ELSE next[o]]
  BY DEF MemFree
<1>2. h \in Offsets
  BY AreaFacts
<1>3. ~used'[h] /\ \A o \in Offsets \ {h} : used'[o] = used[o]
  BY <1>1, <1>2 DEF HeapInv, HeapTypeOK
<1>4. \A o \in Offsets \ {h} : used[o] => o \notin gone /\ o # first
  BY DEF Forward, Backward
<1>5. area' = [area EXCEPT ![h] = area'[h]]
  <2>. HIDE DEF after, first, gone
  <2>1. \A o \in Offsets \ {h} : (o \in Areas' /\ used'[o]) <=> (o \in Areas /\ used[o])
    BY <1>1, <1>3, <1>4
  <2>2. \A o \in Offsets \ {h} : o \in Areas /\ used[o] => next'[o] = next[o]
    BY <1>1, <1>4
  <2>. QED
    BY <2>1, <2>2, <1>2, OthersKeep
<1>6. area'[h] = {}
  BY <1>2, <1>3, AreaOfHeader
<1>. QED
  BY <1>5, <1>6 DEF HeapAllocator!Release

\* mem_trim gives back the end of what was held, or nothing.
LEMMA TrimShrinks ==
    ASSUME HeapInv, NEW h \in Areas, used[h], NEW n \in Nat, MemTrim(h, n)
    PROVE  HeapAllocator!Shrink(h) \/ UNCHANGED area
<1>. DEFINE newsize == AtLeastMin(n)
            m2 == h + SIZEOF_STRUCT_MEM + newsize
            old == next[h]
<1>1. newsize \in Nat /\ newsize >= MIN_SIZE
  BY AtLeastMinBound
<1>2. /\ h \in Offsets /\ next[h] \in Offsets /\ next[h] \in heads /\ m2 \in Int /\ h < m2
      /\ h < next[h] /\ h # ram_end
  BY <1>1, AreaFacts
<1>3. ASSUME used' = used, h \in Areas', next'[h] = m2, m2 < next[h],
             \A o \in Offsets \ {h} : (o \in Areas' /\ used[o]) <=> (o \in Areas /\ used[o]),
             \A o \in Offsets \ {h} : o \in Areas /\ used[o] => next'[o] = next[o]
      PROVE  HeapAllocator!Shrink(h)
  <2>1. area' = [area EXCEPT ![h] = area'[h]]
    BY <1>2, <1>3, OthersKeep
  <2>2. area[h] = h .. next[h] - 1 /\ area'[h] = h .. m2 - 1
    BY <1>2, <1>3, AreaOfHeader
  <2>3. h \in h .. m2 - 1 /\ h .. m2 - 1 \subseteq h .. next[h] - 1
    BY <1>2, <1>3
  <2>. QED
    BY <2>1, <2>2, <2>3 DEF HeapAllocator!Shrink
<1>4. ASSUME m2 < next[h] PROVE m2 \in Offsets /\ m2 \notin heads /\ ~used[m2]
  <2>1. m2 \in Offsets /\ m2 \notin heads
    BY <1>2, <1>4, AreaFacts
  <2>. QED
    BY <2>1 DEF HeapInv, HeapTypeOK
<1>5. CASE newsize < SizeOf(h) /\ ~used[next[h]] /\ MoveDown(h, m2) /\ UNCHANGED used
  <2>1. m2 < old /\ old # h /\ m2 # h
    BY <1>2, <1>5, <1>1, HeapAssumption
  <2>2. heads' = (heads \ {old}) \cup {m2} /\ ~used[old]
    BY <1>5 DEF MoveDown
  <2>3. next'[h] = m2 /\ \A o \in Offsets : o # m2 /\ o # h /\ o # old => next'[o] = next[o]
    BY <2>1, <1>2, <1>5 DEF MoveDown
  <2>4. h \in Areas'
    BY <2>1, <2>2, <1>2
  <2>5. ~used[m2] /\ m2 \notin heads
    BY <2>1, <1>4
  <2>6. \A o \in Offsets \ {h} : (o \in Areas' /\ used[o]) <=> (o \in Areas /\ used[o])
    BY <2>2, <2>5
  <2>7. \A o \in Offsets \ {h} : o \in Areas /\ used[o] => next'[o] = next[o]
    BY <2>2, <2>3, <2>5
  <2>. QED
    BY <2>1, <2>3, <2>4, <2>6, <2>7, <1>3, <1>5
<1>6. CASE /\ used[next[h]] /\ newsize + SIZEOF_STRUCT_MEM + MIN_SIZE <= SizeOf(h)
           /\ Insert(h, m2) /\ UNCHANGED used
  <2>1. m2 < old /\ m2 # h
    BY <1>1, <1>2, <1>6, HeapAssumption
  <2>2. m2 \in Offsets /\ m2 \notin heads /\ ~used[m2]
    BY <2>1, <1>4
  <2>3. heads' = heads \cup {m2} /\ next' = [next EXCEPT ![h] = m2, ![m2] = next[h]]
    BY <1>6 DEF Insert
  <2>4. next'[h] = m2 /\ \A o \in Offsets : o # m2 /\ o # h => next'[o] = next[o]
    BY <2>1, <2>2, <2>3, <1>2 DEF HeapInv, HeapTypeOK
  <2>5. \A o \in Offsets \ {h} : (o \in Areas' /\ used[o]) <=> (o \in Areas /\ used[o])
    BY <2>2, <2>3
  <2>6. \A o \in Offsets \ {h} : o \in Areas /\ used[o] => next'[o] = next[o]
    BY <2>2, <2>4
  <2>. QED
    BY <2>1, <2>3, <2>4, <2>5, <2>6, <1>3, <1>6
<1>7. CASE UNCHANGED heapVars
  BY <1>7 DEF heapVars, area
<1>. QED
  BY <1>5, <1>6, <1>7 DEF MemTrim

\* lwIP's heap is an allocator: what mem_malloc returns overlaps nothing handed out
\* before, and mem_trim and mem_free take back only what the caller held.
THEOREM HeapIsAllocator == HeapSpec => HeapImplementsAllocator
<1>1. HeapInit => HeapAllocator!Init
  <2>. SUFFICES ASSUME HeapInit PROVE area = [o \in Offsets |-> {}]
    BY DEF HeapAllocator!Init
  <2>1. \A o \in Areas : o = 0
    BY DEF HeapInit
  <2>2. 0 \in Offsets /\ 0 # ram_end
    BY HeapAssumption
  <2>3. ~used[0]
    BY <2>2, Zenon DEF HeapInit
  <2>. QED
    BY <2>1, <2>3 DEF area
<1>2. HeapInv /\ HeapInv' /\ [HeapNext]_heapVars => [HeapAllocator!Next]_area
  <2>. SUFFICES ASSUME HeapInv, HeapInv', [HeapNext]_heapVars
                PROVE  HeapAllocator!Next \/ UNCHANGED area
    OBVIOUS
  <2>1. ASSUME NEW n \in 1 .. MEM_SIZE, NEW h \in Offsets, MemMalloc(n, h)
        PROVE  HeapAllocator!Next
    <3>1. HeapAllocator!Grant(h)
      BY <2>1, MallocGrants
    <3>. QED
      BY <3>1 DEF HeapAllocator!Next
  <2>2. ASSUME NEW h \in Areas, used[h], MemFree(h) PROVE HeapAllocator!Next
    <3>1. h \in Offsets /\ HeapAllocator!Release(h)
      BY <2>2, FreeReleases, AreaFacts
    <3>. QED
      BY <3>1 DEF HeapAllocator!Next
  <2>3. ASSUME NEW h \in Areas, NEW n \in 1 .. MEM_SIZE, used[h], MemTrim(h, n)
        PROVE  HeapAllocator!Next \/ UNCHANGED area
    <3>1. h \in Offsets /\ (HeapAllocator!Shrink(h) \/ UNCHANGED area)
      BY <2>3, TrimShrinks, AreaFacts
    <3>. QED
      BY <3>1 DEF HeapAllocator!Next
  <2>4. CASE UNCHANGED heapVars
    BY <2>4 DEF heapVars, area
  <2>. QED
    BY <2>1, <2>2, <2>3, <2>4 DEF HeapNext
<1>. QED
  BY <1>1, <1>2, HeapSound, PTL DEF HeapSpec, HeapImplementsAllocator, HeapAllocator!Spec

-----------------------------------------------------------------------------
(* mem_malloc misses no hole. *)

\* Every offset lies in an area: at or behind the header that is nearest below it.
LEMMA AreaAround ==
    ASSUME HeapInv, NEW o \in Offsets, o < MEM_SIZE
    PROVE  \E h \in Areas : h <= o /\ o < next[h]
<1>. DEFINE Below == {k \in Nat : \E h \in heads : h + k = o}
<1>1. heads \subseteq Offsets /\ 0 \in heads /\ MEM_SIZE \in Nat
  BY HeapAssumption DEF HeapInv, HeapTypeOK
<1>2. o \in Below
  <2>1. o \in Nat /\ 0 + o = o
    BY <1>1
  <2>. QED
    BY <1>1, <2>1
<1>3. PICK x \in Below : \A y \in Below : <<y, x>> \notin OpToRel(<, Nat)
  <2>1. Below \in SUBSET Nat /\ Below # {}
    BY <1>2
  <2>. HIDE DEF Below
  <2>. QED
    BY <2>1, NatLessThanWellFounded, WFMin
<1>4. \A y \in Below : ~(y < x)
  BY <1>3 DEF OpToRel
<1>5. PICK h \in heads : h + x = o
  OBVIOUS
<1>6. h \in Areas /\ h <= o
  BY <1>1, <1>5
<1>7. next[h] \in heads /\ next[h] \in Nat /\ h < next[h]
  BY <1>1, <1>6, AreaFacts
<1>8. o < next[h]
  <2>. SUFFICES ASSUME next[h] <= o PROVE FALSE
    BY <1>1, <1>7
  <2>1. o - next[h] \in Nat /\ next[h] + (o - next[h]) = o /\ o - next[h] < x
    BY <1>1, <1>5, <1>7
  <2>2. o - next[h] \in Below
    BY <1>7, <2>1
  <2>. QED
    BY <1>4, <2>1, <2>2
<1>. QED
  BY <1>6, <1>8

\* A request is refused only if no hole would hold it: lfree, the links and the joining
\* of free areas leave none unseen.
THEOREM RefusedForGoodReason == HeapSpec => []RefusedOnlyWhenFull
<1>1. HeapInv => RefusedOnlyWhenFull
  <2>. SUFFICES ASSUME HeapInv, NEW n \in MIN_SIZE .. MEM_SIZE, Fits(n) = {},
                       NEW o \in Offsets, o + SIZEOF_STRUCT_MEM + n <= MEM_SIZE,
                       \A h \in Areas : ~(used[h] /\ h < o + SIZEOF_STRUCT_MEM + n /\ o < next[h])
                PROVE  FALSE
    BY DEF RefusedOnlyWhenFull
  <2>1. n \in Nat /\ n > 0 /\ o \in Nat /\ o < MEM_SIZE
        /\ SIZEOF_STRUCT_MEM \in Nat /\ SIZEOF_STRUCT_MEM > 0 /\ MEM_SIZE \in Nat
    BY HeapAssumption
  <2>2. PICK h \in Areas : h <= o /\ o < next[h]
    BY <2>1, AreaAround
  <2>3. h \in Nat /\ h \in heads /\ h < MEM_SIZE /\ next[h] \in heads /\ next[h] \in Nat
        /\ h < next[h] /\ next[h] <= MEM_SIZE
    BY AreaFacts
  <2>4. ~used[h]
    BY <2>1, <2>2, <2>3
  <2>5. o + SIZEOF_STRUCT_MEM + n <= next[h]
    <3>. SUFFICES ASSUME next[h] < o + SIZEOF_STRUCT_MEM + n PROVE FALSE
      BY <2>1, <2>3
    <3>1. next[h] \in Areas /\ used[next[h]]
      BY <2>1, <2>3, <2>4 DEF HeapInv, NoAdjacentFree
    <3>2. next[h] < next[next[h]] /\ next[next[h]] \in Nat
      BY <3>1, AreaFacts
    <3>. QED
      BY <2>1, <2>2, <2>3, <3>1, <3>2
  <2>6. lfree <= h
    BY <2>4 DEF HeapInv, LfreeLowest
  <2>7. h < MEM_SIZE - n /\ SizeOf(h) >= n
    BY <2>1, <2>2, <2>3, <2>5
  <2>. QED
    BY <2>3, <2>4, <2>6, <2>7 DEF Fits
<1>. QED
  BY <1>1, HeapSound, PTL

-----------------------------------------------------------------------------
(* What the owner of an area sees of the calls. *)

\* The area at h is handed out.
Owns(h) == h \in Areas /\ used[h]

\* An area that a call leaves to its owner stays where it is and as large as it is.
LEMMA OthersUnmoved ==
    ASSUME HeapInv, HeapInv', NEW h, \A o \in Offsets \ {h} : area'[o] = area[o],
           NEW o \in Offsets \ {h}
    PROVE  (Owns(o)' <=> Owns(o)) /\ (Owns(o) => SizeOf(o)' = SizeOf(o))
<1>1. /\ area[o] = IF Owns(o) THEN o .. next[o] - 1 ELSE {}
      /\ area'[o] = IF Owns(o)' THEN o .. next'[o] - 1 ELSE {}
  BY AreaOfHeader DEF Owns
<1>2. Owns(o) => o \in o .. next[o] - 1 /\ next[o] - 1 \in o .. next[o] - 1 /\ next[o] \in Offsets
  BY AreaFacts DEF Owns
<1>3. Owns(o)' => o \in o .. next'[o] - 1 /\ next'[o] - 1 \in o .. next'[o] - 1 /\ next'[o] \in Offsets
  <2>1. Owns(o)' => o \in heads' /\ o # ram_end
    BY DEF Owns
  <2>2. HeapInv' => \A x \in heads' \ {ram_end} : next'[x] \in Offsets /\ x + SIZEOF_STRUCT_MEM + MIN_SIZE <= next'[x]
    BY DEF HeapInv, HeapTypeOK, Linked
  <2>. QED
    BY <2>1, <2>2, HeapAssumption
<1>4. Owns(o) <=> Owns(o)'
  BY <1>1, <1>2, <1>3
<1>5. ASSUME Owns(o) PROVE next'[o] = next[o]
  <2>1. o .. next[o] - 1 = o .. next'[o] - 1
    BY <1>1, <1>4, <1>5
  <2>2. next[o] - 1 \in o .. next'[o] - 1 /\ next'[o] - 1 \in o .. next[o] - 1
    BY <1>2, <1>3, <1>4, <1>5, <2>1
  <2>. QED
    BY <1>2, <1>3, <1>4, <1>5, <2>2
<1>. QED
  BY <1>4, <1>5

\* mem_malloc returns an area nobody owned, at least as large as asked for.
LEMMA MallocGives ==
    ASSUME HeapInv, NEW n \in Nat, NEW h \in Offsets, MemMalloc(n, h)
    PROVE  /\ HeapInv' /\ ~Owns(h) /\ Owns(h)' /\ SizeOf(h)' >= n /\ n <= MEM_SIZE
           /\ \A o \in Offsets \ {h} : area'[o] = area[o]
<1>. DEFINE size == AtLeastMin(n)
            m2 == h + SIZEOF_STRUCT_MEM + size
<1>1. size \in Nat /\ size >= MIN_SIZE /\ size >= n
  BY AtLeastMinBound
<1>2. HeapInv'
  BY MallocKeeps
<1>3. \A o \in Offsets \ {h} : area'[o] = area[o]
  <2>1. area' = [area EXCEPT ![h] = area'[h]]
    BY <1>2, MallocGrants DEF HeapAllocator!Grant
  <2>2. area = [o \in Offsets |-> area[o]]
    BY DEF area
  <2>. QED
    BY <2>1, <2>2
<1>4. h \in heads /\ h < MEM_SIZE - size /\ ~used[h] /\ used' = [used EXCEPT ![h] = TRUE] /\ SizeOf(h) >= size
  BY DEF MemMalloc, LowestOf, Fits
<1>5. h \in Areas /\ next[h] \in Offsets
  <2>1. h \in Areas
    BY <1>1, <1>4, HeapAssumption
  <2>. QED
    BY <2>1, AreaFacts
<1>6. used'[h]
  BY <1>4, <1>5 DEF HeapInv, HeapTypeOK
<1>7. h \in Areas' /\ SizeOf(h)' >= size
  <2>1. CASE MustSplit(h, size) /\ Insert(h, m2)
    <3>1. heads' = heads \cup {m2} /\ next' = [next EXCEPT ![h] = m2, ![m2] = next[h]]
      BY <2>1 DEF Insert
    <3>2. m2 # h /\ m2 \in Int /\ h \in Int
      BY <1>1, HeapAssumption
    <3>3. next'[h] = m2
      BY <3>1, <3>2 DEF HeapInv, HeapTypeOK
    <3>. QED
      BY <1>1, <1>5, <3>1, <3>2, <3>3, HeapAssumption
  <2>2. CASE UNCHANGED <<heads, next, prev>>
    BY <2>2, <1>4, <1>5
  <2>. QED
    BY <2>1, <2>2 DEF MemMalloc
<1>8. n <= MEM_SIZE
  BY <1>1, <1>4, HeapAssumption
<1>. QED
  <2>1. ~Owns(h) /\ Owns(h)'
    BY <1>4, <1>6, <1>7 DEF Owns
  <2>2. SizeOf(h)' >= n
    <3>1. next'[h] \in Offsets
      BY <1>2 DEF HeapInv, HeapTypeOK
    <3>. QED
      BY <3>1, <1>1, <1>7, HeapAssumption
  <2>. QED
    BY <1>2, <1>3, <1>8, <2>1, <2>2

\* mem_trim leaves the owner as much as it asked to keep, and touches no other area.
LEMMA TrimLeaves ==
    ASSUME HeapInv, NEW h \in Offsets, Owns(h), NEW n \in Nat, n <= SizeOf(h), MemTrim(h, n)
    PROVE  /\ HeapInv' /\ Owns(h)' /\ SizeOf(h)' >= n
           /\ \A o \in Offsets \ {h} : area'[o] = area[o]
<1>. DEFINE newsize == AtLeastMin(n)
            m2 == h + SIZEOF_STRUCT_MEM + newsize
<1>0. h \in Areas /\ used[h]
  BY DEF Owns
<1>1. HeapInv'
  BY <1>0, TrimKeeps
<1>2. newsize \in Nat /\ newsize >= n /\ newsize >= MIN_SIZE
  BY AtLeastMinBound
<1>3. \A o \in Offsets \ {h} : area'[o] = area[o]
  <2>1. area' = [area EXCEPT ![h] = area'[h]] \/ area' = area
    BY <1>0, TrimShrinks DEF HeapAllocator!Shrink
  <2>2. area = [o \in Offsets |-> area[o]]
    BY DEF area
  <2>. QED
    BY <2>1, <2>2
<1>4. used' = used
  BY DEF MemTrim, heapVars
<1>5. next[h] \in Offsets /\ h # ram_end /\ h < m2 /\ m2 \in Int
  BY <1>0, <1>2, AreaFacts
<1>6. h \in Areas' /\ SizeOf(h)' >= n
  <2>1. CASE newsize < SizeOf(h) /\ MoveDown(h, m2)
    <3>1. h # next[h] /\ h # m2
      BY <1>0, <1>5, AreaFacts
    <3>2. h \in heads' /\ next'[h] = m2
      BY <2>1, <3>1, <1>0 DEF MoveDown
    <3>. QED
      BY <1>2, <1>5, <3>2, HeapAssumption
  <2>2. CASE Insert(h, m2)
    <3>1. heads' = heads \cup {m2} /\ next' = [next EXCEPT ![h] = m2, ![m2] = next[h]]
      BY <2>2 DEF Insert
    <3>2. next'[h] = m2
      BY <1>5, <3>1 DEF HeapInv, HeapTypeOK
    <3>. QED
      BY <1>0, <1>2, <1>5, <3>1, <3>2, HeapAssumption
  <2>3. CASE UNCHANGED heapVars
    BY <2>3, <1>0 DEF heapVars
  <2>. QED
    BY <2>1, <2>2, <2>3 DEF MemTrim
<1>. QED
  BY <1>0, <1>1, <1>3, <1>4, <1>6 DEF Owns

\* mem_free takes the area from its owner, and touches no other.
LEMMA FreeTakes ==
    ASSUME HeapInv, NEW h \in Offsets, Owns(h), MemFree(h)
    PROVE  /\ HeapInv' /\ ~Owns(h)'
           /\ \A o \in Offsets \ {h} : area'[o] = area[o]
<1>0. h \in Areas /\ used[h]
  BY DEF Owns
<1>1. HeapInv'
  BY <1>0, FreeKeeps
<1>2. area' = [area EXCEPT ![h] = {}]
  BY <1>0, FreeReleases DEF HeapAllocator!Release
<1>3. area = [o \in Offsets |-> area[o]]
  BY DEF area
<1>4. used' = [used EXCEPT ![h] = FALSE]
  BY DEF MemFree
<1>5. used'[h] = FALSE
  BY <1>4 DEF HeapInv, HeapTypeOK
<1>. QED
  BY <1>1, <1>2, <1>3, <1>5 DEF Owns

HIDE DEF Offsets, ram_end, Areas, SizeOf

-----------------------------------------------------------------------------
(***************************************************************************)
(* Packets.  Each conjunct of the invariant serves the others: the counts    *)
(* are exact only as long as every pointer leads to a pbuf in use; pbuf_free *)
(* may return a pbuf only because a count of one is the loop's own pointer;  *)
(* chains end, so totals can be added up and the loop of pbuf_realloc stops. *)
(***************************************************************************)

\* No pointer leads to memory that was given back.
Links ==
    /\ \A p \in Live : pbufs[p].next \in Live \cup {NULL}
    /\ \A p \in Pbufs : held[p] > 0 => p \in Live
    /\ freeing \in Live \cup {NULL}

\* Whatever pbufs one takes, one of them leads out of the lot, and none of them
\* leads to one: chains end, and they begin.
Acyclic ==
    /\ \A S \in SUBSET Live : S # {} => \E p \in S : pbufs[p].next \notin S
    /\ \A S \in SUBSET Live : S # {} => \E p \in S : \A q \in S : pbufs[q].next # p

\* The pointers to p: those of the clients, of other pbufs, and of the loop of pbuf_free.
Pointers(p) == held[p] + Cardinality(Predecessors(p)) + (IF freeing = p THEN 1 ELSE 0)
Counted == \A p \in Live : pbufs[p].ref = Pointers(p) /\ pbufs[p].ref > 0

Exact(p) == pbufs[p].tot_len = pbufs[p].len +
                IF pbufs[p].next = NULL THEN 0 ELSE pbufs[pbufs[p].next].tot_len

\* A chain that pbuf_alloc could not finish claims more than it has.  It is on its
\* way back, nothing else leads into it, and every one of its pbufs goes.
Doomed ==
    /\ freeing # NULL
    /\ \A p \in Chain(freeing) : pbufs[p].ref = 1
    /\ \A q \in Live : pbufs[q].next \in Chain(freeing) => q \in Chain(freeing)
    /\ \A p \in Live \ Chain(freeing) : Exact(p)
Totals == (\A p \in Live : Exact(p)) \/ Doomed

\* The end of PayloadInside: no payload reaches over the end of its memory.
PayloadsFit ==
    \A p \in Live :
        /\ p \in Offsets => /\ p \in Areas /\ used[p]
                            /\ SIZEOF_STRUCT_PBUF + pbufs[p].room + pbufs[p].len <= SizeOf(p)
        /\ p \in PoolElements => pbufs[p].room + pbufs[p].len <= PBUF_POOL_BUFSIZE

\* A pbuf is in use as long as its memory is handed out, and its payload fits.
InMemory ==
    /\ avail = Elements \ Live
    /\ \A o \in Offsets : Owns(o) <=> o \in Live
    /\ PayloadsFit

PacketInv == TypeOK /\ Links /\ Acyclic /\ Counted /\ Totals /\ InMemory
IInv == HeapInv /\ PacketInv
-----------------------------------------------------------------------------
\* NULL is no pbuf.
LEMMA NullIsNone == NULL \notin Pbufs
  BY PacketAssumption DEF Pbufs, Elements

\* There are finitely many pbufs, so the pointers to one can be counted.
LEMMA PointersFinite ==
    ASSUME TypeOK
    PROVE  /\ IsFiniteSet(Live) /\ Cardinality(Live) \in Nat
           /\ \A p : IsFiniteSet(Predecessors(p)) /\ Cardinality(Predecessors(p)) \in Nat
<1>1. IsFiniteSet(Offsets)
  BY HeapAssumption, FS_Interval DEF Offsets
<1>2. IsFiniteSet(Pbufs)
  BY <1>1, PacketAssumption, FS_Union DEF Pbufs, Elements
<1>3. IsFiniteSet(Live)
  BY <1>2, FS_Subset DEF TypeOK
<1>4. \A p : Predecessors(p) \subseteq Live
  BY DEF Predecessors
<1>. QED
  BY <1>3, <1>4, FS_Subset, FS_CardinalityType

\* A pbuf that one pointer leads to has no second predecessor.
LEMMA OnePointer ==
    ASSUME TypeOK, NEW p, Cardinality(Predecessors(p)) <= 1,
           NEW a \in Predecessors(p), NEW b \in Predecessors(p)
    PROVE  a = b
<1>. SUFFICES ASSUME a # b PROVE FALSE
  OBVIOUS
<1>1. IsFiniteSet({a}) /\ Cardinality({a}) = 1
  BY FS_Singleton
<1>2. IsFiniteSet({a} \cup {b}) /\ Cardinality({a} \cup {b}) = 2
  <2>1. /\ IsFiniteSet({a} \cup {b})
        /\ Cardinality({a} \cup {b}) = IF b \in {a} THEN Cardinality({a}) ELSE Cardinality({a}) + 1
    BY <1>1, FS_AddElement, Zenon
  <2>. QED
    BY <1>1, <2>1
<1>3. Cardinality({a} \cup {b}) <= Cardinality(Predecessors(p))
  BY <1>2, PointersFinite, FS_Subset, {a} \cup {b} \subseteq Predecessors(p)
<1>. QED
  BY <1>2, <1>3, PointersFinite

\* A count of zero means that there is none.
LEMMA NoPointer ==
    ASSUME TypeOK, NEW p, Cardinality(Predecessors(p)) = 0
    PROVE  Predecessors(p) = {}
  BY PointersFinite, FS_EmptySet

\* Following `next` from p.
LEMMA ChainIs ==
    ASSUME Links, NEW p \in Live
    PROVE  /\ p \in Chain(p) /\ Chain(p) \subseteq Live
           /\ \A q \in Chain(p) : pbufs[q].next \in Chain(p) \cup {NULL}
           /\ \A S \in SUBSET Live : p \in S /\ ClosedUnderNext(S) => Chain(p) \subseteq S
<1>1. p \in Chain(p) /\ Chain(p) \subseteq Live
  BY DEF Chain
<1>2. ASSUME NEW q \in Chain(p), pbufs[q].next # NULL
      PROVE  pbufs[q].next \in Chain(p)
  <2>1. pbufs[q].next \in Live
    BY <1>1, <1>2 DEF Links
  <2>2. \A S \in SUBSET Live : p \in S /\ ClosedUnderNext(S) => pbufs[q].next \in S
    BY <1>2 DEF Chain, ClosedUnderNext
  <2>. QED
    BY <2>1, <2>2 DEF Chain
<1>. QED
  BY <1>1, <1>2 DEF Chain

\* A chain is its first pbuf and the chain of the next.
LEMMA ChainUnfolds ==
    ASSUME Links, NEW p \in Live
    PROVE  Chain(p) = {p} \cup IF pbufs[p].next = NULL THEN {} ELSE Chain(pbufs[p].next)
<1>. DEFINE n == pbufs[p].next
            rest == IF n = NULL THEN {} ELSE Chain(n)
<1>1. n \in Live \cup {NULL}
  BY DEF Links
<1>2. rest \subseteq Live /\ ClosedUnderNext(rest) /\ (n # NULL => n \in rest)
  BY <1>1, ChainIs DEF ClosedUnderNext
<1>3. ClosedUnderNext({p} \cup rest)
  BY <1>2 DEF ClosedUnderNext
<1>4. Chain(p) \subseteq {p} \cup rest
  BY <1>2, <1>3, ChainIs
<1>5. ClosedUnderNext(Chain(p)) /\ p \in Chain(p) /\ Chain(p) \in SUBSET Live
  BY ChainIs DEF ClosedUnderNext
<1>6. n # NULL => Chain(n) \subseteq Chain(p)
  BY <1>1, <1>5, ChainIs
<1>. QED
  BY <1>4, <1>5, <1>6

\* A chain has one end.
LEMMA ChainEnds ==
    ASSUME Links, Acyclic, NEW p \in Live
    PROVE  \E l \in Chain(p) : /\ pbufs[l].next = NULL
                               /\ \A m \in Chain(p) : pbufs[m].next = NULL => m = l
<1>1. Chain(p) \in SUBSET Live /\ Chain(p) # {}
  BY ChainIs
<1>2. PICK l \in Chain(p) : pbufs[l].next = NULL
  BY <1>1, ChainIs DEF Acyclic
<1>3. ASSUME NEW m \in Chain(p), pbufs[m].next = NULL, m # l PROVE FALSE
  <2>. DEFINE S == {x \in Live : l \in Chain(x) /\ m \in Chain(x)}
  <2>1. p \in S /\ S \in SUBSET Live
    OBVIOUS
  <2>2. PICK x \in S : pbufs[x].next \notin S
    BY <2>1 DEF Acyclic
  <2>3. Chain(x) = {x} \cup IF pbufs[x].next = NULL THEN {} ELSE Chain(pbufs[x].next)
    BY ChainUnfolds
  <2>4. pbufs[x].next \in Live \cup {NULL}
    BY DEF Links
  <2>5. pbufs[x].next # NULL
    BY <2>2, <2>3, <1>3
  <2>6. x # l /\ x # m
    BY <2>5, <1>2, <1>3
  <2>. QED
    BY <2>2, <2>3, <2>4, <2>5, <2>6
<1>. QED
  BY <1>2, <1>3

\* A step that moves no `next`.
LEMMA SameShape ==
    ASSUME Live' = Live, \A p \in Live : pbufs'[p].next = pbufs[p].next
    PROVE  /\ Acyclic => Acyclic'
           /\ \A p : Predecessors(p)' = Predecessors(p)
           /\ \A p : Chain(p)' = Chain(p)
<1>1. Acyclic => Acyclic'
  BY DEF Acyclic
<1>2. \A p : Predecessors(p)' = Predecessors(p)
  BY DEF Predecessors
<1>3. \A p : Chain(p)' = Chain(p)
  <2>1. \A S \in SUBSET Live : ClosedUnderNext(S)' <=> ClosedUnderNext(S)
    BY DEF ClosedUnderNext
  <2>. QED
    BY <2>1 DEF Chain
<1>. QED
  BY <1>1, <1>2, <1>3

\* A step in which pointers disappear, but none appears or moves.
LEMMA FewerPointers ==
    ASSUME Live' \subseteq Live, NULL \notin Live,
           \A p \in Live' : pbufs'[p].next \in {pbufs[p].next, NULL}
    PROVE  Acyclic => Acyclic'
<1>. SUFFICES ASSUME Acyclic, NEW S \in SUBSET Live', S # {}
              PROVE  /\ \E p \in S : pbufs'[p].next \notin S
                     /\ \E p \in S : \A q \in S : pbufs'[q].next # p
  BY DEF Acyclic
<1>1. PICK p \in S : pbufs[p].next \notin S
  BY DEF Acyclic
<1>2. PICK r \in S : \A q \in S : pbufs[q].next # r
  BY DEF Acyclic
<1>. QED
  BY <1>1, <1>2

\* A step that does not call the heap.
LEMMA HeapSame ==
    ASSUME HeapInv, UNCHANGED heapVars
    PROVE  HeapInv' /\ \A o : (Owns(o)' <=> Owns(o)) /\ SizeOf(o)' = SizeOf(o)
<1>1. /\ heads' = heads /\ next' = next /\ prev' = prev /\ used' = used /\ lfree' = lfree
  BY DEF heapVars
<1>2. HeapInv'
  BY <1>1 DEF HeapInv, HeapTypeOK, Linked, NoAdjacentFree, LfreeLowest, Areas, ram_end, Offsets
<1>. QED
  BY <1>1, <1>2 DEF Owns, SizeOf, Areas

\* The fields of a pbuf.
LEMMA Fields ==
    ASSUME TypeOK, NEW p \in Live
    PROVE  /\ p \in Pbufs /\ p # NULL /\ pbufs[p].next \in Pbufs \cup {NULL} /\ pbufs[p].ref \in Nat
           /\ pbufs[p].len \in Nat /\ pbufs[p].tot_len \in Nat /\ pbufs[p].room \in Nat
           /\ pbufs[p] = [next |-> pbufs[p].next, ref |-> pbufs[p].ref, len |-> pbufs[p].len,
                          tot_len |-> pbufs[p].tot_len, room |-> pbufs[p].room]
           /\ held[p] \in Nat
  BY NullIsNone DEF TypeOK

\* A record with the fields of a pbuf is one.
LEMMA RecordType ==
    ASSUME NEW r, r = [next |-> r.next, ref |-> r.ref, len |-> r.len, tot_len |-> r.tot_len, room |-> r.room],
           r.next \in Pbufs \cup {NULL}, r.ref \in Nat, r.len \in Nat, r.tot_len \in Nat, r.room \in Nat
    PROVE  r \in [next : Pbufs \cup {NULL}, ref : Nat, len : Nat, tot_len : Nat, room : Nat]
<1>1. [next |-> r.next, ref |-> r.ref, len |-> r.len, tot_len |-> r.tot_len, room |-> r.room]
        \in [next : Pbufs \cup {NULL}, ref : Nat, len : Nat, tot_len : Nat, room : Nat]
  OBVIOUS
<1>. QED
  BY <1>1, Zenon

\* What PayloadsFit says of one pbuf.
Inside(p) ==
    /\ p \in Offsets => Owns(p) /\ SIZEOF_STRUCT_PBUF + pbufs[p].room + pbufs[p].len <= SizeOf(p)
    /\ p \in PoolElements => pbufs[p].room + pbufs[p].len <= PBUF_POOL_BUFSIZE

\* PayloadsFit, pbuf by pbuf.
LEMMA PayloadIs ==
    /\ PayloadsFit <=> \A p \in Live : Inside(p)
    /\ PayloadsFit' <=> \A p \in Live' : Inside(p)'
<1>1. PayloadsFit <=> \A p \in Live : Inside(p)
  BY DEF PayloadsFit, Inside, Owns
<1>2. PayloadsFit' <=> \A p \in Live' : Inside(p)'
  BY DEF PayloadsFit, Inside, Owns
<1>. QED
  BY <1>1, <1>2

\* The pointers to a pbuf that no `next` was given to or taken from.
LEMMA PointersAre ==
    ASSUME TypeOK, NEW p \in Live
    PROVE  \E c \in Nat : /\ c = Cardinality(Predecessors(p))
                          /\ Pointers(p) = held[p] + c + (IF freeing = p THEN 1 ELSE 0)
                          /\ Predecessors(p)' = Predecessors(p) =>
                                Pointers(p)' = held'[p] + c + (IF freeing' = p THEN 1 ELSE 0)
  BY PointersFinite DEF Pointers

\* What a step on the references alone leaves.
OnlyRefs ==
    /\ UNCHANGED <<heapVars, avail>> /\ Live' = Live
    /\ \A p \in Live : /\ pbufs'[p].next = pbufs[p].next /\ pbufs'[p].len = pbufs[p].len
                       /\ pbufs'[p].tot_len = pbufs[p].tot_len /\ pbufs'[p].room = pbufs[p].room

\* Such a step keeps all but the counts.
LEMMA OnlyRefsKeeps ==
    ASSUME IInv, OnlyRefs
    PROVE  /\ HeapInv' /\ Acyclic' /\ InMemory'
           /\ \A p : Predecessors(p)' = Predecessors(p) /\ Chain(p)' = Chain(p)
           /\ \A p \in Live : Exact(p) => Exact(p)'
<1>1. HeapInv' /\ \A o : (Owns(o)' <=> Owns(o)) /\ SizeOf(o)' = SizeOf(o)
  BY HeapSame DEF OnlyRefs, IInv
<1>2. \A p : Predecessors(p)' = Predecessors(p) /\ Chain(p)' = Chain(p)
  BY SameShape DEF OnlyRefs
<1>3. Acyclic'
  BY SameShape DEF OnlyRefs, IInv, PacketInv
<1>4. \A p \in Live : Exact(p) => Exact(p)'
  <2>1. \A p \in Live : pbufs[p].next \in Live \cup {NULL}
    BY DEF IInv, PacketInv, Links
  <2>. QED
    BY <2>1 DEF OnlyRefs, Exact
<1>5. PayloadsFit'
  <2>1. \A p \in Live : Inside(p)
    BY PayloadIs DEF IInv, PacketInv, InMemory
  <2>2. \A p \in Live : Inside(p)'
    BY <1>1, <2>1 DEF OnlyRefs, Inside
  <2>. QED
    BY <2>2, PayloadIs DEF OnlyRefs
<1>6. InMemory'
  BY <1>1, <1>5 DEF InMemory, OnlyRefs, IInv, PacketInv
<1>. QED
  BY <1>1, <1>2, <1>3, <1>4, <1>6

\* pbuf_free is called: a pointer of the clients becomes the one of the loop.
LEMMA FreeCalled == \A p \in Live : IInv /\ PbufFree(p) => IInv'
<1>. SUFFICES ASSUME NEW p \in Live, IInv, PbufFree(p) PROVE IInv'
  OBVIOUS
<1>1. /\ freeing = NULL /\ freeing' = p /\ held[p] > 0 /\ held' = [held EXCEPT ![p] = @ - 1]
      /\ UNCHANGED <<heapVars, pbufs, avail>> /\ Live' = Live
  BY DEF PbufFree, Idle, DropRef, Live
<1>2. TypeOK /\ Links /\ Counted /\ p \in Pbufs /\ held \in [Pbufs -> Nat] /\ p # NULL
  BY Fields DEF IInv, PacketInv, TypeOK
<1>3. OnlyRefs
  BY <1>1 DEF OnlyRefs
<1>4. TypeOK'
  BY <1>1, <1>2 DEF TypeOK, Live
<1>5. Links'
  BY <1>1, <1>2 DEF Links
<1>6. Counted'
  <2>. SUFFICES ASSUME NEW q \in Live PROVE Pointers(q)' = Pointers(q)
    BY <1>1, <1>2 DEF Counted
  <2>1. Predecessors(q)' = Predecessors(q)
    BY <1>3, OnlyRefsKeeps
  <2>2. PICK c \in Nat : /\ Pointers(q) = held[q] + c + (IF freeing = q THEN 1 ELSE 0)
                         /\ Pointers(q)' = held'[q] + c + (IF freeing' = q THEN 1 ELSE 0)
    BY <1>2, <2>1, PointersAre
  <2>3. q \in Pbufs /\ held[p] \in Nat /\ held[q] \in Nat /\ q # NULL
    BY <1>2, Fields
  <2>4. held'[q] = IF q = p THEN held[q] - 1 ELSE held[q]
    BY <1>1, <1>2, <2>3
  <2>. QED
    BY <1>1, <2>2, <2>3, <2>4
<1>7. Totals'
  <2>1. \A q \in Live : Exact(q)
    BY <1>1 DEF IInv, PacketInv, Totals, Doomed
  <2>. QED
    BY <2>1, <1>1, <1>3, OnlyRefsKeeps DEF Totals
<1>. QED
  BY <1>3, <1>4, <1>5, <1>6, <1>7, OnlyRefsKeeps DEF IInv, PacketInv

\* pbuf_free stops at a pbuf that is still referenced.
LEMMA ReferencedKeeps == IInv /\ StillReferenced => IInv'
<1>. SUFFICES ASSUME IInv, StillReferenced PROVE IInv'
  OBVIOUS
<1>1. TypeOK /\ Links /\ Counted /\ freeing \in Live
  BY DEF IInv, PacketInv, StillReferenced, Links, Idle
<1>. DEFINE f == freeing
<1>2. /\ freeing' = NULL /\ pbufs[f].ref > 1 /\ pbufs' = [pbufs EXCEPT ![f].ref = @ - 1]
      /\ UNCHANGED <<heapVars, avail, held>> /\ Live' = Live
  BY DEF StillReferenced, Live
<1>3. /\ \A q \in Live : /\ pbufs'[q].next = pbufs[q].next /\ pbufs'[q].len = pbufs[q].len
                         /\ pbufs'[q].tot_len = pbufs[q].tot_len /\ pbufs'[q].room = pbufs[q].room
                         /\ pbufs'[q].ref = IF q = f THEN pbufs[q].ref - 1 ELSE pbufs[q].ref
  BY <1>1, <1>2, Fields DEF Live
<1>r. \A q \in Live : pbufs'[q] = [next |-> pbufs'[q].next, ref |-> pbufs'[q].ref, len |-> pbufs'[q].len,
                                   tot_len |-> pbufs'[q].tot_len, room |-> pbufs'[q].room]
  BY <1>1, <1>2, Fields DEF Live
<1>n. \A q \in Live : pbufs[q].ref \in Nat /\ held[q] \in Nat /\ q # NULL
  BY <1>1, Fields
<1>4. OnlyRefs
  BY <1>2, <1>3 DEF OnlyRefs
<1>5. TypeOK'
  <2>1. ASSUME NEW q \in Live
        PROVE  pbufs'[q] \in [next : Pbufs \cup {NULL}, ref : Nat, len : Nat, tot_len : Nat, room : Nat]
    <3>1. pbufs'[q].ref \in Nat
      BY <1>2, <1>3, <1>n
    <3>2. pbufs[q].next \in Pbufs \cup {NULL} /\ pbufs[q].len \in Nat /\ pbufs[q].tot_len \in Nat /\ pbufs[q].room \in Nat
      BY <1>1, Fields
    <3>. QED
      BY <1>3, <1>r, <3>1, <3>2, RecordType
  <2>. QED
    BY <1>1, <1>2, <2>1 DEF TypeOK
<1>6. Links'
  BY <1>1, <1>2, <1>3 DEF Links
<1>7. Counted'
  <2>. SUFFICES ASSUME NEW q \in Live PROVE pbufs'[q].ref = Pointers(q)' /\ pbufs'[q].ref > 0
    BY <1>2 DEF Counted
  <2>1. Predecessors(q)' = Predecessors(q)
    BY <1>4, OnlyRefsKeeps
  <2>2. PICK c \in Nat : /\ Pointers(q) = held[q] + c + (IF freeing = q THEN 1 ELSE 0)
                         /\ Pointers(q)' = held'[q] + c + (IF freeing' = q THEN 1 ELSE 0)
    BY <1>1, <2>1, PointersAre
  <2>3. pbufs[q].ref = Pointers(q) /\ pbufs[q].ref > 0
    BY <1>1 DEF Counted
  <2>. QED
    BY <1>2, <1>3, <1>n, <2>2, <2>3
<1>8. Totals'
  <2>1. ~Doomed
    BY <1>1, <1>2, ChainIs DEF Doomed
  <2>. QED
    BY <2>1, <1>2, <1>4, OnlyRefsKeeps DEF Totals, IInv, PacketInv
<1>. QED
  BY <1>4, <1>5, <1>6, <1>7, <1>8, OnlyRefsKeeps DEF IInv, PacketInv

\* pbuf_ref.
LEMMA RefKeeps == \A p \in Live : IInv /\ PbufRef(p) => IInv'
<1>. SUFFICES ASSUME NEW p \in Live, IInv, PbufRef(p) PROVE IInv'
  OBVIOUS
<1>1. TypeOK /\ Links /\ Counted /\ p \in Pbufs /\ held \in [Pbufs -> Nat]
  BY DEF IInv, PacketInv, TypeOK
<1>2. /\ freeing = NULL /\ freeing' = NULL /\ pbufs' = [pbufs EXCEPT ![p].ref = @ + 1]
      /\ held' = [held EXCEPT ![p] = @ + 1]
      /\ UNCHANGED <<heapVars, avail>> /\ Live' = Live
  BY DEF PbufRef, Idle, TakeRef, Live
<1>3. /\ \A q \in Live : /\ pbufs'[q].next = pbufs[q].next /\ pbufs'[q].len = pbufs[q].len
                         /\ pbufs'[q].tot_len = pbufs[q].tot_len /\ pbufs'[q].room = pbufs[q].room
                         /\ pbufs'[q].ref = IF q = p THEN pbufs[q].ref + 1 ELSE pbufs[q].ref
  BY <1>1, <1>2, Fields DEF Live
<1>r. \A q \in Live : pbufs'[q] = [next |-> pbufs'[q].next, ref |-> pbufs'[q].ref, len |-> pbufs'[q].len,
                                   tot_len |-> pbufs'[q].tot_len, room |-> pbufs'[q].room]
  BY <1>1, <1>2, Fields DEF Live
<1>n. \A q \in Live : pbufs[q].ref \in Nat /\ held[q] \in Nat /\ q # NULL
  BY <1>1, Fields
<1>4. OnlyRefs
  BY <1>2, <1>3 DEF OnlyRefs
<1>5. TypeOK'
  <2>1. ASSUME NEW q \in Live
        PROVE  pbufs'[q] \in [next : Pbufs \cup {NULL}, ref : Nat, len : Nat, tot_len : Nat, room : Nat]
    <3>1. pbufs'[q].ref \in Nat
      BY <1>2, <1>3, <1>n
    <3>2. pbufs[q].next \in Pbufs \cup {NULL} /\ pbufs[q].len \in Nat /\ pbufs[q].tot_len \in Nat /\ pbufs[q].room \in Nat
      BY <1>1, Fields
    <3>. QED
      BY <1>3, <1>r, <3>1, <3>2, RecordType
  <2>2. held' \in [Pbufs -> Nat]
    BY <1>1, <1>2
  <2>. QED
    BY <1>1, <1>2, <2>1, <2>2 DEF TypeOK
<1>6. Links'
  BY <1>1, <1>2, <1>3 DEF Links
<1>7. Counted'
  <2>. SUFFICES ASSUME NEW q \in Live PROVE pbufs'[q].ref = Pointers(q)' /\ pbufs'[q].ref > 0
    BY <1>2 DEF Counted
  <2>1. Predecessors(q)' = Predecessors(q)
    BY <1>4, OnlyRefsKeeps
  <2>2. PICK c \in Nat : /\ Pointers(q) = held[q] + c + (IF freeing = q THEN 1 ELSE 0)
                         /\ Pointers(q)' = held'[q] + c + (IF freeing' = q THEN 1 ELSE 0)
    BY <1>1, <2>1, PointersAre
  <2>3. pbufs[q].ref = Pointers(q) /\ pbufs[q].ref > 0 /\ q \in Pbufs
    BY <1>1, Fields DEF Counted
  <2>4. held'[q] = IF q = p THEN held[q] + 1 ELSE held[q]
    BY <1>1, <1>2, <2>3
  <2>. QED
    BY <1>2, <1>3, <1>n, <2>2, <2>3, <2>4
<1>8. Totals'
  <2>1. \A q \in Live : Exact(q)
    BY <1>2 DEF IInv, PacketInv, Totals, Doomed
  <2>. QED
    BY <2>1, <1>2, <1>4, OnlyRefsKeeps DEF Totals
<1>. QED
  BY <1>4, <1>5, <1>6, <1>7, <1>8, OnlyRefsKeeps DEF IInv, PacketInv

\* A pbuf with no pointer but one counts nothing else.
LEMMA SoleLoop ==
    ASSUME IInv, freeing \in Live, pbufs[freeing].ref = 1
    PROVE  held[freeing] = 0 /\ Predecessors(freeing) = {}
<1>1. TypeOK /\ pbufs[freeing].ref = Pointers(freeing) /\ held[freeing] \in Nat
  BY Fields DEF IInv, PacketInv, Counted
<1>2. PICK c \in Nat : /\ c = Cardinality(Predecessors(freeing))
                       /\ Pointers(freeing) = held[freeing] + c + 1
  BY <1>1, PointersAre
<1>3. c = 0 /\ held[freeing] = 0
  BY <1>1, <1>2
<1>. QED
  BY <1>1, <1>2, <1>3, NoPointer

\* Nothing leads to a pbuf without predecessors.
LEMMA HeadAlone ==
    ASSUME NEW p, Predecessors(p) = {}, NEW q \in Live
    PROVE  pbufs[q].next # p
  BY DEF Predecessors

\* The heap and the pools share no pbuf.
LEMMA ElementsApart == /\ Elements \cap Offsets = {} /\ PoolElements \cap RefElements = {}
                       /\ Pbufs = Elements \cup Offsets /\ Elements = PoolElements \cup RefElements
                       /\ NULL \notin Elements
  BY PacketAssumption DEF Elements, Pbufs

\* pbuf_header.
LEMMA HeaderKeeps ==
    \A p \in Live, increment \in {-1, 1} : IInv /\ PbufHeader(p, increment) => IInv'
<1>. SUFFICES ASSUME NEW p \in Live, NEW inc \in {-1, 1}, IInv, PbufHeader(p, inc) PROVE IInv'
  OBVIOUS
<1>1. TypeOK /\ Links /\ Counted /\ PayloadsFit
  BY DEF IInv, PacketInv, InMemory
<1>. DEFINE room2 == IF p \in RefElements THEN 0 ELSE pbufs[p].room - inc
<1>2. /\ freeing = NULL /\ Predecessors(p) = {} /\ HeaderFits(p, inc)
      /\ pbufs' = [pbufs EXCEPT ![p].room = room2, ![p].len = @ + inc, ![p].tot_len = @ + inc]
      /\ UNCHANGED <<heapVars, avail, held, freeing>> /\ Live' = Live
  BY DEF PbufHeader, Idle, Packet, Live
<1>n. \A q \in Live : /\ pbufs[q].next \in Pbufs \cup {NULL} /\ pbufs[q].ref \in Nat /\ pbufs[q].len \in Nat
                      /\ pbufs[q].tot_len \in Nat /\ pbufs[q].room \in Nat
  BY <1>1, Fields
<1>3. \A q \in Live : /\ pbufs'[q].next = pbufs[q].next /\ pbufs'[q].ref = pbufs[q].ref
                      /\ pbufs'[q].len = IF q = p THEN pbufs[q].len + inc ELSE pbufs[q].len
                      /\ pbufs'[q].tot_len = IF q = p THEN pbufs[q].tot_len + inc ELSE pbufs[q].tot_len
                      /\ pbufs'[q].room = IF q = p THEN room2 ELSE pbufs[q].room
  BY <1>1, <1>2, Fields DEF Live
<1>r. \A q \in Live : pbufs'[q] = [next |-> pbufs'[q].next, ref |-> pbufs'[q].ref, len |-> pbufs'[q].len,
                                   tot_len |-> pbufs'[q].tot_len, room |-> pbufs'[q].room]
  BY <1>1, <1>2, Fields DEF Live
<1>4. \A q \in Live : Exact(q)
  BY <1>2 DEF IInv, PacketInv, Totals, Doomed
<1>5. /\ pbufs[p].len + inc \in Nat /\ pbufs[p].tot_len + inc \in Nat /\ room2 \in Nat
      /\ p \notin RefElements => room2 = pbufs[p].room - inc
  <2>1. pbufs[p].tot_len >= pbufs[p].len
    <3>1. pbufs[p].next \in Live \cup {NULL}
      BY <1>1 DEF Links
    <3>. QED
      BY <1>4, <1>n, <3>1 DEF Exact
  <2>2. -inc <= pbufs[p].len /\ (p \notin RefElements => inc <= pbufs[p].room)
    BY <1>2 DEF HeaderFits
  <2>. QED
    BY <2>1, <2>2, <1>n
<1>. HIDE DEF room2
<1>6. TypeOK'
  <2>1. ASSUME NEW q \in Live
        PROVE  pbufs'[q] \in [next : Pbufs \cup {NULL}, ref : Nat, len : Nat, tot_len : Nat, room : Nat]
    <3>1. pbufs'[q].len \in Nat /\ pbufs'[q].tot_len \in Nat /\ pbufs'[q].room \in Nat
      BY <1>3, <1>5, <1>n
    <3>2. pbufs'[q].next \in Pbufs \cup {NULL} /\ pbufs'[q].ref \in Nat
      BY <1>3, <1>n
    <3>. QED
      BY <1>r, <3>1, <3>2, RecordType
  <2>. QED
    BY <1>1, <1>2, <2>1 DEF TypeOK
<1>7. Links'
  BY <1>1, <1>2, <1>3 DEF Links
<1>8. Acyclic' /\ \A q : Predecessors(q)' = Predecessors(q)
  BY <1>2, <1>3, SameShape DEF IInv, PacketInv
<1>9. Counted'
  BY <1>1, <1>2, <1>3, <1>8 DEF Counted, Pointers
<1>10. Totals'
  <2>. SUFFICES ASSUME NEW q \in Live PROVE Exact(q)'
    BY <1>2 DEF Totals
  <2>1. pbufs[q].next \in Live \cup {NULL} /\ pbufs[q].next # p
    BY <1>1, <1>2, HeadAlone DEF Links
  <2>2. pbufs[q].next # NULL => pbufs'[pbufs[q].next].tot_len = pbufs[pbufs[q].next].tot_len
                                /\ pbufs[pbufs[q].next].tot_len \in Nat
    BY <2>1, <1>3, <1>n
  <2>3. pbufs[q].tot_len = pbufs[q].len + IF pbufs[q].next = NULL THEN 0 ELSE pbufs[pbufs[q].next].tot_len
    BY <1>4 DEF Exact
  <2>4. pbufs'[q].tot_len = pbufs'[q].len + IF pbufs[q].next = NULL THEN 0 ELSE pbufs[pbufs[q].next].tot_len
    BY <2>2, <2>3, <1>3, <1>n
  <2>. QED
    BY <2>2, <2>4, <1>3 DEF Exact
<1>11. HeapInv' /\ \A o : (Owns(o)' <=> Owns(o)) /\ SizeOf(o)' = SizeOf(o)
  BY <1>2, HeapSame DEF IInv
<1>12. InMemory'
  <2>1. ASSUME NEW q \in Live PROVE Inside(q)'
    <3>1. Inside(q)
      BY <1>1, PayloadIs
    <3>2. CASE q # p
      BY <3>1, <3>2, <1>3, <1>11 DEF Inside
    <3>3. CASE q = p /\ p \notin RefElements
      <4>1. pbufs'[p].room + pbufs'[p].len = pbufs[p].room + pbufs[p].len
        BY <3>3, <1>3, <1>5, <1>n
      <4>2. SIZEOF_STRUCT_PBUF + pbufs'[p].room + pbufs'[p].len = SIZEOF_STRUCT_PBUF + pbufs[p].room + pbufs[p].len
        BY <3>3, <1>3, <1>5, <1>n, PacketAssumption
      <4>. QED
        BY <3>1, <3>3, <4>1, <4>2, <1>11 DEF Inside
    <3>4. CASE q = p /\ p \in RefElements
      BY <3>4, ElementsApart DEF Inside
    <3>. QED
      BY <3>2, <3>3, <3>4
  <2>2. PayloadsFit'
    BY <2>1, <1>2, PayloadIs
  <2>. QED
    BY <2>2, <1>2, <1>11 DEF InMemory, IInv, PacketInv
<1>. QED
  BY <1>6, <1>7, <1>8, <1>9, <1>10, <1>11, <1>12 DEF IInv, PacketInv

\* pbuf_free returns a pbuf to the memory it is of.
LEMMA GoneKeeps == IInv /\ NoLongerReferenced => IInv'
<1>. SUFFICES ASSUME IInv, NoLongerReferenced PROVE IInv'
  OBVIOUS
<1>0. PICK f, n : f = freeing /\ n = pbufs[f].next
  OBVIOUS
<1>1. TypeOK /\ Links /\ Counted /\ PayloadsFit /\ HeapInv
  BY DEF IInv, PacketInv, InMemory
<1>2. /\ f \in Live /\ f # NULL /\ pbufs[f].ref = 1 /\ Deallocate(f)
      /\ pbufs' = [x \in Live \ {f} |-> pbufs[x]] /\ freeing' = n /\ held' = held
      /\ Live' = Live \ {f}
  BY <1>0, <1>1 DEF NoLongerReferenced, Idle, Links, Live
<1>3. held[f] = 0 /\ Predecessors(f) = {}
  BY <1>0, <1>2, SoleLoop
<1>4. \A x \in Live : pbufs[x].next # f
  BY <1>3, HeadAlone
<1>5. n # f /\ n \in Live \cup {NULL} /\ NULL \notin Live
  BY <1>0, <1>1, <1>2, <1>4, Fields DEF Links
<1>6. \A x \in Live' : pbufs'[x] = pbufs[x]
  BY <1>2
<1>7. TypeOK'
  <2>1. avail' \subseteq Elements
    BY <1>1 DEF Deallocate, NoLongerReferenced, TypeOK
  <2>2. freeing' \in Pbufs \cup {NULL}
    BY <1>0, <1>1, <1>2, Fields
  <2>. QED
    BY <1>1, <1>2, <1>6, <2>1, <2>2 DEF TypeOK
<1>8. Links'
  BY <1>1, <1>2, <1>3, <1>4, <1>5, <1>6 DEF Links
<1>9. Acyclic'
  BY <1>2, <1>5, <1>6, FewerPointers DEF IInv, PacketInv
<1>10. Counted'
  <2>. SUFFICES ASSUME NEW q \in Live, q # f PROVE Pointers(q)' = Pointers(q)
    BY <1>1, <1>2, <1>6 DEF Counted
  <2>1. Predecessors(q)' = Predecessors(q) \ {f}
    BY <1>2, <1>6 DEF Predecessors
  <2>2. f \in Predecessors(q) <=> q = n
    BY <1>0, <1>2 DEF Predecessors
  <2>3. IsFiniteSet(Predecessors(q)) /\ Cardinality(Predecessors(q)) \in Nat /\ held[q] \in Nat
    BY <1>1, PointersFinite, Fields
  <2>4. Cardinality(Predecessors(q) \ {f}) = IF q = n THEN Cardinality(Predecessors(q)) - 1
                                                     ELSE Cardinality(Predecessors(q))
    BY <2>2, <2>3, FS_RemoveElement
  <2>5. Pointers(q)' = held[q] + Cardinality(Predecessors(q) \ {f}) + (IF q = n THEN 1 ELSE 0)
    BY <1>2, <2>1 DEF Pointers
  <2>6. Pointers(q) = held[q] + Cardinality(Predecessors(q)) + 0
    BY <1>0 DEF Pointers
  <2>. QED
    BY <2>3, <2>4, <2>5, <2>6
<1>11. \A x \in Live' : Exact(x) => Exact(x)'
  BY <1>1, <1>2, <1>4, <1>6 DEF Exact, Links
<1>12. Totals'
  <2>1. CASE \A x \in Live : Exact(x)
    BY <2>1, <1>2, <1>11 DEF Totals
  <2>2. CASE Doomed /\ n = NULL
    <3>1. Chain(f) = {f}
      BY <2>2, <1>0, <1>1, <1>2, ChainUnfolds
    <3>. QED
      BY <2>2, <3>1, <1>0, <1>2, <1>11 DEF Totals, Doomed
  <2>3. CASE Doomed /\ n # NULL
    <3>0. PICK C : C = Chain(f)
      OBVIOUS
    <3>1. /\ f \in C /\ C \subseteq Live
          /\ \A q \in C : pbufs[q].next \in C \cup {NULL}
          /\ \A S \in SUBSET Live : f \in S /\ ClosedUnderNext(S) => C \subseteq S
      BY <3>0, <1>1, <1>2, ChainIs
    <3>2. Chain(n)' = C \ {f}
      <4>1. ASSUME NEW S \in SUBSET Live', n \in S, ClosedUnderNext(S)'
            PROVE  C \ {f} \subseteq S
        <5>1. ClosedUnderNext(S \cup {f})
          BY <4>1, <1>0, <1>2, <1>6 DEF ClosedUnderNext
        <5>. QED
          BY <5>1, <3>1, <1>2
      <4>2. n \in C \ {f} /\ C \ {f} \subseteq Live'
        BY <2>3, <3>1, <1>0, <1>2, <1>5
      <4>4. ClosedUnderNext(C \ {f})'
        BY <3>1, <4>2, <1>4, <1>6 DEF ClosedUnderNext
      <4>3. Chain(n)' = {q \in Live' : \A S \in SUBSET Live' : n \in S /\ ClosedUnderNext(S)' => q \in S}
        BY DEF Chain
      <4>. QED
        BY <4>1, <4>2, <4>3, <4>4
    <3>3. Doomed'
      <4>1. \A p \in Chain(n)' : pbufs'[p].ref = 1
        BY <2>3, <3>0, <3>1, <3>2, <1>0, <1>2, <1>6 DEF Doomed
      <4>2. \A q \in Live' : pbufs'[q].next \in Chain(n)' => q \in Chain(n)'
        BY <2>3, <3>0, <3>2, <1>0, <1>2, <1>6 DEF Doomed
      <4>3. \A p \in Live' \ Chain(n)' : Exact(p)'
        BY <2>3, <3>0, <3>2, <1>0, <1>2, <1>11 DEF Doomed
      <4>4. Chain(freeing)' = Chain(n)'
        BY <1>2
      <4>. QED
        BY <4>1, <4>2, <4>3, <4>4, <1>2, <2>3 DEF Doomed
    <3>. QED
      BY <3>3 DEF Totals
  <2>. QED
    BY <2>1, <2>2, <2>3 DEF Totals, IInv, PacketInv
<1>13. HeapInv' /\ InMemory'
  <2>1. /\ avail = Elements \ Live /\ \A o \in Offsets : Owns(o) <=> o \in Live
        /\ \A x \in Live : Inside(x)
    BY <1>1, PayloadIs DEF IInv, PacketInv, InMemory
  <2>2. CASE f \in Offsets /\ MemFree(f) /\ avail' = avail
    <3>1. HeapInv' /\ ~Owns(f)' /\ \A o \in Offsets \ {f} : area'[o] = area[o]
      BY <2>1, <2>2, <1>1, <1>2, FreeTakes
    <3>2. \A o \in Offsets \ {f} : (Owns(o)' <=> Owns(o)) /\ (Owns(o) => SizeOf(o)' = SizeOf(o))
      BY <3>1, <1>1, OthersUnmoved
    <3>3. \A x \in Live' : Inside(x)'
      BY <2>1, <3>2, <1>2, <1>6 DEF Inside
    <3>4. PayloadsFit'
      BY <3>3, PayloadIs
    <3>5. \A o \in Offsets : Owns(o)' <=> o \in Live'
      BY <2>1, <3>1, <3>2, <1>2
    <3>. QED
      BY <2>1, <2>2, <3>1, <3>4, <3>5, <1>2, ElementsApart DEF InMemory
  <2>3. CASE f \in Elements /\ avail' = avail \cup {f} /\ UNCHANGED heapVars
    <3>1. HeapInv' /\ \A o : (Owns(o)' <=> Owns(o)) /\ SizeOf(o)' = SizeOf(o)
      BY <2>3, <1>1, HeapSame
    <3>2. \A x \in Live' : Inside(x)'
      BY <2>1, <3>1, <1>2, <1>6 DEF Inside
    <3>3. PayloadsFit'
      BY <3>2, PayloadIs
    <3>4. \A o \in Offsets : Owns(o)' <=> o \in Live'
      BY <2>1, <2>3, <3>1, <1>2, ElementsApart
    <3>. QED
      BY <2>1, <2>3, <3>1, <3>3, <3>4, <1>2 DEF InMemory
  <2>. QED
    BY <2>2, <2>3, <1>2 DEF Deallocate
<1>. QED
  BY <1>7, <1>8, <1>9, <1>10, <1>12, <1>13 DEF IInv, PacketInv

\* pbuf_dechain.
LEMMA DechainKeeps == \A p \in Live : IInv /\ PbufDechain(p) => IInv'
<1>. SUFFICES ASSUME NEW p \in Live, IInv, PbufDechain(p) PROVE IInv'
  OBVIOUS
<1>0. PICK q : q = pbufs[p].next
  OBVIOUS
<1>1. TypeOK /\ Links /\ Counted /\ PayloadsFit
  BY DEF IInv, PacketInv, InMemory
<1>2. /\ freeing = NULL /\ Predecessors(p) = {} /\ q # NULL /\ freeing' = q
      /\ pbufs' = [pbufs EXCEPT ![q].tot_len = pbufs[p].tot_len - pbufs[p].len,
                                ![p].next = NULL, ![p].tot_len = pbufs[p].len]
      /\ UNCHANGED <<heapVars, avail, held>> /\ Live' = Live
  BY <1>0 DEF PbufDechain, Idle, Packet, Live
<1>n. \A x \in Live : /\ pbufs[x].next \in Live \cup {NULL} /\ pbufs[x].ref \in Nat /\ pbufs[x].len \in Nat
                      /\ pbufs[x].tot_len \in Nat /\ pbufs[x].room \in Nat /\ x # NULL /\ x \in Pbufs
  BY <1>1, Fields DEF Links
<1>3. /\ q \in Live /\ \A x \in Live : pbufs[x].next # p
      /\ q # p
  BY <1>0, <1>2, <1>n, HeadAlone
<1>4. \A x \in Live : Exact(x)
  BY <1>2 DEF IInv, PacketInv, Totals, Doomed
<1>5. pbufs[p].tot_len - pbufs[p].len = pbufs[q].tot_len
  BY <1>0, <1>2, <1>3, <1>4, <1>n DEF Exact
<1>6. \A x \in Live : /\ pbufs'[x].next = IF x = p THEN NULL ELSE pbufs[x].next
                      /\ pbufs'[x].ref = pbufs[x].ref
                      /\ pbufs'[x].len = pbufs[x].len
                      /\ pbufs'[x].tot_len = IF x = p THEN pbufs[x].len ELSE pbufs[x].tot_len
                      /\ pbufs'[x].room = pbufs[x].room
  BY <1>1, <1>2, <1>3, <1>5, Fields DEF Live
<1>r. \A x \in Live : pbufs'[x] = [next |-> pbufs'[x].next, ref |-> pbufs'[x].ref, len |-> pbufs'[x].len,
                                   tot_len |-> pbufs'[x].tot_len, room |-> pbufs'[x].room]
  <2>. SUFFICES ASSUME NEW x \in Live
                PROVE  pbufs'[x] = [next |-> pbufs'[x].next, ref |-> pbufs'[x].ref, len |-> pbufs'[x].len,
                                    tot_len |-> pbufs'[x].tot_len, room |-> pbufs'[x].room]
    OBVIOUS
  <2>0. pbufs[x] = [next |-> pbufs[x].next, ref |-> pbufs[x].ref, len |-> pbufs[x].len,
                    tot_len |-> pbufs[x].tot_len, room |-> pbufs[x].room]
    BY <1>1, Fields
  <2>1. CASE x = p
    <3>1. pbufs'[p] = [pbufs[p] EXCEPT !.next = NULL, !.tot_len = pbufs[p].len]
      BY <1>2, <1>3 DEF Live
    <3>. QED
      BY <3>1, <2>0, <2>1
  <2>2. CASE x = q
    <3>1. pbufs'[q] = [pbufs[q] EXCEPT !.tot_len = pbufs[p].tot_len - pbufs[p].len]
      BY <1>2, <1>3 DEF Live
    <3>. QED
      BY <3>1, <2>0, <2>2
  <2>3. CASE x # p /\ x # q
    <3>1. pbufs'[x] = pbufs[x]
      BY <2>3, <1>2 DEF Live
    <3>. QED
      BY <3>1, <2>0
  <2>. QED
    BY <2>1, <2>2, <2>3
<1>l. \A x \in Live : pbufs'[x].next = IF x = p THEN NULL ELSE pbufs[x].next
  BY <1>6
<1>7. TypeOK'
  <2>1. ASSUME NEW x \in Live
        PROVE  pbufs'[x] \in [next : Pbufs \cup {NULL}, ref : Nat, len : Nat, tot_len : Nat, room : Nat]
    <3>1. /\ pbufs'[x].len \in Nat /\ pbufs'[x].tot_len \in Nat /\ pbufs'[x].room \in Nat
          /\ pbufs'[x].next \in Pbufs \cup {NULL} /\ pbufs'[x].ref \in Nat
      BY <1>6, <1>n
    <3>. QED
      BY <1>r, <3>1, RecordType
  <2>. QED
    BY <1>1, <1>2, <1>3, <1>n, <2>1 DEF TypeOK
<1>8. Links'
  BY <1>1, <1>2, <1>3, <1>l DEF Links
<1>9. Acyclic'
  BY <1>2, <1>6, <1>n, FewerPointers DEF IInv, PacketInv
<1>10. Counted'
  <2>c. Live' = Live /\ \A x \in Live : pbufs'[x].ref = pbufs[x].ref
    BY <1>2, <1>6
  <2>d. \A x \in Live : pbufs[x].ref = Pointers(x) /\ pbufs[x].ref > 0
    BY <1>1 DEF Counted
  <2>. SUFFICES ASSUME NEW x \in Live PROVE Pointers(x)' = Pointers(x)
    BY <2>c, <2>d DEF Counted
  <2>e. x # NULL
    BY <1>n
  <2>f. \A y \in Live : pbufs'[y].next = x <=> (pbufs[y].next = x /\ y # p)
    BY <1>l, <2>e
  <2>1. Predecessors(x)' = Predecessors(x) \ {p}
    BY <2>c, <2>f DEF Predecessors
  <2>2. p \in Predecessors(x) <=> x = q
    BY <1>0 DEF Predecessors
  <2>3. IsFiniteSet(Predecessors(x)) /\ Cardinality(Predecessors(x)) \in Nat /\ held[x] \in Nat
    BY <1>1, PointersFinite, Fields
  <2>4. Cardinality(Predecessors(x) \ {p}) = IF x = q THEN Cardinality(Predecessors(x)) - 1
                                                     ELSE Cardinality(Predecessors(x))
    BY <2>2, <2>3, FS_RemoveElement
  <2>5. Pointers(x)' = held[x] + Cardinality(Predecessors(x) \ {p}) + (IF x = q THEN 1 ELSE 0)
    BY <1>2, <2>1 DEF Pointers
  <2>6. Pointers(x) = held[x] + Cardinality(Predecessors(x)) + 0
    BY <1>2, <1>n DEF Pointers
  <2>. QED
    BY <2>3, <2>4, <2>5, <2>6
<1>11. Totals'
  <2>. SUFFICES ASSUME NEW x \in Live PROVE Exact(x)'
    BY <1>2 DEF Totals
  <2>1. CASE x = p
    BY <2>1, <1>6, <1>n DEF Exact
  <2>2. CASE x # p
    BY <2>2, <1>3, <1>4, <1>6, <1>n DEF Exact
  <2>. QED
    BY <2>1, <2>2
<1>12. HeapInv' /\ \A o : (Owns(o)' <=> Owns(o)) /\ SizeOf(o)' = SizeOf(o)
  BY <1>2, HeapSame DEF IInv
<1>13. InMemory'
  <2>1. \A x \in Live : Inside(x)'
    BY <1>1, <1>6, <1>12, PayloadIs DEF Inside
  <2>. QED
    BY <2>1, <1>2, <1>12, PayloadIs DEF InMemory, IInv, PacketInv
<1>. QED
  BY <1>7, <1>8, <1>9, <1>10, <1>11, <1>12, <1>13 DEF IInv, PacketInv

\* pbuf_cat and pbuf_chain: r is how many references to the second chain appear.
JoinStep(h, t, r) ==
    /\ Idle /\ Apart(h, t) /\ Live' = Live /\ UNCHANGED <<heapVars, avail, freeing>>
    /\ held' = IF r = 1 THEN held ELSE [held EXCEPT ![t] = @ - 1]
    /\ \A x \in Live :
          /\ pbufs'[x].next = IF x \in Chain(h) /\ pbufs[x].next = NULL THEN t ELSE pbufs[x].next
          /\ pbufs'[x].ref = IF x = t THEN pbufs[x].ref + r ELSE pbufs[x].ref
          /\ pbufs'[x].len = pbufs[x].len
          /\ pbufs'[x].tot_len = IF x \in Chain(h) THEN pbufs[x].tot_len + pbufs[t].tot_len
                                                   ELSE pbufs[x].tot_len
          /\ pbufs'[x].room = pbufs[x].room
    /\ \A x \in Live :
          pbufs'[x] = [next |-> pbufs'[x].next, ref |-> pbufs'[x].ref, len |-> pbufs'[x].len,
                       tot_len |-> pbufs'[x].tot_len, room |-> pbufs'[x].room]

\* The chain of h with that of t behind it, and one reference to t more or held no longer.
LEMMA JoinKeeps ==
    ASSUME IInv, NEW h \in Live, NEW t \in Live, NEW r \in {0, 1}, JoinStep(h, t, r)
    PROVE  IInv'
<1>. SUFFICES ASSUME Idle, Apart(h, t), Live' = Live, UNCHANGED <<heapVars, avail, freeing>>,
           held' = IF r = 1 THEN held ELSE [held EXCEPT ![t] = @ - 1],
           \A x \in Live :
              /\ pbufs'[x].next = IF x \in Chain(h) /\ pbufs[x].next = NULL THEN t ELSE pbufs[x].next
              /\ pbufs'[x].ref = IF x = t THEN pbufs[x].ref + r ELSE pbufs[x].ref
              /\ pbufs'[x].len = pbufs[x].len
              /\ pbufs'[x].tot_len = IF x \in Chain(h) THEN pbufs[x].tot_len + pbufs[t].tot_len
                                                       ELSE pbufs[x].tot_len
              /\ pbufs'[x].room = pbufs[x].room,
           \A x \in Live :
              pbufs'[x] = [next |-> pbufs'[x].next, ref |-> pbufs'[x].ref, len |-> pbufs'[x].len,
                           tot_len |-> pbufs'[x].tot_len, room |-> pbufs'[x].room]
              PROVE  IInv'
  BY Zenon DEF JoinStep
<1>0. PICK C : C = Chain(h)
  OBVIOUS
<1>1. TypeOK /\ Links /\ Counted /\ PayloadsFit /\ Acyclic
  BY DEF IInv, PacketInv, InMemory
<1>2. /\ freeing = NULL /\ held[t] > 0 /\ t \notin C
      /\ \A x \in Live : pbufs[x].next \in C => x \in C
  BY <1>0 DEF Idle, Apart
<1>n. \A x \in Live : /\ pbufs[x].next \in Live \cup {NULL} /\ pbufs[x].ref \in Nat /\ pbufs[x].len \in Nat
                      /\ pbufs[x].tot_len \in Nat /\ pbufs[x].room \in Nat /\ x # NULL /\ x \in Pbufs
                      /\ held[x] \in Nat
  BY <1>1, Fields DEF Links
<1>3. C \subseteq Live /\ \A x \in C : pbufs[x].next \in C \cup {NULL}
  BY <1>0, <1>1, ChainIs
<1>4. PICK l \in C : pbufs[l].next = NULL /\ \A m \in C : pbufs[m].next = NULL => m = l
  BY <1>0, <1>1, ChainEnds
<1>6. \A x \in Live : /\ pbufs'[x].next = IF x = l THEN t ELSE pbufs[x].next
                      /\ pbufs'[x].ref = IF x = t THEN pbufs[x].ref + r ELSE pbufs[x].ref
                      /\ pbufs'[x].len = pbufs[x].len
                      /\ pbufs'[x].tot_len = IF x \in C THEN pbufs[x].tot_len + pbufs[t].tot_len
                                                       ELSE pbufs[x].tot_len
                      /\ pbufs'[x].room = pbufs[x].room
  BY <1>0, <1>4
<1>7. TypeOK'
  <2>1. ASSUME NEW x \in Live
        PROVE  pbufs'[x] \in [next : Pbufs \cup {NULL}, ref : Nat, len : Nat, tot_len : Nat, room : Nat]
    <3>1. /\ pbufs'[x].len \in Nat /\ pbufs'[x].tot_len \in Nat /\ pbufs'[x].room \in Nat
          /\ pbufs'[x].next \in Pbufs \cup {NULL} /\ pbufs'[x].ref \in Nat
      BY <1>6, <1>n
    <3>. QED
      BY <3>1, RecordType
  <2>2. held' \in [Pbufs -> Nat]
    BY <1>1, <1>2, <1>n DEF TypeOK
  <2>. QED
    BY <1>1, <2>1, <2>2 DEF TypeOK
<1>8. Links'
  <2>1. \A x \in Pbufs : held'[x] > 0 => held[x] > 0
    BY <1>1, <1>2 DEF TypeOK
  <2>. QED
    BY <1>1, <1>6, <2>1 DEF Links
<1>9. Acyclic'
  <2>. SUFFICES ASSUME NEW S \in SUBSET Live, S # {}
                PROVE  /\ \E x \in S : pbufs'[x].next \notin S
                       /\ \E x \in S : \A y \in S : pbufs'[y].next # x
    BY DEF Acyclic
  <2>1. \E x \in S : pbufs'[x].next \notin S
    <3>1. CASE S \subseteq C
      <4>1. PICK x \in S : pbufs[x].next \notin S
        BY <1>1 DEF Acyclic
      <4>. QED
        BY <3>1, <4>1, <1>2, <1>6
    <3>2. CASE S \ C # {}
      <4>1. PICK x \in S \ C : pbufs[x].next \notin S \ C
        BY <3>2, <1>1 DEF Acyclic
      <4>. QED
        BY <4>1, <1>2, <1>6, x # l
    <3>. QED
      BY <3>1, <3>2
  <2>2. \E x \in S : \A y \in S : pbufs'[y].next # x
    <3>1. CASE S \cap C # {}
      <4>1. PICK x \in S \cap C : \A y \in S \cap C : pbufs[y].next # x
        BY <3>1, <1>1 DEF Acyclic
      <4>. QED
        BY <4>1, <1>2, <1>6
    <3>2. CASE S \cap C = {}
      <4>1. PICK x \in S : \A y \in S : pbufs[y].next # x
        BY <1>1 DEF Acyclic
      <4>. QED
        BY <3>2, <4>1, <1>6
    <3>. QED
      BY <3>1, <3>2
  <2>. QED
    BY <2>1, <2>2
<1>10. Counted'
  <2>. SUFFICES ASSUME NEW x \in Live PROVE pbufs'[x].ref = Pointers(x)' /\ pbufs'[x].ref > 0
    BY DEF Counted
  <2>1. pbufs[x].ref = Pointers(x) /\ pbufs[x].ref > 0
    BY <1>1 DEF Counted
  <2>2. CASE x # t
    <3>1. Predecessors(x)' = Predecessors(x)
      BY <2>2, <1>4, <1>6, <1>n DEF Predecessors
    <3>2. held'[x] = held[x]
      BY <2>2, <1>1, <1>n DEF TypeOK
    <3>. QED
      BY <2>1, <2>2, <3>1, <3>2, <1>6 DEF Pointers
  <2>3. CASE x = t
    <3>1. Predecessors(x)' = Predecessors(x) \cup {l} /\ l \notin Predecessors(x)
      BY <2>3, <1>3, <1>4, <1>6, <1>n DEF Predecessors
    <3>2. held'[x] = held[x] + r - 1
      BY <2>3, <1>1, <1>n DEF TypeOK
    <3>3. IsFiniteSet(Predecessors(x)) /\ Cardinality(Predecessors(x)) \in Nat
      BY <1>1, PointersFinite
    <3>4. Cardinality(Predecessors(x) \cup {l}) = Cardinality(Predecessors(x)) + 1
      BY <3>1, <3>3, FS_AddElement
    <3>5. Pointers(x) = held[x] + Cardinality(Predecessors(x)) + 0
      BY <1>2, <1>n DEF Pointers
    <3>6. Pointers(x)' = held[x] + r - 1 + (Cardinality(Predecessors(x)) + 1) + 0
      BY <1>2, <1>n, <3>1, <3>2, <3>4 DEF Pointers
    <3>7. pbufs'[x].ref = pbufs[x].ref + r
      BY <2>3, <1>6
    <3>. QED
      BY <2>1, <3>3, <3>5, <3>6, <3>7, <1>n
  <2>. QED
    BY <2>2, <2>3
<1>11. Totals'
  <2>0. \A x \in Live : Exact(x)
    BY <1>2 DEF IInv, PacketInv, Totals, Doomed
  <2>. SUFFICES ASSUME NEW x \in Live PROVE Exact(x)'
    BY DEF Totals
  <2>1. pbufs[x].tot_len = pbufs[x].len +
            IF pbufs[x].next = NULL THEN 0 ELSE pbufs[pbufs[x].next].tot_len
    BY <2>0 DEF Exact
  <2>2. CASE x = l
    BY <2>1, <2>2, <1>2, <1>3, <1>4, <1>6, <1>n DEF Exact
  <2>3. CASE x \in C /\ x # l
    <3>1. pbufs[x].next \in C /\ pbufs[x].next \in Live
      BY <2>3, <1>3, <1>4
    <3>2. /\ pbufs'[x].tot_len = pbufs[x].tot_len + pbufs[t].tot_len
          /\ pbufs'[pbufs[x].next].tot_len = pbufs[pbufs[x].next].tot_len + pbufs[t].tot_len
      BY <2>3, <3>1, <1>6
    <3>. QED
      BY <2>1, <2>3, <3>1, <3>2, <1>6, <1>n DEF Exact
  <2>4. CASE x \notin C
    <3>1. pbufs[x].next \notin C /\ pbufs[x].next \in Live \cup {NULL} /\ x # l
      BY <2>4, <1>2, <1>n
    <3>. QED
      BY <2>1, <2>4, <3>1, <1>6 DEF Exact
  <2>. QED
    BY <2>2, <2>3, <2>4
<1>12. HeapInv' /\ \A o : (Owns(o)' <=> Owns(o)) /\ SizeOf(o)' = SizeOf(o)
  BY HeapSame DEF IInv
<1>13. InMemory'
  <2>1. \A x \in Live : Inside(x)'
    BY <1>1, <1>6, <1>12, PayloadIs DEF Inside
  <2>. QED
    BY <2>1, <1>12, PayloadIs DEF InMemory, IInv, PacketInv
<1>. QED
  BY <1>7, <1>8, <1>9, <1>10, <1>11, <1>12, <1>13 DEF IInv, PacketInv

\* J is Joined(h, t), field by field.
JoinFacts(J, h, t) ==
    /\ \A x \in Live :
          /\ J[x].next = IF x \in Chain(h) /\ pbufs[x].next = NULL THEN t ELSE pbufs[x].next
          /\ J[x].ref = pbufs[x].ref
          /\ J[x].len = pbufs[x].len
          /\ J[x].tot_len = IF x \in Chain(h) THEN pbufs[x].tot_len + pbufs[t].tot_len ELSE pbufs[x].tot_len
          /\ J[x].room = pbufs[x].room
    /\ \A x \in Live : J[x] = [next |-> J[x].next, ref |-> J[x].ref, len |-> J[x].len,
                                tot_len |-> J[x].tot_len, room |-> J[x].room]

\* What Joined sets, field by field.
LEMMA JoinedFields ==
    ASSUME TypeOK, NEW h \in Live, NEW t \in Live, NEW J, J = Joined(h, t)
    PROVE  JoinFacts(J, h, t)
<1>1. ASSUME NEW x \in Live
      PROVE  /\ J[x].next = IF x \in Chain(h) /\ pbufs[x].next = NULL THEN t ELSE pbufs[x].next
             /\ J[x].ref = pbufs[x].ref
             /\ J[x].len = pbufs[x].len
             /\ J[x].tot_len = IF x \in Chain(h) THEN pbufs[x].tot_len + pbufs[t].tot_len ELSE pbufs[x].tot_len
             /\ J[x].room = pbufs[x].room
             /\ J[x] = [next |-> J[x].next, ref |-> J[x].ref, len |-> J[x].len, tot_len |-> J[x].tot_len,
                        room |-> J[x].room]
  <2>1. pbufs[x] = [next |-> pbufs[x].next, ref |-> pbufs[x].ref, len |-> pbufs[x].len,
                    tot_len |-> pbufs[x].tot_len, room |-> pbufs[x].room]
    BY Fields
  <2>2. CASE x \in Chain(h)
    <3>1. J[x] = [pbufs[x] EXCEPT !.tot_len = @ + pbufs[t].tot_len,
                                  !.next = IF @ = NULL THEN t ELSE @]
      BY <2>2 DEF Joined
    <3>. QED
      BY <3>1, <2>1, <2>2
  <2>3. CASE x \notin Chain(h)
    <3>1. J[x] = pbufs[x]
      BY <2>3 DEF Joined
    <3>. QED
      BY <3>1, <2>1, <2>3
  <2>. QED
    BY <2>2, <2>3
<1>. QED
  BY <1>1, Zenon DEF JoinFacts

\* pbuf_cat.
LEMMA CatKeeps == \A h, t \in Live : IInv /\ PbufCat(h, t) => IInv'
<1>. SUFFICES ASSUME NEW h \in Live, NEW t \in Live, IInv, PbufCat(h, t) PROVE IInv'
  OBVIOUS
<1>0. PICK J : J = Joined(h, t)
  OBVIOUS
<1>1. TypeOK
  BY DEF IInv, PacketInv
<1>2. /\ Idle /\ Apart(h, t) /\ pbufs' = J /\ held' = [held EXCEPT ![t] = @ - 1]
      /\ UNCHANGED <<heapVars, avail, freeing>>
  BY <1>0 DEF PbufCat, DropRef
<1>3. Live' = Live
  BY <1>0, <1>2 DEF Joined, Live
<1>4. JoinFacts(J, h, t)
  BY <1>0, <1>1, JoinedFields DEF JoinFacts
<1>5. \A x \in Live : pbufs[x].ref \in Nat
  BY <1>1, Fields
<1>6. JoinStep(h, t, 0)
  BY <1>2, <1>3, <1>4, <1>5 DEF JoinStep, JoinFacts
<1>. QED
  BY <1>6, JoinKeeps

\* pbuf_chain.
LEMMA ChainKeeps == \A h, t \in Live : IInv /\ PbufChain(h, t) => IInv'
<1>. SUFFICES ASSUME NEW h \in Live, NEW t \in Live, IInv, PbufChain(h, t) PROVE IInv'
  OBVIOUS
<1>0. PICK J : J = Joined(h, t)
  OBVIOUS
<1>1. TypeOK
  BY DEF IInv, PacketInv
<1>2. /\ Idle /\ Apart(h, t) /\ pbufs' = [J EXCEPT ![t].ref = @ + 1] /\ held' = held
      /\ UNCHANGED <<heapVars, avail, freeing>>
  BY <1>0 DEF PbufChain
<1>3. DOMAIN J = Live /\ Live' = Live
  <2>1. DOMAIN J = Live
    BY <1>0 DEF Joined
  <2>. QED
    BY <1>2, <2>1 DEF Live
<1>4. JoinFacts(J, h, t)
  BY <1>0, <1>1, JoinedFields DEF JoinFacts
<1>5. \A x \in Live : x # t => pbufs'[x] = J[x]
  BY <1>2, <1>3
<1>6. /\ pbufs'[t].next = J[t].next /\ pbufs'[t].ref = J[t].ref + 1 /\ pbufs'[t].len = J[t].len
      /\ pbufs'[t].tot_len = J[t].tot_len /\ pbufs'[t].room = J[t].room
      /\ pbufs'[t] = [next |-> pbufs'[t].next, ref |-> pbufs'[t].ref, len |-> pbufs'[t].len,
                      tot_len |-> pbufs'[t].tot_len, room |-> pbufs'[t].room]
  <2>1. pbufs'[t] = [J[t] EXCEPT !.ref = @ + 1]
    BY <1>2, <1>3
  <2>2. J[t] = [next |-> J[t].next, ref |-> J[t].ref, len |-> J[t].len,
                tot_len |-> J[t].tot_len, room |-> J[t].room]
    BY <1>4 DEF JoinFacts
  <2>. QED
    BY <2>1, <2>2
<1>7. \A x \in Live :
         /\ pbufs'[x].next = J[x].next /\ pbufs'[x].len = J[x].len
         /\ pbufs'[x].tot_len = J[x].tot_len /\ pbufs'[x].room = J[x].room
         /\ pbufs'[x].ref = IF x = t THEN J[x].ref + 1 ELSE J[x].ref
  BY <1>5, <1>6
<1>8. \A x \in Live :
         pbufs'[x] = [next |-> pbufs'[x].next, ref |-> pbufs'[x].ref, len |-> pbufs'[x].len,
                      tot_len |-> pbufs'[x].tot_len, room |-> pbufs'[x].room]
  <2>. SUFFICES ASSUME NEW x \in Live, x # t
                PROVE  pbufs'[x] = [next |-> pbufs'[x].next, ref |-> pbufs'[x].ref, len |-> pbufs'[x].len,
                                    tot_len |-> pbufs'[x].tot_len, room |-> pbufs'[x].room]
    BY <1>6
  <2>1. J[x] = [next |-> J[x].next, ref |-> J[x].ref, len |-> J[x].len,
                tot_len |-> J[x].tot_len, room |-> J[x].room]
    BY <1>4 DEF JoinFacts
  <2>. QED
    BY <2>1, <1>5, Zenon
<1>9. JoinStep(h, t, 1)
  <2>1. \A x \in Live :
          /\ pbufs'[x].next = IF x \in Chain(h) /\ pbufs[x].next = NULL THEN t ELSE pbufs[x].next
          /\ pbufs'[x].ref = IF x = t THEN pbufs[x].ref + 1 ELSE pbufs[x].ref
          /\ pbufs'[x].len = pbufs[x].len
          /\ pbufs'[x].tot_len = IF x \in Chain(h) THEN pbufs[x].tot_len + pbufs[t].tot_len
                                                   ELSE pbufs[x].tot_len
          /\ pbufs'[x].room = pbufs[x].room
    BY <1>4, <1>7 DEF JoinFacts
  <2>. QED
    BY <1>2, <1>3, <1>8, <2>1 DEF JoinStep
<1>. QED
  BY <1>9, JoinKeeps

\* A set of numbers that is not empty has a least one.
LEMMA LeastNumber ==
    ASSUME NEW T \in SUBSET Nat, T # {}
    PROVE  \E x \in T : \A y \in T : x <= y
<1>1. \E x \in T : \A y \in T : <<y, x>> \notin OpToRel(<, Nat)
  BY NatLessThanWellFounded, WFMin
<1>2. \A x, y \in Nat : y < x => <<y, x>> \in OpToRel(<, Nat)
  BY DEF OpToRel
<1>3. \E x \in T : \A y \in T : ~(y < x)
  BY <1>1, <1>2, Zenon
<1>. QED
  BY <1>3

\* Induction, on the set of the numbers that have a property.
LEMMA SetInduction ==
    ASSUME NEW S, 0 \in S, \A n \in Nat : n \in S => n + 1 \in S
    PROVE  Nat \subseteq S
<1>. SUFFICES ASSUME Nat \ S # {} PROVE FALSE
  OBVIOUS
<1>1. PICK x \in Nat \ S : \A y \in Nat \ S : x <= y
  BY LeastNumber
<1>2. x # 0 /\ x - 1 \in Nat
  BY <1>1
<1>. QED
  BY <1>1, <1>2

\* A struct pbuf.
PbufType == [next : Pbufs \cup {NULL}, ref : Nat, len : Nat, tot_len : Nat, room : Nat]

\* pbuf_alloc took c[1], ..., c[n] and linked them; ok: they are all it asked for.
Fresh(c, n, ok) ==
    /\ Idle /\ avail' \subseteq Elements
    /\ Live' = Live \cup {c[i] : i \in 1 .. n}
    /\ \A x \in Live : pbufs'[x] = pbufs[x]
    /\ \A i \in 1 .. n : /\ pbufs'[c[i]] \in PbufType /\ pbufs'[c[i]].ref = 1
                         /\ pbufs'[c[i]].next = IF i < n THEN c[i + 1] ELSE NULL
    /\ held' = IF ok THEN [held EXCEPT ![c[1]] = @ + 1] ELSE held
    /\ freeing' = IF ok THEN NULL ELSE c[1]
    /\ ok => \A i \in 1 .. n :
                pbufs'[c[i]].tot_len = pbufs'[c[i]].len + IF i < n THEN pbufs'[c[i + 1]].tot_len ELSE 0

\* Pbufs that nobody pointed to, in a chain of their own, disturb nothing.
LEMMA FreshKeeps ==
    ASSUME PacketInv, NEW n \in Nat \ {0}, NEW c \in [1 .. n -> Pbufs \ Live],
           \A i, j \in 1 .. n : c[i] = c[j] => i = j,
           NEW ok \in BOOLEAN, Fresh(c, n, ok)
    PROVE  TypeOK' /\ Links' /\ Acyclic' /\ Counted' /\ Totals'
<1>. DEFINE N == {c[i] : i \in 1 .. n}
<1>0. TypeOK /\ Links /\ Acyclic /\ Counted /\ \A x \in Live : Exact(x)
  BY DEF PacketInv, Totals, Doomed, Fresh, Idle
<1>1. /\ freeing = NULL /\ Live' = Live \cup N /\ \A x \in Live : pbufs'[x] = pbufs[x]
      /\ held' = (IF ok THEN [held EXCEPT ![c[1]] = @ + 1] ELSE held)
      /\ freeing' = (IF ok THEN NULL ELSE c[1]) /\ avail' \subseteq Elements
  BY DEF Fresh, Idle
<1>2. \A i \in 1 .. n : /\ pbufs'[c[i]] \in PbufType /\ pbufs'[c[i]].ref = 1
                        /\ pbufs'[c[i]].next = IF i < n THEN c[i + 1] ELSE NULL
  BY DEF Fresh
<1>3. /\ 1 \in 1 .. n /\ \A i \in 1 .. n : c[i] \in Pbufs /\ c[i] \notin Live /\ c[i] # NULL
      /\ \A i \in 1 .. n : (i < n => i + 1 \in 1 .. n) /\ (i # 1 => i - 1 \in 1 .. n /\ i - 1 < n /\ (i - 1) + 1 = i)
  BY NullIsNone
<1>4. /\ \A x \in Live : pbufs[x].next \in Live \cup {NULL} /\ x # NULL /\ x \in Pbufs
      /\ held \in [Pbufs -> Nat]
  BY <1>0, NullIsNone DEF Links, TypeOK
<1>5. \A i \in 1 .. n : pbufs'[c[i]].next \in N \cup {NULL}
  BY <1>2, <1>3
<1>6. N \cap Live = {} /\ NULL \notin N /\ N \subseteq Pbufs /\ \A x \in N : \E i \in 1 .. n : x = c[i]
  BY <1>3
<1>7. TypeOK'
  <2>1. \A x \in Live' : pbufs'[x] \in PbufType
    BY <1>0, <1>1, <1>2, <1>6 DEF TypeOK, PbufType
  <2>2. held' \in [Pbufs -> Nat]
    BY <1>1, <1>3, <1>4
  <2>. QED
    BY <1>0, <1>1, <1>3, <1>6, <2>1, <2>2 DEF TypeOK, PbufType
<1>8. Links'
  <2>1. \A x \in Live' : pbufs'[x].next \in Live' \cup {NULL}
    BY <1>1, <1>4, <1>5, <1>6
  <2>2. \A x \in Pbufs : held'[x] > 0 => x \in Live'
    BY <1>0, <1>1, <1>3, <1>4 DEF Links
  <2>. QED
    BY <1>1, <1>3, <2>1, <2>2 DEF Links
<1>9. Acyclic'
  <2>. SUFFICES ASSUME NEW S \in SUBSET Live', S # {}
                PROVE  /\ \E x \in S : pbufs'[x].next \notin S
                       /\ \E x \in S : \A y \in S : pbufs'[y].next # x
    BY DEF Acyclic
  <2>0. NULL \notin S
    BY <1>1, <1>4, <1>6
  <2>1. \E x \in S : pbufs'[x].next \notin S
    <3>1. CASE S \cap Live # {}
      <4>1. PICK x \in S \cap Live : pbufs[x].next \notin S \cap Live
        BY <3>1, <1>0 DEF Acyclic
      <4>. QED
        BY <4>1, <2>0, <1>1, <1>4
    <3>2. CASE S \cap Live = {}
      <4>. DEFINE D == {k \in Nat : n - k \in 1 .. n /\ c[n - k] \in S}
      <4>1. PICK s \in S : s \in N
        BY <3>2, <1>1
      <4>2. PICK i \in 1 .. n : s = c[i]
        BY <4>1
      <4>3. n - i \in D
        BY <4>1, <4>2, n - (n - i) = i
      <4>4. PICK k \in D : \A m \in D : k <= m
        BY <4>3, LeastNumber
      <4>5. n - k \in 1 .. n /\ c[n - k] \in S
        OBVIOUS
      <4>6. CASE n - k < n
        <5>1. k - 1 \in Nat /\ n - (k - 1) = (n - k) + 1 /\ (n - k) + 1 \in 1 .. n
          BY <4>5, <4>6
        <5>2. k - 1 \notin D
          BY <4>4, <5>1
        <5>3. c[(n - k) + 1] \notin S
          BY <5>1, <5>2
        <5>. QED
          BY <4>5, <4>6, <5>3, <1>2
      <4>7. CASE n - k = n
        BY <4>5, <4>7, <2>0, <1>2
      <4>. QED
        BY <4>5, <4>6, <4>7
    <3>. QED
      BY <3>1, <3>2
  <2>2. \E x \in S : \A y \in S : pbufs'[y].next # x
    <3>1. CASE S \cap N # {}
      <4>. DEFINE D == {k \in 1 .. n : c[k] \in S}
      <4>1. D \in SUBSET Nat /\ D # {}
        BY <3>1
      <4>2. PICK k \in D : \A m \in D : k <= m
        BY <4>1, LeastNumber
      <4>3. k \in 1 .. n /\ c[k] \in S
        OBVIOUS
      <4>4. ASSUME NEW y \in S, pbufs'[y].next = c[k] PROVE FALSE
        <5>1. CASE y \in Live
          BY <5>1, <4>3, <4>4, <1>1, <1>3, <1>4
        <5>2. CASE y \in N
          <6>1. PICK j \in 1 .. n : y = c[j]
            BY <5>2
          <6>2. j < n /\ c[j + 1] = c[k] /\ j + 1 \in 1 .. n
            BY <6>1, <4>3, <4>4, <1>2, <1>3
          <6>3. j + 1 = k
            BY <6>2, <4>3
          <6>4. j \in D
            BY <6>1, <4>4
          <6>. QED
            BY <6>3, <6>4, <4>2
        <5>. QED
          BY <5>1, <5>2, <1>1
      <4>. QED
        BY <4>3, <4>4
    <3>2. CASE S \cap N = {}
      <4>1. S \subseteq Live
        BY <3>2, <1>1
      <4>2. PICK x \in S : \A y \in S : pbufs[y].next # x
        BY <4>1, <1>0 DEF Acyclic
      <4>. QED
        BY <4>1, <4>2, <1>1
    <3>. QED
      BY <3>1, <3>2
  <2>. QED
    BY <2>1, <2>2
<1>10. Counted'
  <2>1. ASSUME NEW x \in Live PROVE pbufs'[x].ref = Pointers(x)' /\ pbufs'[x].ref > 0
    <3>1. Predecessors(x)' = Predecessors(x)
      BY <1>1, <1>5, <1>6, <1>4 DEF Predecessors
    <3>2. held'[x] = held[x] /\ freeing' # x /\ freeing # x
      BY <1>1, <1>3, <1>4
    <3>3. Pointers(x)' = Pointers(x)
      BY <3>1, <3>2 DEF Pointers
    <3>. QED
      BY <3>3, <1>0, <1>1 DEF Counted
  <2>2. ASSUME NEW i \in 1 .. n PROVE pbufs'[c[i]].ref = Pointers(c[i])' /\ pbufs'[c[i]].ref > 0
    <3>0. held[c[i]] = 0 /\ held'[c[i]] = IF ok /\ i = 1 THEN 1 ELSE 0
      BY <1>0, <1>1, <1>3, <1>4 DEF Links
    <3>1. (freeing' = c[i]) <=> (~ok /\ i = 1)
      BY <1>1, <1>3
    <3>2. Predecessors(c[i])' = IF i = 1 THEN {} ELSE {c[i - 1]}
      <4>1. ASSUME NEW y \in Live' PROVE (pbufs'[y].next = c[i]) <=> (i # 1 /\ y = c[i - 1])
        <5>1. CASE y \in Live
          BY <5>1, <1>1, <1>3, <1>4
        <5>2. CASE y \in N
          <6>1. PICK j \in 1 .. n : y = c[j]
            BY <5>2
          <6>2. (pbufs'[y].next = c[i]) <=> (j < n /\ j + 1 = i)
            BY <6>1, <1>2, <1>3
          <6>. QED
            BY <6>1, <6>2, <1>3
        <5>. QED
          BY <5>1, <5>2, <1>1
      <4>2. i # 1 => c[i - 1] \in Live'
        BY <1>1, <1>3
      <4>3. Predecessors(c[i])' = {y \in Live' : pbufs'[y].next = c[i]}
        <5>1. c' = c /\ i' = i
          OBVIOUS
        <5>. QED
          BY <5>1 DEF Predecessors
      <4>. QED
        BY <4>1, <4>2, <4>3
    <3>3. Cardinality(Predecessors(c[i])') = IF i = 1 THEN 0 ELSE 1
      BY <3>2, FS_EmptySet, FS_Singleton
    <3>4. Pointers(c[i])' = held'[c[i]] + Cardinality(Predecessors(c[i])') + (IF freeing' = c[i] THEN 1 ELSE 0)
      BY DEF Pointers
    <3>. QED
      BY <3>0, <3>1, <3>3, <3>4, <1>2
  <2>. QED
    BY <2>1, <2>2, <1>1 DEF Counted
<1>11. \A x \in Live : Exact(x)'
  BY <1>0, <1>1, <1>4 DEF Exact
<1>12. Totals'
  <2>1. CASE ok
    <3>1. ASSUME NEW i \in 1 .. n PROVE Exact(c[i])'
      <4>1. pbufs'[c[i]].tot_len = pbufs'[c[i]].len + IF i < n THEN pbufs'[c[i + 1]].tot_len ELSE 0
        BY <2>1 DEF Fresh
      <4>2. pbufs'[c[i]].next = IF i < n THEN c[i + 1] ELSE NULL
        BY <1>2
      <4>. QED
        BY <4>1, <4>2, <1>3 DEF Exact
    <3>2. \A x \in Live' : Exact(x)'
      BY <3>1, <1>1, <1>6, <1>11
    <3>. QED
      BY <3>2 DEF Totals
  <2>2. CASE ~ok
    <3>0. PICK f : f = c[1]
      OBVIOUS
    <3>1. ASSUME NEW S \in SUBSET Live', f \in S, ClosedUnderNext(S)' PROVE N \subseteq S
      <4>. DEFINE I == {k \in Nat : k + 1 \in 1 .. n => c[k + 1] \in S}
      <4>1. 0 \in I
        BY <3>0, <3>1
      <4>2. ASSUME NEW k \in Nat, k \in I PROVE k + 1 \in I
        <5>. SUFFICES ASSUME (k + 1) + 1 \in 1 .. n PROVE c[(k + 1) + 1] \in S
          OBVIOUS
        <5>1. k + 1 \in 1 .. n /\ k + 1 < n
          OBVIOUS
        <5>2. c[k + 1] \in S /\ pbufs'[c[k + 1]].next = c[(k + 1) + 1] /\ c[(k + 1) + 1] # NULL
          BY <4>2, <5>1, <1>2, <1>3
        <5>. QED
          BY <5>2, <3>1 DEF ClosedUnderNext
      <4>. HIDE DEF I
      <4>3. Nat \subseteq I
        BY <4>1, <4>2, SetInduction
      <4>4. \A i \in 1 .. n : c[i] \in S
        <5>. SUFFICES ASSUME NEW i \in 1 .. n PROVE c[i] \in S
          OBVIOUS
        <5>1. i - 1 \in Nat /\ (i - 1) + 1 = i
          OBVIOUS
        <5>2. i - 1 \in I
          BY <5>1, <4>3
        <5>. QED
          BY <5>1, <5>2 DEF I
      <4>. QED
        BY <4>4
    <3>2. f \in N /\ N \subseteq Live' /\ ClosedUnderNext(N)'
      <4>1. N' = N
        OBVIOUS
      <4>. QED
        BY <4>1, <3>0, <1>1, <1>3, <1>5 DEF ClosedUnderNext
    <3>3. Chain(f)' = {q \in Live' : \A S \in SUBSET Live' : f \in S /\ ClosedUnderNext(S)' => q \in S}
      BY DEF Chain
    <3>4. Chain(f)' = N
      BY <3>1, <3>2, <3>3
    <3>5. Chain(freeing)' = N
      BY <3>0, <3>4, <2>2, <1>1
    <3>6. \A q \in Live' : pbufs'[q].next \in N => q \in N
      BY <1>1, <1>4, <1>6
    <3>. QED
      <4>. HIDE DEF N
      <4>1. freeing' # NULL
        BY <2>2, <1>1, <1>3
      <4>2. \A p \in N : pbufs'[p].ref = 1
        BY <1>2, <1>6
      <4>3. \A p \in Live' \ N : Exact(p)'
        BY <1>1, <1>11
      <4>. QED
        BY <3>5, <3>6, <4>1, <4>2, <4>3 DEF Totals, Doomed
  <2>. QED
    BY <2>1, <2>2
<1>. QED
  BY <1>7, <1>8, <1>9, <1>10, <1>12

\* A single pbuf that nothing points to yet.
LEMMA WithIs ==
    ASSUME TypeOK, NEW p \in Pbufs, p \notin Live, NEW len \in Nat, NEW room \in Nat,
           Idle, avail' \subseteq Elements, pbufs' = With(p, Pbuf(NULL, len, len, room)),
           held' = [held EXCEPT ![p] = @ + 1], UNCHANGED freeing
    PROVE  /\ Fresh([i \in 1 .. 1 |-> p], 1, TRUE)
           /\ Live' = Live \cup {p} /\ \A x \in Live : pbufs'[x] = pbufs[x]
           /\ pbufs'[p].len = len /\ pbufs'[p].room = room
<1>0. PICK c : c = [i \in 1 .. 1 |-> p]
  OBVIOUS
<1>1. c[1] = p /\ {c[i] : i \in 1 .. 1} = {p} /\ \A i \in 1 .. 1 : i = 1
  BY <1>0
<1>2. Live' = Live \cup {p} /\ (\A x \in Live : pbufs'[x] = pbufs[x])
      /\ pbufs'[p] = [next |-> NULL, ref |-> 1, len |-> len, tot_len |-> len, room |-> room]
  BY DEF With, Pbuf, Live
<1>3. /\ pbufs'[p].next = NULL /\ pbufs'[p].ref = 1 /\ pbufs'[p].len = len
      /\ pbufs'[p].tot_len = len /\ pbufs'[p].room = room /\ pbufs'[p] \in PbufType
  BY <1>2 DEF PbufType
<1>4. Fresh(c, 1, TRUE)
  <2>1. \A i \in 1 .. 1 : /\ pbufs'[c[i]] \in PbufType /\ pbufs'[c[i]].ref = 1
                          /\ pbufs'[c[i]].next = IF i < 1 THEN c[i + 1] ELSE NULL
    BY <1>1, <1>3
  <2>2. \A i \in 1 .. 1 :
            pbufs'[c[i]].tot_len = pbufs'[c[i]].len + IF i < 1 THEN pbufs'[c[i + 1]].tot_len ELSE 0
    BY <1>1, <1>3
  <2>. QED
    BY <1>1, <1>2, <2>1, <2>2 DEF Fresh, Idle
<1>. QED
  BY <1>0, <1>2, <1>3, <1>4

\* The same for one pbuf.
LEMMA OneFresh ==
    ASSUME PacketInv, NEW p \in Pbufs, p \notin Live, Fresh([i \in 1 .. 1 |-> p], 1, TRUE)
    PROVE  TypeOK' /\ Links' /\ Acyclic' /\ Counted' /\ Totals'
<1>0. PICK c : c = [i \in 1 .. 1 |-> p]
  OBVIOUS
<1>1. c \in [1 .. 1 -> Pbufs \ Live] /\ \A i, j \in 1 .. 1 : c[i] = c[j] => i = j
  BY <1>0
<1>. QED
  BY <1>0, <1>1, FreshKeeps, 1 \in Nat \ {0}, TRUE \in BOOLEAN

\* Nothing moves.
LEMMA Unmoved == IInv /\ UNCHANGED <<heapVars, packetVars>> => IInv'
<1>. SUFFICES ASSUME IInv, UNCHANGED <<heapVars, packetVars>> PROVE IInv'
  OBVIOUS
<1>1. pbufs' = pbufs /\ avail' = avail /\ held' = held /\ freeing' = freeing /\ Live' = Live
  BY DEF packetVars, Live
<1>2. OnlyRefs
  BY <1>1 DEF OnlyRefs
<1>3. /\ HeapInv' /\ Acyclic' /\ InMemory'
      /\ \A p : Predecessors(p)' = Predecessors(p) /\ Chain(p)' = Chain(p)
      /\ \A p \in Live : Exact(p) => Exact(p)'
  BY <1>2, OnlyRefsKeeps
<1>4. TypeOK' /\ Links'
  BY <1>1 DEF IInv, PacketInv, TypeOK, Links
<1>5. Counted'
  BY <1>1, <1>3 DEF IInv, PacketInv, Counted, Pointers
<1>6. Totals'
  <2>1. Chain(freeing)' = Chain(freeing)
    BY <1>1 DEF Chain, ClosedUnderNext
  <2>. QED
    BY <2>1, <1>1, <1>3 DEF IInv, PacketInv, Totals, Doomed
<1>. QED
  BY <1>3, <1>4, <1>5, <1>6 DEF IInv, PacketInv

\* pbuf_alloc of a PBUF_RAM.
LEMMA RamKeeps == \A room \in HeadRooms, len \in Lengths : IInv /\ AllocRam(room, len) => IInv'
<1>. SUFFICES ASSUME NEW room \in HeadRooms, NEW len \in Lengths, IInv, AllocRam(room, len) PROVE IInv'
  OBVIOUS
<1>0. PICK size : size = SIZEOF_STRUCT_PBUF + room + len
  OBVIOUS
<1>1. /\ room \in Nat /\ len \in Nat /\ SIZEOF_STRUCT_PBUF \in Nat /\ size \in Nat
      /\ TypeOK /\ HeapInv /\ PacketInv /\ PayloadsFit /\ avail = Elements \ Live
      /\ \A o \in Offsets : Owns(o) <=> o \in Live
  BY <1>0, PacketAssumption DEF IInv, PacketInv, InMemory
<1>2. ASSUME NEW h \in Offsets, MemMalloc(size, h), pbufs' = With(h, Pbuf(NULL, len, len, room)),
             TakeRef(h), UNCHANGED <<avail, freeing>>, Idle
      PROVE  IInv'
  <2>1. /\ HeapInv' /\ ~Owns(h) /\ Owns(h)' /\ SizeOf(h)' >= size
        /\ \A o \in Offsets \ {h} : area'[o] = area[o]
    BY <1>1, <1>2, MallocGives
  <2>2. \A o \in Offsets \ {h} : (Owns(o)' <=> Owns(o)) /\ (Owns(o) => SizeOf(o)' = SizeOf(o))
    BY <2>1, <1>1, OthersUnmoved
  <2>3. h \in Pbufs /\ h \notin Live /\ h \notin Elements
    BY <1>1, <2>1, ElementsApart
  <2>4. /\ Fresh([i \in 1 .. 1 |-> h], 1, TRUE)
        /\ Live' = Live \cup {h} /\ \A x \in Live : pbufs'[x] = pbufs[x]
        /\ pbufs'[h].len = len /\ pbufs'[h].room = room
    BY <1>1, <1>2, <2>3, WithIs DEF TypeOK, TakeRef
  <2>5. TypeOK' /\ Links' /\ Acyclic' /\ Counted' /\ Totals'
    BY <2>3, <2>4, <1>1, OneFresh
  <2>6. \A x \in Live' : Inside(x)'
    <3>1. ASSUME NEW x \in Live PROVE Inside(x)'
      <4>1. Inside(x)
        BY <1>1, PayloadIs
      <4>. QED
        BY <4>1, <2>2, <2>3, <2>4 DEF Inside
    <3>2. Inside(h)'
      <4>1. h' = h
        OBVIOUS
      <4>2. SIZEOF_STRUCT_PBUF + pbufs'[h].room + pbufs'[h].len <= SizeOf(h)'
        BY <1>0, <2>1, <2>4
      <4>. QED
        BY <4>1, <4>2, <2>1, <2>3, ElementsApart DEF Inside
    <3>. QED
      BY <3>1, <3>2, <2>4
  <2>7. InMemory'
    <3>1. \A o \in Offsets : Owns(o)' <=> o \in Live'
      BY <1>1, <2>1, <2>2, <2>4
    <3>2. PayloadsFit'
      BY <2>6, PayloadIs
    <3>. QED
      BY <3>1, <3>2, <1>1, <1>2, <2>3, <2>4 DEF InMemory
  <2>. QED
    BY <2>1, <2>5, <2>7 DEF IInv, PacketInv
<1>3. CASE UNCHANGED <<heapVars, packetVars>>
  BY <1>3, Unmoved
<1>. QED
  <2>1. CASE MemMallocFails(size) /\ UNCHANGED <<pbufs, held>>
    BY <1>0, <1>3, <2>1 DEF AllocRam, MemMallocFails, packetVars
  <2>. QED
    BY <1>0, <1>2, <2>1 DEF AllocRam, MayAlloc

\* pbuf_alloc of a PBUF_REF.
LEMMA RefElementKeeps == \A len \in Lengths : IInv /\ AllocRef(len) => IInv'
<1>. SUFFICES ASSUME NEW len \in Lengths, IInv, AllocRef(len) PROVE IInv'
  OBVIOUS
<1>1. /\ len \in Nat /\ 0 \in Nat
      /\ TypeOK /\ HeapInv /\ PacketInv /\ PayloadsFit /\ avail = Elements \ Live
      /\ \A o \in Offsets : Owns(o) <=> o \in Live
  BY PacketAssumption DEF IInv, PacketInv, InMemory
<1>2. ASSUME NEW e \in avail \cap RefElements, pbufs' = With(e, Pbuf(NULL, len, len, 0)),
             avail' = avail \ {e}, TakeRef(e), UNCHANGED <<heapVars, freeing>>, Idle
      PROVE  IInv'
  <2>3. e \in Pbufs /\ e \notin Live /\ e \notin Offsets /\ e \notin PoolElements /\ e \in Elements
    BY <1>1, ElementsApart
  <2>4. /\ Fresh([i \in 1 .. 1 |-> e], 1, TRUE)
        /\ Live' = Live \cup {e} /\ \A x \in Live : pbufs'[x] = pbufs[x]
        /\ pbufs'[e].len = len /\ pbufs'[e].room = 0
    BY <1>1, <1>2, <2>3, WithIs DEF TypeOK, TakeRef
  <2>5. TypeOK' /\ Links' /\ Acyclic' /\ Counted' /\ Totals'
    BY <2>3, <2>4, <1>1, OneFresh
  <2>6. HeapInv' /\ \A o : (Owns(o)' <=> Owns(o)) /\ SizeOf(o)' = SizeOf(o)
    BY <1>1, <1>2, HeapSame
  <2>7. \A x \in Live' : Inside(x)'
    <3>1. ASSUME NEW x \in Live PROVE Inside(x)'
      <4>1. Inside(x)
        BY <1>1, PayloadIs
      <4>. QED
        BY <4>1, <2>6, <2>4 DEF Inside
    <3>2. Inside(e)'
      <4>1. e' = e
        OBVIOUS
      <4>. QED
        BY <4>1, <2>3 DEF Inside
    <3>. QED
      BY <3>1, <3>2, <2>4
  <2>8. InMemory'
    <3>1. \A o \in Offsets : Owns(o)' <=> o \in Live'
      BY <1>1, <2>3, <2>4, <2>6
    <3>2. PayloadsFit'
      BY <2>7, PayloadIs
    <3>. QED
      BY <3>1, <3>2, <1>1, <1>2, <2>3, <2>4 DEF InMemory
  <2>. QED
    BY <2>5, <2>6, <2>8 DEF IInv, PacketInv
<1>. QED
  <2>1. CASE avail \cap RefElements = {} /\ UNCHANGED <<pbufs, avail, held>>
    BY <2>1, Unmoved DEF AllocRef, packetVars
  <2>. QED
    BY <1>2, <2>1 DEF AllocRef, MayAlloc

\* What the loop of pbuf_alloc leaves to be placed is what its recursion says.
LEMMA RemLenDef ==
    ASSUME NEW room, NEW len, NEW R, R = RemLen(room, len), NEW N, N = Cardinality(PoolElements), N \in Nat
    PROVE  R = [i \in 0 .. N |->
                  IF i = 0 THEN len
                  ELSE IF R[i - 1] < IF i = 1 THEN PBUF_POOL_BUFSIZE - room ELSE PBUF_POOL_BUFSIZE
                       THEN 0
                       ELSE R[i - 1] - IF i = 1 THEN PBUF_POOL_BUFSIZE - room ELSE PBUF_POOL_BUFSIZE]
<1>. DEFINE space(i) == IF i = 1 THEN PBUF_POOL_BUFSIZE - room ELSE PBUF_POOL_BUFSIZE
            left(x, i) == IF x < space(i) THEN 0 ELSE x - space(i)
            To(f, n) == f = [i \in 0 .. n |-> IF i = 0 THEN len ELSE left(f[i - 1], i)]
            S == {n \in Nat : \E f : To(f, n)}
<1>5. R = CHOOSE f : To(f, N)
  BY DEF RemLen
<1>. HIDE DEF left
<1>1. 0 \in S
  <2>1. To([i \in 0 .. 0 |-> len], 0)
    OBVIOUS
  <2>. QED
    BY <2>1
<1>2. \A n \in Nat : n \in S => n + 1 \in S
  <2>. SUFFICES ASSUME NEW n \in Nat, NEW f, To(f, n) PROVE \E g : To(g, n + 1)
    OBVIOUS
  <2>. DEFINE g == [i \in 0 .. n + 1 |-> IF i = n + 1 THEN left(f[n], n + 1) ELSE f[i]]
  <2>1. \A i \in 0 .. n : f[i] = IF i = 0 THEN len ELSE left(f[i - 1], i)
    OBVIOUS
  <2>2. \A i \in 0 .. n + 1 : g[i] = IF i = 0 THEN len ELSE left(g[i - 1], i)
    <3>. TAKE i \in 0 .. n + 1
    <3>1. CASE i = n + 1
      <4>1. g[i - 1] = f[n] /\ i # 0 /\ g[i] = left(f[n], n + 1)
        BY <3>1
      <4>. QED
        BY <4>1, <3>1, Zenon
    <3>2. CASE i # n + 1
      <4>1. i \in 0 .. n /\ (i # 0 => i - 1 \in 0 .. n /\ i - 1 # n + 1)
        BY <3>2
      <4>2. g[i] = f[i] /\ (i # 0 => g[i - 1] = f[i - 1])
        BY <3>2, <4>1
      <4>. HIDE DEF g
      <4>. QED
        BY <2>1, <4>1, <4>2
    <3>. QED
      BY <3>1, <3>2
  <2>3. To(g, n + 1)
    BY <2>2
  <2>. QED
    BY <2>3
<1>. HIDE DEF S
<1>3. Nat \subseteq S
  BY <1>1, <1>2, SetInduction
<1>4. \E f : To(f, N)
  BY <1>3 DEF S
<1>6. To(R, N)
  BY <1>4, <1>5
<1>. QED
  BY <1>6 DEF left

\* Space(i): what the i-th element holds behind the room for headers.
LEMMA RemLenIs ==
    ASSUME NEW room \in Nat, room < PBUF_POOL_BUFSIZE, NEW len \in Nat, NEW R, R = RemLen(room, len)
    PROVE  /\ Cardinality(PoolElements) \in Nat /\ R[0] = len
           /\ \A i \in 0 .. Cardinality(PoolElements) : R[i] \in Nat
           /\ \A i \in 1 .. Cardinality(PoolElements) :
                 /\ R[i - 1] - R[i] \in Nat
                 /\ R[i - 1] - R[i] <= IF i = 1 THEN PBUF_POOL_BUFSIZE - room ELSE PBUF_POOL_BUFSIZE
<1>0. IsFiniteSet(PoolElements)
  BY PacketAssumption, FS_Subset
<1>1. PICK N \in Nat : N = Cardinality(PoolElements)
  BY <1>0, FS_CardinalityType
<1>2. PBUF_POOL_BUFSIZE \in Nat
  BY PacketAssumption
<1>. DEFINE space(i) == IF i = 1 THEN PBUF_POOL_BUFSIZE - room ELSE PBUF_POOL_BUFSIZE
<1>3. \A i \in 0 .. N : R[i] = IF i = 0 THEN len
                              ELSE IF R[i - 1] < space(i) THEN 0 ELSE R[i - 1] - space(i)
  BY <1>1, RemLenDef
<1>4. \A i \in 1 .. N : space(i) \in Nat
  BY <1>2
<1>. HIDE DEF space
<1>. DEFINE S == {i \in Nat : i \in 0 .. N => R[i] \in Nat}
<1>5. 0 \in S
  BY <1>3
<1>6. ASSUME NEW i \in Nat, i \in S PROVE i + 1 \in S
  <2>. SUFFICES ASSUME i + 1 \in 0 .. N PROVE R[i + 1] \in Nat
    OBVIOUS
  <2>1. R[i] \in Nat /\ i + 1 # 0 /\ (i + 1) - 1 = i
    BY <1>6
  <2>2. R[i + 1] = IF R[i] < space(i + 1) THEN 0 ELSE R[i] - space(i + 1)
    BY <1>3, <2>1
  <2>. QED
    BY <2>1, <2>2, <1>4
<1>. HIDE DEF S
<1>7. Nat \subseteq S
  BY <1>5, <1>6, SetInduction
<1>8. \A i \in 0 .. N : R[i] \in Nat
  BY <1>7 DEF S
<1>9. ASSUME NEW i \in 1 .. N PROVE R[i - 1] - R[i] \in Nat /\ R[i - 1] - R[i] <= space(i)
  <2>1. R[i] = IF R[i - 1] < space(i) THEN 0 ELSE R[i - 1] - space(i)
    BY <1>3
  <2>2. R[i - 1] \in Nat /\ space(i) \in Nat
    BY <1>4, <1>8
  <2>. QED
    BY <2>1, <2>2
<1>. QED
  BY <1>1, <1>3, <1>8, <1>9 DEF space

\* pbuf_alloc of a PBUF_POOL chain, complete or given up half way.
LEMMA PoolKeeps == \A room \in HeadRooms, len \in Lengths : IInv /\ AllocPool(room, len) => IInv'
<1>. SUFFICES ASSUME NEW room \in HeadRooms, NEW len \in Lengths, IInv, AllocPool(room, len) PROVE IInv'
  OBVIOUS
<1>0. PICK R : R = RemLen(room, len)
  OBVIOUS
<1>1. /\ room \in Nat /\ room < PBUF_POOL_BUFSIZE /\ len \in Nat /\ PBUF_POOL_BUFSIZE \in Nat
      /\ TypeOK /\ HeapInv /\ PacketInv /\ PayloadsFit /\ avail = Elements \ Live
      /\ \A o \in Offsets : Owns(o) <=> o \in Live
  BY PacketAssumption DEF IInv, PacketInv, InMemory
<1>2. ASSUME NEW n \in 1 .. Cardinality(avail \cap PoolElements),
             NEW c \in [1 .. n -> avail \cap PoolElements], IsInjective(c),
             pbufs' = PoolChain(c, n, room, len), avail' = avail \ Range(c),
             UNCHANGED heapVars, Idle,
             \/ R[n] = 0 /\ TakeRef(c[1]) /\ UNCHANGED freeing
             \/ R[n] > 0 /\ freeing' = c[1] /\ UNCHANGED held
      PROVE  IInv'
  <2>1. /\ n \in Nat \ {0} /\ n <= Cardinality(PoolElements)
    <3>1. IsFiniteSet(PoolElements)
      BY PacketAssumption, FS_Subset
    <3>2. /\ Cardinality(PoolElements) \in Nat /\ Cardinality(avail \cap PoolElements) \in Nat
          /\ Cardinality(avail \cap PoolElements) <= Cardinality(PoolElements)
      BY <3>1, FS_Subset, FS_CardinalityType
    <3>. QED
      BY <3>2
  <2>2. /\ \A i \in 1 .. n : c[i] \in Pbufs /\ c[i] \in PoolElements /\ c[i] \notin Live /\ c[i] \notin Offsets
                             /\ c[i] \in Elements /\ c[i] # NULL
        /\ \A i, j \in 1 .. n : c[i] = c[j] => i = j
        /\ Range(c) = {c[i] : i \in 1 .. n}
        /\ c \in [1 .. n -> Pbufs \ Live]
    BY <1>1, <1>2, ElementsApart DEF IsInjective, Range
  <2>3. /\ R[0] = len
        /\ \A i \in 0 .. n : R[i] \in Nat
        /\ \A i \in 1 .. n : /\ R[i - 1] \in Nat /\ R[i - 1] - R[i] \in Nat
                             /\ R[i - 1] - R[i] <= IF i = 1 THEN PBUF_POOL_BUFSIZE - room ELSE PBUF_POOL_BUFSIZE
    <3>1. PICK N \in Nat : N = Cardinality(PoolElements)
      BY <2>1, RemLenIs, <1>0, <1>1
    <3>2. /\ R[0] = len
          /\ \A i \in 0 .. N : R[i] \in Nat
          /\ \A i \in 1 .. N :
                 /\ R[i - 1] - R[i] \in Nat
                 /\ R[i - 1] - R[i] <= IF i = 1 THEN PBUF_POOL_BUFSIZE - room ELSE PBUF_POOL_BUFSIZE
      BY <1>0, <1>1, <3>1, RemLenIs
    <3>3. n \in Nat /\ n <= N
      BY <2>1, <3>1
    <3>4. /\ \A i \in 0 .. n : i \in 0 .. N
          /\ \A i \in 1 .. n : i \in 1 .. N /\ i - 1 \in 0 .. N
      BY <3>3
    <3>. QED
      BY <3>2, <3>4
  <2>4. /\ Live' = Live \cup Range(c) /\ \A x \in Live : pbufs'[x] = pbufs[x]
    BY <1>2 DEF PoolChain, Live
  <2>r. ASSUME NEW i \in 1 .. n
        PROVE  pbufs'[c[i]] = [next |-> IF i < n THEN c[i + 1] ELSE NULL, ref |-> 1, len |-> R[i - 1] - R[i],
                               tot_len |-> R[i - 1], room |-> IF i = 1 THEN room ELSE 0]
    <3>1. (CHOOSE j \in 1 .. n : c[j] = c[i]) = i
      BY <2>2
    <3>2. c[i] \in Range(c) /\ c[i] \notin Live
      BY <2>2
    <3>3. PICK k : k = CHOOSE j \in 1 .. n : c[j] = c[i]
      OBVIOUS
    <3>4. pbufs'[c[i]] = Pbuf(IF k < n THEN c[k + 1] ELSE NULL, R[k - 1] - R[k], R[k - 1],
                              IF k = 1 THEN room ELSE 0)
      BY <3>2, <3>3, <1>0, <1>2 DEF PoolChain
    <3>. QED
      BY <3>1, <3>3, <3>4 DEF Pbuf
  <2>5. \A i \in 1 .. n :
           /\ pbufs'[c[i]].next = IF i < n THEN c[i + 1] ELSE NULL
           /\ pbufs'[c[i]].ref = 1
           /\ pbufs'[c[i]].len = R[i - 1] - R[i]
           /\ pbufs'[c[i]].tot_len = R[i - 1]
           /\ pbufs'[c[i]].room = IF i = 1 THEN room ELSE 0
    <3>. SUFFICES ASSUME NEW i \in 1 .. n
                  PROVE  /\ pbufs'[c[i]].next = IF i < n THEN c[i + 1] ELSE NULL
                         /\ pbufs'[c[i]].ref = 1
                         /\ pbufs'[c[i]].len = R[i - 1] - R[i]
                         /\ pbufs'[c[i]].tot_len = R[i - 1]
                         /\ pbufs'[c[i]].room = IF i = 1 THEN room ELSE 0
      OBVIOUS
    <3>1. PICK nx, l, t, rm, x : /\ nx = IF i < n THEN c[i + 1] ELSE NULL
                                 /\ l = R[i - 1] - R[i] /\ t = R[i - 1] /\ rm = IF i = 1 THEN room ELSE 0
                                 /\ x = pbufs'[c[i]]
      OBVIOUS
    <3>2. x = [next |-> nx, ref |-> 1, len |-> l, tot_len |-> t, room |-> rm]
      BY <3>1, <2>r
    <3>3. x.next = nx /\ x.ref = 1 /\ x.len = l /\ x.tot_len = t /\ x.room = rm
      BY <3>2
    <3>. QED
      BY <3>1, <3>3
  <2>6. \A i \in 1 .. n : pbufs'[c[i]] \in PbufType
    <3>. SUFFICES ASSUME NEW i \in 1 .. n PROVE pbufs'[c[i]] \in PbufType
      OBVIOUS
    <3>0. i < n => i + 1 \in 1 .. n
      BY <2>1
    <3>1. PICK nx, l, t, rm : /\ nx = IF i < n THEN c[i + 1] ELSE NULL
                              /\ l = R[i - 1] - R[i] /\ t = R[i - 1] /\ rm = IF i = 1 THEN room ELSE 0
      OBVIOUS
    <3>2. nx \in Pbufs \cup {NULL}
      BY <3>0, <3>1, <2>2
    <3>3. l \in Nat /\ t \in Nat
      BY <3>1, <2>3
    <3>4. rm \in Nat
      BY <3>1, <1>1
    <3>5. pbufs'[c[i]] = [next |-> nx, ref |-> 1, len |-> l, tot_len |-> t, room |-> rm]
      BY <3>1, <2>r
    <3>. HIDE <3>1
    <3>6. 1 \in Nat
      OBVIOUS
    <3>. QED
      <4>1. [next |-> nx, ref |-> 1, len |-> l, tot_len |-> t, room |-> rm] \in PbufType
        BY <3>2, <3>3, <3>4, <3>6 DEF PbufType
      <4>. QED
        BY <4>1, <3>5, Zenon
  <2>7. PICK ok \in BOOLEAN : ok <=> R[n] = 0
    OBVIOUS
  <2>8. n \in 0 .. n /\ R[n] \in Nat
    BY <2>1, <2>3
  <2>9. held' = (IF ok THEN [held EXCEPT ![c[1]] = @ + 1] ELSE held) /\ freeing' = (IF ok THEN NULL ELSE c[1])
    BY <1>2, <2>7, <2>8 DEF TakeRef, Idle
  <2>10. ok => \A i \in 1 .. n :
            pbufs'[c[i]].tot_len = pbufs'[c[i]].len + IF i < n THEN pbufs'[c[i + 1]].tot_len ELSE 0
    <3>. SUFFICES ASSUME ok, NEW i \in 1 .. n
                  PROVE  pbufs'[c[i]].tot_len = pbufs'[c[i]].len + IF i < n THEN pbufs'[c[i + 1]].tot_len ELSE 0
      OBVIOUS
    <3>0. i \in 0 .. n
      BY <2>1
    <3>1. pbufs'[c[i]].tot_len = R[i - 1] /\ pbufs'[c[i]].len = R[i - 1] - R[i] /\ R[i - 1] \in Nat /\ R[i] \in Nat
      BY <2>3, <2>5, <3>0
    <3>2. i < n => pbufs'[c[i + 1]].tot_len = R[i]
      <4>1. i < n => i + 1 \in 1 .. n /\ (i + 1) - 1 = i
        BY <2>1
      <4>. QED
        BY <4>1, <2>5
    <3>3. ~(i < n) => R[i] = 0
      <4>1. ~(i < n) => i = n
        BY <2>1
      <4>. QED
        BY <4>1, <2>7
    <3>. QED
      BY <3>1, <3>2, <3>3
  <2>11. Fresh(c, n, ok)
    <3>1. avail' \subseteq Elements
      BY <1>1, <1>2
    <3>. QED
      BY <3>1, <1>2, <2>2, <2>4, <2>5, <2>6, <2>9, <2>10 DEF Fresh
  <2>12. TypeOK' /\ Links' /\ Acyclic' /\ Counted' /\ Totals'
    BY <1>1, <2>1, <2>2, <2>11, FreshKeeps
  <2>13. HeapInv' /\ \A o : (Owns(o)' <=> Owns(o)) /\ SizeOf(o)' = SizeOf(o)
    BY <1>1, <1>2, HeapSame
  <2>14. \A x \in Live' : Inside(x)'
    <3>1. ASSUME NEW x \in Live PROVE Inside(x)'
      <4>1. Inside(x)
        BY <1>1, PayloadIs
      <4>. QED
        BY <4>1, <2>4, <2>13 DEF Inside
    <3>2. ASSUME NEW i \in 1 .. n PROVE Inside(c[i])'
      <4>1. c' = c /\ i' = i
        OBVIOUS
      <4>2. pbufs'[c[i]].room + pbufs'[c[i]].len <= PBUF_POOL_BUFSIZE
        <5>1. PICK l, rm, d : l = pbufs'[c[i]].len /\ rm = pbufs'[c[i]].room /\ d = R[i - 1] - R[i]
          OBVIOUS
        <5>2. l = d /\ rm = (IF i = 1 THEN room ELSE 0)
          BY <5>1, <2>5
        <5>3. d \in Nat /\ d <= (IF i = 1 THEN PBUF_POOL_BUFSIZE - room ELSE PBUF_POOL_BUFSIZE)
          BY <5>1, <2>3
        <5>4. rm + l <= PBUF_POOL_BUFSIZE
          BY <5>2, <5>3, <1>1
        <5>. QED
          BY <5>1, <5>4
      <4>3. c[i] \notin Offsets
        BY <2>2
      <4>. QED
        BY <4>1, <4>2, <4>3 DEF Inside
    <3>. QED
      BY <3>1, <3>2, <2>2, <2>4
  <2>15. InMemory'
    <3>1. \A o \in Offsets : Owns(o)' <=> o \in Live'
      BY <1>1, <2>2, <2>4, <2>13
    <3>2. PayloadsFit'
      BY <2>14, PayloadIs
    <3>. QED
      BY <3>1, <3>2, <1>1, <1>2, <2>4 DEF InMemory
  <2>. QED
    BY <2>12, <2>13, <2>15 DEF IInv, PacketInv
<1>. QED
  <2>1. CASE UNCHANGED packetVars /\ UNCHANGED heapVars
    BY <2>1, Unmoved
  <2>2. CASE ~(UNCHANGED packetVars /\ UNCHANGED heapVars)
    <3>1. PICK n \in 1 .. Cardinality(avail \cap PoolElements) :
            \E c \in [1 .. n -> avail \cap PoolElements] :
               /\ IsInjective(c)
               /\ pbufs' = PoolChain(c, n, room, len)
               /\ avail' = avail \ Range(c)
               /\ UNCHANGED heapVars /\ Idle
               /\ \/ R[n] = 0 /\ TakeRef(c[1]) /\ UNCHANGED freeing
                  \/ R[n] > 0 /\ freeing' = c[1] /\ UNCHANGED held
      BY <2>2, <1>0 DEF AllocPool, MayAlloc
    <3>. QED
      BY <3>1, <1>2
  <2>. QED
    BY <2>1, <2>2

\* The turns of pbuf_realloc's loop are what its recursion says.
LEMMA TurnsDef ==
    ASSUME NEW p, NEW new_len, NEW T, T = Turns(p, new_len), NEW N, N = Cardinality(Live), N \in Nat
    PROVE  \A i \in 0 .. N : T[i] =
              IF i = 0 THEN [q |-> p, rem_len |-> new_len]
              ELSE IF T[i - 1].rem_len > pbufs[T[i - 1].q].len
                   THEN [q |-> pbufs[T[i - 1].q].next, rem_len |-> T[i - 1].rem_len - pbufs[T[i - 1].q].len]
                   ELSE T[i - 1]
<1>. DEFINE start == [q |-> p, rem_len |-> new_len]
            turn(t) == IF t.rem_len > pbufs[t.q].len
                       THEN [q |-> pbufs[t.q].next, rem_len |-> t.rem_len - pbufs[t.q].len]
                       ELSE t
            To(f, n) == f = [i \in 0 .. n |-> IF i = 0 THEN start ELSE turn(f[i - 1])]
            S == {n \in Nat : \E f : To(f, n)}
<1>5. T = CHOOSE f : To(f, N)
  BY DEF Turns
<1>. HIDE DEF start, turn
<1>1. 0 \in S
  <2>1. To([i \in 0 .. 0 |-> start], 0)
    OBVIOUS
  <2>. QED
    BY <2>1
<1>2. \A n \in Nat : n \in S => n + 1 \in S
  <2>. SUFFICES ASSUME NEW n \in Nat, NEW f, To(f, n) PROVE \E g : To(g, n + 1)
    OBVIOUS
  <2>. DEFINE g == [i \in 0 .. n + 1 |-> IF i = n + 1 THEN turn(f[n]) ELSE f[i]]
  <2>1. \A i \in 0 .. n : f[i] = IF i = 0 THEN start ELSE turn(f[i - 1])
    OBVIOUS
  <2>2. \A i \in 0 .. n + 1 : g[i] = IF i = 0 THEN start ELSE turn(g[i - 1])
    <3>. TAKE i \in 0 .. n + 1
    <3>1. CASE i = n + 1
      <4>1. g[i - 1] = f[n] /\ i # 0 /\ g[i] = turn(f[n])
        BY <3>1
      <4>. QED
        BY <4>1, <3>1, Zenon
    <3>2. CASE i # n + 1
      <4>1. i \in 0 .. n /\ (i # 0 => i - 1 \in 0 .. n /\ i - 1 # n + 1)
        BY <3>2
      <4>2. g[i] = f[i] /\ (i # 0 => g[i - 1] = f[i - 1])
        BY <3>2, <4>1
      <4>. HIDE DEF g
      <4>. QED
        BY <2>1, <4>1, <4>2
    <3>. QED
      BY <3>1, <3>2
  <2>3. To(g, n + 1)
    BY <2>2
  <2>. QED
    BY <2>3
<1>. HIDE DEF S
<1>3. Nat \subseteq S
  BY <1>1, <1>2, SetInduction
<1>4. \E f : To(f, N)
  BY <1>3 DEF S
<1>6. To(T, N)
  BY <1>4, <1>5
<1>. QED
  BY <1>6 DEF start, turn

\* From pbuf p, of a chain that claims no more than it has, to q: t[i] is reached after i turns.
Cut(p, new_len, N, t) ==
    /\ N = Cardinality(Live) /\ N \in Nat
    /\ \A i \in 0 .. N : /\ t[i].q \in Chain(p) /\ t[i].q \in Live
                         /\ t[i].rem_len \in Nat /\ t[i].rem_len < pbufs[t[i].q].tot_len
                         /\ t[i].rem_len = pbufs[t[i].q].tot_len + (new_len - pbufs[p].tot_len)
    /\ t[0].q = p
    /\ \A i \in 1 .. N : \/ /\ t[i - 1].rem_len > pbufs[t[i - 1].q].len
                            /\ t[i].q = pbufs[t[i - 1].q].next
                         \/ /\ t[i - 1].rem_len <= pbufs[t[i - 1].q].len
                            /\ t[i] = t[i - 1]

\* Every turn of pbuf_realloc stays in the chain, and knows what is left of its length.
LEMMA CutIs ==
    ASSUME TypeOK, Links, \A x \in Live : Exact(x), NEW p \in Live, NEW new_len \in Nat,
           new_len < pbufs[p].tot_len, NEW N, N = Cardinality(Live), NEW t, t = Turns(p, new_len)
    PROVE  Cut(p, new_len, N, t)
<1>1. N \in Nat
  BY PointersFinite
<1>2. \A i \in 0 .. N : t[i] =
              IF i = 0 THEN [q |-> p, rem_len |-> new_len]
              ELSE IF t[i - 1].rem_len > pbufs[t[i - 1].q].len
                   THEN [q |-> pbufs[t[i - 1].q].next, rem_len |-> t[i - 1].rem_len - pbufs[t[i - 1].q].len]
                   ELSE t[i - 1]
  BY <1>1, TurnsDef
<1>3. p \in Chain(p) /\ Chain(p) \subseteq Live /\ \A x \in Chain(p) : pbufs[x].next \in Chain(p) \cup {NULL}
  BY ChainIs
<1>4. pbufs[p].tot_len \in Nat
  BY Fields
<1>. DEFINE Good(r) == /\ r.q \in Chain(p)
                       /\ r.rem_len \in Nat /\ r.rem_len < pbufs[r.q].tot_len
                       /\ r.rem_len = pbufs[r.q].tot_len + (new_len - pbufs[p].tot_len)
            S == {i \in Nat : i \in 0 .. N => Good(t[i])}
<1>5. 0 \in S
  <2>1. 0 \in 0 .. N
    BY <1>1
  <2>2. t[0] = [q |-> p, rem_len |-> new_len]
    BY <1>2, <2>1
  <2>3. t[0].q = p /\ t[0].rem_len = new_len
    BY <2>2
  <2>. QED
    BY <2>3, <1>3, <1>4
<1>6. ASSUME NEW i \in Nat, i \in S PROVE i + 1 \in S
  <2>. SUFFICES ASSUME i + 1 \in 0 .. N PROVE Good(t[i + 1])
    OBVIOUS
  <2>1. i \in 0 .. N /\ i + 1 # 0 /\ (i + 1) - 1 = i
    BY <1>1
  <2>2. PICK r : r = t[i]
    OBVIOUS
  <2>3. Good(r)
    BY <1>6, <2>1, <2>2
  <2>4. t[i + 1] = IF r.rem_len > pbufs[r.q].len
                   THEN [q |-> pbufs[r.q].next, rem_len |-> r.rem_len - pbufs[r.q].len] ELSE r
    BY <1>2, <2>1, <2>2
  <2>5. CASE r.rem_len > pbufs[r.q].len
    <3>1. PICK x, rem : x = r.q /\ rem = r.rem_len
      OBVIOUS
    <3>2. x \in Chain(p) /\ x \in Live /\ rem \in Nat /\ rem < pbufs[x].tot_len /\ rem > pbufs[x].len
          /\ rem = pbufs[x].tot_len + (new_len - pbufs[p].tot_len)
      BY <2>3, <2>5, <3>1, <1>3
    <3>3. pbufs[x].tot_len \in Nat /\ pbufs[x].len \in Nat
      BY <3>2, Fields
    <3>4. pbufs[x].tot_len = pbufs[x].len + IF pbufs[x].next = NULL THEN 0 ELSE pbufs[pbufs[x].next].tot_len
      BY <3>2 DEF Exact
    <3>5. pbufs[x].next # NULL
      BY <3>2, <3>3, <3>4
    <3>6. pbufs[x].next \in Chain(p) /\ pbufs[x].next \in Live
      BY <3>2, <3>5, <1>3
    <3>7. PICK y, l, s : y = pbufs[x].next /\ l = pbufs[x].len /\ s = pbufs[y].tot_len
      OBVIOUS
    <3>8. s \in Nat /\ pbufs[x].tot_len = l + s /\ l \in Nat /\ rem > l
      BY <3>2, <3>3, <3>4, <3>5, <3>6, <3>7, Fields
    <3>9. rem - l \in Nat /\ rem - l < s /\ rem - l = s + (new_len - pbufs[p].tot_len)
      BY <3>2, <3>8, <1>4
    <3>10. t[i + 1] = [q |-> y, rem_len |-> rem - l]
      BY <2>4, <2>5, <3>1, <3>7
    <3>11. t[i + 1].q = y /\ t[i + 1].rem_len = rem - l
      BY <3>10
    <3>. QED
      BY <3>6, <3>7, <3>9, <3>11
  <2>6. CASE ~(r.rem_len > pbufs[r.q].len)
    BY <2>3, <2>4, <2>6
  <2>. QED
    BY <2>5, <2>6
<1>. HIDE DEF S
<1>7. Nat \subseteq S
  BY <1>5, <1>6, SetInduction
<1>8. \A i \in 0 .. N : Good(t[i])
  BY <1>7 DEF S
<1>. HIDE DEF Good
<1>9. ASSUME NEW i \in 1 .. N
      PROVE  \/ /\ t[i - 1].rem_len > pbufs[t[i - 1].q].len
                /\ t[i].q = pbufs[t[i - 1].q].next
             \/ /\ t[i - 1].rem_len <= pbufs[t[i - 1].q].len
                /\ t[i] = t[i - 1]
  <2>1. i \in 0 .. N /\ i - 1 \in 0 .. N /\ i # 0
    BY <1>1
  <2>2. PICK r : r = t[i - 1]
    OBVIOUS
  <2>3. r.rem_len \in Nat /\ r.q \in Live
    BY <1>8, <2>1, <2>2, <1>3 DEF Good
  <2>4. pbufs[r.q].len \in Nat
    BY <2>3, Fields
  <2>5. t[i] = IF r.rem_len > pbufs[r.q].len
                   THEN [q |-> pbufs[r.q].next, rem_len |-> r.rem_len - pbufs[r.q].len] ELSE r
    BY <1>2, <2>1, <2>2
  <2>. QED
    BY <2>2, <2>3, <2>4, <2>5
<1>10. t[0].q = p
  <2>1. 0 \in 0 .. N
    BY <1>1
  <2>2. t[0] = [q |-> p, rem_len |-> new_len]
    BY <1>2, <2>1
  <2>. QED
    BY <2>2
<1>. QED
  BY <1>1, <1>3, <1>8, <1>9, <1>10 DEF Cut, Good

\* The loop comes to an end: a turn that goes on reaches a pbuf not seen before.
LEMMA CutEnds ==
    ASSUME TypeOK, Acyclic, NEW p, NEW new_len, NEW N, NEW t, Cut(p, new_len, N, t)
    PROVE  t[N].rem_len <= pbufs[t[N].q].len
<1>1. N = Cardinality(Live) /\ N \in Nat /\ IsFiniteSet(Live)
  BY PointersFinite DEF Cut
<1>2. PICK Q, R : Q = [i \in 0 .. N |-> t[i].q] /\ R = [i \in 0 .. N |-> t[i].rem_len]
  OBVIOUS
<1>. DEFINE Goes(i) == R[i] > pbufs[Q[i]].len
<1>3. \A i \in 0 .. N : Q[i] \in Live /\ R[i] \in Nat /\ pbufs[Q[i]].len \in Nat /\ Q[i] = t[i].q /\ R[i] = t[i].rem_len
  BY <1>2, Fields DEF Cut
<1>4. \A i \in 1 .. N : \/ Goes(i - 1) /\ Q[i] = pbufs[Q[i - 1]].next
                        \/ ~Goes(i - 1) /\ Q[i] = Q[i - 1] /\ R[i] = R[i - 1]
  <2>1. \A i \in 1 .. N : i - 1 \in 0 .. N /\ i \in 0 .. N
    BY <1>1
  <2>. QED
    BY <1>3, <2>1 DEF Cut
<1>. SUFFICES ASSUME Goes(N) PROVE FALSE
  BY <1>1, <1>3
<1>. HIDE DEF Goes
<1>5. \A i \in 0 .. N : Goes(i)
  <2>. DEFINE S == {k \in Nat : N - k \in 0 .. N => Goes(N - k)}
  <2>1. 0 \in S
    BY <1>1, N - 0 = N
  <2>2. ASSUME NEW k \in Nat, k \in S PROVE k + 1 \in S
    <3>. SUFFICES ASSUME N - (k + 1) \in 0 .. N PROVE Goes(N - (k + 1))
      OBVIOUS
    <3>1. N - k \in 1 .. N /\ (N - k) - 1 = N - (k + 1) /\ N - k \in 0 .. N
      BY <1>1
    <3>2. Goes(N - k)
      BY <2>2, <3>1
    <3>3. PICK i : i = N - k
      OBVIOUS
    <3>4. i \in 1 .. N /\ Goes(i) /\ i - 1 = N - (k + 1)
      BY <3>1, <3>2, <3>3
    <3>5. Goes(i - 1)
      BY <1>4, <3>4 DEF Goes
    <3>. QED
      BY <3>4, <3>5
  <2>. HIDE DEF S
  <2>3. Nat \subseteq S
    BY <2>1, <2>2, SetInduction
  <2>4. ASSUME NEW i \in 0 .. N PROVE Goes(i)
    <3>1. N - i \in Nat /\ N - (N - i) = i
      BY <1>1
    <3>. QED
      BY <3>1, <2>3 DEF S
  <2>. QED
    BY <2>4
<1>6. \A i \in 1 .. N : Q[i] = pbufs[Q[i - 1]].next
  <2>1. \A i \in 1 .. N : i - 1 \in 0 .. N
    BY <1>1
  <2>. QED
    BY <1>4, <1>5, <2>1
<1>7. ASSUME NEW i \in 0 .. N, NEW j \in 0 .. N, i < j, Q[i] = Q[j] PROVE FALSE
  <2>. DEFINE S == {Q[k] : k \in i .. j - 1}
  <2>1. i \in i .. j - 1 /\ \A k \in i .. j - 1 : k \in 0 .. N /\ k + 1 \in 1 .. N /\ (k + 1) - 1 = k
    BY <1>1, <1>7
  <2>2. S \in SUBSET Live /\ S # {}
    BY <1>3, <2>1
  <2>3. ASSUME NEW k \in i .. j - 1 PROVE pbufs[Q[k]].next \in S
    <3>1. Q[k + 1] = pbufs[Q[k]].next
      BY <1>6, <2>1
    <3>2. CASE k + 1 = j
      BY <3>1, <3>2, <1>7, <2>1
    <3>3. CASE k + 1 # j
      <4>1. k + 1 \in i .. j - 1
        BY <3>3
      <4>. QED
        BY <3>1, <4>1
    <3>. QED
      BY <3>2, <3>3
  <2>. QED
    BY <2>2, <2>3 DEF Acyclic
<1>8. Nat \subseteq {i \in Nat : i \in 0 .. N => /\ IsFiniteSet({Q[k] : k \in 0 .. i})
                                                /\ Cardinality({Q[k] : k \in 0 .. i}) = i + 1}
  <2>. DEFINE To(i) == {Q[k] : k \in 0 .. i}
              S == {i \in Nat : i \in 0 .. N => IsFiniteSet(To(i)) /\ Cardinality(To(i)) = i + 1}
  <2>1. 0 \in S
    <3>1. To(0) = {Q[0]}
      <4>1. 0 .. 0 = {0}
        OBVIOUS
      <4>. QED
        BY <4>1
    <3>2. \A z : IsFiniteSet({z}) /\ Cardinality({z}) = 0 + 1
      <4>1. \A z : IsFiniteSet({z}) /\ Cardinality({z}) = 1
        BY FS_Singleton, Zenon
      <4>2. 0 + 1 = 1
        OBVIOUS
      <4>. QED
        BY <4>1, <4>2, Zenon
    <3>. HIDE DEF To
    <3>. QED
      BY <3>1, <3>2
  <2>2. ASSUME NEW i \in Nat, i \in S PROVE i + 1 \in S
    <3>. SUFFICES ASSUME i + 1 \in 0 .. N PROVE IsFiniteSet(To(i + 1)) /\ Cardinality(To(i + 1)) = (i + 1) + 1
      OBVIOUS
    <3>1. i \in 0 .. N /\ \A k \in 0 .. i : k \in 0 .. N /\ k < i + 1
      BY <1>1
    <3>2. 0 .. i + 1 = (0 .. i) \cup {i + 1}
      OBVIOUS
    <3>3. To(i + 1) = To(i) \cup {Q[i + 1]}
      BY <3>2
    <3>4. Q[i + 1] \notin To(i)
      BY <1>7, <3>1
    <3>5. IsFiniteSet(To(i)) /\ Cardinality(To(i)) = i + 1
      BY <2>2, <3>1
    <3>. HIDE DEF To
    <3>. QED
      BY <3>3, <3>4, <3>5, FS_AddElement
  <2>. HIDE DEF S
  <2>3. Nat \subseteq S
    BY <2>1, <2>2, SetInduction
  <2>. QED
    BY <2>3 DEF S
<1>9. IsFiniteSet({Q[k] : k \in 0 .. N}) /\ Cardinality({Q[k] : k \in 0 .. N}) = N + 1
  <2>1. N \in 0 .. N
    BY <1>1
  <2>. QED
    BY <1>1, <1>8, <2>1
<1>10. {Q[k] : k \in 0 .. N} \subseteq Live
  BY <1>3
<1>11. Cardinality({Q[k] : k \in 0 .. N}) <= Cardinality(Live)
  BY <1>1, <1>10, FS_Subset
<1>. QED
  BY <1>1, <1>9, <1>11

\* What the loop of pbuf_realloc passed (`kept`) and where it stopped (q).
CutAt(p, new_len, q, rem, kept) ==
    /\ q \in Live /\ rem \in Nat /\ rem <= pbufs[q].len
    /\ rem = pbufs[q].tot_len + (new_len - pbufs[p].tot_len)
    /\ kept \subseteq Live \ {q}
    /\ \A x \in kept : /\ pbufs[x].next \in kept \cup {q}
                       /\ pbufs[x].tot_len + (new_len - pbufs[p].tot_len) \in Nat
    /\ \A x \in Live : pbufs[x].next \in kept \cup {q} => x \in kept

\* Nobody else points to what pbuf_realloc keeps: its pbufs have one pointer each.
LEMMA KeptIs ==
    ASSUME TypeOK, Links, Acyclic, Counted, NEW p \in Live, Packet(p), NEW new_len \in Nat, Idle,
           \A x \in Chain(p) : pbufs[x].ref = 1,
           NEW N, NEW t, Cut(p, new_len, N, t)
    PROVE  CutAt(p, new_len, t[N].q, t[N].rem_len, {t[i].q : i \in 0 .. N} \ {t[N].q})
<1>1. N \in Nat /\ N \in 0 .. N /\ 0 \in 0 .. N /\ \A i \in 1 .. N : i - 1 \in 0 .. N
  BY DEF Cut
<1>2. PICK Q, R : Q = [i \in 0 .. N |-> t[i].q] /\ R = [i \in 0 .. N |-> t[i].rem_len]
  OBVIOUS
<1>3. \A i \in 0 .. N : /\ Q[i] \in Live /\ R[i] \in Nat /\ pbufs[Q[i]].len \in Nat
                        /\ Q[i] = t[i].q /\ R[i] = t[i].rem_len /\ Q[i] \in Chain(p)
                        /\ R[i] = pbufs[Q[i]].tot_len + (new_len - pbufs[p].tot_len)
  BY <1>2, Fields DEF Cut
<1>4. \A i \in 1 .. N : Q[i] = pbufs[Q[i - 1]].next \/ Q[i] = Q[i - 1]
  BY <1>1, <1>3 DEF Cut
<1>5. Q[0] = p /\ R[N] <= pbufs[Q[N]].len
  BY <1>1, <1>3, CutEnds DEF Cut
<1>6. PICK K, q, rem, kept : /\ K = {Q[i] : i \in 0 .. N} /\ q = Q[N] /\ rem = R[N] /\ kept = K \ {q}
  OBVIOUS
<1>7. K = kept \cup {q} /\ K \subseteq Live /\ q \in K /\ q \notin kept
  BY <1>1, <1>3, <1>6
<1>8. ASSUME NEW x \in K, x # q PROVE pbufs[x].next \in K
  <2>1. PICK i \in 0 .. N : x = Q[i]
    BY <1>6
  <2>. DEFINE D == {j \in 0 .. N : Q[j] # x /\ j > i}
  <2>2. N \in D
    BY <2>1, <1>1, <1>6, <1>8
  <2>3. PICK j \in D : \A m \in D : j <= m
    BY <2>2, LeastNumber, D \in SUBSET Nat
  <2>4. j \in 1 .. N /\ j - 1 \in 0 .. N /\ j - 1 >= i /\ j \in 0 .. N /\ Q[j] # x
    <3>1. j \in 0 .. N /\ Q[j] # x /\ j > i /\ i \in 0 .. N /\ N \in Nat
      BY <1>1
    <3>. QED
      BY <3>1
  <2>5. Q[j - 1] = x
    <3>1. j - 1 \notin D
      BY <2>3, <2>4
    <3>. QED
      BY <3>1, <2>1, <2>4
  <2>6. Q[j] = pbufs[x].next
    BY <2>4, <2>5, <1>4
  <2>. QED
    BY <2>4, <2>6, <1>6
<1>9. pbufs[q].next \notin K
  <2>1. PICK x \in K : pbufs[x].next \notin K
    BY <1>7 DEF Acyclic
  <2>. QED
    BY <2>1, <1>8
<1>10. ASSUME NEW x \in Live, pbufs[x].next \in K PROVE x \in K
  <2>1. PICK i \in 0 .. N : pbufs[x].next = Q[i]
    BY <1>6, <1>10
  <2>. DEFINE D == {j \in 0 .. N : Q[j] = Q[i]}
  <2>2. PICK j \in D : \A m \in D : j <= m
    BY LeastNumber, D \in SUBSET Nat, i \in D
  <2>3. j \in 0 .. N /\ Q[j] = Q[i]
    OBVIOUS
  <2>4. j # 0
    BY <2>1, <2>3, <1>5 DEF Packet, Predecessors
  <2>5. j \in 1 .. N /\ j - 1 \in 0 .. N
    BY <2>3, <2>4, <1>1
  <2>6. Q[j - 1] # Q[j]
    <3>1. j - 1 \notin D
      BY <2>2, <2>5
    <3>. QED
      BY <3>1, <2>3, <2>5
  <2>7. Q[j] = pbufs[Q[j - 1]].next
    BY <2>5, <2>6, <1>4
  <2>8. Q[j] \in Live /\ pbufs[Q[j]].ref = 1 /\ Q[j - 1] \in Live
    BY <2>3, <2>5, <1>3
  <2>9. Cardinality(Predecessors(Q[j])) <= 1
    <3>0. TypeOK
      OBVIOUS
    <3>1. PICK y : y = Q[j]
      OBVIOUS
    <3>2. pbufs[y].ref = Pointers(y) /\ pbufs[y].ref = 1 /\ y \in Live
      BY <3>1, <2>8 DEF Counted
    <3>3. PICK c \in Nat : /\ c = Cardinality(Predecessors(y))
                           /\ Pointers(y) = held[y] + c + (IF freeing = y THEN 1 ELSE 0)
      BY <3>2, PointersAre
    <3>4. held[y] \in Nat
      BY <3>2, Fields
    <3>5. c <= 1
      <4>1. PICK h \in Nat, f \in Nat : h = held[y] /\ f = IF freeing = y THEN 1 ELSE 0
        BY <3>4
      <4>2. h + c + f = 1
        BY <4>1, <3>2, <3>3
      <4>. QED
        BY <4>2
    <3>. QED
      BY <3>1, <3>3, <3>5
  <2>10. x \in Predecessors(Q[j]) /\ Q[j - 1] \in Predecessors(Q[j])
    BY <2>1, <2>3, <2>7, <2>8 DEF Predecessors
  <2>11. x = Q[j - 1]
    BY <2>9, <2>10, OnePointer
  <2>. QED
    BY <2>5, <2>11, <1>6
<1>11. \A x \in kept : pbufs[x].tot_len + (new_len - pbufs[p].tot_len) \in Nat
  <2>. SUFFICES ASSUME NEW x \in kept PROVE pbufs[x].tot_len + (new_len - pbufs[p].tot_len) \in Nat
    OBVIOUS
  <2>1. PICK i \in 0 .. N : x = Q[i]
    BY <1>6
  <2>. QED
    BY <2>1, <1>3
<1>12. CutAt(p, new_len, q, rem, kept)
  <2>1. q \in Live /\ rem \in Nat /\ rem <= pbufs[q].len
        /\ rem = pbufs[q].tot_len + (new_len - pbufs[p].tot_len)
    BY <1>1, <1>3, <1>5, <1>6
  <2>2. \A x \in kept : pbufs[x].next \in kept \cup {q}
    BY <1>7, <1>8
  <2>3. \A x \in Live : pbufs[x].next \in kept \cup {q} => x \in kept
    BY <1>7, <1>9, <1>10
  <2>. QED
    BY <1>7, <1>11, <2>1, <2>2, <2>3 DEF CutAt
<1>13. q = t[N].q /\ rem = t[N].rem_len /\ kept = {t[i].q : i \in 0 .. N} \ {t[N].q}
  BY <1>1, <1>3, <1>6
<1>. QED
  BY <1>12, <1>13

\* One step of pbuf_realloc, where its loop has cut the packet.
CutStep(p, new_len, q, rem, kept) ==
    /\ Idle
    /\ IF q \in Offsets /\ rem # pbufs[q].len THEN MemTrim(q, TrimSize(q, rem)) ELSE UNCHANGED heapVars
    /\ pbufs' = [x \in Live |->
             IF x = q THEN [pbufs[q] EXCEPT !.len = rem, !.tot_len = rem, !.next = NULL]
             ELSE IF x \in kept
             THEN [pbufs[x] EXCEPT !.tot_len = @ + (new_len - pbufs[p].tot_len)]
             ELSE pbufs[x]]
    /\ freeing' = pbufs[q].next
    /\ UNCHANGED <<avail, held>>

\* Cutting a packet at q keeps everything in order.
LEMMA CutKeeps ==
    ASSUME IInv, NEW p \in Live, NEW new_len \in Nat, NEW q, NEW rem, NEW kept,
           CutAt(p, new_len, q, rem, kept), CutStep(p, new_len, q, rem, kept)
    PROVE  IInv'
<1>0. PICK n, d : n = pbufs[q].next /\ d = new_len - pbufs[p].tot_len
  OBVIOUS
<1>1. /\ TypeOK /\ Links /\ Acyclic /\ Counted /\ HeapInv /\ PacketInv /\ PayloadsFit /\ avail = Elements \ Live
      /\ \A o \in Offsets : Owns(o) <=> o \in Live
  BY DEF IInv, PacketInv, InMemory
<1>2. /\ freeing = NULL /\ freeing' = n /\ Live' = Live /\ avail' = avail /\ held' = held
      /\ \A x \in Live : pbufs'[x] =
             IF x = q THEN [pbufs[q] EXCEPT !.len = rem, !.tot_len = rem, !.next = NULL]
             ELSE IF x \in kept THEN [pbufs[x] EXCEPT !.tot_len = @ + d]
             ELSE pbufs[x]
  BY <1>0 DEF CutStep, Idle, Live
<1>3. /\ q \in Live /\ rem \in Nat /\ rem <= pbufs[q].len /\ rem = pbufs[q].tot_len + d
      /\ kept \subseteq Live \ {q} /\ d \in Int
      /\ \A x \in kept : pbufs[x].next \in kept \cup {q} /\ pbufs[x].tot_len + d \in Nat
      /\ \A x \in Live : pbufs[x].next \in kept \cup {q} => x \in kept
  BY <1>0, <1>1, Fields DEF CutAt
<1>r. ASSUME NEW x \in Live
      PROVE  pbufs'[x] = [next |-> IF x = q THEN NULL ELSE pbufs[x].next, ref |-> pbufs[x].ref,
                          len |-> IF x = q THEN rem ELSE pbufs[x].len,
                          tot_len |-> IF x = q THEN rem ELSE IF x \in kept THEN pbufs[x].tot_len + d
                                                             ELSE pbufs[x].tot_len,
                          room |-> pbufs[x].room]
  <2>1. pbufs[x] = [next |-> pbufs[x].next, ref |-> pbufs[x].ref, len |-> pbufs[x].len,
                    tot_len |-> pbufs[x].tot_len, room |-> pbufs[x].room]
    BY <1>1, Fields
  <2>2. PICK nx, rf, l, t, rm : /\ nx = pbufs[x].next /\ rf = pbufs[x].ref /\ l = pbufs[x].len
                                /\ t = pbufs[x].tot_len /\ rm = pbufs[x].room
    OBVIOUS
  <2>3. PICK y : y = [next |-> nx, ref |-> rf, len |-> l, tot_len |-> t, room |-> rm]
    OBVIOUS
  <2>4. pbufs[x] = y
    BY <2>1, <2>2, <2>3
  <2>5. CASE x = q
    <3>1. pbufs'[x] = [y EXCEPT !.len = rem, !.tot_len = rem, !.next = NULL]
      BY <2>4, <2>5, <1>2
    <3>2. pbufs'[x] = [next |-> NULL, ref |-> rf, len |-> rem, tot_len |-> rem, room |-> rm]
      BY <3>1, <2>3
    <3>. QED
      BY <3>2, <2>2, <2>5
  <2>6. CASE x \in kept
    <3>0. x # q
      BY <2>6, <1>3
    <3>1. pbufs'[x] = [y EXCEPT !.tot_len = @ + d]
      BY <2>4, <2>6, <3>0, <1>2
    <3>2. pbufs'[x] = [next |-> nx, ref |-> rf, len |-> l, tot_len |-> t + d, room |-> rm]
      BY <3>1, <2>3
    <3>. QED
      BY <3>0, <3>2, <2>2, <2>6
  <2>7. CASE x # q /\ x \notin kept
    <3>1. pbufs'[x] = y
      BY <2>4, <2>7, <1>2
    <3>. QED
      BY <3>1, <2>2, <2>3, <2>7
  <2>. QED
    BY <2>5, <2>6, <2>7
<1>4. ASSUME NEW x \in Live
      PROVE  /\ pbufs'[x].next = IF x = q THEN NULL ELSE pbufs[x].next
             /\ pbufs'[x].ref = pbufs[x].ref
             /\ pbufs'[x].len = IF x = q THEN rem ELSE pbufs[x].len
             /\ pbufs'[x].tot_len = IF x = q THEN rem ELSE IF x \in kept THEN pbufs[x].tot_len + d
                                                           ELSE pbufs[x].tot_len
             /\ pbufs'[x].room = pbufs[x].room
  <2>1. PICK y, nx, l, t : /\ y = pbufs'[x]
                           /\ nx = (IF x = q THEN NULL ELSE pbufs[x].next)
                           /\ l = (IF x = q THEN rem ELSE pbufs[x].len)
                           /\ t = (IF x = q THEN rem ELSE IF x \in kept THEN pbufs[x].tot_len + d
                                                          ELSE pbufs[x].tot_len)
    OBVIOUS
  <2>2. y = [next |-> nx, ref |-> pbufs[x].ref, len |-> l, tot_len |-> t, room |-> pbufs[x].room]
    BY <2>1, <1>r
  <2>3. y.next = nx /\ y.ref = pbufs[x].ref /\ y.len = l /\ y.tot_len = t /\ y.room = pbufs[x].room
    BY <2>2
  <2>. QED
    BY <2>1, <2>3
<1>5. \A x \in Live : /\ x \in Pbufs /\ x # NULL /\ pbufs[x].next \in Pbufs \cup {NULL} /\ pbufs[x].ref \in Nat
                      /\ pbufs[x].len \in Nat /\ pbufs[x].tot_len \in Nat /\ pbufs[x].room \in Nat
                      /\ held[x] \in Nat /\ pbufs[x].next \in Live \cup {NULL}
  BY <1>1, Fields DEF Links
<1>6. \A x \in Live : Exact(x)
  BY <1>2 DEF IInv, PacketInv, Totals, Doomed
<1>7. TypeOK'
  <2>1. ASSUME NEW x \in Live
        PROVE  pbufs'[x] \in [next : Pbufs \cup {NULL}, ref : Nat, len : Nat, tot_len : Nat, room : Nat]
    <3>1. PICK nx, l, t : /\ nx = (IF x = q THEN NULL ELSE pbufs[x].next)
                          /\ l = (IF x = q THEN rem ELSE pbufs[x].len)
                          /\ t = (IF x = q THEN rem ELSE IF x \in kept THEN pbufs[x].tot_len + d
                                                         ELSE pbufs[x].tot_len)
      OBVIOUS
    <3>2. nx \in Pbufs \cup {NULL} /\ l \in Nat /\ t \in Nat
      BY <3>1, <1>3, <1>5
    <3>3. pbufs'[x] = [next |-> nx, ref |-> pbufs[x].ref, len |-> l, tot_len |-> t, room |-> pbufs[x].room]
      BY <3>1, <1>r
    <3>4. [next |-> nx, ref |-> pbufs[x].ref, len |-> l, tot_len |-> t, room |-> pbufs[x].room]
            \in [next : Pbufs \cup {NULL}, ref : Nat, len : Nat, tot_len : Nat, room : Nat]
      BY <3>2, <1>5
    <3>. QED
      BY <3>3, <3>4, Zenon
  <2>2. n \in Pbufs \cup {NULL}
    BY <1>0, <1>3, <1>5
  <2>. QED
    BY <1>1, <1>2, <2>1, <2>2 DEF TypeOK
<1>8. Links'
  <2>1. \A x \in Live : pbufs'[x].next \in Live \cup {NULL}
    BY <1>4, <1>5
  <2>2. n \in Live \cup {NULL}
    BY <1>0, <1>3, <1>5
  <2>. QED
    BY <1>1, <1>2, <2>1, <2>2 DEF Links
<1>9. Acyclic'
  <2>1. NULL \notin Live
    BY <1>5
  <2>2. \A x \in Live' : pbufs'[x].next \in {pbufs[x].next, NULL}
    BY <1>2, <1>4
  <2>. QED
    BY <1>1, <1>2, <2>1, <2>2, FewerPointers
<1>10. Counted'
  <2>. SUFFICES ASSUME NEW x \in Live PROVE pbufs'[x].ref = Pointers(x)' /\ pbufs'[x].ref > 0
    BY <1>2 DEF Counted
  <2>1. Predecessors(x)' = Predecessors(x) \ {q}
    BY <1>2, <1>4, <1>5 DEF Predecessors
  <2>2. q \in Predecessors(x) <=> n = x
    BY <1>0, <1>3 DEF Predecessors
  <2>3. pbufs[x].ref = Pointers(x) /\ pbufs[x].ref > 0
    BY <1>1 DEF Counted
  <2>4. PICK c \in Nat : /\ c = Cardinality(Predecessors(x))
                         /\ Pointers(x) = held[x] + c + (IF freeing = x THEN 1 ELSE 0)
                         /\ Predecessors(x)' = Predecessors(x) =>
                                Pointers(x)' = held'[x] + c + (IF freeing' = x THEN 1 ELSE 0)
    BY <1>1, PointersAre
  <2>5. pbufs'[x].ref = pbufs[x].ref
    BY <1>4
  <2>6. Pointers(x)' = Pointers(x)
    <3>0. freeing # x /\ held'[x] = held[x] /\ held[x] \in Nat /\ freeing' = n
      BY <1>2, <1>5
    <3>1. CASE n = x
      <4>1. IsFiniteSet(Predecessors(x)) /\ q \in Predecessors(x)
        BY <1>1, <2>2, <3>1, PointersFinite
      <4>2. Cardinality(Predecessors(x) \ {q}) = c - 1
        BY <4>1, <2>4, FS_RemoveElement
      <4>3. Pointers(x)' = held'[x] + Cardinality(Predecessors(x)') + (IF freeing' = x THEN 1 ELSE 0)
        BY DEF Pointers
      <4>4. Pointers(x)' = held[x] + (c - 1) + 1
        BY <2>1, <4>2, <4>3, <3>0, <3>1
      <4>. QED
        BY <4>4, <3>0, <2>4
    <3>2. CASE n # x
      <4>1. Predecessors(x)' = Predecessors(x)
        BY <2>1, <2>2, <3>2
      <4>. QED
        BY <4>1, <2>4, <3>0, <3>2
    <3>. QED
      BY <3>1, <3>2
  <2>. QED
    BY <2>3, <2>5, <2>6
<1>11. Totals'
  <2>. SUFFICES ASSUME NEW x \in Live PROVE Exact(x)'
    BY <1>2 DEF Totals
  <2>0. pbufs[x].tot_len = pbufs[x].len + IF pbufs[x].next = NULL THEN 0 ELSE pbufs[pbufs[x].next].tot_len
    BY <1>6 DEF Exact
  <2>1. CASE x = q
    BY <2>1, <1>3, <1>4 DEF Exact
  <2>2. CASE x \in kept
    <3>1. PICK y : y = pbufs[x].next
      OBVIOUS
    <3>2. y \in kept \cup {q} /\ y \in Live /\ y # NULL /\ x # q
      BY <3>1, <2>2, <1>3, <1>5
    <3>3. pbufs'[y].tot_len = pbufs[y].tot_len + d
      BY <3>2, <1>3, <1>4
    <3>4. pbufs'[x].next = y /\ pbufs'[x].len = pbufs[x].len /\ pbufs'[x].tot_len = pbufs[x].tot_len + d
      BY <3>1, <3>2, <2>2, <1>4
    <3>5. pbufs[x].tot_len = pbufs[x].len + pbufs[y].tot_len
      BY <2>0, <3>1, <3>2
    <3>6. pbufs[x].tot_len + d = pbufs[x].len + (pbufs[y].tot_len + d)
      BY <3>5, <3>2, <1>3, <1>5
    <3>7. pbufs'[x].tot_len = pbufs'[x].len + pbufs'[y].tot_len
      BY <3>3, <3>4, <3>6
    <3>. QED
      BY <3>2, <3>4, <3>7 DEF Exact
  <2>3. CASE x # q /\ x \notin kept
    <3>1. PICK y : y = pbufs[x].next
      OBVIOUS
    <3>2. y \notin kept \cup {q}
      BY <3>1, <2>3, <1>3
    <3>3. pbufs'[x].next = y /\ pbufs'[x].len = pbufs[x].len /\ pbufs'[x].tot_len = pbufs[x].tot_len
      BY <3>1, <2>3, <1>4
    <3>4. y # NULL => pbufs'[y].tot_len = pbufs[y].tot_len
      BY <3>1, <3>2, <1>4, <1>5
    <3>5. pbufs'[x].tot_len = pbufs'[x].len + IF y = NULL THEN 0 ELSE pbufs'[y].tot_len
      BY <2>0, <3>1, <3>3, <3>4
    <3>. QED
      BY <3>3, <3>5 DEF Exact
  <2>. QED
    BY <2>1, <2>2, <2>3
<1>12. /\ HeapInv'
       /\ \A o \in Offsets : Owns(o)' <=> Owns(o)
       /\ \A o \in Offsets \ {q} : Owns(o) => SizeOf(o)' = SizeOf(o)
       /\ q \in Offsets => SizeOf(q)' >= SIZEOF_STRUCT_PBUF + pbufs[q].room + rem
  <2>0. SIZEOF_STRUCT_PBUF \in Nat /\ pbufs[q].room \in Nat /\ pbufs[q].len \in Nat
    BY <1>3, <1>5, PacketAssumption
  <2>i. q \in Offsets => Owns(q) /\ SIZEOF_STRUCT_PBUF + pbufs[q].room + pbufs[q].len <= SizeOf(q)
    BY <1>1, <1>3, PayloadIs DEF Inside
  <2>1. CASE q \in Offsets /\ rem # pbufs[q].len
    <3>1. PICK m : m = TrimSize(q, rem)
      OBVIOUS
    <3>2. MemTrim(q, m)
      BY <2>1, <3>1 DEF CutStep
    <3>3. m = SIZEOF_STRUCT_PBUF + pbufs[q].room + rem
      BY <3>1 DEF TrimSize
    <3>4. SizeOf(q) \in Int
      <4>1. q \in Areas
        BY <2>1, <2>i DEF Owns
      <4>. QED
        BY <4>1, <1>1, AreaFacts DEF Offsets, SizeOf
    <3>5. m \in Nat /\ m <= SizeOf(q) /\ Owns(q)
      BY <2>0, <2>i, <2>1, <3>3, <3>4, <1>3
    <3>6. HeapInv' /\ Owns(q)' /\ SizeOf(q)' >= m /\ \A o \in Offsets \ {q} : area'[o] = area[o]
      BY <2>1, <3>2, <3>5, <1>1, TrimLeaves
    <3>7. \A o \in Offsets \ {q} : (Owns(o)' <=> Owns(o)) /\ (Owns(o) => SizeOf(o)' = SizeOf(o))
      BY <3>6, <1>1, OthersUnmoved
    <3>. QED
      BY <3>3, <3>5, <3>6, <3>7
  <2>2. CASE ~(q \in Offsets /\ rem # pbufs[q].len)
    <3>1. UNCHANGED heapVars
      BY <2>2 DEF CutStep
    <3>2. HeapInv' /\ \A o : (Owns(o)' <=> Owns(o)) /\ SizeOf(o)' = SizeOf(o)
      BY <3>1, <1>1, HeapSame
    <3>3. q \in Offsets => SizeOf(q)' = SizeOf(q) /\ SizeOf(q) >= SIZEOF_STRUCT_PBUF + pbufs[q].room + rem
      BY <3>2, <2>2, <2>i
    <3>. QED
      BY <3>2, <3>3
  <2>. QED
    BY <2>1, <2>2
<1>13. InMemory'
  <2>1. ASSUME NEW x \in Live PROVE Inside(x)'
    <3>1. Inside(x)
      BY <1>1, PayloadIs
    <3>2. x' = x
      OBVIOUS
    <3>3. CASE x = q
      <4>1. pbufs'[q].len = rem /\ pbufs'[q].room = pbufs[q].room
        BY <1>3, <1>4
      <4>2. q \in Offsets => Owns(q)' /\ SIZEOF_STRUCT_PBUF + pbufs'[q].room + pbufs'[q].len <= SizeOf(q)'
        <5>1. q \in Offsets => Owns(q)' /\ SizeOf(q)' >= SIZEOF_STRUCT_PBUF + pbufs[q].room + rem
          BY <1>1, <1>3, <1>12
        <5>2. SIZEOF_STRUCT_PBUF + pbufs'[q].room + pbufs'[q].len = SIZEOF_STRUCT_PBUF + pbufs[q].room + rem
          BY <4>1
        <5>. QED
          BY <5>1, <5>2
      <4>3. q \in PoolElements => pbufs'[q].room + pbufs'[q].len <= PBUF_POOL_BUFSIZE
        <5>1. q \in PoolElements => pbufs[q].room + pbufs[q].len <= PBUF_POOL_BUFSIZE
          BY <3>1, <3>3 DEF Inside
        <5>2. pbufs[q].room \in Nat /\ pbufs[q].len \in Nat /\ PBUF_POOL_BUFSIZE \in Nat
          BY <1>3, <1>5, PacketAssumption
        <5>. QED
          BY <5>1, <5>2, <4>1, <1>3
      <4>4. q' = q
        BY <3>2, <3>3
      <4>5. Inside(q)'
        BY <4>2, <4>3, <4>4 DEF Inside
      <4>. QED
        BY <3>3, <4>5
    <3>4. CASE x # q
      <4>1. pbufs'[x].len = pbufs[x].len /\ pbufs'[x].room = pbufs[x].room
        BY <3>4, <1>4
      <4>2. x \in Offsets /\ Owns(x) => Owns(x)' /\ SizeOf(x)' = SizeOf(x)
        BY <3>4, <1>12
      <4>. QED
        BY <3>1, <3>2, <4>1, <4>2 DEF Inside
    <3>. QED
      BY <3>3, <3>4
  <2>2. PayloadsFit'
    BY <1>2, <2>1, PayloadIs
  <2>. QED
    BY <1>1, <1>2, <1>12, <2>2 DEF InMemory
<1>. QED
  BY <1>7, <1>8, <1>9, <1>10, <1>11, <1>12, <1>13 DEF IInv, PacketInv

\* pbuf_realloc.
LEMMA ReallocKeeps ==
    \A p \in Live, new_len \in {0} \cup Lengths : IInv /\ PbufRealloc(p, new_len) => IInv'
<1>. SUFFICES ASSUME NEW p \in Live, NEW new_len \in {0} \cup Lengths, IInv, PbufRealloc(p, new_len) PROVE IInv'
  OBVIOUS
<1>0. new_len \in Nat
  BY PacketAssumption
<1>1. PICK N, t : N = Cardinality(Live) /\ t = Turns(p, new_len)
  OBVIOUS
<1>2. PICK q, rem, kept : q = t[N].q /\ rem = t[N].rem_len /\ kept = {t[i].q : i \in 0 .. N} \ {t[N].q}
  OBVIOUS
<1>3. TypeOK /\ Links /\ Acyclic /\ Counted
  BY DEF IInv, PacketInv
<1>4. Idle /\ Packet(p) /\ new_len < pbufs[p].tot_len /\ \A x \in Chain(p) : pbufs[x].ref = 1
  BY DEF PbufRealloc
<1>5. \A x \in Live : Exact(x)
  BY <1>4 DEF IInv, PacketInv, Totals, Doomed, Idle
<1>6. Cut(p, new_len, N, t)
  BY <1>0, <1>1, <1>3, <1>4, <1>5, CutIs
<1>7. CutAt(p, new_len, q, rem, kept)
  BY <1>0, <1>2, <1>3, <1>4, <1>6, KeptIs
<1>8. CutStep(p, new_len, q, rem, kept)
  BY <1>1, <1>2 DEF PbufRealloc, CutStep
<1>. QED
  BY <1>0, <1>7, <1>8, CutKeeps

\* Before the first packet.
LEMMA InitHolds == Init => IInv
<1>. SUFFICES ASSUME Init PROVE IInv
  OBVIOUS
<1>1. /\ HeapInit /\ pbufs = [p \in {} |-> NULL] /\ avail = Elements
      /\ held = [p \in Pbufs |-> 0] /\ freeing = NULL
  BY DEF Init
<1>2. Live = {}
  BY <1>1 DEF Live
<1>3. HeapInv
  BY <1>1, HeapStart
<1>4. \A o \in Offsets : ~Owns(o)
  <2>1. \A o \in Offsets : used[o] <=> o = ram_end
    BY <1>1, Zenon DEF HeapInit
  <2>. QED
    BY <2>1, Zenon DEF Owns, Areas
<1>5. TypeOK
  BY <1>1, <1>2 DEF TypeOK
<1>6. Links
  BY <1>1, <1>2 DEF Links
<1>7. Acyclic
  BY <1>2 DEF Acyclic
<1>8. Counted /\ Totals
  BY <1>2 DEF Counted, Totals
<1>9. InMemory
  BY <1>1, <1>2, <1>4 DEF InMemory, PayloadsFit
<1>. QED
  BY <1>3, <1>5, <1>6, <1>7, <1>8, <1>9 DEF IInv, PacketInv

\* Every operation on packets keeps the invariant.
LEMMA StepKeeps == IInv /\ [Next]_vars => IInv'
<1>. SUFFICES ASSUME IInv, [Next]_vars PROVE IInv'
  OBVIOUS
<1>1. CASE \E room \in HeadRooms, len \in Lengths : AllocRam(room, len) \/ AllocPool(room, len)
  BY <1>1, RamKeeps, PoolKeeps
<1>2. CASE \E len \in Lengths : AllocRef(len)
  BY <1>2, RefElementKeeps
<1>3. ASSUME NEW p \in Live, PbufFree(p) PROVE IInv'
  BY <1>3, FreeCalled
<1>4. ASSUME NEW p \in Live, NEW increment \in {-1, 1}, PbufHeader(p, increment) PROVE IInv'
  BY <1>4, HeaderKeeps
<1>5. ASSUME NEW p \in Live, NEW new_len \in {0} \cup Lengths, PbufRealloc(p, new_len) PROVE IInv'
  BY <1>5, ReallocKeeps
<1>6. ASSUME NEW p \in Live, PbufRef(p) PROVE IInv'
  BY <1>6, RefKeeps
<1>7. ASSUME NEW p \in Live, NEW t \in Live, PbufCat(p, t) \/ PbufChain(p, t) PROVE IInv'
  BY <1>7, CatKeeps, ChainKeeps
<1>8. ASSUME NEW p \in Live, PbufDechain(p) PROVE IInv'
  BY <1>8, DechainKeeps
<1>9. CASE StillReferenced \/ NoLongerReferenced
  BY <1>9, ReferencedKeeps, GoneKeeps
<1>10. CASE UNCHANGED vars
  BY <1>10, Unmoved DEF vars
<1>. QED
  BY <1>1, <1>2, <1>3, <1>4, <1>5, <1>6, <1>7, <1>8, <1>9, <1>10 DEF Next

\* Whatever the clients do, in whatever order, the memory of packets is in order.
THEOREM PacketMemoryInvariant == Spec => []IInv
  BY InitHolds, StepKeeps, PTL DEF Spec

\* The counts are those RefsExact asks for.
LEMMA InvGivesRefs == IInv => RefsExact
<1>. SUFFICES ASSUME IInv, NEW p \in Pbufs
              PROVE  IF p \in Live THEN pbufs[p].ref = Pointers(p) /\ Pointers(p) > 0 ELSE Pointers(p) = 0
  BY DEF RefsExact, Pointers, IInv, PacketInv
<1>1. CASE p \in Live
  <2>1. pbufs[p].ref = Pointers(p) /\ pbufs[p].ref > 0
    BY <1>1 DEF IInv, PacketInv, Counted
  <2>. QED
    BY <1>1, <2>1
<1>2. CASE p \notin Live
  <2>1. held[p] = 0
    BY <1>2 DEF IInv, PacketInv, TypeOK, Links
  <2>2. p # NULL
    BY NullIsNone
  <2>3. Predecessors(p) = {} /\ freeing # p
    BY <1>2, <2>2 DEF IInv, PacketInv, Links, Predecessors
  <2>4. Cardinality(Predecessors(p)) = 0
    BY <2>3, FS_EmptySet
  <2>. QED
    BY <1>2, <2>1, <2>3, <2>4 DEF Pointers
<1>. QED
  BY <1>1, <1>2

\* "The reference counter of a pbuf equals the number of pointers that refer to the pbuf".
THEOREM RefsAlwaysExact == Spec => []RefsExact
  BY PacketMemoryInvariant, InvGivesRefs, PTL

\* Outside pbuf_free nothing is doomed.
LEMMA InvGivesTotals == IInv => TotExact
  BY DEF IInv, PacketInv, Totals, Doomed, Idle, TotExact, Exact

\* tot_len is len plus the tot_len of the rest of the chain (the invariant pbuf_dechain
\* asserts), however packets were cut and joined: an operation on a chain never
\* leaves a pbuf in front of it with an old total.
THEOREM TotalsAlwaysExact == Spec => []TotExact
  BY PacketMemoryInvariant, InvGivesTotals, PTL

\* PayloadInside is part of the invariant, its lower bound of the types.
LEMMA InvGivesInside == IInv => PayloadInside
<1>. SUFFICES ASSUME IInv, NEW p \in Live
              PROVE  /\ 0 <= pbufs[p].room
                     /\ p \in Offsets => /\ p \in Areas /\ used[p]
                                         /\ SIZEOF_STRUCT_PBUF + pbufs[p].room + pbufs[p].len <= SizeOf(p)
                     /\ p \in PoolElements => pbufs[p].room + pbufs[p].len <= PBUF_POOL_BUFSIZE
  BY DEF PayloadInside
<1>1. pbufs[p].room \in Nat
  BY DEF IInv, PacketInv, TypeOK
<1>2. PayloadsFit
  BY DEF IInv, PacketInv, InMemory
<1>. QED
  BY <1>1, <1>2 DEF PayloadsFit

\* What a payload covers lies inside the memory of its pbuf: pbuf_header never lets it begin
\* in front of that, and pbuf_realloc never cuts off data that len still counts.
THEOREM PayloadsStayInside == Spec => []PayloadInside
  BY PacketMemoryInvariant, InvGivesInside, PTL

\* A pbuf that is counted is pointed to, and pointers begin with the clients'.
LEMMA NobodyHolds ==
    ASSUME IInv, Idle, \A p \in Pbufs : held[p] = 0
    PROVE  Live = {}
<1>. SUFFICES ASSUME Live # {} PROVE FALSE
  OBVIOUS
<1>1. PICK p \in Live : \A q \in Live : pbufs[q].next # p
  BY DEF IInv, PacketInv, Acyclic
<1>2. Predecessors(p) = {}
  BY <1>1 DEF Predecessors
<1>3. Cardinality(Predecessors(p)) = 0
  BY <1>2, FS_EmptySet
<1>4. p \in Pbufs /\ p # NULL /\ held[p] = 0 /\ freeing # p
  BY NullIsNone DEF IInv, PacketInv, TypeOK, Idle
<1>5. Pointers(p) = 0
  BY <1>3, <1>4 DEF Pointers
<1>. QED
  BY <1>5 DEF IInv, PacketInv, Counted

\* With no pbuf in use the pools are full, and the heap is one area.
LEMMA InvGivesBack == IInv => AllGivenBack
<1>. SUFFICES ASSUME IInv, Idle, \A p \in Pbufs : held[p] = 0
              PROVE  avail = Elements /\ heads = {0, ram_end} /\ ~used[0] /\ lfree = 0
  BY DEF AllGivenBack
<1>1. Live = {}
  BY NobodyHolds
<1>2. avail = Elements /\ \A o \in Offsets : ~Owns(o)
  BY <1>1 DEF IInv, PacketInv, InMemory
<1>3. HeapInv /\ MEM_SIZE \in Nat /\ MEM_SIZE > 0
  BY HeapAssumption DEF IInv
<1>4. 0 \in Areas /\ ram_end \in heads /\ heads \subseteq Offsets /\ lfree \in heads
  BY <1>3 DEF HeapInv, HeapTypeOK, Areas, ram_end
<1>5. \A h \in Areas : ~used[h]
  BY <1>2, <1>4 DEF Owns, Areas
<1>6. next[0] \in heads /\ used[next[0]]
  BY <1>3, <1>4, <1>5 DEF HeapInv, Linked, NoAdjacentFree
<1>7. next[0] = MEM_SIZE
  BY <1>5, <1>6 DEF Areas, ram_end
<1>8. \A o \in heads : o <= 0 \/ MEM_SIZE <= o
  BY <1>3, <1>4, <1>7 DEF HeapInv, Linked
<1>9. heads = {0, ram_end}
  <2>1. \A o \in heads : o \in Nat /\ o <= MEM_SIZE
    BY <1>3, <1>4 DEF Offsets
  <2>2. \A o \in heads : o = 0 \/ o = ram_end
    BY <1>3, <1>8, <2>1 DEF ram_end
  <2>3. 0 \in heads /\ ram_end \in heads
    BY <1>4 DEF Areas
  <2>. QED
    BY <2>2, <2>3
<1>10. lfree = 0
  BY <1>3, <1>4, <1>5 DEF HeapInv, LfreeLowest, Offsets
<1>. QED
  BY <1>2, <1>4, <1>5, <1>9, <1>10

\* Once the clients have given back every reference, all memory is free again and the
\* heap is one area: no order of frees leaves a leak or a cut.
THEOREM EverythingComesBack == Spec => []AllGivenBack
  BY PacketMemoryInvariant, InvGivesBack, PTL

-----------------------------------------------------------------------------
\* What a step on packets does to the heap is a call its owner may make.
LEMMA HeapStep == IInv /\ [Next]_vars => [HeapNext]_heapVars
<1>. SUFFICES ASSUME IInv, [Next]_vars PROVE HeapNext \/ UNCHANGED heapVars
  OBVIOUS
<1>0. /\ HeapInv /\ TypeOK /\ PayloadsFit /\ SIZEOF_STRUCT_PBUF \in Nat \ {0} /\ MEM_SIZE \in Nat
      /\ \A o \in Offsets : Owns(o) <=> o \in Live
  BY PacketAssumption, HeapAssumption DEF IInv, PacketInv, InMemory
<1>1. ASSUME NEW room \in HeadRooms, NEW len \in Lengths, AllocRam(room, len)
      PROVE  HeapNext \/ UNCHANGED heapVars
  <2>1. PICK size : size = SIZEOF_STRUCT_PBUF + room + len
    OBVIOUS
  <2>2. size \in Nat /\ size >= 1
    BY <2>1, <1>0, PacketAssumption
  <2>3. (\E h \in Offsets : MemMalloc(size, h)) \/ MemMallocFails(size)
    BY <1>1, <2>1 DEF AllocRam
  <2>4. ASSUME NEW h \in Offsets, MemMalloc(size, h) PROVE HeapNext
    <3>1. size <= MEM_SIZE
      BY <1>0, <2>2, <2>4, MallocGives
    <3>2. size \in 1 .. MEM_SIZE
      BY <3>1, <2>2, <1>0
    <3>. QED
      BY <3>2, <2>4 DEF HeapNext
  <2>. QED
    BY <2>3, <2>4 DEF MemMallocFails
<1>2. ASSUME NEW p \in Live, NEW new_len \in {0} \cup Lengths, PbufRealloc(p, new_len)
      PROVE  HeapNext \/ UNCHANGED heapVars
  <2>0. new_len \in Nat
    BY PacketAssumption
  <2>t. PICK N, t : N = Cardinality(Live) /\ t = Turns(p, new_len)
    OBVIOUS
  <2>k. PICK q, rem, kept : q = t[N].q /\ rem = t[N].rem_len /\ kept = {t[i].q : i \in 0 .. N} \ {t[N].q}
    OBVIOUS
  <2>1. /\ N = Cardinality(Live) /\ t = Turns(p, new_len) /\ q = t[N].q /\ rem = t[N].rem_len
    BY <2>t, <2>k
  <2>2. CutAt(p, new_len, q, rem, kept)
    <3>1. Idle /\ Packet(p) /\ new_len < pbufs[p].tot_len /\ \A x \in Chain(p) : pbufs[x].ref = 1
      BY <1>2 DEF PbufRealloc
    <3>2. \A x \in Live : Exact(x)
      BY <3>1 DEF IInv, PacketInv, Totals, Doomed, Idle
    <3>3. TypeOK /\ Links /\ Acyclic /\ Counted
      BY DEF IInv, PacketInv
    <3>4. Cut(p, new_len, N, t)
      BY <2>0, <2>1, <3>1, <3>2, <3>3, CutIs
    <3>. QED
      BY <2>0, <2>k, <3>1, <3>3, <3>4, KeptIs
  <2>3. q \in Live /\ rem \in Nat /\ rem <= pbufs[q].len
    BY <2>2 DEF CutAt
  <2>4. CASE q \in Offsets /\ rem # pbufs[q].len
    <3>1. MemTrim(q, TrimSize(q, rem))
      BY <1>2, <2>1, <2>4 DEF PbufRealloc
    <3>2. q \in Areas /\ used[q] /\ SIZEOF_STRUCT_PBUF + pbufs[q].room + pbufs[q].len <= SizeOf(q)
      BY <2>3, <2>4, <1>0, PayloadIs DEF Inside, Owns
    <3>3. pbufs[q].room \in Nat /\ pbufs[q].len \in Nat
      BY <2>3, <1>0, Fields
    <3>4. SizeOf(q) \in Int /\ SizeOf(q) <= MEM_SIZE
      BY <3>2, <1>0, AreaFacts DEF Offsets, SizeOf
    <3>5. TrimSize(q, rem) \in 1 .. MEM_SIZE
      BY <3>2, <3>3, <3>4, <2>3, <1>0 DEF TrimSize
    <3>. QED
      BY <3>1, <3>2, <3>5 DEF HeapNext
  <2>5. CASE ~(q \in Offsets /\ rem # pbufs[q].len)
    BY <1>2, <2>1, <2>5 DEF PbufRealloc
  <2>. QED
    BY <2>4, <2>5
<1>3. ASSUME NoLongerReferenced PROVE HeapNext \/ UNCHANGED heapVars
  <2>1. freeing \in Live
    BY <1>3 DEF NoLongerReferenced, IInv, PacketInv, Links, Idle
  <2>2. CASE freeing \in Offsets /\ MemFree(freeing)
    BY <2>1, <2>2, <1>0 DEF HeapNext, Owns
  <2>. QED
    BY <1>3, <2>2 DEF NoLongerReferenced, Deallocate
<1>4. CASE UNCHANGED heapVars
  BY <1>4
<1>5. \A room, len : AllocPool(room, len) => UNCHANGED heapVars
  BY DEF AllocPool
<1>6. \A len : AllocRef(len) => UNCHANGED heapVars
  BY DEF AllocRef
<1>7. \A p \in Live : /\ PbufFree(p) => UNCHANGED heapVars
                      /\ \A increment \in {-1, 1} : PbufHeader(p, increment) => UNCHANGED heapVars
                      /\ PbufRef(p) => UNCHANGED heapVars
                      /\ \A t \in Live : PbufCat(p, t) \/ PbufChain(p, t) => UNCHANGED heapVars
                      /\ PbufDechain(p) => UNCHANGED heapVars
  BY DEF PbufFree, PbufHeader, PbufRef, PbufCat, PbufChain, PbufDechain
<1>8. StillReferenced => UNCHANGED heapVars
  BY DEF StillReferenced
<1>9. UNCHANGED vars => UNCHANGED heapVars
  BY DEF vars
<1>. QED
  BY <1>1, <1>2, <1>3, <1>4, <1>5, <1>6, <1>7, <1>8, <1>9 DEF Next

\* Packets are one more client of the heap: they free and trim only areas they own,
\* and never ask for more than an area holds.
THEOREM PacketsUseTheHeap == Spec => HeapSpec
<1>1. Init => HeapInit
  BY DEF Init
<1>. QED
  BY <1>1, HeapStep, PacketMemoryInvariant, PTL DEF Spec, HeapSpec

\* So the heap is sound under packets: it tiles its memory, refuses only what does not
\* fit, and never hands out memory that a packet still has.
THEOREM HeapSoundUnderPackets ==
    Spec => []HeapInv /\ []RefusedOnlyWhenFull /\ HeapImplementsAllocator
  BY PacketsUseTheHeap, HeapSound, RefusedForGoodReason, HeapIsAllocator, PTL

-----------------------------------------------------------------------------
(* The block allocator.                                                     *)

\* A request of at least one byte covers at least one block.
LEMMA NeededPositive ==
    ASSUME NEW size \in Nat, size # 0
    PROVE  Needed(size) \in Nat /\ Needed(size) >= 1
<1>1. BlockSize \in Nat \ {0}
  BY TableAssumption, PoolAssumption
<1>2. size \div BlockSize \in Nat /\ size % BlockSize \in Nat
  BY <1>1
<1>3. CASE size % BlockSize # 0
  BY <1>2, <1>3 DEF Needed
<1>4. CASE size % BlockSize = 0
  <2>1. size = BlockSize * (size \div BlockSize)
    BY <1>1, <1>4
  <2>2. size \div BlockSize # 0
    BY <1>1, <2>1
  <2>. QED
    BY <1>2, <1>4, <2>2 DEF Needed
<1>. QED
  BY <1>2, <1>3, <1>4

\* No block count the callers' requests lead to wraps in 16 bits.
LEMMA CountExact ==
    ASSUME NEW size \in Sizes, size # 0
    PROVE  /\ BlockCount(size) = Needed(size)
           /\ BlockCount(size) \in 1 .. U16 - 1
<1>1. size \in Nat /\ Needed(size) < U16
  BY SizesAssumption
<1>2. Needed(size) \in Nat /\ Needed(size) >= 1
  BY <1>1, NeededPositive
<1>3. Needed(size) % U16 = Needed(size)
  BY <1>1, <1>2, TableAssumption, PoolAssumption
<1>. QED
  BY <1>1, <1>2, <1>3, TableAssumption, PoolAssumption DEF BlockCount

-----------------------------------------------------------------------------
(* The inductive invariant: what the table says and what the owners hold.   *)

\* An owner with an area got it from a pool that was ready.
HeldWell ==
    \A o \in Owners :
        /\ ptr[o] = Null => need[o] = 0
        /\ ptr[o] # Null => memrdy /\ need[o] >= 1

PoolIInv == PoolTypeOK /\ HeldWell /\ AreasDisjoint /\ MapExact

\* The table every call works on is exact, also when the call has to initialise it.
LEMMA ReadyExact ==
    ASSUME PoolIInv
    PROVE  /\ Ready \in [Blocks -> 0 .. U16 - 1]
           /\ \A o \in Owners : \A b \in Area(o) : Ready[b] = need[o]
           /\ \A b \in Blocks : (\A o \in Owners : b \notin Area(o)) => Ready[b] = 0
<1>1. CASE memrdy
  BY <1>1 DEF PoolIInv, PoolTypeOK, MapExact, Ready
<1>2. CASE ~memrdy
  <2>1. \A o \in Owners : Area(o) = {}
    BY <1>2 DEF PoolIInv, HeldWell, Area
  <2>2. 0 \in 0 .. U16 - 1
    BY TableAssumption, PoolAssumption
  <2>. QED
    BY <1>2, <2>1, <2>2 DEF Ready, Zeroed
<1>. QED
  BY <1>1, <1>2

\* The run the search stops at is inside the pool and nobody's.
LEMMA RunIsFree ==
    ASSUME PoolIInv, NEW n \in Nat, n >= 1, NEW offset \in Blocks, StopsAt(Ready, n, offset)
    PROVE  /\ offset .. offset + n - 1 \subseteq Blocks
           /\ \A o \in Owners : Area(o) \cap (offset .. offset + n - 1) = {}
<1>1. /\ offset + n <= NBlocks
      /\ \A b \in offset .. offset + n - 1 : Ready[b] = 0
  BY DEF StopsAt, FitsAt
<1>2. offset .. offset + n - 1 \subseteq Blocks
  BY <1>1, TableAssumption, PoolAssumption DEF Blocks
<1>3. ASSUME NEW o \in Owners, NEW b \in Area(o), b \in offset .. offset + n - 1
      PROVE  FALSE
  <2>1. Ready[b] = need[o] /\ Ready[b] = 0
    BY <1>1, <1>3, ReadyExact
  <2>2. need[o] >= 1
    BY <1>3 DEF Area, PoolIInv, HeldWell
  <2>. QED
    BY <2>1, <2>2
<1>. QED
  BY <1>2, <1>3

LEMMA PoolInitIInv == PoolInit => PoolIInv
<1>. SUFFICES ASSUME PoolInit PROVE PoolIInv
  OBVIOUS
<1>1. PoolTypeOK
  <2>1. 0 \in 0 .. U16 - 1 /\ 1 \in 0 .. U16 - 1
    BY TableAssumption, PoolAssumption
  <2>. QED
    BY <2>1 DEF PoolInit, PoolTypeOK
<1>2. \A o \in Owners : Area(o) = {}
  BY DEF PoolInit, Area
<1>. QED
  BY <1>1, <1>2 DEF PoolInit, PoolIInv, HeldWell, AreasDisjoint, MapExact

\* A step that gives o the run found by the search, and first takes back what o had.
LEMMA GrantStep ==
    ASSUME PoolIInv, NEW o \in Owners, NEW n \in 1 .. U16 - 1, NEW offset \in Blocks,
           StopsAt(Ready, n, offset),
           memrdy' = TRUE,
           memmap' = IF ptr[o] = Null THEN Mark(Ready, offset, n)
                     ELSE Clear(Mark(Ready, offset, n), ptr[o]),
           ptr' = [ptr EXCEPT ![o] = offset],
           need' = [need EXCEPT ![o] = n]
    PROVE  HeldWell' /\ AreasDisjoint' /\ MapExact'
<1>. DEFINE Run == offset .. offset + n - 1
<1>1. /\ Run \subseteq Blocks
      /\ \A p \in Owners : Area(p) \cap Run = {}
  BY RunIsFree
<1>2. /\ ptr \in [Owners -> Blocks \cup {Null}]
      /\ need \in [Owners -> Nat]
      /\ Null \notin Blocks
  BY TableAssumption, PoolAssumption DEF PoolIInv, PoolTypeOK, Blocks
<1>3. /\ Area(o)' = Run
      /\ \A p \in Owners \ {o} : Area(p)' = Area(p)
  BY <1>2 DEF Area
<1>4. HeldWell'
  BY <1>2 DEF PoolIInv, HeldWell
<1>5. AreasDisjoint'
  <2>1. ASSUME NEW p \in Owners
        PROVE  Area(p)' \subseteq Blocks
    BY <1>1, <1>3 DEF PoolIInv, AreasDisjoint
  <2>2. ASSUME NEW p \in Owners, NEW q \in Owners, p # q
        PROVE  Area(p)' \cap Area(q)' = {}
    <3>1. CASE p = o
      <4>1. Area(p)' = Run /\ Area(q)' = Area(q)
        BY <1>3, <2>2, <3>1
      <4>. QED
        BY <1>1, <4>1
    <3>2. CASE q = o
      <4>1. Area(q)' = Run /\ Area(p)' = Area(p)
        BY <1>3, <2>2, <3>2
      <4>. QED
        BY <1>1, <4>1
    <3>3. CASE p # o /\ q # o
      BY <1>3, <2>2, <3>3 DEF PoolIInv, AreasDisjoint
    <3>. QED
      BY <3>1, <3>2, <3>3
  <2>. QED
    BY <2>1, <2>2 DEF AreasDisjoint
<1>6. \A b \in Blocks : memmap'[b] = IF b \in Run THEN n
                                     ELSE IF b \in Area(o) THEN 0 ELSE Ready[b]
  <2>1. CASE ptr[o] = Null
    BY <2>1 DEF Area, Mark
  <2>2. CASE ptr[o] # Null
    <3>1. ptr[o] \in Area(o) /\ ptr[o] \in Blocks
      BY <1>2, <2>2 DEF Area, PoolIInv, HeldWell, Blocks
    <3>2. ptr[o] \notin Run
      BY <1>1, <3>1
    <3>3. Mark(Ready, offset, n)[ptr[o]] = need[o]
      BY <3>1, <3>2, ReadyExact DEF Mark
    <3>4. memmap' = [b \in Blocks |-> IF b \in Area(o) THEN 0
                                      ELSE Mark(Ready, offset, n)[b]]
      BY <2>2, <3>3 DEF Clear, Area
    <3>. QED
      BY <1>1, <3>4 DEF Mark
  <2>. QED
    BY <2>1, <2>2
<1>7. MapExact'
  <2>1. ASSUME NEW p \in Owners, NEW b \in Area(p)'
        PROVE  memmap'[b] = need'[p]
    <3>1. CASE p = o
      BY <1>1, <1>2, <1>3, <1>6, <2>1, <3>1
    <3>2. CASE p # o
      <4>1. b \in Area(p) /\ b \in Blocks /\ b \notin Run /\ b \notin Area(o)
        BY <1>1, <1>3, <2>1, <3>2 DEF PoolIInv, AreasDisjoint
      <4>2. Ready[b] = need[p] /\ need'[p] = need[p]
        BY <1>2, <3>2, <4>1, ReadyExact
      <4>. QED
        BY <1>6, <4>1, <4>2
    <3>. QED
      BY <3>1, <3>2
  <2>2. ASSUME NEW b \in Blocks, \A p \in Owners : b \notin Area(p)'
        PROVE  memmap'[b] = 0
    <3>1. b \notin Run /\ \A p \in Owners \ {o} : b \notin Area(p)
      BY <1>3, <2>2
    <3>2. CASE b \in Area(o)
      BY <1>6, <3>1, <3>2
    <3>3. CASE b \notin Area(o)
      BY <1>6, <3>1, <3>3, ReadyExact
    <3>. QED
      BY <3>2, <3>3
  <2>. QED
    BY <2>1, <2>2 DEF MapExact
<1>. QED
  BY <1>4, <1>5, <1>7

LEMMA MallocStep ==
    ASSUME PoolIInv, NEW o \in Owners, NEW size \in Sizes, Mymalloc(o, size)
    PROVE  PoolIInv'
<1>1. PICK offset \in Blocks :
        /\ StopsAt(Ready, BlockCount(size), offset)
        /\ memmap' = Mark(Ready, offset, BlockCount(size))
        /\ ptr' = [ptr EXCEPT ![o] = offset]
  BY DEF Mymalloc
<1>2. BlockCount(size) = Needed(size) /\ BlockCount(size) \in 1 .. U16 - 1
  BY CountExact DEF Mymalloc
<1>3. HeldWell' /\ AreasDisjoint' /\ MapExact'
  BY <1>1, <1>2, GrantStep DEF Mymalloc
<1>4. PoolTypeOK'
  <2>1. memmap' \in [Blocks -> 0 .. U16 - 1]
    BY <1>1, <1>2, ReadyExact, TableAssumption, PoolAssumption DEF Mark
  <2>2. need' \in [Owners -> Nat]
    BY <1>2 DEF Mymalloc, PoolIInv, PoolTypeOK
  <2>. QED
    BY <1>1, <2>1, <2>2 DEF Mymalloc, PoolIInv, PoolTypeOK, ReadyContent
<1>. QED
  BY <1>3, <1>4 DEF PoolIInv

LEMMA ReallocStep ==
    ASSUME PoolIInv, NEW o \in Owners, NEW size \in Sizes, Myrealloc(o, size)
    PROVE  PoolIInv'
<1>. DEFINE n == BlockCount(size)
<1>1. PICK offset \in Blocks :
        /\ StopsAt(Ready, n, offset)
        /\ memmap' = IF ptr[o] = Null THEN Mark(Ready, offset, n)
                     ELSE Clear(Mark(Ready, offset, n), ptr[o])
        /\ content' = [b \in Blocks |-> Copied(o, offset, n, b)]
        /\ ptr' = [ptr EXCEPT ![o] = offset]
  BY DEF Myrealloc
<1>2. n = Needed(size) /\ n \in 1 .. U16 - 1
  BY CountExact DEF Myrealloc
<1>3. HeldWell' /\ AreasDisjoint' /\ MapExact'
  BY <1>1, <1>2, GrantStep DEF Myrealloc
<1>4. PoolTypeOK'
  <2>1. memmap' \in [Blocks -> 0 .. U16 - 1]
    BY <1>1, <1>2, ReadyExact, TableAssumption, PoolAssumption DEF Mark, Clear
  <2>2. ASSUME NEW b \in Blocks
        PROVE  Copied(o, offset, n, b) \in Owners \cup {Junk}
    <3>1. CASE ptr[o] # Null /\ b - offset < need[o] /\ b \in offset .. offset + n - 1
      <4>1. ptr[o] + b - offset \in Area(o)
        BY <3>1, <1>2, TableAssumption, PoolAssumption DEF Area, PoolIInv, PoolTypeOK, Blocks
      <4>2. ptr[o] + b - offset \in Blocks
        BY <4>1 DEF PoolIInv, AreasDisjoint
      <4>. QED
        BY <3>1, <4>2 DEF Copied, PoolIInv, PoolTypeOK
    <3>2. CASE ~(ptr[o] # Null /\ b - offset < need[o] /\ b \in offset .. offset + n - 1)
      BY <3>2 DEF Copied, ReadyContent, PoolIInv, PoolTypeOK
    <3>. QED
      BY <3>1, <3>2
  <2>3. content' \in [Blocks -> Owners \cup {Junk}]
    BY <1>1, <2>2
  <2>4. need' \in [Owners -> Nat] /\ filled' \in [Owners -> Nat]
    BY <1>2 DEF Myrealloc, PoolIInv, PoolTypeOK
  <2>. QED
    BY <1>1, <2>1, <2>3, <2>4 DEF Myrealloc, PoolIInv, PoolTypeOK
<1>. QED
  BY <1>3, <1>4 DEF PoolIInv

LEMMA FreeStep ==
    ASSUME PoolIInv, NEW o \in Owners, Myfree(o)
    PROVE  PoolIInv'
<1>1. /\ ptr \in [Owners -> Blocks \cup {Null}]
      /\ need \in [Owners -> Nat]
      /\ Null \notin Blocks
  BY TableAssumption, PoolAssumption DEF PoolIInv, PoolTypeOK, Blocks
<1>2. /\ Area(o)' = {}
      /\ \A p \in Owners \ {o} : Area(p)' = Area(p) /\ need'[p] = need[p]
  BY <1>1 DEF Area, Myfree
<1>3. memmap' = [b \in Blocks |-> IF b \in Area(o) THEN 0 ELSE memmap[b]]
  <2>1. ptr[o] \in Area(o)
    BY <1>1 DEF Myfree, Area, PoolIInv, HeldWell, Blocks
  <2>2. memmap[ptr[o]] = need[o]
    BY <2>1 DEF Myfree, PoolIInv, MapExact
  <2>. QED
    BY <2>2 DEF Myfree, Clear, Area
<1>4. PoolTypeOK'
  <2>1. memmap' \in [Blocks -> 0 .. U16 - 1]
    BY <1>3, TableAssumption, PoolAssumption DEF PoolIInv, PoolTypeOK
  <2>. QED
    BY <1>1, <2>1 DEF Myfree, PoolIInv, PoolTypeOK
<1>5. HeldWell'
  BY <1>1 DEF Myfree, PoolIInv, HeldWell
<1>6. AreasDisjoint'
  <2>1. \A p \in Owners : Area(p)' \subseteq Area(p)
    BY <1>2
  <2>. QED
    BY <2>1 DEF PoolIInv, AreasDisjoint
<1>7. MapExact'
  <2>1. ASSUME NEW p \in Owners, NEW b \in Area(p)'
        PROVE  memmap'[b] = need'[p]
    <3>1. p # o /\ b \in Area(p) /\ b \in Blocks /\ b \notin Area(o)
      BY <1>2, <2>1 DEF PoolIInv, AreasDisjoint
    <3>. QED
      BY <1>2, <1>3, <3>1 DEF Myfree, PoolIInv, MapExact
  <2>2. ASSUME NEW b \in Blocks, \A p \in Owners : b \notin Area(p)'
        PROVE  memmap'[b] = 0
    <3>1. \A p \in Owners \ {o} : b \notin Area(p)
      BY <1>2, <2>2
    <3>. QED
      BY <1>3, <3>1 DEF Myfree, PoolIInv, MapExact
  <2>. QED
    BY <2>1, <2>2 DEF MapExact
<1>. QED
  BY <1>4, <1>5, <1>6, <1>7 DEF PoolIInv

LEMMA PoolStepIInv == PoolIInv /\ [PoolNext]_poolVars => PoolIInv'
<1>. SUFFICES ASSUME PoolIInv, [PoolNext]_poolVars PROVE PoolIInv'
  OBVIOUS
<1>. USE DEF PoolIInv
<1>1. CASE MymemInit
  <2>1. \A o \in Owners : Area(o) = {} /\ Area(o)' = {}
    BY <1>1 DEF MymemInit, HeldWell, Area
  <2>2. 0 \in 0 .. U16 - 1
    BY TableAssumption, PoolAssumption
  <2>. QED
    BY <1>1, <2>1, <2>2 DEF MymemInit, Zeroed, PoolTypeOK, HeldWell, AreasDisjoint, MapExact
<1>2. CASE \E o \in Owners : Myfree(o)
  BY <1>2, FreeStep
<1>3. CASE \E o \in Owners : Fill(o)
  <2>1. \A o \in Owners : Area(o)' = Area(o)
    BY <1>3 DEF Fill, Area
  <2>2. PoolTypeOK'
    BY <1>3 DEF Fill, PoolTypeOK
  <2>. QED
    BY <1>3, <2>1, <2>2 DEF Fill, HeldWell, AreasDisjoint, MapExact
<1>4. CASE \E o \in Owners, size \in Sizes : Mymalloc(o, size)
  BY <1>4, MallocStep
<1>5. CASE \E o \in Owners, size \in Sizes : MallocFails(o, size)
  <2>1. \A o \in Owners : Area(o)' = Area(o)
    BY <1>5 DEF MallocFails, Area
  <2>2. memmap' = Ready /\ PoolTypeOK'
    BY <1>5, ReadyExact DEF MallocFails, PoolTypeOK, ReadyContent
  <2>3. HeldWell' /\ AreasDisjoint'
    BY <1>5, <2>1 DEF MallocFails, HeldWell, AreasDisjoint
  <2>4. MapExact'
    BY <1>5, <2>1, <2>2, ReadyExact DEF MallocFails, MapExact
  <2>. QED
    BY <2>2, <2>3, <2>4
<1>6. CASE \E o \in Owners, size \in Sizes : Myrealloc(o, size)
  BY <1>6, ReallocStep
<1>7. CASE UNCHANGED poolVars
  <2>1. \A o \in Owners : Area(o)' = Area(o)
    BY <1>7 DEF poolVars, Area
  <2>. QED
    BY <1>7, <2>1 DEF poolVars, PoolTypeOK, HeldWell, AreasDisjoint, MapExact
<1>. QED
  BY <1>1, <1>2, <1>3, <1>4, <1>5, <1>6, <1>7 DEF PoolNext

\* Every reachable state satisfies the inductive invariant.
THEOREM PoolInvariance == PoolSpec => []PoolIInv
<1>1. PoolInit => PoolIInv
  BY PoolInitIInv
<1>2. PoolIInv /\ [PoolNext]_poolVars => PoolIInv'
  BY PoolStepIInv
<1>. QED
  BY <1>1, <1>2, PTL DEF PoolSpec

\* mymem_malloc, mymem_free and myrealloc keep the table's entries in 16 bits.
THEOREM PoolTypeCorrect == PoolSpec => []PoolTypeOK
<1>1. PoolIInv => PoolTypeOK
  BY DEF PoolIInv
<1>. QED
  BY <1>1, PoolInvariance, PTL

\* The areas mymalloc and myrealloc hand out never overlap nor leave the pool.
THEOREM NoOverlap == PoolSpec => []AreasDisjoint
<1>1. PoolIInv => AreasDisjoint
  BY DEF PoolIInv
<1>. QED
  BY <1>1, PoolInvariance, PTL

\* The table of malloc.c is exact: what it marks is what the callers hold.
THEOREM TableExact == PoolSpec => []MapExact
<1>1. PoolIInv => MapExact
  BY DEF PoolIInv
<1>. QED
  BY <1>1, PoolInvariance, PTL

-----------------------------------------------------------------------------
(* Contents.  An owner's data is in its area only up to filled[o].          *)

FilledWell ==
    \A o \in Owners : /\ filled[o] <= need[o]
                      /\ ptr[o] = Null => filled[o] = 0

PoolCInv == PoolIInv /\ FilledWell /\ ContentsKept

\* The blocks an owner has filled are blocks of its area.
LEMMA FilledInArea ==
    ASSUME PoolCInv, NEW o \in Owners, ptr[o] # Null, NEW b \in ptr[o] .. ptr[o] + filled[o] - 1
    PROVE  b \in Area(o) /\ b \in Blocks /\ content[b] = o /\ memrdy
<1>1. ptr[o] \in Blocks /\ filled[o] \in Nat /\ need[o] \in Nat /\ filled[o] <= need[o]
  BY DEF PoolCInv, PoolIInv, PoolTypeOK, FilledWell
<1>2. b \in Area(o)
  BY <1>1, TableAssumption, PoolAssumption DEF Area, Blocks
<1>. QED
  BY <1>2 DEF PoolCInv, PoolIInv, AreasDisjoint, ContentsKept, HeldWell

LEMMA PoolStepCInv == PoolCInv /\ [PoolNext]_poolVars => PoolCInv'
<1>. SUFFICES ASSUME PoolCInv, [PoolNext]_poolVars PROVE PoolCInv'
  OBVIOUS
<1>1. PoolIInv /\ PoolIInv'
  BY PoolStepIInv DEF PoolCInv
<1>2. /\ ptr \in [Owners -> Blocks \cup {Null}]
      /\ need \in [Owners -> Nat]
      /\ filled \in [Owners -> Nat]
      /\ Null \notin Blocks
  BY <1>1, TableAssumption, PoolAssumption DEF PoolIInv, PoolTypeOK, Blocks
<1>3. CASE MymemInit
  BY <1>1, <1>3 DEF MymemInit, PoolIInv, HeldWell, PoolCInv, FilledWell, ContentsKept
<1>4. ASSUME NEW o \in Owners, Myfree(o)
      PROVE  PoolCInv'
  BY <1>1, <1>2, <1>4 DEF Myfree, PoolCInv, FilledWell, ContentsKept
<1>5. ASSUME NEW o \in Owners, Fill(o)
      PROVE  PoolCInv'
  <2>1. FilledWell'
    BY <1>2, <1>5 DEF Fill, PoolCInv, FilledWell
  <2>2. ASSUME NEW p \in Owners, ptr'[p] # Null, NEW b \in ptr'[p] .. ptr'[p] + filled'[p] - 1
        PROVE  content'[b] = p
    <3>1. CASE p = o
      BY <1>1, <1>2, <1>5, <2>2, <3>1 DEF Fill, Area, PoolIInv, AreasDisjoint
    <3>2. CASE p # o
      <4>1. b \in Area(p) /\ b \in Blocks /\ content[b] = p
        BY <1>2, <1>5, <2>2, <3>2, FilledInArea DEF Fill
      <4>2. b \notin Area(o)
        BY <1>1, <3>2, <4>1 DEF PoolIInv, AreasDisjoint
      <4>. QED
        BY <1>5, <4>1, <4>2 DEF Fill
    <3>. QED
      BY <3>1, <3>2
  <2>. QED
    BY <1>1, <2>1, <2>2 DEF PoolCInv, ContentsKept
<1>6. ASSUME NEW o \in Owners, NEW size \in Sizes, Mymalloc(o, size)
      PROVE  PoolCInv'
  <2>1. need'[o] \in Nat
    BY <1>1, <1>6 DEF PoolIInv, PoolTypeOK
  <2>2. FilledWell'
    BY <1>2, <1>6, <2>1 DEF Mymalloc, PoolCInv, FilledWell
  <2>3. ASSUME NEW p \in Owners, ptr'[p] # Null, NEW b \in ptr'[p] .. ptr'[p] + filled'[p] - 1
        PROVE  content'[b] = p
    <3>1. CASE p = o
      <4>1. filled'[p] = 0 /\ ptr'[p] \in Int
        BY <1>1, <1>6, <2>3, <3>1 DEF Mymalloc, PoolCInv, FilledWell, PoolIInv, PoolTypeOK, Blocks
      <4>. QED
        BY <2>3, <4>1
    <3>2. CASE p # o
      <4>1. ptr'[p] = ptr[p] /\ filled'[p] = filled[p]
        BY <1>2, <1>6, <3>2 DEF Mymalloc
      <4>. QED
        BY <1>6, <2>3, <4>1, FilledInArea DEF Mymalloc, ReadyContent
    <3>. QED
      BY <3>1, <3>2
  <2>. QED
    BY <1>1, <2>2, <2>3 DEF PoolCInv, ContentsKept
<1>7. ASSUME NEW o \in Owners, NEW size \in Sizes, MallocFails(o, size)
      PROVE  PoolCInv'
  <2>1. ASSUME NEW p \in Owners, ptr[p] # Null
        PROVE  content' = content
    BY <1>1, <1>7, <2>1 DEF MallocFails, ReadyContent, PoolIInv, HeldWell
  <2>. QED
    BY <1>1, <1>7, <2>1 DEF MallocFails, PoolCInv, FilledWell, ContentsKept
<1>8. ASSUME NEW o \in Owners, NEW size \in Sizes, Myrealloc(o, size)
      PROVE  PoolCInv'
  <2>. DEFINE n == BlockCount(size)
  <2>1. PICK offset \in Blocks :
          /\ StopsAt(Ready, n, offset)
          /\ content' = [b \in Blocks |-> Copied(o, offset, n, b)]
          /\ ptr' = [ptr EXCEPT ![o] = offset]
    BY <1>8 DEF Myrealloc
  <2>2. n = Needed(size) /\ n \in Nat /\ n >= 1
    BY <1>8, CountExact DEF Myrealloc
  <2>3. FilledWell'
    BY <1>2, <1>8, <2>1, <2>2 DEF Myrealloc, PoolCInv, FilledWell, Blocks
  <2>4. ASSUME NEW p \in Owners, ptr'[p] # Null, NEW b \in ptr'[p] .. ptr'[p] + filled'[p] - 1
        PROVE  content'[b] = p
    <3>1. CASE p = o
      <4>1. /\ ptr'[p] = offset /\ filled'[p] <= filled[o] /\ filled'[p] <= n
            /\ filled'[p] \in Nat
        BY <1>2, <1>8, <2>1, <2>2, <3>1 DEF Myrealloc
      <4>2. b \in offset .. offset + n - 1 /\ b \in Blocks
        BY <1>1, <2>1, <2>2, <2>4, <4>1, RunIsFree DEF Blocks
      <4>3. filled[o] > 0 /\ ptr[o] # Null /\ b - offset < filled[o] /\ filled[o] <= need[o]
        BY <1>2, <2>4, <4>1, <4>2 DEF PoolCInv, FilledWell, Blocks
      <4>4. ptr[o] + b - offset \in ptr[o] .. ptr[o] + filled[o] - 1
        BY <1>2, <4>2, <4>3, TableAssumption, PoolAssumption DEF Blocks
      <4>5. content[ptr[o] + b - offset] = o
        BY <4>3, <4>4, FilledInArea
      <4>6. b - offset < need[o]
        BY <1>2, <4>2, <4>3, TableAssumption, PoolAssumption DEF Blocks
      <4>. QED
        BY <2>1, <3>1, <4>2, <4>3, <4>5, <4>6 DEF Copied
    <3>2. CASE p # o
      <4>1. ptr'[p] = ptr[p] /\ filled'[p] = filled[p]
        BY <1>2, <1>8, <2>1, <3>2 DEF Myrealloc
      <4>2. b \in Area(p) /\ b \in Blocks /\ content[b] = p /\ memrdy
        BY <2>4, <4>1, FilledInArea
      <4>3. b \notin offset .. offset + n - 1
        BY <1>1, <2>1, <2>2, <4>2, RunIsFree
      <4>. QED
        BY <2>1, <4>2, <4>3 DEF Copied, ReadyContent
    <3>. QED
      BY <3>1, <3>2
  <2>. QED
    BY <1>1, <2>3, <2>4 DEF PoolCInv, ContentsKept
<1>9. CASE UNCHANGED poolVars
  BY <1>1, <1>9 DEF poolVars, PoolCInv, FilledWell, ContentsKept
<1>. QED
  BY <1>3, <1>4, <1>5, <1>6, <1>7, <1>8, <1>9 DEF PoolNext

\* No allocator call made for somebody else changes what an owner wrote.
THEOREM ContentsSafe == PoolSpec => []ContentsKept
<1>1. PoolInit => PoolCInv
  BY PoolInitIInv DEF PoolInit, PoolCInv, FilledWell, ContentsKept
<1>2. PoolCInv /\ [PoolNext]_poolVars => PoolCInv'
  BY PoolStepCInv
<1>3. PoolCInv => ContentsKept
  BY DEF PoolCInv
<1>. QED
  BY <1>1, <1>2, <1>3, PTL DEF PoolSpec

-----------------------------------------------------------------------------
(* Refinement.                                                              *)

OwnersAreas == [o \in Owners |-> Area(o)]

\* Pointing o at the run found by the search is a grant of the abstract allocator.
LEMMA GrantRefines ==
    ASSUME PoolIInv, NEW o \in Owners, NEW size \in Sizes, size # 0,
           NEW offset \in Blocks, StopsAt(Ready, BlockCount(size), offset),
           ptr' = [ptr EXCEPT ![o] = offset],
           need' = [need EXCEPT ![o] = Needed(size)]
    PROVE  Promise!Grant(o)
<1>. DEFINE n == BlockCount(size)
            Run == offset .. offset + n - 1
<1>1. n = Needed(size) /\ n \in Nat /\ n >= 1
  BY CountExact
<1>2. /\ Run \subseteq Blocks
      /\ \A p \in Owners : Area(p) \cap Run = {}
  BY <1>1, RunIsFree
<1>3. /\ ptr \in [Owners -> Blocks \cup {Null}]
      /\ need \in [Owners -> Nat]
      /\ Null \notin Blocks
  BY TableAssumption, PoolAssumption DEF PoolIInv, PoolTypeOK, Blocks
<1>4. /\ Area(o)' = Run
      /\ \A p \in Owners \ {o} : Area(p)' = Area(p)
  BY <1>1, <1>3 DEF Area
<1>5. OwnersAreas' = [OwnersAreas EXCEPT ![o] = Run]
  BY <1>4 DEF OwnersAreas
<1>6. Run \subseteq Promise!Free
  BY <1>2 DEF Promise!Free
<1>7. Run # {}
  <2>. HIDE DEF n
  <2>1. offset \in Nat
    BY TableAssumption DEF Blocks
  <2>2. offset \in Run
    BY <1>1, <2>1
  <2>. QED
    BY <2>2
<1>. QED
  BY <1>5, <1>6, <1>7 DEF Promise!Grant, OwnersAreas

\* Every call of the allocator grants free blocks, takes blocks back, or leaves
\* the owners' areas alone.
LEMMA StepRefines == PoolIInv /\ [PoolNext]_poolVars => [Promise!Next]_OwnersAreas
<1>. SUFFICES ASSUME PoolIInv, [PoolNext]_poolVars PROVE Promise!Next \/ UNCHANGED OwnersAreas
  OBVIOUS
<1>1. CASE MymemInit
  BY <1>1 DEF MymemInit, OwnersAreas, Area
<1>2. ASSUME NEW o \in Owners, Myfree(o)
      PROVE  Promise!Next
  <2>1. OwnersAreas' = [OwnersAreas EXCEPT ![o] = {}]
    BY <1>2, TableAssumption, PoolAssumption DEF Myfree, OwnersAreas, Area, PoolIInv, PoolTypeOK
  <2>. QED
    BY <2>1 DEF Promise!Next, Promise!Release, OwnersAreas
<1>3. ASSUME NEW o \in Owners, Fill(o)
      PROVE  UNCHANGED OwnersAreas
  BY <1>3 DEF Fill, OwnersAreas, Area
<1>4. ASSUME NEW o \in Owners, NEW size \in Sizes, Mymalloc(o, size)
      PROVE  Promise!Next
  BY <1>4, GrantRefines DEF Mymalloc, Promise!Next
<1>5. ASSUME NEW o \in Owners, NEW size \in Sizes, MallocFails(o, size)
      PROVE  UNCHANGED OwnersAreas
  BY <1>5 DEF MallocFails, OwnersAreas, Area
<1>6. ASSUME NEW o \in Owners, NEW size \in Sizes, Myrealloc(o, size)
      PROVE  Promise!Next
  BY <1>6, GrantRefines DEF Myrealloc, Promise!Next
<1>7. CASE UNCHANGED poolVars
  BY <1>7 DEF poolVars, OwnersAreas, Area
<1>. QED
  BY <1>1, <1>2, <1>3, <1>4, <1>5, <1>6, <1>7 DEF PoolNext

\* malloc.c implements the abstract allocator.
THEOREM PoolRefinement == PoolSpec => ImplementsAllocator
<1>1. PoolInit => Promise!Init
  BY DEF PoolInit, Promise!Init, Area
<1>2. PoolIInv /\ [PoolNext]_poolVars => [Promise!Next]_OwnersAreas
  BY StepRefines
<1>. QED
  BY <1>1, <1>2, PoolInvariance, PTL DEF PoolSpec, ImplementsAllocator, Promise!Spec, OwnersAreas
=============================================================================
