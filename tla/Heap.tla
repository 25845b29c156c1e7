-------------------------------- MODULE Heap --------------------------------
(***************************************************************************)
(* lwIP's heap (core/mem.c).  The heap is an array `ram`; every area starts *)
(* with a struct mem that links it to its neighbours, and `lfree` points to *)
(* the lowest free one.  mem_malloc takes the first area that is large      *)
(* enough and splits it, mem_free joins an area with its free neighbours,   *)
(* mem_trim gives back the end of an area.                                  *)
(*                                                                         *)
(* Sizes and offsets are counted in units of MEM_ALIGNMENT bytes, rounded   *)
(* up as LWIP_MEM_ALIGN_SIZE does.  A struct mem is known by its offset; the *)
(* fields of an offset that is no header are garbage and are kept as 0.     *)
(***************************************************************************)
EXTENDS Integers, FiniteSets

CONSTANTS MEM_SIZE,            \* the heap without its end marker
          SIZEOF_STRUCT_MEM,   \* a header
          MIN_SIZE             \* the least an area holds

ASSUME HeapAssumption ==
    /\ MEM_SIZE \in Nat
    /\ SIZEOF_STRUCT_MEM \in Nat \ {0}
    /\ MIN_SIZE \in Nat \ {0}
    /\ MEM_SIZE >= SIZEOF_STRUCT_MEM + MIN_SIZE

Offsets == 0 .. MEM_SIZE
ram_end == MEM_SIZE

VARIABLES heads,   \* the offsets that hold a struct mem; ram_end is one
          next, prev, used,
          lfree

heapVars == <<heads, next, prev, used, lfree>>

HeapInit ==
    /\ heads = {0, ram_end}
    /\ next = [o \in Offsets |-> IF o \in heads THEN MEM_SIZE ELSE 0]
    /\ prev = [o \in Offsets |-> IF o = ram_end THEN MEM_SIZE ELSE 0]
    /\ used = [o \in Offsets |-> o = ram_end]
    /\ lfree = 0

Areas == heads \ {ram_end}

\* What the area at header h holds.
SizeOf(h) == next[h] - (h + SIZEOF_STRUCT_MEM)

AtLeastMin(n) == IF n < MIN_SIZE THEN MIN_SIZE ELSE n

\* The lowest member, if there is one.
LowestOf(S) == {x \in S : \A y \in S : x <= y}
-----------------------------------------------------------------------------
(***************************************************************************)
(* mem_malloc                                                              *)
(***************************************************************************)
\* Where the search, which follows `next` upwards from lfree, would stop.
Fits(n) == {h \in heads : /\ lfree <= h
                          /\ h < MEM_SIZE - n
                          /\ ~used[h]
                          /\ SizeOf(h) >= n}

MustSplit(h, n) == SizeOf(h) >= n + SIZEOF_STRUCT_MEM + MIN_SIZE

\* Mutant: the header behind is not linked back.
InsertOneWay(h, m2) ==
    /\ heads' = heads \cup {m2}
    /\ next' = [next EXCEPT ![h] = m2, ![m2] = next[h]]
    /\ prev' = [prev EXCEPT ![m2] = h]

\* Makes m2 a free header between h and the header that follows h.
Insert(h, m2) ==
    /\ heads' = heads \cup {m2}
    /\ next' = [next EXCEPT ![h] = m2, ![m2] = next[h]]
    /\ prev' = IF next[h] # ram_end
               THEN [prev EXCEPT ![m2] = h, ![next[h]] = m2]
               ELSE [prev EXCEPT ![m2] = h]

\* lfree moves from h, just taken, to the next free header or to the end.
LowestFreeAfter(h) ==
    LowestOf({c \in heads' : h <= c /\ (~used'[c] \/ c = ram_end)})

\* mem_malloc(n) returns the area of header h.
MemMalloc(n, h) ==
    LET size == AtLeastMin(n) IN
    /\ h \in LowestOf(Fits(size))
    /\ used' = [used EXCEPT ![h] = TRUE]
    /\ \/ /\ MustSplit(h, size)
          /\ Insert(h, h + SIZEOF_STRUCT_MEM + size)
       \/ /\ ~MustSplit(h, size)
          /\ UNCHANGED <<heads, next, prev>>
    /\ lfree' \in IF h = lfree THEN LowestFreeAfter(h) ELSE {lfree}

\* mem_malloc(n) returns NULL.
MemMallocFails(n) == Fits(AtLeastMin(n)) = {} /\ UNCHANGED heapVars
-----------------------------------------------------------------------------
(***************************************************************************)
(* mem_free and plug_holes                                                 *)
(***************************************************************************)
\* Mutant: the neighbour is not asked whether it is free.
ForwardAlways(h) == h # next[h] /\ next[h] # ram_end

\* The area behind h is free, and so is the one in front of it.
Forward(h)  == h # next[h] /\ ~used[next[h]] /\ next[h] # ram_end
Backward(h) == prev[h] # h /\ ~used[prev[h]]

\* Mutant: lfree is not lowered.
LfreeKept(h) ==
    IF Forward(h) /\ lfree = next[h] THEN h ELSE lfree

\* Each `if` in turn: h is lower, h swallows the area behind, h is swallowed.
LfreeFreed(h) ==
    LET lowered == IF h < lfree THEN h ELSE lfree
        plugged == IF Forward(h) /\ lowered = next[h] THEN h ELSE lowered
    IN IF Backward(h) /\ plugged = h THEN prev[h] ELSE plugged

\* The headers in `gone` disappear: their areas become part of the one at `first`.
MemFree(h) ==
    LET after == IF Forward(h) THEN next[next[h]] ELSE next[h]
        first == IF Backward(h) THEN prev[h] ELSE h
        gone  == (IF Forward(h) THEN {next[h]} ELSE {}) \cup (IF Backward(h) THEN {h} ELSE {})
    IN /\ heads' = heads \ gone
       /\ used' = [used EXCEPT ![h] = FALSE]
       /\ next' = [o \in Offsets |-> IF o \in gone THEN 0
                                     ELSE IF o = first THEN after ELSE next[o]]
       /\ prev' = [o \in Offsets |-> IF o \in gone THEN 0
                                     ELSE IF o = after /\ gone # {} THEN first
                                     ELSE prev[o]]
       /\ lfree' = LfreeFreed(h)
-----------------------------------------------------------------------------
(***************************************************************************)
(* mem_trim                                                                *)
(***************************************************************************)
\* The free header after h moves down to m2.
MoveDown(h, m2) ==
    LET old == next[h] IN
    /\ heads' = (heads \ {old}) \cup {m2}
    /\ next' = [o \in Offsets |-> IF o = m2 THEN next[old]
                                  ELSE IF o = h THEN m2
                                  ELSE IF o = old THEN 0 ELSE next[o]]
    /\ prev' = [o \in Offsets |-> IF o = m2 THEN h
                                  ELSE IF o = old THEN 0
                                  ELSE IF o = next[old] /\ o # ram_end THEN m2
                                  ELSE prev[o]]
    /\ lfree' = IF lfree = old THEN m2 ELSE lfree

MemTrim(h, n) ==
    LET newsize == AtLeastMin(n)
        m2      == h + SIZEOF_STRUCT_MEM + newsize
    IN \/ /\ newsize < SizeOf(h)
          /\ ~used[next[h]]
          /\ MoveDown(h, m2)
          /\ UNCHANGED used
       \/ /\ used[next[h]]
          /\ newsize + SIZEOF_STRUCT_MEM + MIN_SIZE <= SizeOf(h)
          /\ Insert(h, m2)
          /\ lfree' = IF m2 < lfree THEN m2 ELSE lfree
          /\ UNCHANGED used
       \/ \* nothing to trim, or too little to make an area of
          /\ \/ newsize >= SizeOf(h)
             \/ used[next[h]] /\ newsize + SIZEOF_STRUCT_MEM + MIN_SIZE > SizeOf(h)
          /\ UNCHANGED heapVars
-----------------------------------------------------------------------------
(***************************************************************************)
(* The heap alone: callers free and trim what they hold.                    *)
(***************************************************************************)
HeapNext ==
    \/ \E n \in 1 .. MEM_SIZE : \E h \in Offsets : MemMalloc(n, h)
    \/ \E h \in Areas : used[h] /\ MemFree(h)
    \/ \E h \in Areas, n \in 1 .. MEM_SIZE : used[h] /\ MemTrim(h, n)

HeapSpec == HeapInit /\ [][HeapNext]_heapVars
-----------------------------------------------------------------------------
(***************************************************************************)
(* Properties                                                              *)
(***************************************************************************)
\* The type of the heap, and what stands where there is no header.
HeapTypeOK ==
    /\ heads \subseteq Offsets /\ {0, ram_end} \subseteq heads
    /\ \A o \in Offsets \ heads : ~used[o]
    /\ next \in [Offsets -> Offsets]
    /\ prev \in [Offsets -> Offsets]
    /\ used \in [Offsets -> BOOLEAN]
    /\ lfree \in heads

\* The areas tile the heap: each ends where its successor starts, none is
\* smaller than a header and MIN_SIZE, and prev leads back.  plug_holes joins
\* areas through these links; one that is wrong hands out memory twice.
Linked ==
    /\ used[ram_end] /\ prev[0] = 0
    /\ \A h \in Areas :
          /\ next[h] \in heads
          /\ h + SIZEOF_STRUCT_MEM + MIN_SIZE <= next[h]
          /\ \A o \in heads : o <= h \/ next[h] <= o
    /\ \A h \in Areas \ {0} : prev[h] \in Areas /\ next[prev[h]] = h

\* No two neighbours are free ("there should not exist one empty struct mem
\* pointing to another", mem.c:227): mem_malloc's near fit relies on it.
NoAdjacentFree == \A h \in Areas : used[h] \/ used[next[h]]

\* The search starts at lfree, so nothing free may lie below it.
LfreeLowest ==
    /\ lfree # ram_end => ~used[lfree]
    /\ \A h \in Areas : ~used[h] => lfree <= h

\* The three facts need each other: no near fit without NoAdjacentFree, no lfree
\* without links.  Together they are inductive.
HeapInv == HeapTypeOK /\ Linked /\ NoAdjacentFree /\ LfreeLowest

\* A request is refused only if no run of free units, wherever it starts, has
\* room for it and its header: the search misses no hole, and no hole is split
\* among headers that were not joined.
RefusedOnlyWhenFull ==
    \A n \in MIN_SIZE .. MEM_SIZE :
        Fits(n) = {} =>
            \A o \in Offsets : LET end == o + SIZEOF_STRUCT_MEM + n IN
                end <= MEM_SIZE =>
                    \E h \in Areas : used[h] /\ h < end /\ o < next[h]

\* The heap is an allocator whose owners are the headers.
area == [h \in Offsets |-> IF h \in Areas /\ used[h] THEN h .. next[h] - 1 ELSE {}]
HeapAllocator == INSTANCE Allocator WITH Owners <- Offsets, Blocks <- 0 .. MEM_SIZE - 1,
                                         area <- area
HeapImplementsAllocator == HeapAllocator!Spec
=============================================================================
