----------------------------- MODULE BlockPool -----------------------------
(***************************************************************************)
(* The block allocator of MALLOC/malloc.c: one memory pool (SRAMIN, SRAMEX *)
(* or SRAMCCM), cut into NBlocks blocks of BlockSize bytes, and the table  *)
(* memmap with one 16-bit entry per block: 0 when the block is free, the   *)
(* length in blocks of the allocation it belongs to otherwise.             *)
(*                                                                         *)
(* Around it stand the allocator's callers, the pointer variables of the   *)
(* firmware (DMARxDscrTab, Rx_Buff, memp_memory, ram_heap, tbuf, ...):     *)
(* Owners.  An owner asks for a number of bytes, writes the area it was    *)
(* given, and gives it back.  The memory itself is kept block by block,    *)
(* so that one owner's data landing in another owner's area shows.         *)
(***************************************************************************)
EXTENDS BlockTable

CONSTANTS
    Owners,     \* the pointer variables of the callers
    Sizes,      \* byte counts the callers ask for
    Null, Junk  \* a pointer to nothing; content nobody in particular wrote

ASSUME PoolAssumption ==
    /\ Null \notin Nat
    /\ Junk \notin Owners

(***************************************************************************)
(* No caller asks for so many bytes that the 16-bit block count wraps: the *)
(* largest request of the firmware is lwIP's heap, about 16 kB.            *)
(***************************************************************************)
ASSUME SizesAssumption ==
    \A size \in Sizes : size \in Nat /\ Needed(size) < U16

VARIABLES
    memrdy,   \* mallco_dev.memrdy[memx]
    memmap,   \* mallco_dev.memmap[memx]
    content,  \* whose data each block of mallco_dev.membase[memx] holds
    ptr,      \* the block each owner's pointer points to, or Null
    need,     \* how many blocks the owner asked for
    filled    \* how many of them, from the first, hold the owner's data

poolVars == <<memrdy, memmap, content, ptr, need, filled>>

-----------------------------------------------------------------------------
\* The table a call works on: every entry point initialises a pool that is not ready.
Ready == IF memrdy THEN memmap ELSE Zeroed
ReadyContent == IF memrdy THEN content ELSE [b \in Blocks |-> Junk]

(* The calls. *)

\* An owner's area: the blocks it may use.
Area(o) == IF ptr[o] = Null THEN {} ELSE ptr[o] .. ptr[o] + need[o] - 1

PoolInit ==
    /\ memrdy = FALSE
    /\ memmap \in {[b \in Blocks |-> v] : v \in {0, 1}}  \* external RAM: not zeroed
    /\ content = [b \in Blocks |-> Junk]
    /\ ptr = [o \in Owners |-> Null]
    /\ need = [o \in Owners |-> 0]
    /\ filled = [o \in Owners |-> 0]

\* mymem_init, called by main before any other user of the pool.
MymemInit ==
    /\ ~memrdy
    /\ memrdy' = TRUE
    /\ memmap' = Zeroed
    /\ content' = [b \in Blocks |-> Junk]
    /\ UNCHANGED <<ptr, need, filled>>

\* mymalloc returns NULL: nothing was asked for or no run of free blocks is long enough.
MallocFails(o, size) ==
    /\ ptr[o] = Null
    /\ size = 0 \/ \A offset \in Blocks : ~StopsAt(Ready, BlockCount(size), offset)
    /\ memrdy' = TRUE
    /\ memmap' = Ready
    /\ content' = ReadyContent
    /\ UNCHANGED <<ptr, need, filled>>

Mymalloc(o, size) ==
    /\ ptr[o] = Null
    /\ size # 0
    /\ \E offset \in Blocks :
        /\ StopsAt(Ready, BlockCount(size), offset)
        /\ memmap' = Mark(Ready, offset, BlockCount(size))
        /\ ptr' = [ptr EXCEPT ![o] = offset]
    /\ memrdy' = TRUE
    /\ content' = ReadyContent
    /\ need' = [need EXCEPT ![o] = Needed(size)]
    /\ UNCHANGED filled

\* myfree of a pointer an owner holds; freeing NULL returns at once and is no step.
Myfree(o) ==
    /\ ptr[o] # Null
    /\ memrdy
    /\ memmap' = Clear(memmap, ptr[o])
    /\ ptr' = [ptr EXCEPT ![o] = Null]
    /\ need' = [need EXCEPT ![o] = 0]
    /\ filled' = [filled EXCEPT ![o] = 0]
    /\ UNCHANGED <<memrdy, content>>

\* Mutant: the new area is handed out without the copy.
CopiedNothing(o, offset, n, b) ==
    IF b \in offset .. offset + n - 1 THEN Junk ELSE ReadyContent[b]

\* Block b after mymemcpy of the new length from the old area: what lies behind the
\* old area is copied too.
Copied(o, offset, n, b) ==
    IF b \notin offset .. offset + n - 1 THEN ReadyContent[b]
    ELSE IF ptr[o] # Null /\ b - offset < need[o] THEN content[ptr[o] + b - offset]
    ELSE Junk

\* myrealloc: a new area, the copy, and only then the old area is freed.  When there
\* is no room it returns NULL and the old area stays as it is: no step.
Myrealloc(o, size) ==
    /\ size # 0
    /\ \E offset \in Blocks :
        LET n == BlockCount(size)
            marked == Mark(Ready, offset, n)
        IN  /\ StopsAt(Ready, n, offset)
            /\ memmap' = IF ptr[o] = Null THEN marked ELSE Clear(marked, ptr[o])
            /\ content' = [b \in Blocks |-> Copied(o, offset, n, b)]
            /\ ptr' = [ptr EXCEPT ![o] = offset]
    /\ need' = [need EXCEPT ![o] = Needed(size)]
    /\ filled' = [filled EXCEPT ![o] =
                    IF filled[o] < Needed(size) THEN filled[o] ELSE Needed(size)]
    /\ memrdy' = TRUE

\* The owner writes every byte it asked for.
Fill(o) ==
    /\ ptr[o] # Null
    /\ content' = [b \in Blocks |-> IF b \in Area(o) THEN o ELSE content[b]]
    /\ filled' = [filled EXCEPT ![o] = need[o]]
    /\ UNCHANGED <<memrdy, memmap, ptr, need>>

PoolNext ==
    \/ MymemInit
    \/ \E o \in Owners :
        \/ Myfree(o)
        \/ Fill(o)
        \/ \E size \in Sizes :
            \/ Mymalloc(o, size)
            \/ MallocFails(o, size)
            \/ Myrealloc(o, size)

PoolSpec == PoolInit /\ [][PoolNext]_poolVars

-----------------------------------------------------------------------------
(* Properties. *)

\* The variables stay in their types; the table's entries fit 16 bits.
PoolTypeOK ==
    /\ memrdy \in BOOLEAN
    /\ memmap \in [Blocks -> 0 .. U16 - 1]
    /\ content \in [Blocks -> Owners \cup {Junk}]
    /\ ptr \in [Owners -> Blocks \cup {Null}]
    /\ need \in [Owners -> Nat]
    /\ filled \in [Owners -> Nat]

\* Areas lie inside the pool and no two of them share a block, however long the
\* callers go on allocating, growing and freeing.
AreasDisjoint ==
    /\ \A o \in Owners : Area(o) \subseteq Blocks
    /\ \A o, p \in Owners : o # p => Area(o) \cap Area(p) = {}

\* The table tells exactly what the callers hold: the entry of a block in an area is
\* the length of that area, which is what mymem_free relies on, and every other
\* block is free, so no free block is lost.
MapExact ==
    memrdy => /\ \A o \in Owners : \A b \in Area(o) : memmap[b] = need[o]
              /\ \A b \in Blocks : (\A o \in Owners : b \notin Area(o)) => memmap[b] = 0

\* What an owner wrote stays there until it frees it, also across myrealloc, which
\* moves it: no call made for somebody else touches it.
ContentsKept ==
    \A o \in Owners : ptr[o] # Null =>
        \A b \in ptr[o] .. ptr[o] + filled[o] - 1 : content[b] = o

-----------------------------------------------------------------------------
(* What the allocator promises: BlockPool implements Allocator, the area of *)
(* an owner being the blocks from its pointer on.                           *)
Promise == INSTANCE Allocator WITH area <- [o \in Owners |-> Area(o)]

\* mymalloc, myfree and myrealloc only ever grant an owner blocks nobody holds, and
\* take back the blocks of the owner that frees.
ImplementsAllocator == Promise!Spec

=============================================================================
