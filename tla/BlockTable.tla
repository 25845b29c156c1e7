----------------------------- MODULE BlockTable -----------------------------
(***************************************************************************)
(* The table of MALLOC/malloc.c and what mymem_malloc and mymem_free       *)
(* compute on it.  A memory pool is cut into NBlocks blocks of BlockSize   *)
(* bytes; the table memmap has one 16-bit entry per block: 0 when the      *)
(* block is free, the length in blocks of the allocation it belongs to     *)
(* otherwise.                                                              *)
(***************************************************************************)
EXTENDS Integers, FiniteSets

CONSTANTS
    NBlocks,    \* entries of memtblsize[memx]
    BlockSize,  \* memblksize[memx]
    U16         \* 2^16, the range of the table's entries and of nmemb

ASSUME TableAssumption ==
    /\ NBlocks \in Nat \ {0}
    /\ BlockSize \in Nat \ {0}
    /\ U16 \in Nat
    /\ NBlocks < U16

Blocks == 0 .. NBlocks - 1

(***************************************************************************)
(* The blocks an area of size bytes covers: what a caller may use.         *)
(***************************************************************************)
Needed(size) == size \div BlockSize + (IF size % BlockSize # 0 THEN 1 ELSE 0)

Zeroed == [b \in Blocks |-> 0]

\* nmemb, computed in 16 bits.
BlockCount(size) == Needed(size) % U16

\* The search loop accepts offset when cmemb, the number of free blocks it has
\* counted from offset upwards, equals n.  With n = 0 it accepts the first
\* offset where the count is reset: an occupied block.
FitsAt(m, offset, n) ==
    IF n = 0 THEN m[offset] # 0
             ELSE /\ offset + n <= NBlocks
                  /\ \A b \in offset .. offset + n - 1 : m[b] = 0

\* Mutant: cmemb is not reset at an occupied block, so the run may straddle one.
StopsAtNoReset(m, n, offset) ==
    /\ m[offset] = 0
    /\ Cardinality({b \in offset .. NBlocks - 1 : m[b] = 0}) = n

\* The loop runs from the last block down and stops at the first offset it accepts.
StopsAt(m, n, offset) ==
    /\ FitsAt(m, offset, n)
    /\ \A higher \in offset + 1 .. NBlocks - 1 : ~FitsAt(m, higher, n)

\* Mutant: the marking loop stops one block early.
MarkShort(m, offset, n) ==
    [b \in Blocks |-> IF b \in offset .. offset + n - 2 THEN n ELSE m[b]]

\* The entries of the run get its length.
Mark(m, offset, n) ==
    [b \in Blocks |-> IF b \in offset .. offset + n - 1 THEN n ELSE m[b]]

\* Mutant: only the entry at the offset is cleared.
ClearOne(m, offset) == [m EXCEPT ![offset] = 0]

\* mymem_free: the entry at the offset says how many entries to clear.
Clear(m, offset) ==
    [b \in Blocks |-> IF b \in offset .. offset + m[offset] - 1 THEN 0 ELSE m[b]]
=============================================================================
