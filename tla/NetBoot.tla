------------------------------- MODULE NetBoot -------------------------------
(***************************************************************************)
(* How main brings the system up: lwip_comm_init takes the buffers of the  *)
(* Ethernet driver and of lwIP from the pool SRAMIN, then starts the PHY,  *)
(* which fails while no cable is plugged in; main calls it again until it  *)
(* succeeds, then gives the two recorders their DMA buffers and runs one   *)
(* UDP session after another, each with two scratch buffers.               *)
(*                                                                         *)
(* The pool is the table of BlockTable.  Nobody else uses SRAMIN and no    *)
(* interrupt handler calls mymalloc, so what happens depends on the sizes  *)
(* and on the cable only.                                                  *)
(***************************************************************************)
EXTENDS BlockTable, Sequences

EthPtrs == <<"DMARxDscrTab", "DMATxDscrTab", "Rx_Buff", "Tx_Buff">>
CommPtrs == <<"memp_memory", "ram_heap">>
RecPtrs == <<"i2srecbuf1", "i2srecbuf2", "i2s3recbuf1", "i2s3recbuf2">>
NetPtrs == EthPtrs \o CommPtrs

Names(list) == {list[i] : i \in DOMAIN list}

Ptrs == Names(NetPtrs \o RecPtrs) \cup {"ip_tbuf", "tbuf"}

CONSTANTS
    Builds,       \* what a build may ask for: the bytes for each pointer, never so
                  \* many that the 16-bit block count wraps
    MaxUnplugged, \* bound: how many attempts may find no cable
    Null

ASSUME BootAssumption ==
    /\ Builds \subseteq [Ptrs -> Nat \ {0}]
    /\ \A build \in Builds : \A p \in Ptrs : Needed(build[p]) < U16
    /\ MaxUnplugged \in Nat
    /\ Null \notin Nat

VARIABLES
    bytes,     \* the sizes of this build
    memmap,    \* the table of SRAMIN
    ptr,       \* the block each pointer variable points to
    at,        \* the function main is in
    k,         \* its next mymalloc
    unplugged, \* attempts that found no cable
    spent      \* history: blocks in use when the function was entered

vars == <<bytes, memmap, ptr, at, k, unplugged, spent>>

Functions == {"ETH_Mem_Malloc", "lwip_comm_mem_malloc", "LAN8720_Init", "retry",
              "recorders", "udp_demo_set_remoteip", "udp_demo_test", "loop"}

\* Mutant: a block too many.
CountOneMore(p) == BlockCount(bytes[p]) + 1

Count(p) == BlockCount(bytes[p])
Used(m) == Cardinality({b \in Blocks : m[b] # 0})
Missing(list) == \E p \in Names(list) : ptr[p] = Null

\* The blocks the table ties to pointer p.
Marked(p) == IF ptr[p] = Null THEN {} ELSE ptr[p] .. ptr[p] + memmap[ptr[p]] - 1

Init ==
    /\ bytes \in Builds
    /\ memmap = Zeroed
    /\ ptr = [p \in Ptrs |-> Null]
    /\ at = "ETH_Mem_Malloc"
    /\ k = 1
    /\ unplugged = 0
    /\ spent = 0

\* mymalloc into pointer p: the pointer loses its old value whatever happens.
Mymalloc(p) ==
    \/ \E offset \in Blocks :
        /\ StopsAt(memmap, Count(p), offset)
        /\ memmap' = Mark(memmap, offset, Count(p))
        /\ ptr' = [ptr EXCEPT ![p] = offset]
    \/ /\ \A offset \in Blocks : ~FitsAt(memmap, offset, Count(p))
       /\ ptr' = [ptr EXCEPT ![p] = Null]
       /\ UNCHANGED memmap

\* Mutant: the last pointer of the list is forgotten.
FreedButLast(list) ==
    [b \in Blocks |-> IF \E i \in 1 .. Len(list) - 1 : b \in Marked(list[i])
                      THEN 0 ELSE memmap[b]]

\* The table after myfree of every pointer of the list; freeing NULL does nothing.
Freed(list) ==
    [b \in Blocks |-> IF \E p \in Names(list) : b \in Marked(p) THEN 0 ELSE memmap[b]]

\* main leaves one function and enters the next.
Enter(function) ==
    /\ at' = function
    /\ k' = 1
    /\ spent' = Used(memmap')

\* The function main is in makes its next mymalloc.
Ask(list) ==
    /\ k <= Len(list)
    /\ Mymalloc(list[k])
    /\ k' = k + 1
    /\ UNCHANGED <<bytes, at, unplugged, spent>>

\* Mutant: the last pointer of the list is not checked.
GotButLast(list) == k > Len(list) /\ ~Missing(SubSeq(list, 1, Len(list) - 1))

\* All mymallocs of the function are made, and none returned NULL.
Got(list) == k > Len(list) /\ ~Missing(list)

\* The function takes all buffers of its list, or gives back those it got and fails.
TakeAll(list, next) ==
    \/ Ask(list)
    \/ /\ Got(list)
       /\ UNCHANGED <<bytes, memmap, ptr, unplugged>>
       /\ Enter(next)
    \/ /\ k > Len(list)
       /\ ~Got(list)
       /\ memmap' = Freed(list)
       /\ UNCHANGED <<bytes, ptr, unplugged>>
       /\ Enter("retry")

EthMemMalloc == at = "ETH_Mem_Malloc" /\ TakeAll(EthPtrs, "lwip_comm_mem_malloc")

LwipCommMemMalloc == at = "lwip_comm_mem_malloc" /\ TakeAll(CommPtrs, "LAN8720_Init")

\* Mutant: LAN8720_Init returns rval, not !rval.
LinkTakenForFailure ==
    /\ at = "LAN8720_Init"
    /\ UNCHANGED <<bytes, memmap, ptr, unplugged>>
    /\ Enter("retry")

\* LAN8720_Init finds a link; lwip_init and netif_add, which follow, cannot fail.
LinkFound ==
    /\ at = "LAN8720_Init"
    /\ UNCHANGED <<bytes, memmap, ptr, unplugged>>
    /\ Enter("recorders")

\* LAN8720_Init finds no link: lwip_comm_init returns 2 and frees nothing.
NoLink ==
    /\ at = "LAN8720_Init"
    /\ unplugged < MaxUnplugged
    /\ unplugged' = unplugged + 1
    /\ UNCHANGED <<bytes, memmap, ptr>>
    /\ Enter("retry")

\* main calls lwip_comm_init again.
Retry ==
    /\ at = "retry"
    /\ UNCHANGED <<bytes, memmap, ptr, unplugged>>
    /\ Enter("ETH_Mem_Malloc")

\* wav_recorder and wav2_recorder do not look at what mymalloc returned.
Recorders ==
    /\ at = "recorders"
    /\ \/ Ask(RecPtrs)
       \/ /\ k > Len(RecPtrs)
          /\ UNCHANGED <<bytes, memmap, ptr, unplugged>>
          /\ Enter("udp_demo_set_remoteip")

\* A function with one scratch buffer, freed before it returns: both leave at once
\* when they get none, and the caller goes on.
Scratch(p, next) ==
    \/ Ask(<<p>>)
    \/ /\ k = 2
       /\ memmap' = Freed(<<p>>)
       /\ UNCHANGED <<bytes, ptr, unplugged>>
       /\ Enter(next)

SetRemoteip == at = "udp_demo_set_remoteip" /\ Scratch("ip_tbuf", "udp_demo_test")

UdpDemoTest == at = "udp_demo_test" /\ Scratch("tbuf", "loop")

\* KEY1 in main's loop starts the next session.
Key1 ==
    /\ at = "loop"
    /\ UNCHANGED <<bytes, memmap, ptr, unplugged>>
    /\ Enter("udp_demo_set_remoteip")

\* What main does of its own accord, until the first session is opened.
Main ==
    \/ EthMemMalloc \/ LwipCommMemMalloc \/ LinkFound \/ NoLink \/ Retry
    \/ Recorders

\* What waits for the user: the functions of a session run until KEY_UP is pressed.
Sessions == SetRemoteip \/ UdpDemoTest \/ Key1

Next == Main \/ Sessions

\* main runs on; no key need ever be pressed.
Spec == Init /\ [][Next]_vars /\ WF_vars(Main)

-----------------------------------------------------------------------------
(* Properties. *)

\* The variables stay in their types; every table entry is the length of
\* some buffer.
TypeOK ==
    /\ bytes \in Builds
    /\ memmap \in [Blocks -> {0} \cup {Count(p) : p \in Ptrs}]
    /\ ptr \in [Ptrs -> Blocks \cup {Null}]
    /\ at \in Functions
    /\ k \in 1 .. 5
    /\ unplugged \in 0 .. MaxUnplugged
    /\ spent \in 0 .. NBlocks

Up == at \in {"recorders", "udp_demo_set_remoteip", "udp_demo_test", "loop"}

\* Once lwip_comm_init has returned 0, the Ethernet driver and lwIP have all six
\* buffers, each of the length asked for and none overlapping another, whatever the
\* attempts before left behind in the pool and the sessions do to it afterwards.
NetHasItsBuffers ==
    /\ TypeOK
    /\ Up => \A p \in Names(NetPtrs) :
             /\ ptr[p] # Null
             /\ Cardinality(Marked(p)) = Count(p)
             /\ \A b \in Marked(p) : memmap[b] = Count(p)
             /\ \A q \in Names(NetPtrs) \ {p} : Marked(p) \cap Marked(q) = {}

\* ETH_Mem_Malloc and lwip_comm_mem_malloc, when they fail, leave in use exactly what
\* was in use when they were called; and so does a session, however often KEY1 starts
\* one and whether or not it got its scratch buffers.
NothingKept ==
    [][(\/ at' = "retry" /\ at # "LAN8720_Init"
        \/ at' # at /\ at \in {"udp_demo_set_remoteip", "udp_demo_test"})
       => Used(memmap') = spent]_vars

\* How many blocks a build asks for with the first n pointers of one attempt.
BootPtrs == NetPtrs \o RecPtrs
Asked[n \in 0 .. Len(BootPtrs)] ==
    IF n = 0 THEN 0 ELSE Asked[n - 1] + Needed(bytes[BootPtrs[n]])

\* The pool has room for n attempts without a cable, and one with.
Room(n) == n * Asked[Len(NetPtrs)] + Asked[Len(BootPtrs)] <= NBlocks

\* The recorders' four DMA buffers are there when the first session starts, although
\* the recorders do not check, as long as the pool has room for them beside what the
\* attempts without a cable keep: DMA never writes to address 0.
RecordersFed ==
    at \in {"udp_demo_set_remoteip", "udp_demo_test", "loop"} /\ Room(unplugged) =>
        ~Missing(RecPtrs)

\* Retrying succeeds once the cable is there: main gets on to the recorders, as long as
\* the pool has room for one more attempt beside those that found no cable.
ComesUpWithRoom == []Room(unplugged) => <>(at = "recorders")

\* main.c:100 tells the user that the program is retrying: it succeeds once the cable is
\* there.
ComesUp == <>(at = "recorders")
=============================================================================
