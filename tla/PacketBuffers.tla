--------------------------- MODULE PacketBuffers ---------------------------
(***************************************************************************)
(* lwIP's packet buffers (core/pbuf.c) in the memory they live in: PBUF_RAM *)
(* on the heap of module Heap, PBUF_POOL and PBUF_REF in the pools of       *)
(* core/memp.c.  A packet is a chain of pbufs; `ref` counts the pointers to *)
(* a pbuf, and pbuf_free walks the chain for as long as the count drops to  *)
(* zero.  The clients (the Ethernet driver, etharp, ip, ip_frag, udp, the   *)
(* application) hold references and call the operations one at a time.      *)
(*                                                                         *)
(* A pbuf on the heap is named by the offset of its struct mem, one of a    *)
(* pool by its element; lengths are in units of MEM_ALIGNMENT like Heap's.   *)
(***************************************************************************)
EXTENDS Heap, Functions

CONSTANTS PoolElements, RefElements,    \* of MEMP_PBUF_POOL and MEMP_PBUF
          NULL,
          SIZEOF_STRUCT_PBUF, PBUF_POOL_BUFSIZE,
          HeadRooms,                    \* room for headers a layer asks for
          Lengths,                      \* payload lengths asked for
          MaxHeld,                      \* bound: references held by clients
          MaxPbufs                      \* bound: a new packet is begun only below it

ASSUME PacketAssumption ==
    /\ SIZEOF_STRUCT_PBUF \in Nat \ {0} /\ PBUF_POOL_BUFSIZE \in Nat
    /\ HeadRooms \subseteq Nat /\ \A r \in HeadRooms : r < PBUF_POOL_BUFSIZE
    /\ Lengths \subseteq Nat \ {0}
    /\ MaxHeld \in Nat /\ MaxPbufs \in Nat
    /\ PoolElements \cap RefElements = {}
    /\ (PoolElements \cup RefElements) \cap (Offsets \cup {NULL}) = {}
    /\ NULL \notin Offsets
    /\ IsFiniteSet(PoolElements \cup RefElements)

Elements == PoolElements \cup RefElements
Pbufs == Elements \cup Offsets

VARIABLES pbufs,     \* the pbufs in use: [next, ref, len, tot_len, room]
          avail,     \* free elements of the pools
          held,      \* how many references the clients hold to each pbuf
          freeing    \* the pbuf pbuf_free's loop has come to, or NULL

packetVars == <<pbufs, avail, held, freeing>>
vars == <<heapVars, packetVars>>

Live == DOMAIN pbufs

Init ==
    /\ HeapInit
    /\ pbufs = [p \in {} |-> NULL]
    /\ avail = Elements
    /\ held = [p \in Pbufs |-> 0]
    /\ freeing = NULL

HeldTotal == FoldFunction(LAMBDA a, b : a + b, 0, held)
TakeRef(p) == HeldTotal < MaxHeld /\ held' = [held EXCEPT ![p] = @ + 1]
DropRef(p) == held[p] > 0 /\ held' = [held EXCEPT ![p] = @ - 1]

\* The pbufs from p to the end of its chain: what following `next` reaches.
ClosedUnderNext(S) == \A q \in S : pbufs[q].next \in S \cup {NULL}
Chain(p) == {q \in Live : \A S \in SUBSET Live : p \in S /\ ClosedUnderNext(S) => q \in S}

Predecessors(p) == {q \in Live : pbufs[q].next = p}

\* A packet the clients may change: they hold its head.
Packet(p) == p \in Live /\ held[p] > 0 /\ Predecessors(p) = {}

Idle == freeing = NULL
MayAlloc == Idle /\ Cardinality(Live) < MaxPbufs
-----------------------------------------------------------------------------
(***************************************************************************)
(* pbuf_alloc                                                              *)
(***************************************************************************)
Pbuf(next_, len, tot_len, room) ==
    [next |-> next_, ref |-> 1, len |-> len, tot_len |-> tot_len, room |-> room]

With(p, pbuf) == [q \in Live \cup {p} |-> IF q = p THEN pbuf ELSE pbufs[q]]

AllocRam(room, len) ==
    LET size == SIZEOF_STRUCT_PBUF + room + len IN
    /\ MayAlloc
    /\ \/ \E h \in Offsets :
            /\ MemMalloc(size, h)
            /\ pbufs' = With(h, Pbuf(NULL, len, len, room))
            /\ TakeRef(h)
       \/ MemMallocFails(size) /\ UNCHANGED <<pbufs, held>>
    /\ UNCHANGED <<avail, freeing>>

\* rem_len after i elements of the pool: the first keeps room for the headers.
RemLen(room, len) ==
    LET space(i) == IF i = 1 THEN PBUF_POOL_BUFSIZE - room ELSE PBUF_POOL_BUFSIZE
        rem_len[i \in 0 .. Cardinality(PoolElements)] ==
            IF i = 0 THEN len
            ELSE IF rem_len[i - 1] < space(i) THEN 0 ELSE rem_len[i - 1] - space(i)
    IN rem_len

\* The chain c[1], ..., c[n] that pbuf_alloc builds front to back: tot_len
\* counts down from the length asked for, whether or not the chain gets there.
PoolChain(c, n, room, len) ==
    LET rem_len == RemLen(room, len) IN
    [p \in Live \cup Range(c) |->
        IF p \in Live THEN pbufs[p]
        ELSE LET i == CHOOSE j \in 1 .. n : c[j] = p
             IN Pbuf(IF i < n THEN c[i + 1] ELSE NULL,
                     rem_len[i - 1] - rem_len[i], rem_len[i - 1],
                     IF i = 1 THEN room ELSE 0)]

\* When the pool runs empty half way, what was taken goes to pbuf_free.
AllocPool(room, len) ==
    LET empty == avail \cap PoolElements
        left  == RemLen(room, len)
    IN /\ MayAlloc
       /\ \/ /\ empty = {}
             /\ UNCHANGED packetVars
          \/ \E n \in 1 .. Cardinality(empty) :
                /\ \A i \in 1 .. n - 1 : left[i] > 0
                /\ \E c \in [1 .. n -> empty] :
                      /\ IsInjective(c)
                      /\ pbufs' = PoolChain(c, n, room, len)
                      /\ avail' = avail \ Range(c)
                      /\ \/ left[n] = 0 /\ TakeRef(c[1]) /\ UNCHANGED freeing
                         \/ /\ left[n] > 0 /\ n = Cardinality(empty)
                            /\ freeing' = c[1] /\ UNCHANGED held
       /\ UNCHANGED heapVars

AllocRef(len) ==
    /\ MayAlloc
    /\ \/ \E e \in avail \cap RefElements :
            /\ pbufs' = With(e, Pbuf(NULL, len, len, 0))
            /\ avail' = avail \ {e}
            /\ TakeRef(e)
       \/ avail \cap RefElements = {} /\ UNCHANGED <<pbufs, avail, held>>
    /\ UNCHANGED <<heapVars, freeing>>
-----------------------------------------------------------------------------
(***************************************************************************)
(* pbuf_free: one step is one turn of its loop.                             *)
(***************************************************************************)
PbufFree(p) ==
    /\ Idle
    /\ DropRef(p)
    /\ freeing' = p
    /\ UNCHANGED <<heapVars, pbufs, avail>>

\* mem_free or memp_free, by the type of the pbuf.
Deallocate(p) ==
    \/ p \in Offsets /\ MemFree(p) /\ UNCHANGED avail
    \/ p \in Elements /\ avail' = avail \cup {p} /\ UNCHANGED heapVars

StillReferenced ==
    /\ ~Idle
    /\ pbufs[freeing].ref > 1
    /\ pbufs' = [pbufs EXCEPT ![freeing].ref = @ - 1]
    /\ freeing' = NULL
    /\ UNCHANGED <<heapVars, avail, held>>

\* Mutant: only the first pbuf of the chain goes back.
NoLongerReferencedOnce ==
    /\ ~Idle
    /\ pbufs[freeing].ref = 1
    /\ Deallocate(freeing)
    /\ pbufs' = [x \in Live \ {freeing} |-> pbufs[x]]
    /\ freeing' = NULL
    /\ UNCHANGED held

NoLongerReferenced ==
    /\ ~Idle
    /\ pbufs[freeing].ref = 1
    /\ Deallocate(freeing)
    /\ pbufs' = [x \in Live \ {freeing} |-> pbufs[x]]
    /\ freeing' = pbufs[freeing].next
    /\ UNCHANGED held
-----------------------------------------------------------------------------
(***************************************************************************)
(* The operations on packets                                               *)
(***************************************************************************)
\* Mutant: the boundary in front of the payload is not checked.
HeaderFitsAnyway(p, increment) ==
    /\ -increment <= pbufs[p].len
    /\ p \in RefElements => increment < 0

\* There is payload to hide, or room in front of it; PBUF_REF has none.
HeaderFits(p, increment) ==
    /\ -increment <= pbufs[p].len
    /\ IF p \in RefElements THEN increment < 0 ELSE increment <= pbufs[p].room

\* pbuf_header, where it succeeds (it changes nothing otherwise): a header
\* appears (increment > 0) or disappears in front of the payload.
PbufHeader(p, increment) ==
    /\ Idle /\ Packet(p)
    /\ HeaderFits(p, increment)
    /\ pbufs' = [pbufs EXCEPT ![p].room = IF p \in RefElements THEN 0 ELSE @ - increment,
                              ![p].len = @ + increment,
                              ![p].tot_len = @ + increment]
    /\ UNCHANGED <<heapVars, avail, held, freeing>>

\* What the memory of q must still hold.
TrimSize(q, rem) == SIZEOF_STRUCT_PBUF + pbufs[q].room + rem

\* The loop of pbuf_realloc: q and rem_len after i turns.  It ends, and stays
\* there, at the pbuf that what remains fits into.
Turns(p, new_len) ==
    LET turn[i \in 0 .. Cardinality(Live)] ==
            IF i = 0 THEN [q |-> p, rem_len |-> new_len]
            ELSE LET q == turn[i - 1].q  rem_len == turn[i - 1].rem_len IN
                 IF rem_len > pbufs[q].len
                 THEN [q |-> pbufs[q].next, rem_len |-> rem_len - pbufs[q].len]
                 ELSE turn[i - 1]
    IN turn

\* pbuf_realloc, on a packet nobody shares: q becomes the last pbuf.
PbufRealloc(p, new_len) ==
    LET turn == Turns(p, new_len)
        q    == turn[Cardinality(Live)].q
        rem  == turn[Cardinality(Live)].rem_len
        kept == {turn[i].q : i \in 0 .. Cardinality(Live)} \ {q}
    IN /\ Idle /\ Packet(p)
       /\ new_len < pbufs[p].tot_len
       /\ \A x \in Chain(p) : pbufs[x].ref = 1
       /\ IF q \in Offsets /\ rem # pbufs[q].len
          THEN MemTrim(q, TrimSize(q, rem))
          ELSE UNCHANGED heapVars
       /\ pbufs' = [x \in Live |->
             IF x = q THEN [pbufs[q] EXCEPT !.len = rem, !.tot_len = rem, !.next = NULL]
             ELSE IF x \in kept
             THEN [pbufs[x] EXCEPT !.tot_len = @ + (new_len - pbufs[p].tot_len)]
             ELSE pbufs[x]]
       /\ freeing' = pbufs[q].next
       /\ UNCHANGED <<avail, held>>

PbufRef(p) ==
    /\ Idle /\ held[p] > 0
    /\ TakeRef(p)
    /\ pbufs' = [pbufs EXCEPT ![p].ref = @ + 1]
    /\ UNCHANGED <<heapVars, avail, freeing>>

\* Mutant: only the last pbuf of the first chain counts the second.
JoinedLast(h, t) ==
    [x \in Live |->
        IF x \in Chain(h) /\ pbufs[x].next = NULL
        THEN [pbufs[x] EXCEPT !.tot_len = @ + pbufs[t].tot_len, !.next = t]
        ELSE pbufs[x]]

\* The chain of h with that of t behind it.
Joined(h, t) ==
    [x \in Live |->
        IF x \in Chain(h)
        THEN [pbufs[x] EXCEPT !.tot_len = @ + pbufs[t].tot_len,
                              !.next = IF @ = NULL THEN t ELSE @]
        ELSE pbufs[x]]

\* The caller holds both heads.  The pbufs of h's chain are its own (a header in
\* front of a packet, a packet under assembly); t may already be the tail of others.
Apart(h, t) ==
    /\ Packet(h) /\ t \in Live \ Chain(h) /\ held[t] > 0
    /\ \A q \in Live : pbufs[q].next \in Chain(h) => q \in Chain(h)

\* pbuf_cat: the new pointer to t takes over the caller's.
PbufCat(h, t) ==
    /\ Idle /\ Apart(h, t)
    /\ pbufs' = Joined(h, t)
    /\ DropRef(t)
    /\ UNCHANGED <<heapVars, avail, freeing>>

\* Mutant: the pointer of the chain is not counted.
PbufChainNoRef(h, t) ==
    /\ Idle /\ Apart(h, t)
    /\ pbufs' = Joined(h, t)
    /\ UNCHANGED <<heapVars, avail, held, freeing>>

\* pbuf_chain: the caller keeps its own.
PbufChain(h, t) ==
    /\ Idle /\ Apart(h, t)
    /\ pbufs' = [Joined(h, t) EXCEPT ![t].ref = @ + 1]
    /\ UNCHANGED <<heapVars, avail, held, freeing>>

\* pbuf_dechain: the rest of the chain loses the pointer of its first pbuf.
PbufDechain(p) ==
    LET q == pbufs[p].next IN
    /\ Idle /\ Packet(p) /\ q # NULL
    /\ pbufs' = [pbufs EXCEPT ![q].tot_len = pbufs[p].tot_len - pbufs[p].len,
                              ![p].next = NULL,
                              ![p].tot_len = pbufs[p].len]
    /\ freeing' = q
    /\ UNCHANGED <<heapVars, avail, held>>
-----------------------------------------------------------------------------
Next ==
    \/ \E room \in HeadRooms, len \in Lengths : AllocRam(room, len) \/ AllocPool(room, len)
    \/ \E len \in Lengths : AllocRef(len)
    \/ \E p \in Live : \/ PbufFree(p)
                       \/ \E increment \in {-1, 1} : PbufHeader(p, increment)
                       \/ \E new_len \in {0} \cup Lengths : PbufRealloc(p, new_len)
                       \/ PbufRef(p)
                       \/ \E t \in Live : PbufCat(p, t) \/ PbufChain(p, t)
                       \/ PbufDechain(p)
    \/ StillReferenced \/ NoLongerReferenced

Spec == Init /\ [][Next]_vars
-----------------------------------------------------------------------------
(***************************************************************************)
(* Properties                                                              *)
(***************************************************************************)
\* Every variable has its type.
TypeOK ==
    /\ Live \subseteq Pbufs /\ avail \subseteq Elements
    /\ \A p \in Live : pbufs[p] \in [next : Pbufs \cup {NULL}, ref : Nat, len : Nat,
                                     tot_len : Nat, room : Nat]
    /\ held \in [Pbufs -> Nat] /\ freeing \in Pbufs \cup {NULL}

\* "The reference counter of a pbuf equals the number of pointers that refer to
\* the pbuf" (pbuf.c:602).  One too many is a leak, one too few hands the
\* memory of a packet in use to the next caller.
RefsExact ==
    /\ TypeOK
    /\ \A p \in Pbufs :
        LET pointers == held[p] + Cardinality(Predecessors(p)) + (IF freeing = p THEN 1 ELSE 0)
        IN IF p \in Live THEN pbufs[p].ref = pointers /\ pointers > 0 ELSE pointers = 0

\* tot_len is len plus the tot_len of the rest of the chain (the invariant
\* pbuf_dechain asserts, pbuf.c:811), however packets were cut and joined.
TotExact ==
    Idle => \A p \in Live : pbufs[p].tot_len = pbufs[p].len +
                IF pbufs[p].next = NULL THEN 0 ELSE pbufs[pbufs[p].next].tot_len

\* What a payload covers lies inside the memory of its pbuf, however its headers are
\* hidden and put back, also where a caller only asks whether there is room for them
\* (icmp.c:145, udp.c:588): no header grows over the struct, and mem_trim never cuts off
\* data that len still counts.
PayloadInside ==
    \A p \in Live :
        /\ 0 <= pbufs[p].room
        /\ p \in Offsets => /\ p \in Areas /\ used[p]
                            /\ SIZEOF_STRUCT_PBUF + pbufs[p].room + pbufs[p].len <= SizeOf(p)
        /\ p \in PoolElements => pbufs[p].room + pbufs[p].len <= PBUF_POOL_BUFSIZE

\* Once the clients have given back every reference, all memory is free again and
\* the heap is one area: no order of frees leaves a leak or a cut.
AllGivenBack ==
    Idle /\ (\A p \in Pbufs : held[p] = 0) =>
        avail = Elements /\ heads = {0, ram_end} /\ ~used[0] /\ lfree = 0
=============================================================================
