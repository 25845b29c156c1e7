----------------------------- MODULE Reassembly -----------------------------
(***************************************************************************)
(* The reassembly of IP datagrams (core/ipv4/ip_frag.c).  ip_reass runs in   *)
(* the Ethernet handler, which nothing that uses its data preempts; it is     *)
(* cut into the steps "receive", one turn of the loop that makes room,        *)
(* "find" and "chain".                                                      *)
(*                                                                         *)
(* The list of datagrams and the pool's list of free elements go through the  *)
(* same word of an element, its first, so one variable holds both.  Nothing   *)
(* in this firmware calls ip_reass_tmr: the timers never move, and the last   *)
(* of the list counts as the oldest.  The network loses, repeats and reorders *)
(* fragments and may fragment a datagram in more than one way.               *)
(***************************************************************************)
EXTENDS Integers, SequencesExt

CONSTANTS
    MEMP_NUM_REASSDATA, IP_REASS_MAX_PBUFS,
    Ids,                  \* of datagrams: addresses and identification
    Fragmentations,       \* for each datagram, the sequences of [start, end, clen] that
                          \* may cut it up
    NULL

Elements == 1 .. MEMP_NUM_REASSDATA

\* The fragments of a datagram that may arrive; a whole datagram is not one.
FragmentsOf(id) ==
    UNION {{[id |-> id, start |-> c[n].start, end |-> c[n].end, clen |-> c[n].clen,
             more_fragments |-> n < Len(c)] : n \in DOMAIN c} :
              c \in {c \in Fragmentations[id] : Len(c) > 1}}

Fragments == UNION {FragmentsOf(id) : id \in Ids}

ASSUME ReassemblyAssumption ==
    /\ {MEMP_NUM_REASSDATA, IP_REASS_MAX_PBUFS} \subseteq Nat \ {0}
    /\ NULL \notin Ids \cup Elements \cup [datagram_len : Nat, p : Seq(Fragments)]
    /\ \A id \in Ids : \A c \in Fragmentations[id] :
          /\ c \in Seq([start : Nat, end : Nat, clen : 1 .. IP_REASS_MAX_PBUFS])
          /\ \A n \in DOMAIN c :
                /\ c[n].start < c[n].end
                /\ c[n].start = IF n = 1 THEN 0 ELSE c[n - 1].end

VARIABLES
    next,                 \* the first word of each element
    reassdatagrams, memp_tab,   \* the heads of the two lists
    ipr,                  \* the elements: [id, last, datagram_len, p]
    ip_reass_pbufcount,
    step,
    p,                    \* the fragment at hand
    pbufs_freed,          \* by the loop that makes room, so far
    delivered,            \* what the last fragment completed: [datagram_len, p] or NULL
    burst                 \* the fragments that have come in a row, in order, from the first

lists == <<next, reassdatagrams, memp_tab, ipr>>
vars == <<lists, ip_reass_pbufcount, step, p, pbufs_freed, delivered, burst>>

NoDatagram == [id |-> NULL, last |-> FALSE, datagram_len |-> 0, p |-> <<>>]

\* ip_reass is idle; memp_init put the pool in order.
Init ==
    /\ next = [e \in Elements |-> IF e = 1 THEN NULL ELSE e - 1]
    /\ reassdatagrams = NULL /\ memp_tab = MEMP_NUM_REASSDATA
    /\ ipr = [e \in Elements |-> NoDatagram]
    /\ ip_reass_pbufcount = 0
    /\ step = "receive" /\ p = NULL /\ pbufs_freed = 0
    /\ delivered = NULL /\ burst = <<>>

\* The list from an element on, followed for as many elements as there are and one
\* more: a list that is longer runs in a circle.
Walk(links, head) ==
    LET at[n \in 0 .. MEMP_NUM_REASSDATA] ==
            IF n = 0 THEN head ELSE IF at[n - 1] = NULL THEN NULL ELSE links[at[n - 1]]
    IN at

From(links, head) ==
    LET at == Walk(links, head)
    IN [n \in 1 .. Cardinality({m \in 1 .. MEMP_NUM_REASSDATA + 1 : at[m - 1] # NULL}) |-> at[n - 1]]

Queue == From(next, reassdatagrams)
Pool == From(next, memp_tab)

\* The sums of the first counts, from none of them to all.
Sums(counts) ==
    LET sum[n \in 0 .. Len(counts)] == IF n = 0 THEN 0 ELSE sum[n - 1] + counts[n]
    IN sum

Total(counts) == Sums(counts)[Len(counts)]

Pbufs(fragments) == Total([n \in DOMAIN fragments |-> fragments[n].clen])
-----------------------------------------------------------------------------
(***************************************************************************)
(* ip_reass_remove_oldest_datagram: datagrams are freed until the fragment's  *)
(* pbufs fit, but never its own                                              *)
(***************************************************************************)
Others(id) == {n \in DOMAIN Queue : ipr[Queue[n]].id # id}

Oldest == Queue[Max(Others(p.id))]

\* The last node the search left by its next pointer: before the end of the list,
\* wherever the oldest is.
Prev == IF Len(Queue) > 1 THEN Queue[Len(Queue) - 1] ELSE NULL

\* ip_reass_dequeue_datagram: unlinked after prev, and given back to the pool.
Dequeue(e, prev) ==
    /\ IF reassdatagrams = e
       THEN /\ reassdatagrams' = next[e]
            /\ next' = [next EXCEPT ![e] = memp_tab]
       ELSE /\ next' = [[next EXCEPT ![prev] = next[e]] EXCEPT ![e] = memp_tab]
            /\ UNCHANGED reassdatagrams
    /\ memp_tab' = e
    /\ ipr' = [ipr EXCEPT ![e] = NoDatagram]

\* Mutant: the first fragment, which the ICMP message quotes, is not counted.
FreedButFirst(e) == Pbufs(Tail(ipr[e].p))

\* The pbufs that go with a datagram.
Freed(e) == Pbufs(ipr[e].p)

\* ip_reass_free_complete_datagram; the ICMP message it sends is left out.
FreeCompleteDatagram(e, prev) ==
    /\ Dequeue(e, prev)
    /\ ip_reass_pbufcount' = ip_reass_pbufcount - Freed(e)
    /\ pbufs_freed' = pbufs_freed + Freed(e)

\* Mutant: one turn is thought to be enough.
RoomMadeAtOnce == TRUE

\* The loop ends with this turn.
RoomMade ==
    Cardinality(Others(p.id)) > 1 => pbufs_freed + Freed(Oldest) >= p.clen

Drop == step' = "receive" /\ p' = NULL

\* One turn, and what follows the last one: too many pbufs ("overflow") or no
\* element left ("exhausted").
MakeRoom ==
    /\ step \in {"overflow", "exhausted"}
    /\ IF Others(p.id) = {} THEN UNCHANGED <<lists, ip_reass_pbufcount, pbufs_freed>>
                           ELSE FreeCompleteDatagram(Oldest, Prev)
    /\ \/ ~RoomMade /\ UNCHANGED <<step, p>>
       \/ /\ RoomMade
          /\ IF \/ step = "overflow" /\ pbufs_freed' # 0
                   /\ ip_reass_pbufcount' + p.clen <= IP_REASS_MAX_PBUFS
                \/ step = "exhausted" /\ pbufs_freed' >= p.clen
             THEN /\ step' = IF step = "overflow" THEN "find" ELSE "enqueue"
                  /\ UNCHANGED p
             ELSE Drop
    /\ UNCHANGED <<delivered, burst>>
-----------------------------------------------------------------------------
(***************************************************************************)
(* ip_reass                                                                *)
(***************************************************************************)
\* A fragment may begin a burst, go on with it or break it.
Burst(f) ==
    IF f.start = 0 /\ \A n \in DOMAIN Queue : ipr[Queue[n]].id # f.id THEN <<f>>
    ELSE IF /\ burst # <<>> /\ Last(burst).more_fragments
            /\ Last(burst).id = f.id /\ Last(burst).end = f.start
         THEN Append(burst, f) ELSE <<>>

Receive(f) ==
    /\ step = "receive"
    /\ p' = f
    /\ pbufs_freed' = 0
    /\ step' = IF ip_reass_pbufcount + f.clen > IP_REASS_MAX_PBUFS THEN "overflow" ELSE "find"
    /\ burst' = Burst(f)
    /\ delivered' = NULL
    /\ UNCHANGED <<lists, ip_reass_pbufcount>>

\* Mutant: only the newest datagram is looked at.
OwnAtHead == {n \in DOMAIN Queue : n = 1 /\ ipr[Queue[n]].id = p.id}

\* Where in the list the fragment's own datagram is.
Own == {n \in DOMAIN Queue : ipr[Queue[n]].id = p.id}

\* The datagram of the fragment is looked for.
Find ==
    /\ step = "find"
    /\ step' = IF Own # {} THEN "chain" ELSE IF memp_tab = NULL THEN "exhausted" ELSE "enqueue"
    /\ pbufs_freed' = 0
    /\ UNCHANGED <<lists, ip_reass_pbufcount, p, delivered, burst>>

\* ip_reass_enqueue_new_datagram: a new datagram at the head of the list.
EnqueueNewDatagram ==
    LET e == memp_tab IN
    /\ step = "enqueue"
    /\ IF e = NULL THEN Drop /\ UNCHANGED lists
       ELSE /\ memp_tab' = next[e]
            /\ next' = [next EXCEPT ![e] = reassdatagrams]
            /\ reassdatagrams' = e
            /\ ipr' = [ipr EXCEPT ![e] = [NoDatagram EXCEPT !.id = p.id]]
            /\ step' = "chain"
            /\ UNCHANGED p
    /\ UNCHANGED <<ip_reass_pbufcount, pbufs_freed, delivered, burst>>

\* How many fragments of a datagram begin before f.
Before(fragments, f) == Cardinality({n \in DOMAIN fragments : fragments[n].start < f.start})

\* Mutant: only the fragment after it is looked at.
OverlapsNext(fragments, f) ==
    LET k == Before(fragments, f) IN k < Len(fragments) /\ f.end > fragments[k + 1].start

\* A fragment that is there already or overlaps is thrown away; one that begins
\* before all others is not compared with the next.
Overlaps(fragments, f) ==
    LET k == Before(fragments, f)
    IN \/ \E n \in DOMAIN fragments : fragments[n].start <= f.start /\ f.start < fragments[n].end
       \/ 0 < k /\ k < Len(fragments) /\ f.end > fragments[k + 1].start

Adjacent(fragments, m, n) ==
    \A i \in m .. n - 1 : fragments[i].end = fragments[i + 1].start

\* "validate": f, inserted after the k-th, is taken to complete the fragments.  The
\* gap in front of it is looked at only when it is the last.
Valid(fragments, k) ==
    /\ fragments[1].start = 0
    /\ Adjacent(fragments, 1, k)
    /\ k + 1 = Len(fragments) => Adjacent(fragments, 1, k + 1)
    /\ Adjacent(fragments, k + 1, Len(fragments))

\* Mutant: the pbufs of a fragment thrown away stay in the count.
ThrownAwayCounted == p.clen

\* What a fragment that is thrown away adds to the count.
ThrownAway == 0

\* Where ip_reass_chain_frag_into_datagram_and_validate puts the fragment, and
\* the datagram's delivery when it says that nothing is missing.
Chain ==
    LET n == Min(Own)
        e == Queue[n]
        k == Before(ipr[e].p, p)
        d == [ipr[e] EXCEPT !.last = @ \/ ~p.more_fragments,
                            !.datagram_len = IF p.more_fragments THEN @ ELSE p.end]
        fragments == InsertAt(d.p, k + 1, p)
    IN
    /\ step = "chain"
    /\ \/ /\ Overlaps(d.p, p)
          /\ ipr' = [ipr EXCEPT ![e] = d]
          /\ ip_reass_pbufcount' = ip_reass_pbufcount + ThrownAway
          /\ UNCHANGED <<next, reassdatagrams, memp_tab, delivered>>
       \/ /\ ~Overlaps(d.p, p) /\ ~(d.last /\ Valid(fragments, k))
          /\ ipr' = [ipr EXCEPT ![e] = [d EXCEPT !.p = fragments]]
          /\ ip_reass_pbufcount' = ip_reass_pbufcount + p.clen
          /\ UNCHANGED <<next, reassdatagrams, memp_tab, delivered>>
       \/ /\ ~Overlaps(d.p, p) /\ d.last /\ Valid(fragments, k)
          /\ delivered' = [datagram_len |-> d.datagram_len, p |-> fragments]
          /\ Dequeue(e, IF n = 1 THEN NULL ELSE Queue[n - 1])
          /\ ip_reass_pbufcount' = ip_reass_pbufcount + p.clen - Pbufs(fragments)
    /\ step' = "receive" /\ p' = NULL
    /\ UNCHANGED <<pbufs_freed, burst>>

Next ==
    \/ \E f \in Fragments : Receive(f)
    \/ MakeRoom
    \/ Find
    \/ EnqueueNewDatagram
    \/ Chain

Spec == Init /\ [][Next]_vars
-----------------------------------------------------------------------------
(***************************************************************************)
(* Properties                                                              *)
(***************************************************************************)
\* Every variable has its type.
TypeOK ==
    /\ next \in [Elements -> Elements \cup {NULL}]
    /\ {reassdatagrams, memp_tab} \subseteq Elements \cup {NULL}
    /\ \A e \in Elements : ipr[e].id \in Ids \cup {NULL} /\ Range(ipr[e].p) \subseteq Fragments
    /\ p \in Fragments \cup {NULL}
    /\ step \in {"receive", "overflow", "exhausted", "find", "enqueue", "chain"}

\* Whatever is displaced to make room, each element is once in the list of datagrams
\* or once in that of the pool, and a datagram has one element.  It does not say that
\* "prev != ipr" (ip_frag.c:165) holds: with two elements, the list [another, own] and
\* an overflow, Prev is the datagram to be displaced itself, but that is the head of
\* the list and Prev is not used.  With three elements it may be in the middle.
ListsExact ==
    /\ TypeOK
    /\ IsInjective(Queue) /\ IsInjective(Pool)
    /\ Range(Queue) \cap Range(Pool) = {} /\ Range(Queue) \cup Range(Pool) = Elements
    /\ \A m, n \in DOMAIN Queue : ipr[Queue[m]].id = ipr[Queue[n]].id => m = n

\* The datagram that an overflow displaces is where its predecessor is taken to be, at
\* the end of the list, or its predecessor is not needed.
SafeVictim == step = "overflow" /\ Len(Queue) > 2 => ipr[Queue[Len(Queue)]].id # p.id

\* The count that limits reassembly is that of the pbufs queued, over repeated,
\* overlapping, displaced and delivered fragments, and the limit is kept.
CountExact ==
    /\ ip_reass_pbufcount = Total([n \in DOMAIN Queue |-> Pbufs(ipr[Queue[n]].p)])
    /\ ip_reass_pbufcount <= IP_REASS_MAX_PBUFS

\* However a datagram is cut up, its last fragment is the same, or at least nothing
\* reaches over its begin.
SharesLast(id) ==
    \A f, g \in FragmentsOf(id) :
       ~f.more_fragments => g.end <= f.start \/ (~g.more_fragments /\ g.end = f.end)

\* A datagram is delivered from its first byte on, in order, without a byte twice and
\* from its own fragments only; and up to its last byte if all ways to cut it up share
\* the last fragment.  Otherwise a last fragment that is thrown away because it overlaps
\* has set the flag and the length all the same (ip_frag.c:558-564).
DeliveredInOrder ==
    delivered # NULL =>
        /\ delivered.p[1].start = 0
        /\ \A n \in 2 .. Len(delivered.p) :
              /\ delivered.p[n - 1].end <= delivered.p[n].start
              /\ delivered.p[n - 1].id = delivered.p[n].id
        /\ SharesLast(delivered.p[1].id) => Last(delivered.p).end = delivered.datagram_len

\* Not so without that condition: "validate_datagram:datagram end!=datagram len"
\* (ip_frag.c:449) asserts that what is delivered ends where the last fragment says.
EndIsLength == delivered # NULL => Last(delivered.p).end = delivered.datagram_len

\* "all fragments are received" (ip_frag.c:441, :568) when a datagram is delivered.
DeliveredWhole ==
    delivered # NULL => Pbufs(delivered.p) > 0 /\ Adjacent(delivered.p, 1, Len(delivered.p))

\* A fragment is refused for lack of room only if no other datagram is left to be
\* displaced.
RefusedOnlyAlone ==
    [][(step # "chain" /\ step' = "receive")
         => \A n \in DOMAIN Queue' : ipr'[Queue'[n]].id = p.id]_vars

\* However many incomplete datagrams clog the reassembly, a datagram whose fragments
\* come in order and in a row is delivered with the last of them.
BurstDelivered ==
    step = "receive" /\ burst # <<>> /\ ~Last(burst).more_fragments =>
        delivered # NULL /\ delivered.p = burst
=============================================================================
