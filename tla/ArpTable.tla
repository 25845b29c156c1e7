------------------------------ MODULE ArpTable ------------------------------
(***************************************************************************)
(* The ARP table (netif/etharp.c) with the time base that drives it.        *)
(* Interrupt handlers, which do not preempt each other, look addresses up,  *)
(* queue packets and take in ARP packets; the main program ages the entries *)
(* in etharp_tmr, called by lwip_periodic_handle (lwip_comm.c) in the loop   *)
(* of a session, which ends when KEY_UP is pressed; TIM3's handler counts    *)
(* the time.                                                                *)
(*                                                                         *)
(* As built: no ARP_QUEUEING (an entry holds one packet), no static         *)
(* entries, no ETHARP_TRUST_IP_MAC, one netif with a cached entry.  An      *)
(* address is that of the next hop, and a queued packet, always a copy, is   *)
(* known by the address it was queued for.                                  *)
(***************************************************************************)
EXTENDS Integers, FiniteSets, Functions

CONSTANTS
    ARP_TABLE_SIZE,
    ARP_MAXAGE, ARP_AGE_REREQUEST_USED, ARP_MAXPENDING,   \* in runs of etharp_tmr
    ARP_TMR_INTERVAL,     \* in ticks of TIM3
    TIME_WRAP,            \* lwip_localtime counts modulo this
    Hosts, HwAddrs,       \* the next hops, and the addresses each may say it has
    NULL,
    MaxLate,              \* bound: ticks between two turns of an open session's loop
    Anywhere              \* handlers preempt etharp_tmr anywhere, or between entries only

ASSUME ArpAssumption ==
    /\ {ARP_TABLE_SIZE, ARP_TMR_INTERVAL, MaxLate} \subseteq Nat \ {0}
    /\ {ARP_MAXAGE, ARP_AGE_REREQUEST_USED, ARP_MAXPENDING} \subseteq Nat \ {0}
    /\ TIME_WRAP \in Nat /\ ARP_TMR_INTERVAL + MaxLate <= TIME_WRAP
    /\ DOMAIN HwAddrs = Hosts /\ \A h \in Hosts : HwAddrs[h] # {}
    /\ NULL \notin Nat \cup Hosts \cup UNION Range(HwAddrs)
    /\ Anywhere \in BOOLEAN

Slots == 0 .. ARP_TABLE_SIZE - 1

VARIABLES
    arp_table,              \* of [state, ipaddr, ethaddr, ctime, q]
    etharp_cached_entry,
    lwip_localtime, ARPTimer,
    step, at,               \* where the main program is ("menu" while no session is
                            \* open), and the entry it is at
    late,                   \* ticks since the loop's last turn
    copies,                 \* packets copied for the queues and not freed
    sent,                   \* the IP frames the last step sent
    heard                   \* the hardware address each host said last

tableVars == <<arp_table, etharp_cached_entry, copies, heard>>
mainVars == <<ARPTimer, step, at>>
timeVars == <<lwip_localtime, late>>
vars == <<tableVars, sent, mainVars, timeVars>>

Init ==
    /\ arp_table = [i \in Slots |-> [state |-> "empty", ipaddr |-> NULL, ethaddr |-> NULL,
                                     ctime |-> 0, q |-> NULL]]
    /\ etharp_cached_entry = 0
    /\ lwip_localtime = 0 /\ ARPTimer = 0 /\ late = 0
    /\ step = "menu" /\ at = 0
    /\ copies = 0 /\ sent = <<>>
    /\ heard = [h \in Hosts |-> CHOOSE m \in HwAddrs[h] : TRUE]

Stable(i) == arp_table[i].state \in {"stable", "rerequesting"}
Lowest(S) == CHOOSE i \in S : \A j \in S : i <= j
One(test) == IF test THEN 1 ELSE 0
-----------------------------------------------------------------------------
(***************************************************************************)
(* etharp_find_entry and etharp_free_entry                                  *)
(***************************************************************************)
\* Mutant: an entry whose answer is awaited is not found.
MatchingStable(ip) == {i \in Slots : arp_table[i].state = "stable" /\ arp_table[i].ipaddr = ip}

Matching(ip) == {i \in Slots : arp_table[i].state # "empty" /\ arp_table[i].ipaddr = ip}

\* The last of the oldest, as `>=` in the search has it.
Oldest(S) ==
    CHOOSE i \in S : \A j \in S : \/ arp_table[j].ctime < arp_table[i].ctime
                                  \/ arp_table[j].ctime = arp_table[i].ctime /\ j <= i

\* The least destructive entry to recycle.
Victim ==
    LET empty  == {i \in Slots : arp_table[i].state = "empty"}
        stable == {i \in Slots : Stable(i)}
        idle   == {i \in Slots : arp_table[i].state = "pending" /\ arp_table[i].q = NULL}
    IN IF empty # {} THEN Lowest(empty)
       ELSE IF stable # {} THEN Oldest(stable)
       ELSE IF idle # {} THEN Oldest(idle)
       ELSE Oldest(Slots)

\* The slot for an address; NULL if it is unknown and none may be created.
FindEntry(ip, try_hard) ==
    IF Matching(ip) # {} THEN Lowest(Matching(ip))
    ELSE IF try_hard THEN Victim ELSE NULL

\* Mutant: the packet of a recycled entry stays on it.
EntryKept(ip, i) ==
    IF i \in Matching(ip) THEN arp_table[i]
    ELSE [arp_table[i] EXCEPT !.state = "empty", !.ipaddr = ip, !.ctime = 0]

\* The entry as etharp_find_entry leaves it: found, or recycled and new.
Entry(ip, i) ==
    IF i \in Matching(ip) THEN arp_table[i]
    ELSE [arp_table[i] EXCEPT !.state = "empty", !.ipaddr = ip, !.ctime = 0, !.q = NULL]

\* How many packets recycling slot i for an address frees.
FreedByFind(ip, i) == One(i \notin Matching(ip) /\ arp_table[i].q # NULL)
-----------------------------------------------------------------------------
(***************************************************************************)
(* The handlers                                                            *)
(***************************************************************************)
BetweenEntries == {"menu", "poll", "stamp", "visit"}

MayPreempt == Anywhere \/ step \in BetweenEntries

IpFrame(q, ethaddr) == [to |-> q, ethaddr |-> ethaddr]

\* What etharp_update_arp_entry makes of an entry.
Updated(e, ethaddr) ==
    [e EXCEPT !.state = "stable", !.ctime = 0, !.q = NULL, !.ethaddr = ethaddr]

\* etharp_arp_input: a host says, in a request or a reply, where it is.  One that
\* asks for us gets an entry; the packet queued for it leaves.
ArpInput(ip, ethaddr, for_us) ==
    LET i == FindEntry(ip, for_us)
        e == Entry(ip, i)
    IN /\ MayPreempt
       /\ heard' = [heard EXCEPT ![ip] = ethaddr]
       /\ \/ /\ i = NULL
             /\ sent' = <<>>
             /\ UNCHANGED <<arp_table, copies>>
          \/ /\ i # NULL
             /\ arp_table' = [arp_table EXCEPT ![i] = Updated(e, ethaddr)]
             /\ sent' = IF e.q = NULL THEN <<>> ELSE <<IpFrame(e.q, ethaddr)>>
             /\ copies' = copies - FreedByFind(ip, i) - One(e.q # NULL)
       /\ UNCHANGED <<etharp_cached_entry, mainVars, timeVars>>

\* Mutant: only the state of the cached entry is looked at.
CacheHitUnchecked(ip) == Stable(etharp_cached_entry)

CacheHit(ip) ==
    Stable(etharp_cached_entry) /\ arp_table[etharp_cached_entry].ipaddr = ip

\* etharp_output_to_arp_index: an entry about to expire is requested again, if
\* there is memory for the request.
OutputToIndex(ip, i, memory) ==
    /\ sent' = <<IpFrame(ip, arp_table[i].ethaddr)>>
    /\ arp_table' =
         IF /\ arp_table[i].state = "stable"
            /\ arp_table[i].ctime >= ARP_AGE_REREQUEST_USED
            /\ memory
         THEN [arp_table EXCEPT ![i].state = "rerequesting"]
         ELSE arp_table
    /\ etharp_cached_entry' = i
    /\ UNCHANGED copies

\* How the number of copies changes when a packet is put on entry e.
Queued(e, memory) == IF memory THEN 1 - One(e.q # NULL) ELSE 0

\* etharp_query, called without a stable entry: the packet is copied, if there is
\* memory, and replaces the one that waits.
Query(ip, memory) ==
    LET i == FindEntry(ip, TRUE)
        e == Entry(ip, i)
    IN /\ arp_table' = [arp_table EXCEPT ![i] =
                          [e EXCEPT !.state = "pending", !.q = IF memory THEN ip ELSE @]]
       /\ copies' = copies - FreedByFind(ip, i) + Queued(e, memory)
       /\ sent' = <<>>
       /\ UNCHANGED etharp_cached_entry

\* etharp_output of a packet to a host, or by way of the gateway; whichever way it takes
\* asks for memory once.
Output(ip, memory) ==
    LET known == {i \in Slots : Stable(i) /\ arp_table[i].ipaddr = ip} IN
    /\ MayPreempt
    /\ \/ CacheHit(ip) /\ OutputToIndex(ip, etharp_cached_entry, memory)
       \/ ~CacheHit(ip) /\ known # {} /\ OutputToIndex(ip, Lowest(known), memory)
       \/ ~CacheHit(ip) /\ known = {} /\ Query(ip, memory)
    /\ UNCHANGED <<heard, mainVars, timeVars>>

Handlers ==
    \E ip \in Hosts :
        \/ \E ethaddr \in HwAddrs[ip], for_us \in BOOLEAN : ArpInput(ip, ethaddr, for_us)
        \/ \E memory \in BOOLEAN : Output(ip, memory)
-----------------------------------------------------------------------------
(***************************************************************************)
(* The time base, the user and the session's loop                           *)
(***************************************************************************)
NothingSent == sent' = <<>>

\* TIM3_IRQHandler, which nothing delays for long, in a session or out of one.
TIM3_IRQHandler ==
    /\ lwip_localtime' = (lwip_localtime + 1) % TIME_WRAP
    /\ late' = IF step = "menu" THEN 0 ELSE late + 1
    /\ late' <= MaxLate
    /\ NothingSent
    /\ UNCHANGED <<tableVars, mainVars>>

\* The user opens a session.  How long none was open, the two counters do not tell.
Open ==
    /\ step = "menu"
    /\ step' = "poll" /\ late' = 0
    /\ NothingSent
    /\ UNCHANGED <<tableVars, lwip_localtime, ARPTimer, at>>

\* KEY_UP ends the loop; nothing ages while no session is open.
Quit ==
    /\ step = "poll"
    /\ step' = "menu" /\ late' = 0
    /\ NothingSent
    /\ UNCHANGED <<tableVars, ARPTimer, at, lwip_localtime>>

\* Mutant: the times are compared, not their difference.
DueByOrder == lwip_localtime >= ARPTimer + ARP_TMR_INTERVAL

\* The subtraction of the two counters wraps as they do.
Due == (lwip_localtime - ARPTimer) % TIME_WRAP >= ARP_TMR_INTERVAL

\* lwip_periodic_handle
Poll ==
    /\ step = "poll"
    /\ step' = IF Due THEN "stamp" ELSE "poll"
    /\ late' = 0
    /\ NothingSent
    /\ UNCHANGED <<arp_table, etharp_cached_entry, copies, heard, lwip_localtime, ARPTimer, at>>

Stamp ==
    /\ step = "stamp"
    /\ ARPTimer' = lwip_localtime
    /\ step' = "visit" /\ at' = 0
    /\ NothingSent
    /\ UNCHANGED <<tableVars, timeVars>>

\* etharp_tmr goes on to the next entry.
GoOn ==
    IF at + 1 < ARP_TABLE_SIZE THEN step' = "visit" /\ at' = at + 1
                               ELSE step' = "poll" /\ at' = 0

Visit ==
    /\ step = "visit"
    /\ IF arp_table[at].state = "empty" THEN GoOn ELSE step' = "age" /\ UNCHANGED at
    /\ NothingSent
    /\ UNCHANGED <<tableVars, ARPTimer, timeVars>>

Age ==
    /\ step = "age"
    /\ arp_table' = [arp_table EXCEPT ![at].ctime = @ + 1]
    /\ step' = "check"
    /\ NothingSent
    /\ UNCHANGED <<etharp_cached_entry, copies, heard, ARPTimer, at, timeVars>>

Expired(e) ==
    \/ e.ctime >= ARP_MAXAGE
    \/ e.state = "pending" /\ e.ctime >= ARP_MAXPENDING

Check ==
    /\ step = "check"
    /\ IF Expired(arp_table[at]) THEN step' = "free" /\ UNCHANGED at
       ELSE IF arp_table[at].state = "rerequesting" THEN step' = "calm" /\ UNCHANGED at
       ELSE GoOn
    /\ NothingSent
    /\ UNCHANGED <<tableVars, ARPTimer, timeVars>>

\* etharp_free_entry: pbuf_free(q), then q = NULL, then the state.
Free ==
    /\ step = "free"
    /\ copies' = copies - One(arp_table[at].q # NULL)
    /\ step' = IF arp_table[at].q # NULL THEN "forget" ELSE "recycle"
    /\ NothingSent
    /\ UNCHANGED <<arp_table, etharp_cached_entry, heard, ARPTimer, at, timeVars>>

Forget ==
    /\ step = "forget"
    /\ arp_table' = [arp_table EXCEPT ![at].q = NULL]
    /\ step' = "recycle"
    /\ NothingSent
    /\ UNCHANGED <<etharp_cached_entry, copies, heard, ARPTimer, at, timeVars>>

Recycle ==
    /\ step = "recycle"
    /\ arp_table' = [arp_table EXCEPT ![at].state = "empty"]
    /\ GoOn
    /\ NothingSent
    /\ UNCHANGED <<etharp_cached_entry, copies, heard, ARPTimer, timeVars>>

\* The next packet may ask again.
Calm ==
    /\ step = "calm"
    /\ arp_table' = [arp_table EXCEPT ![at].state = "stable"]
    /\ GoOn
    /\ NothingSent
    /\ UNCHANGED <<etharp_cached_entry, copies, heard, ARPTimer, timeVars>>

Main == Poll \/ Stamp \/ Visit \/ Age \/ Check \/ Free \/ Forget \/ Recycle \/ Calm

Next == Handlers \/ TIM3_IRQHandler \/ Main \/ Open \/ Quit

\* TIM3 runs on, and the handlers leave time for the loop of an open session; no key
\* need ever be pressed.
Spec == Init /\ [][Next]_vars /\ WF_vars(TIM3_IRQHandler) /\ WF_vars(Main)
-----------------------------------------------------------------------------
(***************************************************************************)
(* Properties                                                              *)
(***************************************************************************)
\* Every variable has its type.
TypeOK ==
    /\ arp_table \in [Slots -> [state : {"empty", "pending", "stable", "rerequesting"},
                                ipaddr : Hosts \cup {NULL}, ethaddr : (UNION Range(HwAddrs)) \cup {NULL},
                                ctime : 0 .. ARP_MAXAGE, q : Hosts \cup {NULL}]]
    /\ etharp_cached_entry \in Slots /\ at \in Slots
    /\ {lwip_localtime, ARPTimer} \subseteq 0 .. TIME_WRAP - 1
    /\ late \in 0 .. MaxLate
    /\ step \in BetweenEntries \cup {"age", "check", "free", "forget", "recycle", "calm"}
    /\ copies \in Int
    /\ DOMAIN heard = Hosts /\ \A h \in Hosts : heard[h] \in HwAddrs[h]

\* No host has two entries, however entries are recycled: the search takes the
\* first, and answers would renew one while packets wait on the other.
UniqueEntries ==
    /\ TypeOK
    /\ \A i, j \in Slots :
          arp_table[i].state # "empty" /\ arp_table[j].state # "empty"
          /\ arp_table[i].ipaddr = arp_table[j].ipaddr => i = j

\* Each copied packet waits in exactly one place, for the host of its entry, while
\* that is being asked for ("no queued packets should exist on stable entries",
\* etharp.c:368); no copy is lost and none is freed twice.
PacketsAccounted ==
    LET holding == {i \in Slots : arp_table[i].q # NULL} IN
    step # "forget" =>
        /\ copies = Cardinality(holding)
        /\ \A i \in holding : /\ arp_table[i].state = "pending"
                              /\ arp_table[i].q = arp_table[i].ipaddr

\* A frame goes to the hardware address its host gave last, also from the cached
\* entry and after entries were recycled for other hosts.
FramesReachTheirHost ==
    \A n \in DOMAIN sent : sent[n].ethaddr = heard[sent[n].to]

\* Whether or not its host answers, however often more packets come for it and
\* whatever the clock, which wraps, shows when the session is opened: a packet does not
\* wait for ever while a session is open.  (While none is, nothing ages: it does.)
PacketsDoNotWait ==
    \A h \in Hosts :
        (\E i \in Slots : arp_table[i].q = h) ~>
            ((\A i \in Slots : arp_table[i].q # h) \/ step = "menu")
=============================================================================
