--------------------------- MODULE ArpTableProofs ---------------------------
(***************************************************************************)
(* ArpTable's safety for tables, ages, clocks and sets of hosts of every   *)
(* size.  That no host has two entries needs nothing of the interrupts:    *)
(* handlers may come between any two steps of etharp_tmr.  That packets    *)
(* are accounted for and frames reach their host is proved for behaviours  *)
(* in which they may still come anywhere, but spare the one entry          *)
(* etharp_tmr is working on; without that neither holds.                   *)
(***************************************************************************)
EXTENDS ArpTable, FiniteSetTheorems, WellFoundedInduction, TLAPS

Used(i) == arp_table[i].state # "empty"

\* No two entries in use are for the same host.
Unique == \A i, j \in Slots : Used(i) /\ Used(j) /\ arp_table[i].ipaddr = arp_table[j].ipaddr => i = j

\* An entry in use is for a host.
Named == \A i \in Slots : Used(i) => arp_table[i].ipaddr \in Hosts

\* Only the entry that etharp_tmr is about to free has the age at which it is freed ...
Aged ==
    \A i \in Slots : Used(i) /\ arp_table[i].ctime = ARP_MAXAGE =>
        i = at /\ step \in {"check", "free", "forget", "recycle"}

\* ... and the entry it works on is in use: no handler empties one.
AtWork == step \in {"age", "check", "free", "forget", "recycle", "calm"} => Used(at)

TableInv == TypeOK /\ Unique /\ Named /\ Aged /\ AtWork

Holding == {i \in Slots : arp_table[i].q # NULL}

\* Between the pbuf_free of etharp_free_entry and its q = NULL a packet too many is held.
Counted == copies = Cardinality(Holding) - One(step = "forget")

\* A packet waits for the host of its entry, which is being asked for.
Waiting == \A i \in Holding : arp_table[i].state = "pending" /\ arp_table[i].q = arp_table[i].ipaddr

\* What etharp_tmr has seen of its entry is still so.
Seen ==
    /\ step = "forget" => arp_table[at].q # NULL
    /\ step = "recycle" => arp_table[at].q = NULL
    /\ step = "calm" => arp_table[at].state = "rerequesting"

\* An entry that is used to send has the address its host gave last.
Current == \A i \in Slots : Stable(i) => arp_table[i].ethaddr = heard[arp_table[i].ipaddr]

IInv == TableInv /\ Counted /\ Waiting /\ Seen /\ Current /\ FramesReachTheirHost

States == {"empty", "pending", "stable", "rerequesting"}
HwTypes == (UNION Range(HwAddrs)) \cup {NULL}

EntryType == [state : States, ipaddr : Hosts \cup {NULL}, ethaddr : HwTypes,
              ctime : 0 .. ARP_MAXAGE, q : Hosts \cup {NULL}]

-----------------------------------------------------------------------------
(* What the searches of etharp_find_entry return. *)

\* A set of natural numbers that is not empty has a least one.
LEMMA LeastNumber ==
    ASSUME NEW T \in SUBSET Nat, T # {}
    PROVE  \E x \in T : \A y \in T : x <= y
<1>1. \E x \in T : \A y \in T : <<y, x>> \notin OpToRel(<, Nat)
  BY NatLessThanWellFounded, WFMin
<1>2. \A x, y \in Nat : y < x => <<y, x>> \in OpToRel(<, Nat)
  BY DEF OpToRel
<1>3. \E x \in T : \A y \in T : ~(y < x)
  BY <1>1, <1>2, Zenon
<1>. QED
  BY <1>3

LEMMA SlotsType == Slots \subseteq Nat /\ Slots # {} /\ 0 \in Slots /\ NULL \notin Slots
  BY ArpAssumption DEF Slots

LEMMA LowestIn ==
    ASSUME NEW S \in SUBSET Slots, S # {}
    PROVE  Lowest(S) \in S
<1>1. \E i \in S : \A j \in S : i <= j
  BY LeastNumber, SlotsType
<1>. QED
  BY <1>1 DEF Lowest

\* Among the entries of the greatest age there is a last one.
LEMMA OldestIn ==
    ASSUME TypeOK, NEW S \in SUBSET Slots, S # {}
    PROVE  Oldest(S) \in S
<1>. DEFINE age(i) == arp_table[i].ctime
            Younger == {ARP_MAXAGE - age(i) : i \in S}
<1>1. ARP_MAXAGE \in Nat /\ ARP_TABLE_SIZE \in Nat /\ \A i \in S : age(i) \in 0 .. ARP_MAXAGE
  BY ArpAssumption DEF TypeOK
<1>2. PICK i \in S : \A j \in S : age(j) <= age(i)
  <2>1. Younger \in SUBSET Nat /\ Younger # {}
    BY <1>1
  <2>2. PICK a \in Younger : \A b \in Younger : a <= b
    BY <2>1, LeastNumber
  <2>3. PICK i \in S : a = ARP_MAXAGE - age(i)
    BY <2>2
  <2>4. \A j \in S : ARP_MAXAGE - age(i) <= ARP_MAXAGE - age(j)
    BY <2>2, <2>3
  <2>. QED
    BY <1>1, <2>4
<1>. DEFINE T == {j \in S : age(j) = age(i)}
            Before == {ARP_TABLE_SIZE - j : j \in T}
<1>3. PICK k \in T : \A j \in T : j <= k
  <2>1. Before \in SUBSET Nat /\ Before # {}
    BY <1>1 DEF Slots
  <2>2. PICK a \in Before : \A b \in Before : a <= b
    BY <2>1, LeastNumber
  <2>3. PICK k \in T : a = ARP_TABLE_SIZE - k
    BY <2>2
  <2>4. \A j \in T : ARP_TABLE_SIZE - k <= ARP_TABLE_SIZE - j
    BY <2>2, <2>3
  <2>. QED
    BY <1>1, <2>4 DEF Slots
<1>4. \A j \in S : age(j) < age(k) \/ (age(j) = age(k) /\ j <= k)
  <2>. TAKE j \in S
  <2>1. age(j) \in Nat /\ age(k) \in Nat /\ age(j) <= age(k)
    BY <1>1, <1>2, <1>3
  <2>. QED
    BY <1>3, <2>1
<1>. QED
  BY <1>3, <1>4 DEF Oldest

LEMMA VictimIn == TypeOK => Victim \in Slots
<1>. SUFFICES ASSUME TypeOK PROVE Victim \in Slots
  OBVIOUS
<1>. DEFINE empty  == {i \in Slots : arp_table[i].state = "empty"}
            stable == {i \in Slots : Stable(i)}
            idle   == {i \in Slots : arp_table[i].state = "pending" /\ arp_table[i].q = NULL}
<1>1. empty # {} => Lowest(empty) \in Slots
  BY LowestIn
<1>2. stable # {} => Oldest(stable) \in Slots
  BY OldestIn
<1>3. idle # {} => Oldest(idle) \in Slots
  BY OldestIn
<1>4. Oldest(Slots) \in Slots
  BY OldestIn, SlotsType
<1>5. Victim = IF empty # {} THEN Lowest(empty) ELSE IF stable # {} THEN Oldest(stable)
               ELSE IF idle # {} THEN Oldest(idle) ELSE Oldest(Slots)
  BY DEF Victim
<1>. HIDE DEF empty, stable, idle
<1>. QED
  BY <1>1, <1>2, <1>3, <1>4, <1>5

LEMMA TableType == TypeOK => arp_table \in [Slots -> EntryType]
  BY DEF TypeOK, EntryType, States, HwTypes

\* etharp_find_entry: the slot is the address's own, or the address has none and the
\* entry is as good as new.
LEMMA FindFacts ==
    ASSUME TableInv, NEW ip \in Hosts, NEW try_hard \in BOOLEAN,
           NEW i, i = FindEntry(ip, try_hard)
    PROVE  /\ i = NULL => Matching(ip) = {} /\ ~try_hard
           /\ i # NULL => /\ i \in Slots
                          /\ i \in Matching(ip) \/ Matching(ip) = {}
                          /\ Entry(ip, i) \in EntryType
                          /\ Entry(ip, i).ipaddr = ip
                          /\ Entry(ip, i).ctime = ARP_MAXAGE =>
                                i = at /\ step \in {"check", "free", "forget", "recycle"}
                          /\ Entry(ip, i).q = IF i \in Matching(ip) THEN arp_table[i].q ELSE NULL
                          /\ \A j \in Slots : Used(j) /\ arp_table[j].ipaddr = ip => j = i
<1>1. i = NULL => Matching(ip) = {} /\ ~try_hard
  BY LowestIn, VictimIn, SlotsType DEF FindEntry, TableInv, Matching
<1>2. ASSUME i # NULL
      PROVE  i \in Slots /\ (i \in Matching(ip) \/ Matching(ip) = {})
  <2>1. Matching(ip) \subseteq Slots
    BY DEF Matching
  <2>. QED
    BY <1>2, <2>1, LowestIn, VictimIn DEF FindEntry, TableInv
<1>3. ASSUME i # NULL
      PROVE  /\ Entry(ip, i) \in EntryType
             /\ Entry(ip, i).ipaddr = ip
             /\ Entry(ip, i).ctime = ARP_MAXAGE =>
                   i = at /\ step \in {"check", "free", "forget", "recycle"}
             /\ Entry(ip, i).q = IF i \in Matching(ip) THEN arp_table[i].q ELSE NULL
  <2>1. arp_table[i] \in EntryType /\ ARP_MAXAGE \in Nat \ {0}
    BY <1>2, <1>3, TableType, ArpAssumption DEF TableInv
  <2>2. CASE i \in Matching(ip)
    BY <1>2, <1>3, <2>1, <2>2 DEF Entry, Matching, TableInv, Aged, Used
  <2>3. CASE i \notin Matching(ip)
    <3>1. Entry(ip, i) = [arp_table[i] EXCEPT !.state = "empty", !.ipaddr = ip, !.ctime = 0, !.q = NULL]
      BY <2>3 DEF Entry
    <3>2. Entry(ip, i) = [state |-> "empty", ipaddr |-> ip, ethaddr |-> arp_table[i].ethaddr,
                          ctime |-> 0, q |-> NULL]
      BY <2>1, <3>1 DEF EntryType
    <3>3. arp_table[i].ethaddr \in HwTypes
      BY <2>1 DEF EntryType
    <3>4. Entry(ip, i) \in EntryType
      BY <2>1, <3>2, <3>3 DEF EntryType, States
    <3>. QED
      BY <2>1, <2>3, <3>2, <3>4
  <2>. QED
    BY <2>2, <2>3
<1>4. ASSUME i # NULL, NEW j \in Slots, Used(j), arp_table[j].ipaddr = ip
      PROVE  j = i
  <2>1. j \in Matching(ip)
    BY <1>4 DEF Matching, Used
  <2>. QED
    BY <1>2, <1>4, <2>1 DEF Matching, TableInv, Unique, Used
<1>. QED
  BY <1>1, <1>2, <1>3, <1>4

\* A handler that leaves in one slot an entry in use for a host with no other entry.
LEMMA EntryWritten ==
    ASSUME TableInv, NEW ip \in Hosts, NEW i \in Slots, NEW x \in EntryType,
           x.state # "empty", x.ipaddr = ip,
           x.ctime = ARP_MAXAGE => i = at /\ step \in {"check", "free", "forget", "recycle"},
           \A j \in Slots : Used(j) /\ arp_table[j].ipaddr = ip => j = i,
           arp_table' = [arp_table EXCEPT ![i] = x],
           copies' \in Int,
           DOMAIN heard' = Hosts, \A h \in Hosts : heard'[h] \in HwAddrs[h],
           etharp_cached_entry' \in Slots,
           UNCHANGED <<mainVars, timeVars>>
    PROVE  TableInv'
<1>. USE DEF TableInv
<1>1. arp_table \in [Slots -> EntryType]
  BY TableType
<1>2. arp_table' \in [Slots -> EntryType]
  BY <1>1
<1>3. /\ arp_table'[i] = x /\ \A j \in Slots : j # i => arp_table'[j] = arp_table[j]
      /\ UNCHANGED <<step, at>>
  BY <1>1 DEF mainVars
<1>4. TypeOK'
  BY <1>2 DEF TypeOK, EntryType, States, HwTypes, mainVars, timeVars
<1>5. Unique'
  BY <1>3 DEF Unique, Used
<1>6. Named'
  BY <1>3 DEF Named, Used
<1>7. Aged'
  BY <1>3 DEF Aged, Used
<1>8. AtWork'
  BY <1>3 DEF AtWork, Used, TypeOK
<1>. QED
  BY <1>4, <1>5, <1>6, <1>7, <1>8

-----------------------------------------------------------------------------
(* The handlers. *)

LEMMA UpdatedType ==
    ASSUME NEW e \in EntryType, NEW ethaddr \in UNION Range(HwAddrs)
    PROVE  /\ Updated(e, ethaddr) \in EntryType
           /\ Updated(e, ethaddr) = [state |-> "stable", ipaddr |-> e.ipaddr, ethaddr |-> ethaddr,
                                     ctime |-> 0, q |-> NULL]
<1>1. Updated(e, ethaddr) = [state |-> "stable", ipaddr |-> e.ipaddr, ethaddr |-> ethaddr,
                             ctime |-> 0, q |-> NULL]
  <2>1. Updated(e, ethaddr) =
            [e EXCEPT !.state = "stable", !.ctime = 0, !.q = NULL, !.ethaddr = ethaddr]
    BY DEF Updated
  <2>2. e = [state |-> e.state, ipaddr |-> e.ipaddr, ethaddr |-> e.ethaddr, ctime |-> e.ctime, q |-> e.q]
    BY DEF EntryType
  <2>. QED
    BY <2>1, <2>2
<1>2. e.ipaddr \in Hosts \cup {NULL} /\ 0 \in 0 .. ARP_MAXAGE
  BY ArpAssumption DEF EntryType
<1>. QED
  BY <1>1, <1>2 DEF EntryType, States, HwTypes

LEMMA HwAddrOfHost ==
    ASSUME NEW h \in Hosts, NEW m \in HwAddrs[h]
    PROVE  m \in UNION Range(HwAddrs)
  BY ArpAssumption DEF Range

\* What etharp_arp_input does when it has, or gets, an entry for the sender.
LEMMA ArpInputWrites ==
    ASSUME TableInv, NEW ip \in Hosts, NEW ethaddr \in HwAddrs[ip], NEW for_us \in BOOLEAN,
           ArpInput(ip, ethaddr, for_us), FindEntry(ip, for_us) # NULL
    PROVE  \E i \in Slots, x \in EntryType :
              /\ x.state = "stable" /\ x.ipaddr = ip /\ x.ethaddr = ethaddr
              /\ x.ctime = 0 /\ x.q = NULL
              /\ arp_table' = [arp_table EXCEPT ![i] = x]
              /\ \A j \in Slots : Used(j) /\ arp_table[j].ipaddr = ip => j = i
              /\ copies' = copies - One(arp_table[i].q # NULL)
              /\ sent' = <<>> \/ (arp_table[i].ipaddr = ip /\ arp_table[i].q # NULL
                                  /\ sent' = <<IpFrame(arp_table[i].q, ethaddr)>>)
<1>. DEFINE i == FindEntry(ip, for_us)
            e == Entry(ip, i)
<1>1. /\ i \in Slots /\ e \in EntryType /\ e.ipaddr = ip
      /\ i \in Matching(ip) \/ Matching(ip) = {}
      /\ e.q = IF i \in Matching(ip) THEN arp_table[i].q ELSE NULL
      /\ \A j \in Slots : Used(j) /\ arp_table[j].ipaddr = ip => j = i
  BY FindFacts
<1>2. /\ arp_table' = [arp_table EXCEPT ![i] = Updated(e, ethaddr)]
      /\ sent' = IF e.q = NULL THEN <<>> ELSE <<IpFrame(e.q, ethaddr)>>
      /\ copies' = copies - FreedByFind(ip, i) - One(e.q # NULL)
  BY DEF ArpInput
<1>3. copies \in Int
  BY DEF TableInv, TypeOK
<1>. HIDE DEF i, e
<1>4. copies' = copies - One(arp_table[i].q # NULL)
  BY <1>1, <1>2, <1>3 DEF FreedByFind, One
<1>5. sent' = <<>> \/ (arp_table[i].ipaddr = ip /\ arp_table[i].q # NULL
                       /\ sent' = <<IpFrame(arp_table[i].q, ethaddr)>>)
  BY <1>1, <1>2 DEF Matching
<1>6. /\ Updated(e, ethaddr) \in EntryType
      /\ Updated(e, ethaddr).state = "stable" /\ Updated(e, ethaddr).ipaddr = ip
      /\ Updated(e, ethaddr).ethaddr = ethaddr
      /\ Updated(e, ethaddr).ctime = 0 /\ Updated(e, ethaddr).q = NULL
  BY <1>1, HwAddrOfHost, UpdatedType
<1>. QED
  BY <1>1, <1>2, <1>4, <1>5, <1>6

\* What etharp_query does: it is called for a host without an entry to send by.
LEMMA QueryWrites ==
    ASSUME TableInv, NEW ip \in Hosts, NEW memory \in BOOLEAN, Query(ip, memory),
           {i \in Slots : Stable(i) /\ arp_table[i].ipaddr = ip} = {}
    PROVE  \E i \in Slots, x \in EntryType :
              /\ x.state = "pending" /\ x.ipaddr = ip
              /\ x.ctime = ARP_MAXAGE => i = at /\ step \in {"check", "free", "forget", "recycle"}
              /\ \/ x.q = ip
                 \/ x.q = NULL
                 \/ Used(i) /\ arp_table[i].ipaddr = ip /\ x.q = arp_table[i].q
              /\ arp_table' = [arp_table EXCEPT ![i] = x]
              /\ \A j \in Slots : Used(j) /\ arp_table[j].ipaddr = ip => j = i
              /\ copies' = copies - One(arp_table[i].q # NULL) + One(x.q # NULL)
              /\ sent' = <<>>
<1>. DEFINE i == FindEntry(ip, TRUE)
            e == Entry(ip, i)
            x == [e EXCEPT !.state = "pending", !.q = IF memory THEN ip ELSE e.q]
<1>1. /\ i \in Slots /\ e \in EntryType /\ e.ipaddr = ip
      /\ i \in Matching(ip) \/ Matching(ip) = {}
      /\ e.ctime = ARP_MAXAGE => i = at /\ step \in {"check", "free", "forget", "recycle"}
      /\ e.q = IF i \in Matching(ip) THEN arp_table[i].q ELSE NULL
      /\ \A j \in Slots : Used(j) /\ arp_table[j].ipaddr = ip => j = i
  BY FindFacts
<1>2. /\ arp_table' = [arp_table EXCEPT ![i] = x]
      /\ sent' = <<>>
      /\ copies' = copies - FreedByFind(ip, i) + Queued(e, memory)
  BY DEF Query
<1>3. copies \in Int /\ NULL \notin Hosts
  BY ArpAssumption DEF TableInv, TypeOK
<1>. HIDE DEF i, e
<1>4. /\ x \in EntryType /\ x.state = "pending" /\ x.ipaddr = ip /\ x.ctime = e.ctime
      /\ x.q = IF memory THEN ip ELSE e.q
  BY <1>1 DEF EntryType, States
<1>. HIDE DEF x
<1>5. copies' = copies - One(arp_table[i].q # NULL) + One(x.q # NULL)
  BY <1>1, <1>2, <1>3, <1>4 DEF FreedByFind, Queued, One
<1>6. \/ x.q = ip
      \/ x.q = NULL
      \/ Used(i) /\ arp_table[i].ipaddr = ip /\ x.q = arp_table[i].q
  BY <1>1, <1>4 DEF Matching, Used
<1>. QED
  BY <1>1, <1>2, <1>4, <1>5, <1>6

\* What etharp_output_to_arp_index does to the table: perhaps a state, and the cached entry.
LEMMA OutputWrites ==
    ASSUME TableInv, NEW ip \in Hosts, NEW i \in Slots, NEW memory \in BOOLEAN,
           OutputToIndex(ip, i, memory), Stable(i)
    PROVE  /\ arp_table' \in [Slots -> EntryType]
           /\ \A j \in Slots : /\ Used(j)' = Used(j) /\ Stable(j)' = Stable(j)
                               /\ arp_table'[j].ipaddr = arp_table[j].ipaddr
                               /\ arp_table'[j].ethaddr = arp_table[j].ethaddr
                               /\ arp_table'[j].ctime = arp_table[j].ctime
                               /\ arp_table'[j].q = arp_table[j].q
                               /\ arp_table'[j].state = arp_table[j].state \/ (j = i /\ Stable(i)')
           /\ sent' = <<IpFrame(ip, arp_table[i].ethaddr)>>
           /\ etharp_cached_entry' = i /\ copies' = copies
<1>1. arp_table \in [Slots -> EntryType]
  BY TableType DEF TableInv
<1>2. CASE arp_table' = arp_table
  BY <1>1, <1>2 DEF OutputToIndex, Used, Stable
<1>3. CASE arp_table[i].state = "stable" /\ arp_table' = [arp_table EXCEPT ![i].state = "rerequesting"]
  <2>1. /\ arp_table' = [arp_table EXCEPT ![i] = [arp_table[i] EXCEPT !.state = "rerequesting"]]
        /\ [arp_table[i] EXCEPT !.state = "rerequesting"] \in EntryType
    BY <1>1, <1>3 DEF EntryType, States
  <2>2. arp_table' \in [Slots -> EntryType]
    BY <1>1, <2>1
  <2>3. \A j \in Slots : j # i => arp_table'[j] = arp_table[j]
    BY <1>1, <2>1
  <2>4. /\ arp_table'[i].state = "rerequesting"
        /\ arp_table'[i].ipaddr = arp_table[i].ipaddr /\ arp_table'[i].ethaddr = arp_table[i].ethaddr
        /\ arp_table'[i].ctime = arp_table[i].ctime /\ arp_table'[i].q = arp_table[i].q
    BY <1>1, <2>1 DEF EntryType
  <2>. QED
    BY <1>3, <2>2, <2>3, <2>4 DEF OutputToIndex, Used, Stable
<1>. QED
  BY <1>2, <1>3 DEF OutputToIndex

\* The three ways of etharp_output.
LEMMA OutputWays ==
    ASSUME TableInv, NEW ip \in Hosts, NEW memory \in BOOLEAN,
           Output(ip, memory)
    PROVE  \/ \E i \in Slots : /\ Stable(i) /\ arp_table[i].ipaddr = ip
                               /\ OutputToIndex(ip, i, memory)
           \/ /\ {i \in Slots : Stable(i) /\ arp_table[i].ipaddr = ip} = {}
              /\ Query(ip, memory)
<1>. DEFINE known == {i \in Slots : Stable(i) /\ arp_table[i].ipaddr = ip}
<1>1. etharp_cached_entry \in Slots
  BY DEF TableInv, TypeOK
<1>2. known # {} => Lowest(known) \in known
  BY LowestIn
<1>3. \/ CacheHit(ip) /\ OutputToIndex(ip, etharp_cached_entry, memory)
      \/ known # {} /\ OutputToIndex(ip, Lowest(known), memory)
      \/ known = {} /\ Query(ip, memory)
  BY DEF Output
<1>. QED
  BY <1>1, <1>2, <1>3 DEF CacheHit

LEMMA HandlersTable == TableInv /\ Handlers => TableInv'
<1>. SUFFICES ASSUME TableInv, NEW ip \in Hosts,
                     \/ \E ethaddr \in HwAddrs[ip], for_us \in BOOLEAN : ArpInput(ip, ethaddr, for_us)
                     \/ \E memory \in BOOLEAN : Output(ip, memory)
              PROVE  TableInv'
  BY DEF Handlers
<1>. USE DEF TableInv
<1>1. ARP_MAXAGE \in Nat \ {0}
  BY ArpAssumption
<1>2. ASSUME NEW ethaddr \in HwAddrs[ip], NEW for_us \in BOOLEAN, ArpInput(ip, ethaddr, for_us)
      PROVE  TableInv'
  <2>1. /\ UNCHANGED <<etharp_cached_entry, mainVars, timeVars>>
        /\ heard' = [heard EXCEPT ![ip] = ethaddr]
    BY <1>2 DEF ArpInput
  <2>2. DOMAIN heard' = Hosts /\ \A h \in Hosts : heard'[h] \in HwAddrs[h]
    BY <2>1 DEF TypeOK
  <2>3. CASE FindEntry(ip, for_us) = NULL
    <3>1. UNCHANGED <<arp_table, copies>>
      BY <1>2, <2>3 DEF ArpInput
    <3>. QED
      BY <2>1, <2>2, <3>1 DEF TypeOK, Unique, Named, Aged, AtWork, Used, mainVars, timeVars
  <2>4. CASE FindEntry(ip, for_us) # NULL
    <3>1. PICK i \in Slots, x \in EntryType :
              /\ x.state = "stable" /\ x.ipaddr = ip /\ x.ctime = 0
              /\ arp_table' = [arp_table EXCEPT ![i] = x]
              /\ \A j \in Slots : Used(j) /\ arp_table[j].ipaddr = ip => j = i
              /\ copies' = copies - One(arp_table[i].q # NULL)
      BY <1>2, <2>4, ArpInputWrites
    <3>2. copies' \in Int /\ etharp_cached_entry' \in Slots
      BY <2>1, <3>1 DEF TypeOK, One
    <3>. QED
      BY <1>1, <2>1, <2>2, <3>1, <3>2, EntryWritten
  <2>. QED
    BY <2>3, <2>4
<1>3. ASSUME NEW memory \in BOOLEAN, Output(ip, memory)
      PROVE  TableInv'
  <2>1. UNCHANGED <<heard, mainVars, timeVars>>
    BY <1>3 DEF Output
  <2>2. CASE \E i \in Slots : Stable(i) /\ OutputToIndex(ip, i, memory)
    <3>1. PICK i \in Slots : Stable(i) /\ OutputToIndex(ip, i, memory)
      BY <2>2
    <3>2. /\ arp_table' \in [Slots -> EntryType]
          /\ \A j \in Slots : /\ Used(j)' = Used(j)
                              /\ arp_table'[j].ipaddr = arp_table[j].ipaddr
                              /\ arp_table'[j].ctime = arp_table[j].ctime
          /\ etharp_cached_entry' = i /\ copies' = copies
      BY <3>1, OutputWrites
    <3>3. TypeOK'
      BY <2>1, <3>2 DEF TypeOK, EntryType, States, HwTypes, mainVars, timeVars
    <3>4. Unique' /\ Named'
      BY <3>2 DEF Unique, Named
    <3>5. Aged' /\ AtWork'
      BY <2>1, <3>2 DEF Aged, AtWork, TypeOK, mainVars
    <3>. QED
      BY <3>3, <3>4, <3>5
  <2>3. CASE Query(ip, memory) /\ {i \in Slots : Stable(i) /\ arp_table[i].ipaddr = ip} = {}
    <3>1. PICK i \in Slots, x \in EntryType :
              /\ x.state = "pending" /\ x.ipaddr = ip
              /\ x.ctime = ARP_MAXAGE => i = at /\ step \in {"check", "free", "forget", "recycle"}
              /\ arp_table' = [arp_table EXCEPT ![i] = x]
              /\ \A j \in Slots : Used(j) /\ arp_table[j].ipaddr = ip => j = i
              /\ copies' = copies - One(arp_table[i].q # NULL) + One(x.q # NULL)
      BY <2>3, QueryWrites
    <3>2. copies' \in Int /\ etharp_cached_entry' \in Slots
      <4>1. copies \in Int /\ etharp_cached_entry' = etharp_cached_entry
        BY <2>3 DEF TypeOK, Query
      <4>. QED
        BY <3>1, <4>1 DEF TypeOK, One
    <3>3. DOMAIN heard' = Hosts /\ \A h \in Hosts : heard'[h] \in HwAddrs[h]
      BY <2>1 DEF TypeOK
    <3>. QED
      BY <2>1, <3>1, <3>2, <3>3, EntryWritten
  <2>. QED
    BY <1>3, <2>2, <2>3, OutputWays
<1>. QED
  BY <1>2, <1>3

-----------------------------------------------------------------------------
(* The main program and the clock. *)

LEMMA GoOnType ==
    ASSUME TypeOK, GoOn
    PROVE  at' \in Slots /\ step' \in {"visit", "poll"}
  BY ArpAssumption DEF GoOn, TypeOK, Slots

\* Steps of the main program and the clock that leave the table alone.
LEMMA QuietTable ==
    ASSUME TableInv, TIM3_IRQHandler \/ Open \/ Quit \/ Poll \/ Stamp \/ Visit \/ Check \/ Free
    PROVE  TableInv'
<1>. USE DEF TableInv
<1>1. /\ UNCHANGED <<arp_table, etharp_cached_entry, heard>>
      /\ copies' = copies \/ copies' = copies - One(arp_table[at].q # NULL)
  BY DEF TIM3_IRQHandler, Open, Quit, Poll, Stamp, Visit, Check, Free, tableVars
<1>2. copies' \in Int
  BY <1>1 DEF TypeOK, One
<1>3. {lwip_localtime', ARPTimer'} \subseteq 0 .. TIME_WRAP - 1 /\ late' \in 0 .. MaxLate
  <2>1. (lwip_localtime + 1) % TIME_WRAP \in 0 .. TIME_WRAP - 1
    BY ArpAssumption DEF TypeOK
  <2>2. CASE TIM3_IRQHandler
    BY <2>1, <2>2, ArpAssumption DEF TIM3_IRQHandler, TypeOK, mainVars
  <2>3. CASE Open \/ Quit \/ Poll \/ Stamp \/ Visit \/ Check \/ Free
    BY <2>3, ArpAssumption DEF Open, Quit, Poll, Stamp, Visit, Check, Free, TypeOK, timeVars
  <2>. QED
    BY <2>2, <2>3
<1>4. /\ at' \in Slots
      /\ step' \in BetweenEntries \cup {"age", "check", "free", "forget", "recycle", "calm"}
  <2>1. CASE Visit \/ Check
    BY <2>1, GoOnType DEF Visit, Check, TypeOK, BetweenEntries
  <2>2. CASE Stamp
    BY <2>2, SlotsType DEF Stamp, BetweenEntries
  <2>3. CASE TIM3_IRQHandler \/ Open \/ Quit \/ Poll \/ Free
    BY <2>3 DEF TIM3_IRQHandler, Open, Quit, Poll, Free, TypeOK, mainVars, BetweenEntries
  <2>. QED
    BY <2>1, <2>2, <2>3
<1>5. TypeOK'
  BY <1>1, <1>2, <1>3, <1>4 DEF TypeOK
<1>6. Unique' /\ Named'
  BY <1>1 DEF Unique, Named, Used
<1>7. Aged' /\ AtWork'
  <2>1. CASE TIM3_IRQHandler
    BY <1>1, <2>1 DEF TIM3_IRQHandler, mainVars, Aged, AtWork, Used
  <2>2. CASE Open \/ Quit \/ Poll \/ Stamp
    BY <1>1, <2>2 DEF Open, Quit, Poll, Stamp, Aged, AtWork, Used
  <2>3. CASE Visit
    BY <1>1, <2>3, GoOnType DEF Visit, Aged, AtWork, Used
  <2>4. CASE Check
    <3>1. CASE Expired(arp_table[at])
      BY <1>1, <2>4, <3>1 DEF Check, Aged, AtWork, Used
    <3>2. CASE ~Expired(arp_table[at])
      <4>1. arp_table[at].ctime # ARP_MAXAGE
        BY <3>2, ArpAssumption DEF Expired
      <4>2. step' \in {"calm", "visit", "poll"} /\ (step' = "calm" => at' = at)
        BY <2>4, <3>2, GoOnType DEF Check
      <4>. QED
        BY <1>1, <2>4, <4>1, <4>2 DEF Check, Aged, AtWork, Used
    <3>. QED
      BY <3>1, <3>2
  <2>5. CASE Free
    BY <1>1, <2>5 DEF Free, Aged, AtWork, Used
  <2>. QED
    BY <2>1, <2>2, <2>3, <2>4, <2>5
<1>. QED
  BY <1>5, <1>6, <1>7

\* What a step of etharp_tmr writes into its entry.
LEMMA SweepWrites ==
    ASSUME TypeOK, Age \/ Forget \/ Recycle \/ Calm
    PROVE  /\ \A j \in Slots : j # at => arp_table'[j] = arp_table[j]
           /\ arp_table'[at].state = IF step = "recycle" THEN "empty"
                                     ELSE IF step = "calm" THEN "stable" ELSE arp_table[at].state
           /\ arp_table'[at].ipaddr = arp_table[at].ipaddr
           /\ arp_table'[at].ethaddr = arp_table[at].ethaddr
           /\ arp_table'[at].ctime = arp_table[at].ctime + (IF step = "age" THEN 1 ELSE 0)
           /\ arp_table'[at].q = IF step = "forget" THEN NULL ELSE arp_table[at].q
           /\ arp_table[at].ctime + (IF step = "age" THEN 1 ELSE 0) \in 0 .. ARP_MAXAGE =>
                 arp_table' \in [Slots -> EntryType]
<1>. DEFINE e == arp_table[at]
            x == [state   |-> IF step = "recycle" THEN "empty"
                              ELSE IF step = "calm" THEN "stable" ELSE e.state,
                  ipaddr  |-> e.ipaddr,
                  ethaddr |-> e.ethaddr,
                  ctime   |-> e.ctime + (IF step = "age" THEN 1 ELSE 0),
                  q       |-> IF step = "forget" THEN NULL ELSE e.q]
<1>1. at \in Slots /\ arp_table \in [Slots -> EntryType] /\ e \in EntryType /\ e.ctime \in Nat
  BY TableType, ArpAssumption DEF TypeOK
<1>2. e = [state |-> e.state, ipaddr |-> e.ipaddr, ethaddr |-> e.ethaddr, ctime |-> e.ctime, q |-> e.q]
  BY <1>1 DEF EntryType
<1>. HIDE DEF e
<1>3. arp_table' = [arp_table EXCEPT ![at] = x]
  <2>1. CASE Age
    <3>1. step = "age" /\ arp_table' = [arp_table EXCEPT ![at] = [e EXCEPT !.ctime = e.ctime + 1]]
      BY <1>1, <2>1 DEF Age, e
    <3>2. [e EXCEPT !.ctime = e.ctime + 1] = x
      BY <1>2, <3>1
    <3>. QED
      BY <3>1, <3>2
  <2>2. CASE Forget
    <3>1. step = "forget" /\ arp_table' = [arp_table EXCEPT ![at] = [e EXCEPT !.q = NULL]]
      BY <1>1, <2>2 DEF Forget, e
    <3>2. [e EXCEPT !.q = NULL] = x
      BY <1>1, <1>2, <3>1
    <3>. QED
      BY <3>1, <3>2
  <2>3. CASE Recycle
    <3>1. step = "recycle" /\ arp_table' = [arp_table EXCEPT ![at] = [e EXCEPT !.state = "empty"]]
      BY <1>1, <2>3 DEF Recycle, e
    <3>2. [e EXCEPT !.state = "empty"] = x
      BY <1>1, <1>2, <3>1
    <3>. QED
      BY <3>1, <3>2
  <2>4. CASE Calm
    <3>1. step = "calm" /\ arp_table' = [arp_table EXCEPT ![at] = [e EXCEPT !.state = "stable"]]
      BY <1>1, <2>4 DEF Calm, e
    <3>2. [e EXCEPT !.state = "stable"] = x
      BY <1>1, <1>2, <3>1
    <3>. QED
      BY <3>1, <3>2
  <2>. QED
    BY <2>1, <2>2, <2>3, <2>4
<1>4. /\ arp_table'[at] = x
      /\ \A j \in Slots : j # at => arp_table'[j] = arp_table[j]
  BY <1>1, <1>3
<1>5. x.ctime \in 0 .. ARP_MAXAGE => x \in EntryType
  BY <1>1 DEF EntryType, States
<1>6. x \in EntryType => arp_table' \in [Slots -> EntryType]
  BY <1>1, <1>3
<1>. QED
  BY <1>4, <1>5, <1>6 DEF e

\* Steps of etharp_tmr on its entry.
LEMMA SweepTable ==
    ASSUME TableInv, Age \/ Forget \/ Recycle \/ Calm
    PROVE  TableInv'
<1>. USE DEF TableInv
<1>1. ARP_MAXAGE \in Nat \ {0} /\ at \in Slots /\ arp_table[at].ctime \in 0 .. ARP_MAXAGE
  BY ArpAssumption DEF TypeOK
<1>2. step \in {"age", "forget", "recycle", "calm"} /\ Used(at)
  BY DEF Age, Forget, Recycle, Calm, AtWork
<1>3. step = "age" => arp_table[at].ctime # ARP_MAXAGE
  BY <1>1, <1>2 DEF Aged
<1>4. arp_table[at].ctime + (IF step = "age" THEN 1 ELSE 0) \in 0 .. ARP_MAXAGE
  BY <1>1, <1>3
<1>. DEFINE new == arp_table'[at]
            old == arp_table[at]
<1>5. /\ arp_table' \in [Slots -> EntryType]
      /\ \A j \in Slots : j # at => arp_table'[j] = arp_table[j]
      /\ new.ipaddr = old.ipaddr
      /\ new.ctime = old.ctime + (IF step = "age" THEN 1 ELSE 0)
      /\ new.state = IF step = "recycle" THEN "empty"
                     ELSE IF step = "calm" THEN "stable" ELSE old.state
  BY <1>4, SweepWrites
<1>6. /\ UNCHANGED <<etharp_cached_entry, copies, heard, ARPTimer, timeVars>>
      /\ at' \in Slots
      /\ \/ step = "age" /\ step' = "check" /\ at' = at
         \/ step = "forget" /\ step' = "recycle" /\ at' = at
         \/ step \in {"recycle", "calm"} /\ step' \in {"visit", "poll"}
  BY <1>1, GoOnType DEF Age, Forget, Recycle, Calm
<1>7. TypeOK'
  BY <1>5, <1>6 DEF TypeOK, EntryType, States, HwTypes, timeVars, BetweenEntries
<1>8. \A j \in Slots : /\ Used(j)' => Used(j)
                       /\ arp_table'[j].ipaddr = arp_table[j].ipaddr
                       /\ j # at => arp_table'[j].ctime = arp_table[j].ctime
  BY <1>2, <1>5 DEF Used
<1>9. Unique' /\ Named'
  BY <1>8 DEF Unique, Named
<1>10. Aged' /\ AtWork'
  <2>1. CASE step = "age"
    <3>1. step' = "check" /\ at' = at /\ Used(at)'
      BY <1>2, <1>5, <1>6, <2>1 DEF Used
    <3>. QED
      BY <1>8, <2>1, <3>1 DEF Aged, AtWork
  <2>2. CASE step = "forget"
    <3>1. step' = "recycle" /\ at' = at /\ Used(at)' /\ new.ctime = old.ctime
      BY <1>1, <1>2, <1>5, <1>6, <2>2 DEF Used
    <3>. QED
      BY <1>8, <2>2, <3>1 DEF Aged, AtWork
  <2>3. CASE step = "recycle"
    <3>1. step' \in {"visit", "poll"} /\ new.state = "empty"
      BY <1>5, <1>6, <2>3
    <3>2. \A j \in Slots : Used(j)' /\ arp_table'[j].ctime = ARP_MAXAGE => j = at
      BY <1>8, <2>3 DEF Aged
    <3>3. \A j \in Slots : ~(Used(j)' /\ arp_table'[j].ctime = ARP_MAXAGE)
      BY <3>1, <3>2 DEF Used
    <3>. QED
      BY <3>1, <3>3 DEF Aged, AtWork
  <2>4. CASE step = "calm"
    <3>1. step' \in {"visit", "poll"} /\ new.ctime = old.ctime
      BY <1>1, <1>5, <1>6, <2>4
    <3>. QED
      BY <1>2, <1>8, <2>4, <3>1 DEF Aged, AtWork
  <2>. QED
    BY <1>2, <2>1, <2>2, <2>3, <2>4
<1>. QED
  BY <1>7, <1>9, <1>10

LEMMA InitTable == Init => TableInv
<1>. SUFFICES ASSUME Init PROVE TableInv
  OBVIOUS
<1>. DEFINE new == [state |-> "empty", ipaddr |-> NULL, ethaddr |-> NULL, ctime |-> 0, q |-> NULL]
<1>1. arp_table \in [Slots -> EntryType] /\ \A i \in Slots : ~Used(i)
  <2>1. new \in EntryType /\ new.state = "empty"
    <3>1. 0 \in 0 .. ARP_MAXAGE
      BY ArpAssumption
    <3>2. NULL \in HwTypes
      BY DEF HwTypes
    <3>. QED
      BY <3>1, <3>2 DEF EntryType, States
  <2>2. arp_table = [i \in Slots |-> new]
    BY DEF Init
  <2>. HIDE DEF new
  <2>. QED
    BY <2>1, <2>2 DEF Used
<1>2. TypeOK
  <2>1. DOMAIN heard = Hosts /\ \A h \in Hosts : heard[h] \in HwAddrs[h]
    BY ArpAssumption DEF Init
  <2>2. 0 \in Slots /\ 0 \in 0 .. TIME_WRAP - 1 /\ 0 \in 0 .. MaxLate /\ 0 \in Int
    BY SlotsType, ArpAssumption
  <2>. QED
    BY <1>1, <2>1, <2>2 DEF Init, TypeOK, EntryType, States, HwTypes, BetweenEntries
<1>. QED
  BY <1>1, <1>2 DEF Init, TableInv, Unique, Named, Aged, AtWork

LEMMA NextTable == TableInv /\ [Next]_vars => TableInv'
<1>. SUFFICES ASSUME TableInv, [Next]_vars PROVE TableInv'
  OBVIOUS
<1>1. CASE UNCHANGED vars
  BY <1>1 DEF vars, tableVars, mainVars, timeVars, TableInv, TypeOK, Unique, Named, Aged, AtWork, Used
<1>2. CASE Handlers
  BY <1>2, HandlersTable
<1>3. CASE TIM3_IRQHandler \/ Open \/ Quit \/ Poll \/ Stamp \/ Visit \/ Check \/ Free
  BY <1>3, QuietTable
<1>4. CASE Age \/ Forget \/ Recycle \/ Calm
  BY <1>4, SweepTable
<1>. QED
  BY <1>1, <1>2, <1>3, <1>4 DEF Next, Main

\* No host ever has two entries (etharp_find_entry), wherever the handlers preempt
\* etharp_tmr and however entries are recycled.
THEOREM Uniqueness == Spec => []UniqueEntries
<1>1. TableInv => UniqueEntries
  BY DEF TableInv, Unique, UniqueEntries, Used
<1>. QED
  BY <1>1, InitTable, NextTable, PTL DEF Spec

-----------------------------------------------------------------------------
(* What needs that handlers spare the entry etharp_tmr works on. *)

\* A handler may come anywhere in etharp_tmr.  It leaves the entry alone that etharp_tmr is
\* at, unless that has not begun with it.
HandlersSpareEntry ==
    Handlers => step \in BetweenEntries \/ arp_table'[at] = arp_table[at]

LEMMA HoldingFinite == IsFiniteSet(Holding) /\ Cardinality(Holding) \in Nat
<1>1. IsFiniteSet(Slots)
  BY FS_Interval, ArpAssumption DEF Slots
<1>. QED
  BY <1>1, FS_Subset, FS_CardinalityType DEF Holding

\* The packets that wait, counted, after a step on one entry.
LEMMA CountOneSlot ==
    ASSUME NEW i \in Slots, \A j \in Slots : j # i => arp_table'[j].q = arp_table[j].q
    PROVE  Cardinality(Holding') =
               Cardinality(Holding) - One(arp_table[i].q # NULL) + One(arp_table'[i].q # NULL)
<1>. DEFINE Others == Holding \ {i}
<1>2. IsFiniteSet(Holding) /\ IsFiniteSet(Others)
  BY HoldingFinite, FS_Subset
<1>3. Cardinality(Holding) \in Nat /\ Cardinality(Others) \in Nat
  BY <1>2, FS_CardinalityType
<1>4. Others = Holding' \ {i}
  BY DEF Holding
<1>5. Cardinality(Holding) = Cardinality(Others) + One(arp_table[i].q # NULL)
  <2>1. CASE arp_table[i].q # NULL
    <3>1. Holding = Others \cup {i} /\ i \notin Others
      BY <2>1 DEF Holding
    <3>2. Cardinality(Others \cup {i}) = Cardinality(Others) + 1
      BY <1>2, <3>1, FS_AddElement, Zenon
    <3>. HIDE DEF Others
    <3>. QED
      BY <2>1, <3>1, <3>2 DEF One
  <2>2. CASE arp_table[i].q = NULL
    <3>1. Holding = Others
      BY <2>2 DEF Holding
    <3>. HIDE DEF Others
    <3>. QED
      BY <1>3, <2>2, <3>1 DEF One
  <2>. QED
    BY <2>1, <2>2
<1>6. Cardinality(Holding') = Cardinality(Others) + One(arp_table'[i].q # NULL)
  <2>1. CASE arp_table'[i].q # NULL
    <3>1. Holding' = Others \cup {i} /\ i \notin Others
      BY <1>4, <2>1 DEF Holding
    <3>. QED
      BY <1>2, <2>1, <3>1, FS_AddElement DEF One
  <2>2. CASE arp_table'[i].q = NULL
    <3>1. Holding' = Others
      BY <1>4, <2>2 DEF Holding
    <3>. HIDE DEF Others
    <3>. QED
      BY <1>3, <2>2, <3>1 DEF One
  <2>. QED
    BY <2>1, <2>2
<1>. QED
  BY <1>3, <1>5, <1>6 DEF One

LEMMA HandlersIInv == HandlersSpareEntry /\ IInv /\ Handlers => IInv'
<1>. SUFFICES ASSUME HandlersSpareEntry, Handlers, IInv, NEW ip \in Hosts,
                     \/ \E ethaddr \in HwAddrs[ip], for_us \in BOOLEAN : ArpInput(ip, ethaddr, for_us)
                     \/ \E memory \in BOOLEAN : Output(ip, memory)
              PROVE  IInv'
  BY DEF Handlers
<1>1. TableInv /\ TableInv'
  <2>1. TableInv /\ Handlers
    BY DEF IInv, Handlers
  <2>. QED
    BY <2>1, HandlersTable
<1>2. /\ UNCHANGED <<step, at>>
      /\ step \in {"forget", "recycle", "calm"} => arp_table'[at] = arp_table[at]
  BY DEF ArpInput, Output, mainVars, HandlersSpareEntry, BetweenEntries
<1>3. Seen'
  BY <1>2 DEF IInv, Seen
<1>4. /\ arp_table \in [Slots -> EntryType] /\ copies \in Int
      /\ DOMAIN heard = Hosts
  BY <1>1, TableType DEF TableInv, TypeOK
<1>5. copies = Cardinality(Holding) - One(step = "forget") /\ Cardinality(Holding) \in Nat
  BY HoldingFinite DEF IInv, Counted
<1>6. ASSUME NEW ethaddr \in HwAddrs[ip], NEW for_us \in BOOLEAN, ArpInput(ip, ethaddr, for_us)
      PROVE  Counted' /\ Waiting' /\ Current' /\ FramesReachTheirHost'
  <2>1. heard' = [heard EXCEPT ![ip] = ethaddr]
    BY <1>6 DEF ArpInput
  <2>2. heard'[ip] = ethaddr /\ \A h \in Hosts : h # ip => heard'[h] = heard[h]
    BY <1>4, <2>1
  <2>3. CASE FindEntry(ip, for_us) = NULL
    <3>1. UNCHANGED <<arp_table, copies>> /\ sent' = <<>>
      BY <1>6, <2>3 DEF ArpInput
    <3>2. Matching(ip) = {}
      BY <1>1, <2>3, FindFacts
    <3>3. Counted' /\ Waiting'
      BY <1>2, <3>1 DEF IInv, Counted, Waiting, Holding
    <3>4. \A j \in Slots : Stable(j) => arp_table[j].ipaddr \in Hosts \ {ip}
      BY <1>1, <3>2 DEF Stable, Matching, TableInv, Named, Used
    <3>5. Current'
      BY <2>2, <3>1, <3>4 DEF IInv, Current, Stable
    <3>. QED
      BY <3>1, <3>3, <3>5 DEF FramesReachTheirHost
  <2>4. CASE FindEntry(ip, for_us) # NULL
    <3>1. PICK i \in Slots, x \in EntryType :
              /\ x.state = "stable" /\ x.ipaddr = ip /\ x.ethaddr = ethaddr /\ x.q = NULL
              /\ arp_table' = [arp_table EXCEPT ![i] = x]
              /\ \A j \in Slots : Used(j) /\ arp_table[j].ipaddr = ip => j = i
              /\ copies' = copies - One(arp_table[i].q # NULL)
              /\ sent' = <<>> \/ (arp_table[i].ipaddr = ip /\ arp_table[i].q # NULL
                                  /\ sent' = <<IpFrame(arp_table[i].q, ethaddr)>>)
      BY <1>1, <1>6, <2>4, ArpInputWrites
    <3>2. arp_table'[i] = x /\ \A j \in Slots : j # i => arp_table'[j] = arp_table[j]
      BY <1>4, <3>1
    <3>3. Counted'
      <4>1. Cardinality(Holding)' = Cardinality(Holding) - One(arp_table[i].q # NULL) + One(FALSE)
        BY <3>1, <3>2, CountOneSlot
      <4>. QED
        BY <1>2, <1>4, <1>5, <3>1, <4>1 DEF Counted, One
    <3>4. Waiting'
      BY <3>1, <3>2 DEF IInv, Waiting, Holding
    <3>5. Current'
      <4>. SUFFICES ASSUME NEW j \in Slots, Stable(j)'
                    PROVE  arp_table'[j].ethaddr = heard'[arp_table'[j].ipaddr]
        BY DEF Current
      <4>1. CASE j = i
        BY <2>2, <3>1, <3>2, <4>1
      <4>2. CASE j # i
        <5>1. Stable(j) /\ arp_table'[j] = arp_table[j]
          BY <3>2, <4>2 DEF Stable
        <5>2. arp_table[j].ipaddr \in Hosts \ {ip}
          BY <1>1, <3>1, <4>2, <5>1 DEF Stable, TableInv, Named, Used
        <5>. QED
          BY <2>2, <5>1, <5>2 DEF IInv, Current
      <4>. QED
        BY <4>1, <4>2
    <3>6. FramesReachTheirHost'
      <4>1. CASE sent' = <<>>
        BY <4>1 DEF FramesReachTheirHost
      <4>2. CASE /\ arp_table[i].ipaddr = ip /\ arp_table[i].q # NULL
                 /\ sent' = <<IpFrame(arp_table[i].q, ethaddr)>>
        <5>1. arp_table[i].q = ip
          BY <4>2 DEF IInv, Waiting, Holding
        <5>. QED
          BY <2>2, <4>2, <5>1 DEF FramesReachTheirHost, IpFrame
      <4>. QED
        BY <3>1, <4>1, <4>2
    <3>. QED
      BY <3>3, <3>4, <3>5, <3>6
  <2>. QED
    BY <2>3, <2>4
<1>7. ASSUME NEW memory \in BOOLEAN, Output(ip, memory)
      PROVE  Counted' /\ Waiting' /\ Current' /\ FramesReachTheirHost'
  <2>1. heard' = heard
    BY <1>7 DEF Output
  <2>2. CASE \E i \in Slots : /\ Stable(i) /\ arp_table[i].ipaddr = ip
                              /\ OutputToIndex(ip, i, memory)
    <3>1. PICK i \in Slots : Stable(i) /\ arp_table[i].ipaddr = ip /\ OutputToIndex(ip, i, memory)
      BY <2>2
    <3>2. /\ \A j \in Slots : /\ Stable(j)' = Stable(j)
                              /\ arp_table'[j].ipaddr = arp_table[j].ipaddr
                              /\ arp_table'[j].ethaddr = arp_table[j].ethaddr
                              /\ arp_table'[j].q = arp_table[j].q
                              /\ arp_table'[j].state = arp_table[j].state \/ (j = i /\ Stable(i)')
          /\ sent' = <<IpFrame(ip, arp_table[i].ethaddr)>> /\ copies' = copies
      BY <1>1, <3>1, OutputWrites
    <3>3. Holding' = Holding
      BY <3>2 DEF Holding
    <3>4. Counted'
      BY <1>2, <3>2, <3>3 DEF IInv, Counted
    <3>5. Waiting'
      <4>1. i \notin Holding
        BY <3>1 DEF IInv, Waiting, Stable
      <4>. QED
        BY <3>2, <3>3, <4>1 DEF IInv, Waiting, Holding
    <3>6. Current'
      BY <2>1, <3>2 DEF IInv, Current
    <3>7. FramesReachTheirHost'
      <4>1. arp_table[i].ethaddr = heard'[ip]
        BY <2>1, <3>1 DEF IInv, Current
      <4>. QED
        BY <3>2, <4>1 DEF FramesReachTheirHost, IpFrame
    <3>. QED
      BY <3>4, <3>5, <3>6, <3>7
  <2>3. CASE Query(ip, memory) /\ {i \in Slots : Stable(i) /\ arp_table[i].ipaddr = ip} = {}
    <3>1. PICK i \in Slots, x \in EntryType :
              /\ x.state = "pending" /\ x.ipaddr = ip
              /\ \/ x.q = ip
                 \/ x.q = NULL
                 \/ Used(i) /\ arp_table[i].ipaddr = ip /\ x.q = arp_table[i].q
              /\ arp_table' = [arp_table EXCEPT ![i] = x]
              /\ copies' = copies - One(arp_table[i].q # NULL) + One(x.q # NULL)
              /\ sent' = <<>>
      BY <1>1, <2>3, QueryWrites
    <3>2. arp_table'[i] = x /\ \A j \in Slots : j # i => arp_table'[j] = arp_table[j]
      BY <1>4, <3>1
    <3>3. Counted'
      <4>1. Cardinality(Holding)' =
                Cardinality(Holding) - One(arp_table[i].q # NULL) + One(x.q # NULL)
        BY <3>2, CountOneSlot
      <4>. QED
        BY <1>2, <1>4, <1>5, <3>1, <4>1 DEF Counted, One
    <3>4. Waiting'
      BY <3>1, <3>2 DEF IInv, Waiting, Holding
    <3>5. Current'
      BY <2>1, <3>1, <3>2 DEF IInv, Current, Stable
    <3>. QED
      BY <3>1, <3>3, <3>4, <3>5 DEF FramesReachTheirHost
  <2>. QED
    BY <1>1, <1>7, <2>2, <2>3, OutputWays
<1>. QED
  BY <1>1, <1>3, <1>6, <1>7 DEF IInv

LEMMA MainIInv == IInv /\ (TIM3_IRQHandler \/ Main \/ Open \/ Quit) => IInv'
<1>. SUFFICES ASSUME IInv, TIM3_IRQHandler \/ Main \/ Open \/ Quit PROVE IInv'
  OBVIOUS
<1>1. TableInv /\ TableInv'
  BY NextTable DEF IInv, Next
<1>2. FramesReachTheirHost'
  BY DEF Main, TIM3_IRQHandler, Open, Quit, Poll, Stamp, Visit, Age, Check, Free, Forget, Recycle, Calm,
         NothingSent, FramesReachTheirHost
<1>3. heard' = heard
  BY DEF Main, TIM3_IRQHandler, Open, Quit, Poll, Stamp, Visit, Age, Check, Free, Forget, Recycle, Calm,
         tableVars
<1>4. arp_table \in [Slots -> EntryType] /\ copies \in Int /\ at \in Slots
  BY <1>1, TableType DEF TableInv, TypeOK
<1>. DEFINE old == arp_table[at]
            new == arp_table'[at]
<1>5. CASE TIM3_IRQHandler \/ Open \/ Quit \/ Poll \/ Stamp \/ Visit \/ Check
  <2>1. /\ UNCHANGED <<arp_table, copies>> /\ step' # "forget" /\ step # "forget"
        /\ step' # "recycle"
        \/ UNCHANGED <<arp_table, copies, step, at>>
    BY <1>4, <1>5, GoOnType, <1>1
       DEF TIM3_IRQHandler, Open, Quit, Poll, Stamp, Visit, Check, tableVars, mainVars, TableInv
  <2>2. Counted'
    BY <2>1 DEF IInv, Counted, Holding
  <2>3. Waiting' /\ Current'
    BY <1>3, <2>1 DEF IInv, Waiting, Current, Holding, Stable
  <2>4. Seen'
    <3>1. CASE Check
      BY <1>1, <2>1, <3>1, GoOnType DEF Check, Seen, tableVars, TableInv
    <3>2. CASE TIM3_IRQHandler
      BY <2>1, <3>2 DEF TIM3_IRQHandler, IInv, Seen, mainVars
    <3>3. CASE Open \/ Quit \/ Poll \/ Stamp \/ Visit
      BY <1>1, <2>1, <3>3, GoOnType DEF Open, Quit, Poll, Stamp, Visit, IInv, Seen, tableVars, TableInv
    <3>. QED
      BY <1>5, <3>1, <3>2, <3>3
  <2>. QED
    BY <1>1, <1>2, <2>2, <2>3, <2>4 DEF IInv
<1>6. CASE Free
  <2>1. /\ UNCHANGED <<arp_table, at>> /\ step = "free"
        /\ copies' = copies - One(old.q # NULL)
        /\ step' = IF old.q # NULL THEN "forget" ELSE "recycle"
    BY <1>6 DEF Free
  <2>2. Counted'
    <3>1. Cardinality(Holding) \in Nat /\ Holding' = Holding
      BY <2>1, HoldingFinite DEF Holding
    <3>2. copies = Cardinality(Holding)
      BY <2>1, <3>1 DEF IInv, Counted, One
    <3>. QED
      BY <2>1, <3>1, <3>2 DEF Counted, One
  <2>3. Waiting' /\ Current' /\ Seen'
    BY <1>3, <2>1 DEF IInv, Waiting, Current, Seen, Holding, Stable
  <2>. QED
    BY <1>1, <1>2, <2>2, <2>3 DEF IInv
<1>7. CASE Age \/ Forget \/ Recycle \/ Calm
  <2>1. /\ \A j \in Slots : j # at => arp_table'[j] = arp_table[j]
        /\ new.state = IF step = "recycle" THEN "empty"
                       ELSE IF step = "calm" THEN "stable" ELSE old.state
        /\ new.ipaddr = old.ipaddr /\ new.ethaddr = old.ethaddr
        /\ new.q = IF step = "forget" THEN NULL ELSE old.q
    BY <1>1, <1>7, SweepWrites DEF TableInv
  <2>2. /\ copies' = copies
        /\ \/ step = "age" /\ step' = "check" /\ at' = at
           \/ step = "forget" /\ step' = "recycle" /\ at' = at
           \/ step \in {"recycle", "calm"} /\ step' \in {"visit", "poll"}
    BY <1>1, <1>7, GoOnType DEF Age, Forget, Recycle, Calm, TableInv
  <2>3. Counted'
    <3>1. /\ Cardinality(Holding) \in Nat
          /\ Cardinality(Holding)' =
                Cardinality(Holding) - One(old.q # NULL) + One(new.q # NULL)
      BY <1>4, <2>1, CountOneSlot, HoldingFinite
    <3>2. copies = Cardinality(Holding) - One(step = "forget")
      BY DEF IInv, Counted
    <3>3. step = "forget" => old.q # NULL /\ new.q = NULL
      BY <2>1 DEF IInv, Seen
    <3>4. step # "forget" => new.q = old.q
      BY <2>1
    <3>. QED
      BY <2>2, <3>1, <3>2, <3>3, <3>4 DEF Counted, One
  <2>4. Waiting'
    <3>1. step \in {"recycle", "calm"} => at \notin Holding
      BY DEF IInv, Seen, Waiting, Holding
    <3>. QED
      BY <2>1, <2>2, <3>1 DEF IInv, Waiting, Holding
  <2>5. Current'
    <3>1. \A j \in Slots : Stable(j)' => Stable(j)
      BY <2>1, <2>2 DEF IInv, Seen, Stable
    <3>. QED
      BY <1>3, <2>1, <3>1 DEF IInv, Current
  <2>6. Seen'
    BY <2>1, <2>2 DEF Seen
  <2>. QED
    BY <1>1, <1>2, <2>3, <2>4, <2>5, <2>6 DEF IInv
<1>. QED
  BY <1>5, <1>6, <1>7 DEF Main

\* Nothing waits at first: no entry is in use and no frame has been sent.
LEMMA InitIInv == Init => IInv
<1>. SUFFICES ASSUME Init PROVE IInv
  OBVIOUS
<1>1. Holding = {} /\ \A i \in Slots : ~Stable(i)
  BY DEF Init, Holding, Stable
<1>2. Cardinality(Holding) = 0
  BY <1>1, FS_EmptySet
<1>. QED
  BY <1>1, <1>2, InitTable
     DEF Init, IInv, Counted, Waiting, Seen, Current, FramesReachTheirHost, One

\* The inductive invariant holds where handlers spare the entry etharp_tmr works on.
LEMMA Invariance == Spec /\ [][HandlersSpareEntry]_vars => []IInv
<1>1. IInv /\ [Next]_vars /\ [HandlersSpareEntry]_vars => IInv'
  <2>. SUFFICES ASSUME IInv, [Next]_vars, [HandlersSpareEntry]_vars PROVE IInv'
    OBVIOUS
  <2>1. CASE UNCHANGED vars
    BY <2>1, NextTable
       DEF vars, tableVars, mainVars, timeVars, IInv, Counted, Waiting, Seen, Current,
           FramesReachTheirHost, Holding, Stable
  <2>. QED
    BY <2>1, HandlersIInv, MainIInv DEF Next
<1>. QED
  BY <1>1, InitIInv, PTL DEF Spec

\* No packet that waits for an address is lost or freed twice (etharp_query,
\* etharp_free_entry), and none is on an entry that is not being asked for: handlers may
\* come anywhere in etharp_tmr, as long as they spare the entry it is working on.
THEOREM Accounting == Spec /\ [][HandlersSpareEntry]_vars => []PacketsAccounted
<1>1. IInv => PacketsAccounted
  <2>. SUFFICES ASSUME IInv, step # "forget"
                PROVE  /\ copies = Cardinality(Holding)
                       /\ \A i \in Holding : /\ arp_table[i].state = "pending"
                                             /\ arp_table[i].q = arp_table[i].ipaddr
    BY DEF PacketsAccounted, Holding
  <2>. QED
    BY HoldingFinite DEF IInv, Counted, Waiting, One
<1>. QED
  BY <1>1, Invariance, PTL

\* No frame goes to a host's old address or to another host (the cached entry of
\* etharp_output, the packet sent by etharp_update_arp_entry): handlers may come anywhere
\* in etharp_tmr, as long as they spare the entry it is working on.
THEOREM Addressing == Spec /\ [][HandlersSpareEntry]_vars => []FramesReachTheirHost
<1>1. IInv => FramesReachTheirHost
  BY DEF IInv
<1>. QED
  BY <1>1, Invariance, PTL
=============================================================================
