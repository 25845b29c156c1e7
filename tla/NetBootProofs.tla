--------------------------- MODULE NetBootProofs ---------------------------
(***************************************************************************)
(* Proofs about NetBoot, for pools and buffers of every size.              *)
(***************************************************************************)
EXTENDS NetBoot, FiniteSetTheorems, SequenceTheorems, WellFoundedInduction, TLAPS

-----------------------------------------------------------------------------
(* The inductive invariant.                                                *)

\* The list of the function main is in, and what the functions before took.
List ==
    CASE at = "ETH_Mem_Malloc" -> EthPtrs
      [] at = "lwip_comm_mem_malloc" -> CommPtrs
      [] at = "recorders" -> RecPtrs
      [] at = "udp_demo_set_remoteip" -> <<"ip_tbuf">>
      [] at = "udp_demo_test" -> <<"tbuf">>
      [] OTHER -> <<>>

Earlier ==
    CASE at \in {"ETH_Mem_Malloc", "retry"} -> {}
      [] at = "lwip_comm_mem_malloc" -> Names(EthPtrs)
      [] at \in {"LAN8720_Init", "recorders"} -> Names(EthPtrs) \cup Names(CommPtrs)
      [] OTHER -> Names(EthPtrs) \cup Names(CommPtrs) \cup Names(RecPtrs)

\* The pointers this function has set, and all that mean something.
Mine == {List[i] : i \in 1 .. k - 1}
Live == Earlier \cup Mine

\* What a pointer got: as many blocks as it asked for.
Run(p) == IF ptr[p] = Null THEN {} ELSE ptr[p] .. ptr[p] + Count(p) - 1

Occupied == {b \in Blocks : memmap[b] # 0}

Placed == k \in 1 .. Len(List) + 1

\* The buffers that mean something are marked in the table, apart from each other.
Marks ==
    /\ \A p \in Live : \A b \in Run(p) : b \in Blocks /\ memmap[b] = Count(p)
    /\ \A p, q \in Live : p # q => Run(p) \cap Run(q) = {}

\* No function goes on without the buffers it checks.
NetGot == \A p \in Earlier \cap (Names(EthPtrs) \cup Names(CommPtrs)) : ptr[p] # Null

\* But for what the function took, as much is in use as when it was entered.
Taken == UNION {Run(p) : p \in Mine}
Spent == spent = Cardinality(Occupied \ Taken)

IInv == TypeOK /\ Placed /\ Marks /\ NetGot /\ Spent

Session == at \in {"udp_demo_set_remoteip", "udp_demo_test", "loop"}

\* How many pointers of BootPtrs this attempt has set.
Level ==
    CASE at = "ETH_Mem_Malloc" -> k - 1
      [] at = "lwip_comm_mem_malloc" -> Len(EthPtrs) + k - 1
      [] at = "LAN8720_Init" -> Len(NetPtrs)
      [] at = "recorders" -> Len(NetPtrs) + k - 1
      [] at = "retry" -> 0
      [] OTHER -> Len(BootPtrs)

\* As long as there is room, the blocks in use are the uppermost of the pool: the
\* search takes them from above, and nothing is freed before a session.
Stacked ==
    Room(unplugged) =>
        /\ \A i \in 1 .. Level : ptr[BootPtrs[i]] # Null
        /\ ~Session => \A b \in Blocks :
              memmap[b] # 0 <=> NBlocks <= b + unplugged * Asked[Len(NetPtrs)] + Asked[Level]

FInv == IInv /\ Stacked

-----------------------------------------------------------------------------
(* The lists of pointers.                                                  *)

LEMMA EthNames == Names(EthPtrs) = {"DMARxDscrTab", "DMATxDscrTab", "Rx_Buff", "Tx_Buff"}
  BY DEF Names, EthPtrs
LEMMA CommNames == Names(CommPtrs) = {"memp_memory", "ram_heap"}
  BY DEF Names, CommPtrs
LEMMA RecNames == Names(RecPtrs) = {"i2srecbuf1", "i2srecbuf2", "i2s3recbuf1", "i2s3recbuf2"}
  BY DEF Names, RecPtrs

LEMMA Lengths == Len(EthPtrs) = 4 /\ Len(CommPtrs) = 2 /\ Len(RecPtrs) = 4
  BY DEF EthPtrs, CommPtrs, RecPtrs

LEMMA Joined ==
    /\ DOMAIN NetPtrs = 1 .. 6 /\ Len(NetPtrs) = 6 /\ Len(BootPtrs) = 10
    /\ DOMAIN BootPtrs = 1 .. 10
    /\ \A i \in 1 .. 4 : NetPtrs[i] = EthPtrs[i] /\ BootPtrs[i] = EthPtrs[i]
    /\ \A i \in 1 .. 2 : NetPtrs[4 + i] = CommPtrs[i] /\ BootPtrs[4 + i] = CommPtrs[i]
    /\ \A i \in 1 .. 4 : BootPtrs[6 + i] = RecPtrs[i]
<1>. DEFINE S == Names(EthPtrs) \cup Names(CommPtrs) \cup Names(RecPtrs)
<1>1. EthPtrs \in Seq(S) /\ CommPtrs \in Seq(S) /\ RecPtrs \in Seq(S)
  <2>1. /\ EthPtrs \in [1 .. 4 -> S] /\ CommPtrs \in [1 .. 2 -> S] /\ RecPtrs \in [1 .. 4 -> S]
    BY DEF EthPtrs, CommPtrs, RecPtrs, Names
  <2>. HIDE DEF S
  <2>. QED
    BY <2>1, SeqDef, 2 \in Nat, 4 \in Nat
<1>. HIDE DEF S
<1>a. \A s, t \in Seq(S) :
          /\ s \o t \in Seq(S) /\ Len(s \o t) = Len(s) + Len(t)
          /\ \A i \in 1 .. Len(s) + Len(t) :
                (s \o t)[i] = IF i <= Len(s) THEN s[i] ELSE t[i - Len(s)]
  BY ConcatProperties, Zenon
<1>2. /\ NetPtrs \in Seq(S) /\ Len(NetPtrs) = 6
      /\ \A i \in 1 .. 6 : NetPtrs[i] = IF i <= 4 THEN EthPtrs[i] ELSE CommPtrs[i - 4]
  <2>1. /\ NetPtrs \in Seq(S) /\ Len(NetPtrs) = Len(EthPtrs) + Len(CommPtrs)
        /\ \A i \in 1 .. Len(EthPtrs) + Len(CommPtrs) :
              NetPtrs[i] = IF i <= Len(EthPtrs) THEN EthPtrs[i] ELSE CommPtrs[i - Len(EthPtrs)]
    BY <1>1, <1>a, Zenon DEF NetPtrs
  <2>. QED
    BY <2>1, Lengths
<1>3. /\ BootPtrs \in Seq(S) /\ Len(BootPtrs) = 10
      /\ \A i \in 1 .. 10 : BootPtrs[i] = IF i <= 6 THEN NetPtrs[i] ELSE RecPtrs[i - 6]
  <2>1. /\ BootPtrs \in Seq(S) /\ Len(BootPtrs) = Len(NetPtrs) + Len(RecPtrs)
        /\ \A i \in 1 .. Len(NetPtrs) + Len(RecPtrs) :
              BootPtrs[i] = IF i <= Len(NetPtrs) THEN NetPtrs[i] ELSE RecPtrs[i - Len(NetPtrs)]
    BY <1>1, <1>2, <1>a, Zenon DEF BootPtrs
  <2>. QED
    BY <1>2, <2>1, Lengths
<1>. QED
  BY <1>2, <1>3

LEMMA PtrsAre ==
    Ptrs = Names(EthPtrs) \cup Names(CommPtrs) \cup Names(RecPtrs) \cup {"ip_tbuf", "tbuf"}
<1>1. /\ DOMAIN BootPtrs = 1 .. 10 /\ DOMAIN EthPtrs = 1 .. 4 /\ DOMAIN CommPtrs = 1 .. 2
      /\ DOMAIN RecPtrs = 1 .. 4
  BY Joined DEF EthPtrs, CommPtrs, RecPtrs
<1>2. 1 .. 10 = 1 .. 4 \cup {4 + i : i \in 1 .. 2} \cup {6 + i : i \in 1 .. 4}
  OBVIOUS
<1>3. Names(BootPtrs) = Names(EthPtrs) \cup Names(CommPtrs) \cup Names(RecPtrs)
  BY <1>1, <1>2, Joined DEF Names
<1>. QED
  BY <1>3 DEF Ptrs, BootPtrs

LEMMA NetNames == Names(NetPtrs) = Names(EthPtrs) \cup Names(CommPtrs)
<1>1. /\ DOMAIN NetPtrs = 1 .. 6 /\ DOMAIN EthPtrs = 1 .. 4 /\ DOMAIN CommPtrs = 1 .. 2
  BY Joined DEF EthPtrs, CommPtrs, NetPtrs
<1>2. 1 .. 6 = 1 .. 4 \cup {4 + i : i \in 1 .. 2}
  OBVIOUS
<1>. QED
  BY <1>1, <1>2, Joined DEF Names
\* Where a function's list begins in BootPtrs.
LEMMA Numbers ==
    ASSUME at \in Functions, ~Session, NEW i \in 1 .. Len(List), k = i
    PROVE  /\ Level \in 0 .. 9 /\ Level + 1 \in 1 .. Len(BootPtrs)
           /\ BootPtrs[Level + 1] = List[i]
<1>1. Len(NetPtrs) = 6 /\ Len(BootPtrs) = 10
  BY Joined
<1>2. CASE at = "ETH_Mem_Malloc"
  <2>1. List = EthPtrs /\ Level = k - 1
    BY <1>2 DEF List, Level
  <2>. QED
    BY <1>1, <2>1, Joined, Lengths
<1>3. CASE at = "lwip_comm_mem_malloc"
  <2>1. List = CommPtrs /\ Level = 4 + k - 1
    BY <1>3, Lengths DEF List, Level
  <2>. QED
    BY <1>1, <2>1, Joined, Lengths
<1>4. CASE at = "recorders"
  <2>1. List = RecPtrs /\ Level = 6 + k - 1
    BY <1>1, <1>4 DEF List, Level
  <2>. QED
    BY <1>1, <2>1, Joined, Lengths
<1>5. CASE at \in {"LAN8720_Init", "retry"}
  <2>1. List = <<>>
    BY <1>5 DEF List
  <2>. QED
    BY <2>1
<1>. QED
  BY <1>2, <1>3, <1>4, <1>5 DEF Functions, Session

\* The list of a function names pointers that no function before has set, each once.
LEMMA ListFacts ==
    ASSUME at \in Functions
    PROVE  /\ Len(List) \in 0 .. 4
           /\ \A i \in 1 .. Len(List) : List[i] \in Ptrs \ Earlier
           /\ \A i, j \in 1 .. Len(List) : i # j => List[i] # List[j]
           /\ DOMAIN List = 1 .. Len(List)
<1>1. CASE at = "ETH_Mem_Malloc"
  <2>1. List = EthPtrs /\ Earlier = {}
    BY <1>1 DEF List, Earlier
  <2>. QED
    BY <2>1, Lengths, PtrsAre, EthNames DEF EthPtrs
<1>2. CASE at = "lwip_comm_mem_malloc"
  <2>1. List = CommPtrs /\ Earlier = Names(EthPtrs)
    BY <1>2 DEF List, Earlier
  <2>. QED
    BY <2>1, Lengths, PtrsAre, EthNames, CommNames DEF CommPtrs
<1>3. CASE at = "recorders"
  <2>1. List = RecPtrs /\ Earlier = Names(EthPtrs) \cup Names(CommPtrs)
    BY <1>3 DEF List, Earlier
  <2>. QED
    BY <2>1, Lengths, PtrsAre, EthNames, CommNames, RecNames DEF RecPtrs
<1>4. CASE at \in {"udp_demo_set_remoteip", "udp_demo_test"}
  <2>1. /\ List = <<"ip_tbuf">> \/ List = <<"tbuf">>
        /\ Earlier = Names(EthPtrs) \cup Names(CommPtrs) \cup Names(RecPtrs)
    BY <1>4 DEF List, Earlier
  <2>. QED
    BY <2>1, PtrsAre, EthNames, CommNames, RecNames
<1>5. CASE at \in {"LAN8720_Init", "retry", "loop"}
  <2>1. List = <<>>
    BY <1>5 DEF List
  <2>. QED
    BY <2>1
<1>. QED
  BY <1>1, <1>2, <1>3, <1>4, <1>5 DEF Functions

-----------------------------------------------------------------------------
(* Sizes and blocks.                                                       *)

\* A request of at least one byte covers at least one block.
LEMMA NeededPositive ==
    ASSUME NEW size \in Nat, size # 0
    PROVE  Needed(size) \in Nat /\ Needed(size) >= 1
<1>1. BlockSize \in Nat \ {0}
  BY TableAssumption
<1>2. size \div BlockSize \in Nat /\ size % BlockSize \in Nat
  BY <1>1
<1>3. CASE size % BlockSize # 0
  BY <1>2, <1>3 DEF Needed
<1>4. CASE size % BlockSize = 0
  <2>1. size = BlockSize * (size \div BlockSize)
    BY <1>1, <1>4
  <2>2. size \div BlockSize # 0
    BY <1>1, <2>1
  <2>. QED
    BY <1>2, <1>4, <2>2 DEF Needed
<1>. QED
  BY <1>2, <1>3, <1>4

\* A buffer takes at least one block, and its count does not wrap.
LEMMA CountIs ==
    ASSUME TypeOK, NEW p \in Ptrs
    PROVE  Count(p) = Needed(bytes[p]) /\ Count(p) \in Nat /\ Count(p) >= 1
<1>1. bytes[p] \in Nat /\ bytes[p] # 0 /\ Needed(bytes[p]) < U16 /\ U16 \in Nat
  BY TableAssumption, BootAssumption DEF TypeOK
<1>2. Needed(bytes[p]) \in Nat /\ Needed(bytes[p]) >= 1
  BY <1>1, NeededPositive
<1>3. Needed(bytes[p]) % U16 = Needed(bytes[p])
  BY <1>1, <1>2
<1>. QED
  BY <1>2, <1>3 DEF Count, BlockCount

LEMMA Finite ==
    /\ IsFiniteSet(Blocks) /\ Cardinality(Blocks) = NBlocks /\ Blocks \subseteq Nat
    /\ \A S \in SUBSET Blocks : IsFiniteSet(S) /\ Cardinality(S) \in 0 .. NBlocks
<1>1. NBlocks \in Nat /\ NBlocks > 0
  BY TableAssumption
<1>2. IsFiniteSet(Blocks) /\ Cardinality(Blocks) = NBlocks
  BY <1>1, FS_Interval DEF Blocks
<1>3. ASSUME NEW S \in SUBSET Blocks
      PROVE  IsFiniteSet(S) /\ Cardinality(S) \in 0 .. NBlocks
  <2>1. IsFiniteSet(S) /\ Cardinality(S) <= NBlocks
    BY <1>2, FS_Subset
  <2>. QED
    BY <1>1, <2>1, FS_CardinalityType
<1>. QED
  BY <1>1, <1>2, <1>3 DEF Blocks

\* What mymalloc does to the table and to the pointers: R is what p gets.
LEMMA MallocGives ==
    ASSUME TypeOK, NEW p \in Ptrs, Mymalloc(p), bytes' = bytes
    PROVE  \E R \in SUBSET Blocks :
              /\ R \cap Occupied = {}
              /\ memmap' = [b \in Blocks |-> IF b \in R THEN Count(p) ELSE memmap[b]]
              /\ ptr' \in [Ptrs -> Blocks \cup {Null}]
              /\ \A q \in Ptrs \ {p} : ptr'[q] = ptr[q]
              /\ Run(p)' = R
              /\ \A q \in Ptrs : Count(q)' = Count(q)
<1>1. /\ Count(p) \in Nat /\ Count(p) >= 1 /\ NBlocks \in Nat
      /\ ptr \in [Ptrs -> Blocks \cup {Null}] /\ Null \notin Blocks
      /\ memmap \in [Blocks -> {0} \cup {Count(q) : q \in Ptrs}]
  BY CountIs, TableAssumption, BootAssumption DEF TypeOK, Blocks
<1>2. \A q \in Ptrs : Count(q)' = Count(q)
  BY DEF Count
<1>3. CASE \E offset \in Blocks :
             /\ StopsAt(memmap, Count(p), offset)
             /\ memmap' = Mark(memmap, offset, Count(p))
             /\ ptr' = [ptr EXCEPT ![p] = offset]
  <2>1. PICK offset \in Blocks :
             /\ StopsAt(memmap, Count(p), offset)
             /\ memmap' = Mark(memmap, offset, Count(p))
             /\ ptr' = [ptr EXCEPT ![p] = offset]
    BY <1>3
  <2>. DEFINE R == offset .. offset + Count(p) - 1
  <2>2. /\ offset + Count(p) <= NBlocks
        /\ \A b \in R : memmap[b] = 0
    BY <1>1, <2>1 DEF StopsAt, FitsAt
  <2>3. R \subseteq Blocks
    BY <1>1, <2>2 DEF Blocks
  <2>4. R \cap Occupied = {}
    BY <2>2 DEF Occupied
  <2>5. Run(p)' = R
    BY <1>1, <1>2, <2>1 DEF Run
  <2>6. memmap' = [b \in Blocks |-> IF b \in R THEN Count(p) ELSE memmap[b]]
    BY <2>1 DEF Mark
  <2>. QED
    BY <1>1, <1>2, <2>1, <2>3, <2>4, <2>5, <2>6
<1>4. CASE ptr' = [ptr EXCEPT ![p] = Null] /\ UNCHANGED memmap
  <2>1. Run(p)' = {}
    BY <1>1, <1>4 DEF Run
  <2>2. memmap' = [b \in Blocks |-> IF b \in {} THEN Count(p) ELSE memmap[b]]
    BY <1>1, <1>4
  <2>. QED
    BY <1>1, <1>2, <1>4, <2>1, <2>2
<1>. QED
  BY <1>3, <1>4 DEF Mymalloc

LEMMA RunPrimed ==
    ASSUME NEW q \in Ptrs, ptr'[q] = ptr[q], Count(q)' = Count(q)
    PROVE  Run(q)' = Run(q)
  BY DEF Run

-----------------------------------------------------------------------------
(* The steps, and what they leave of the invariant.                        *)

LEMMA LiveFacts ==
    ASSUME at \in Functions, Placed
    PROVE  /\ Earlier \subseteq Ptrs /\ Mine \subseteq Ptrs /\ Live \subseteq Ptrs
           /\ Mine \cap Earlier = {}
           /\ k \in Nat /\ \A i \in 1 .. k - 1 : i \in 1 .. Len(List)
<1>1. /\ k \in 1 .. Len(List) + 1 /\ Len(List) \in 0 .. 4
  BY ListFacts DEF Placed
<1>2. \A i \in 1 .. k - 1 : i \in 1 .. Len(List)
  BY <1>1
<1>3. Earlier \subseteq Ptrs
  BY PtrsAre DEF Earlier
<1>. QED
  BY <1>1, <1>2, <1>3, ListFacts DEF Mine, Live

\* One more mymalloc of the function's list.
LEMMA AskStep ==
    ASSUME IInv, Ask(List)
    PROVE  IInv'
<1>1. /\ at \in Functions /\ Placed /\ TypeOK
      /\ k <= Len(List) /\ Mymalloc(List[k]) /\ k' = k + 1
      /\ UNCHANGED <<bytes, at, unplugged, spent>>
  BY DEF IInv, TypeOK, Ask
<1>2. /\ k \in 1 .. Len(List) /\ k \in 1 .. 4 /\ Len(List) \in 0 .. 4
  BY <1>1, ListFacts DEF Placed
<1>3. PICK p \in Ptrs : p = List[k]
  BY <1>1, <1>2, ListFacts
<1>4. PICK R \in SUBSET Blocks :
         /\ R \cap Occupied = {}
         /\ memmap' = [b \in Blocks |-> IF b \in R THEN Count(p) ELSE memmap[b]]
         /\ ptr' \in [Ptrs -> Blocks \cup {Null}]
         /\ \A q \in Ptrs \ {p} : ptr'[q] = ptr[q]
         /\ Run(p)' = R
         /\ \A q \in Ptrs : Count(q)' = Count(q)
  BY <1>1, <1>3, MallocGives
<1>5. /\ List' = List /\ Earlier' = Earlier
  BY <1>1 DEF List, Earlier
<1>6. /\ p \notin Earlier /\ p \notin Mine
  BY <1>1, <1>2, <1>3, ListFacts, LiveFacts DEF Mine
<1>7. /\ Mine' = Mine \cup {p} /\ Live' = Live \cup {p}
  <2>1. 1 .. k' - 1 = 1 .. k - 1 \cup {k}
    BY <1>1, <1>2
  <2>. QED
    BY <1>3, <1>5, <2>1 DEF Mine, Live
<1>8. /\ Live \subseteq Ptrs /\ Mine \subseteq Ptrs /\ Earlier \subseteq Ptrs /\ p \notin Live
  BY <1>1, <1>6, LiveFacts DEF Live
<1>9. \A q \in Live : Run(q)' = Run(q)
  BY <1>4, <1>8, RunPrimed
<1>10. \A q \in Ptrs : Count(q) \in Nat /\ Count(q) >= 1
  BY <1>1, CountIs
<1>11. \A q \in Live : Run(q) \subseteq Occupied
  BY <1>8, <1>10 DEF IInv, Marks, Occupied
<1>12. TypeOK'
  <2>1. memmap' \in [Blocks -> {0} \cup {Count(q)' : q \in Ptrs}]
    BY <1>1, <1>4 DEF TypeOK
  <2>2. k' \in 1 .. 5
    BY <1>1, <1>2
  <2>. QED
    BY <1>1, <1>4, <2>1, <2>2 DEF TypeOK
<1>13. Placed'
  BY <1>1, <1>2, <1>5 DEF Placed
<1>14. Marks'
  <2>1. ASSUME NEW q \in Live', NEW b \in Run(q)'
        PROVE  b \in Blocks /\ memmap'[b] = Count(q)'
    <3>1. CASE q = p
      BY <1>4, <2>1, <3>1
    <3>2. CASE q \in Live
      <4>1. b \in Run(q) /\ b \in Occupied /\ b \in Blocks /\ memmap[b] = Count(q)
        BY <1>9, <1>11, <2>1, <3>2 DEF IInv, Marks
      <4>. QED
        BY <1>4, <1>8, <3>2, <4>1
    <3>. QED
      BY <1>7, <2>1, <3>1, <3>2
  <2>2. ASSUME NEW q \in Live', NEW r \in Live', q # r
        PROVE  Run(q)' \cap Run(r)' = {}
    <3>1. CASE q \in Live /\ r \in Live
      BY <1>9, <2>2, <3>1 DEF IInv, Marks
    <3>2. CASE q = p /\ r \in Live
      BY <1>4, <1>9, <1>11, <3>2
    <3>3. CASE r = p /\ q \in Live
      BY <1>4, <1>9, <1>11, <3>3
    <3>. QED
      BY <1>7, <2>2, <3>1, <3>2, <3>3
  <2>. QED
    BY <2>1, <2>2 DEF Marks
<1>15. NetGot'
  BY <1>4, <1>5, <1>6, <1>8 DEF IInv, NetGot
<1>16. Spent'
  <2>1. Occupied' = Occupied \cup R
    BY <1>4, <1>10 DEF Occupied
  <2>b. \A q \in Mine : Run(q)' = Run(q)
    BY <1>9 DEF Live
  <2>2. Taken' = Taken \cup R
    BY <1>4, <1>7, <2>b DEF Taken
  <2>3. (Occupied \ Taken)' = Occupied \ Taken
    BY <1>4, <2>1, <2>2
  <2>. QED
    BY <1>1, <2>3 DEF IInv, Spent
<1>. QED
  BY <1>12, <1>13, <1>14, <1>15, <1>16 DEF IInv

LEMMA ListLength ==
    ASSUME at' \in Functions
    PROVE  Len(List)' \in 0 .. 4
<1>1. List' \in {EthPtrs, CommPtrs, RecPtrs, <<"ip_tbuf">>, <<"tbuf">>, <<>>}
  BY DEF List
<1>. QED
  BY <1>1, Lengths

\* main enters a function with what those before it left.
LEMMA EnterStep ==
    ASSUME IInv, NEW f \in Functions, Enter(f), UNCHANGED <<bytes, memmap, ptr>>,
           unplugged' \in 0 .. MaxUnplugged, Earlier' \subseteq Live,
           \A p \in Earlier' \cap (Names(EthPtrs) \cup Names(CommPtrs)) : ptr[p] # Null
    PROVE  IInv'
<1>1. at' = f /\ k' = 1 /\ spent' = Used(memmap) /\ TypeOK
  BY DEF Enter, IInv
<1>2. Len(List)' \in 0 .. 4
  BY <1>1, ListLength
<1>3. Mine' = {} /\ Live' = Earlier' /\ Taken' = {}
  <2>1. 1 .. k' - 1 = {}
    BY <1>1
  <2>2. Mine' = {}
    BY <2>1 DEF Mine
  <2>. QED
    BY <2>2 DEF Live, Taken
<1>4. Occupied' = Occupied /\ Used(memmap) = Cardinality(Occupied)
  BY DEF Occupied, Used
<1>5. TypeOK'
  <2>1. spent' \in 0 .. NBlocks
    BY <1>1, <1>4, Finite DEF Occupied
  <2>2. {Count(p)' : p \in Ptrs} = {Count(p) : p \in Ptrs}
    BY DEF Count
  <2>. QED
    BY <1>1, <2>1, <2>2 DEF TypeOK
<1>6. \A p \in Live : Run(p)' = Run(p) /\ Count(p)' = Count(p)
  BY DEF Run, Count
<1>7. Marks'
  BY <1>3, <1>6 DEF IInv, Marks
<1>8. Placed' /\ NetGot'
  BY <1>1, <1>2 DEF Placed, NetGot
<1>9. Spent'
  BY <1>1, <1>3, <1>4 DEF Spent
<1>. QED
  BY <1>5, <1>7, <1>8, <1>9 DEF IInv

\* A buffer's marks are its blocks.
LEMMA MarkedIs ==
    ASSUME IInv, NEW p \in Live
    PROVE  Marked(p) = Run(p)
<1>1. p \in Ptrs /\ Count(p) \in Nat /\ Count(p) >= 1 /\ ptr[p] \in Blocks \cup {Null}
  BY LiveFacts, CountIs DEF IInv, TypeOK
<1>2. CASE ptr[p] = Null
  BY <1>2 DEF Marked, Run
<1>3. CASE ptr[p] # Null
  <2>1. ptr[p] \in Nat
    BY <1>1, <1>3, Finite
  <2>2. ptr[p] \in Run(p)
    BY <1>1, <1>3, <2>1 DEF Run
  <2>3. memmap[ptr[p]] = Count(p)
    BY <2>2 DEF IInv, Marks
  <2>. QED
    BY <1>3, <2>3 DEF Marked, Run
<1>. QED
  BY <1>2, <1>3

\* When the whole list is asked for, the function's own pointers are the list's.
LEMMA MineIsList ==
    ASSUME IInv, k > Len(List)
    PROVE  Mine = Names(List)
<1>1. at \in Functions /\ k \in 1 .. Len(List) + 1 /\ Len(List) \in 0 .. 4
      /\ DOMAIN List = 1 .. Len(List)
  BY ListFacts DEF IInv, Placed, TypeOK
<1>2. 1 .. k - 1 = 1 .. Len(List)
  BY <1>1
<1>. QED
  BY <1>1, <1>2 DEF Mine, Names

\* main frees what the function took and enters another one.
LEMMA FreeStep ==
    ASSUME IInv, k > Len(List), memmap' = Freed(List), NEW f \in Functions, Enter(f),
           UNCHANGED <<bytes, ptr, unplugged>>, Earlier' \subseteq Earlier
    PROVE  IInv' /\ Used(memmap') = spent
<1>1. at' = f /\ k' = 1 /\ spent' = Used(memmap') /\ TypeOK /\ at \in Functions /\ Placed
  BY DEF Enter, IInv, TypeOK
<1>2. Len(List)' \in 0 .. 4
  BY <1>1, ListLength
<1>3. Mine' = {} /\ Live' = Earlier' /\ Taken' = {}
  <2>1. 1 .. k' - 1 = {}
    BY <1>1
  <2>2. Mine' = {}
    BY <2>1 DEF Mine
  <2>. QED
    BY <2>2 DEF Live, Taken
<1>4. memmap' = [b \in Blocks |-> IF b \in Taken THEN 0 ELSE memmap[b]]
  <2>1. \A b : (\E p \in Mine : b \in Marked(p)) <=> b \in Taken
    BY MarkedIs DEF Live, Taken
  <2>. QED
    BY <2>1, MineIsList DEF Freed
<1>5. Occupied' = Occupied \ Taken /\ Used(memmap') = Cardinality(Occupied')
  BY <1>4 DEF Occupied, Used
<1>6. TypeOK'
  <2>1. spent' \in 0 .. NBlocks
    BY <1>1, <1>5, Finite DEF Occupied
  <2>2. {Count(p)' : p \in Ptrs} = {Count(p) : p \in Ptrs}
    BY DEF Count
  <2>3. memmap' \in [Blocks -> {0} \cup {Count(p) : p \in Ptrs}]
    BY <1>1, <1>4 DEF TypeOK
  <2>4. /\ bytes' \in Builds /\ ptr' \in [Ptrs -> Blocks \cup {Null}]
        /\ at' \in Functions /\ k' \in 1 .. 5 /\ unplugged' \in 0 .. MaxUnplugged
    BY <1>1 DEF TypeOK
  <2>5. memmap' \in [Blocks -> {0} \cup {Count(p)' : p \in Ptrs}]
    BY <2>2, <2>3
  <2>. QED
    BY <2>1, <2>4, <2>5 DEF TypeOK
<1>7. \A p \in Ptrs : Run(p)' = Run(p) /\ Count(p)' = Count(p)
  BY DEF Run, Count
<1>8. /\ Earlier \subseteq Ptrs /\ Mine \cap Earlier = {} /\ Earlier \subseteq Live /\ Mine \subseteq Live
  BY <1>1, LiveFacts DEF Live
<1>9. Marks'
  <2>1. \A p \in Earlier : \A b \in Run(p) : b \notin Taken
    BY <1>8 DEF IInv, Marks, Taken
  <2>2. \A p \in Earlier' : \A b \in Run(p)' : b \in Blocks /\ memmap'[b] = Count(p)'
    BY <1>4, <1>7, <1>8, <2>1 DEF IInv, Marks
  <2>3. \A p, q \in Earlier' : p # q => Run(p)' \cap Run(q)' = {}
    BY <1>7, <1>8 DEF IInv, Marks
  <2>. QED
    BY <1>3, <2>2, <2>3 DEF Marks
<1>10. Placed' /\ NetGot'
  BY <1>1, <1>2 DEF Placed, NetGot, IInv
<1>11. Spent'
  BY <1>1, <1>3, <1>5 DEF Spent
<1>12. Used(memmap') = spent
  BY <1>5 DEF IInv, Spent
<1>. QED
  BY <1>6, <1>9, <1>10, <1>11, <1>12 DEF IInv

LEMMA InitIInv == Init => IInv
<1>. SUFFICES ASSUME Init PROVE IInv
  OBVIOUS
<1>1. /\ at = "ETH_Mem_Malloc" /\ k = 1 /\ spent = 0 /\ memmap = [b \in Blocks |-> 0]
      /\ ptr = [p \in Ptrs |-> Null] /\ bytes \in Builds /\ unplugged = 0
  BY DEF Init, Zeroed
<1>2. List = EthPtrs /\ Earlier = {} /\ Len(List) = 4
  BY <1>1, Lengths DEF List, Earlier
<1>3. Mine = {} /\ Live = {} /\ Taken = {}
  <2>1. 1 .. k - 1 = {}
    BY <1>1
  <2>2. Mine = {}
    BY <2>1 DEF Mine
  <2>. QED
    BY <1>2, <2>2 DEF Live, Taken
<1>4. Occupied = {} /\ Cardinality(Occupied \ Taken) = 0
  <2>1. Occupied = {}
    BY <1>1 DEF Occupied
  <2>2. Occupied \ Taken = {}
    BY <2>1
  <2>. QED
    BY <2>1, <2>2, FS_EmptySet
<1>5. TypeOK
  <2>1. MaxUnplugged \in Nat /\ NBlocks \in Nat
    BY TableAssumption, BootAssumption
  <2>2. at \in Functions /\ k \in 1 .. 5 /\ unplugged \in 0 .. MaxUnplugged /\ spent \in 0 .. NBlocks
    BY <1>1, <2>1 DEF Functions
  <2>. QED
    BY <1>1, <2>2 DEF TypeOK
<1>. QED
  BY <1>1, <1>2, <1>3, <1>4, <1>5 DEF IInv, Placed, Marks, NetGot, Spent

\* The functions that take all their buffers or none.
LEMMA TakeAllStep ==
    ASSUME IInv, NEW next \in Functions, TakeAll(List, next),
           at' = next => Earlier' = Live, at' = "retry" => Earlier' = {},
           Earlier \subseteq Names(EthPtrs) \cup Names(CommPtrs)
    PROVE  IInv' /\ (at' = "retry" /\ next # "retry" /\ at # "retry" => Used(memmap') = spent)
<1>1. CASE Ask(List)
  BY <1>1, AskStep DEF Ask
<1>2. CASE Got(List) /\ UNCHANGED <<bytes, memmap, ptr, unplugged>> /\ Enter(next)
  <2>1. at' = next /\ Earlier' = Live /\ unplugged' \in 0 .. MaxUnplugged
    BY <1>2 DEF Enter, IInv, TypeOK
  <2>2. \A p \in Mine : ptr[p] # Null
    BY <1>2, MineIsList DEF Got, Missing
  <2>3. \A p \in Live \cap (Names(EthPtrs) \cup Names(CommPtrs)) : ptr[p] # Null
    BY <2>2 DEF Live, IInv, NetGot
  <2>4. IInv'
    BY <1>2, <2>1, <2>3, EnterStep
  <2>. QED
    BY <2>1, <2>4
<1>3. CASE /\ k > Len(List) /\ ~Got(List) /\ memmap' = Freed(List)
           /\ UNCHANGED <<bytes, ptr, unplugged>> /\ Enter("retry")
  <2>1. Earlier' = {} /\ "retry" \in Functions
    BY <1>3 DEF Enter, Functions
  <2>. QED
    BY <1>3, <2>1, FreeStep
<1>. QED
  BY <1>1, <1>2, <1>3 DEF TakeAll

\* The property of steps that NothingKept is about.
KeepsNothing ==
    (\/ at' = "retry" /\ at # "LAN8720_Init"
     \/ at' # at /\ at \in {"udp_demo_set_remoteip", "udp_demo_test"})
    => Used(memmap') = spent

LEMMA EthMemMallocStep == ASSUME IInv, EthMemMalloc PROVE IInv' /\ KeepsNothing
<1>1. /\ at = "ETH_Mem_Malloc" /\ List = EthPtrs /\ Earlier = {}
      /\ TakeAll(List, "lwip_comm_mem_malloc") /\ "lwip_comm_mem_malloc" \in Functions
  BY DEF EthMemMalloc, List, Earlier, Functions
<1>2. at' = "retry" => Earlier' = {}
  BY DEF Earlier
<1>3. ASSUME at' = "lwip_comm_mem_malloc" PROVE Earlier' = Live
  <2>1. k > Len(List)
    BY <1>1, <1>3 DEF TakeAll, Ask, Got
  <2>. QED
    BY <1>1, <1>3, <2>1, MineIsList DEF Earlier, Live
<1>. QED
  BY <1>1, <1>2, <1>3, TakeAllStep DEF KeepsNothing

LEMMA LwipCommMemMallocStep == ASSUME IInv, LwipCommMemMalloc PROVE IInv' /\ KeepsNothing
<1>1. /\ at = "lwip_comm_mem_malloc" /\ List = CommPtrs /\ Earlier = Names(EthPtrs)
      /\ TakeAll(List, "LAN8720_Init") /\ "LAN8720_Init" \in Functions
  BY DEF LwipCommMemMalloc, List, Earlier, Functions
<1>2. at' = "retry" => Earlier' = {}
  BY DEF Earlier
<1>3. ASSUME at' = "LAN8720_Init" PROVE Earlier' = Live
  <2>1. k > Len(List)
    BY <1>1, <1>3 DEF TakeAll, Ask, Got
  <2>. QED
    BY <1>1, <1>3, <2>1, MineIsList DEF Earlier, Live
<1>. QED
  BY <1>1, <1>2, <1>3, TakeAllStep DEF KeepsNothing

LEMMA LinkStep == ASSUME IInv, LinkFound \/ NoLink \/ Retry \/ Key1 PROVE IInv' /\ KeepsNothing
<1>1. unplugged \in 0 .. MaxUnplugged /\ MaxUnplugged \in Nat
  BY BootAssumption DEF IInv, TypeOK
<1>2. CASE LinkFound
  <2>1. at = "LAN8720_Init" /\ at' = "recorders" /\ "recorders" \in Functions
    BY <1>2 DEF LinkFound, Enter, Functions
  <2>2. Earlier' = Earlier
    BY <2>1 DEF Earlier
  <2>3. IInv'
    BY <1>1, <1>2, <2>1, <2>2, EnterStep DEF LinkFound, Live, IInv, NetGot
  <2>. QED
    BY <2>1, <2>3 DEF KeepsNothing
<1>3. CASE NoLink
  <2>1. at = "LAN8720_Init" /\ at' = "retry" /\ "retry" \in Functions
    BY <1>3 DEF NoLink, Enter, Functions
  <2>2. Earlier' = {} /\ unplugged' \in 0 .. MaxUnplugged
    BY <1>1, <1>3, <2>1 DEF Earlier, NoLink
  <2>3. IInv'
    BY <1>3, <2>1, <2>2, EnterStep DEF NoLink
  <2>. QED
    BY <2>1, <2>3 DEF KeepsNothing
<1>4. CASE Retry
  <2>1. at = "retry" /\ at' = "ETH_Mem_Malloc" /\ "ETH_Mem_Malloc" \in Functions
    BY <1>4 DEF Retry, Enter, Functions
  <2>2. Earlier' = {}
    BY <2>1 DEF Earlier
  <2>3. IInv'
    BY <1>1, <1>4, <2>1, <2>2, EnterStep DEF Retry
  <2>. QED
    BY <2>1, <2>3 DEF KeepsNothing
<1>5. CASE Key1
  <2>1. at = "loop" /\ at' = "udp_demo_set_remoteip" /\ "udp_demo_set_remoteip" \in Functions
    BY <1>5 DEF Key1, Enter, Functions
  <2>2. Earlier' = Earlier
    BY <2>1 DEF Earlier
  <2>3. IInv'
    BY <1>1, <1>5, <2>1, <2>2, EnterStep DEF Key1, Live, IInv, NetGot
  <2>. QED
    BY <2>1, <2>3 DEF KeepsNothing
<1>. QED
  BY <1>2, <1>3, <1>4, <1>5

LEMMA RecordersStep == ASSUME IInv, Recorders PROVE IInv' /\ KeepsNothing
<1>1. at = "recorders" /\ List = RecPtrs
  BY DEF Recorders, List
<1>2. CASE Ask(RecPtrs)
  <2>1. IInv' /\ at' = at
    BY <1>1, <1>2, AskStep DEF Ask
  <2>. QED
    BY <1>1, <2>1 DEF KeepsNothing
<1>3. CASE /\ k > Len(RecPtrs)
           /\ UNCHANGED <<bytes, memmap, ptr, unplugged>>
           /\ Enter("udp_demo_set_remoteip")
  <2>1. at' = "udp_demo_set_remoteip" /\ "udp_demo_set_remoteip" \in Functions
    BY <1>3 DEF Enter, Functions
  <2>2. /\ Mine = Names(RecPtrs) /\ Earlier = Names(EthPtrs) \cup Names(CommPtrs)
        /\ Earlier' = Earlier \cup Mine
    BY <1>1, <1>3, <2>1, MineIsList DEF Earlier
  <2>3. \A p \in Earlier' \cap (Names(EthPtrs) \cup Names(CommPtrs)) : ptr[p] # Null
    BY <2>2 DEF IInv, NetGot
  <2>4. IInv'
    BY <1>3, <2>1, <2>2, <2>3, EnterStep DEF Live, IInv, TypeOK
  <2>. QED
    BY <1>1, <2>1, <2>4 DEF KeepsNothing
<1>. QED
  BY <1>2, <1>3 DEF Recorders

LEMMA ScratchStep ==
    ASSUME IInv, NEW p, NEW next \in Functions, Scratch(p, next), List = <<p>>,
           at' # at => Earlier' = Earlier,
           at \in {"udp_demo_set_remoteip", "udp_demo_test"}, next # at, next # "retry"
    PROVE  IInv' /\ KeepsNothing
<1>1. CASE Ask(<<p>>)
  <2>1. IInv' /\ at' = at
    BY <1>1, AskStep DEF Ask
  <2>. QED
    BY <2>1 DEF KeepsNothing
<1>2. CASE /\ k = 2 /\ memmap' = Freed(<<p>>)
           /\ UNCHANGED <<bytes, ptr, unplugged>> /\ Enter(next)
  <2>1. k > Len(List) /\ at' = next
    BY <1>2 DEF Enter
  <2>2. IInv' /\ Used(memmap') = spent
    BY <1>2, <2>1, FreeStep
  <2>. QED
    BY <2>2 DEF KeepsNothing
<1>. QED
  BY <1>1, <1>2 DEF Scratch

LEMMA SessionStep == ASSUME IInv, SetRemoteip \/ UdpDemoTest PROVE IInv' /\ KeepsNothing
<1>1. CASE SetRemoteip
  <2>1. at = "udp_demo_set_remoteip" /\ List = <<"ip_tbuf">> /\ Scratch("ip_tbuf", "udp_demo_test")
    BY <1>1 DEF SetRemoteip, List
  <2>2. at' # at => Earlier' = Earlier
    BY <2>1 DEF Scratch, Ask, Enter, Earlier
  <2>. QED
    BY <2>1, <2>2, ScratchStep DEF Functions
<1>2. CASE UdpDemoTest
  <2>1. at = "udp_demo_test" /\ List = <<"tbuf">> /\ Scratch("tbuf", "loop")
    BY <1>2 DEF UdpDemoTest, List
  <2>2. at' # at => Earlier' = Earlier
    BY <2>1 DEF Scratch, Ask, Enter, Earlier
  <2>. QED
    BY <2>1, <2>2, ScratchStep DEF Functions
<1>. QED
  BY <1>1, <1>2

LEMMA NextStep == ASSUME IInv, Next PROVE IInv' /\ KeepsNothing
  BY EthMemMallocStep, LwipCommMemMallocStep, LinkStep, RecordersStep, SessionStep DEF Next, Main, Sessions

LEMMA StutterStep == ASSUME IInv, UNCHANGED vars PROVE IInv'
<1>1. /\ UNCHANGED <<bytes, memmap, ptr, at, k, unplugged, spent>>
  BY DEF vars
<1>2. /\ Live' = Live /\ Taken' = Taken /\ Occupied' = Occupied /\ List' = List /\ Earlier' = Earlier
      /\ \A p : Run(p)' = Run(p) /\ Count(p)' = Count(p)
  BY <1>1 DEF Live, Mine, Earlier, List, Taken, Run, Count, Occupied
<1>. QED
  BY <1>1, <1>2 DEF IInv, TypeOK, Placed, Marks, NetGot, Spent, Count

\* The invariant of the boot.
THEOREM BootInvariant == Spec => []IInv
<1>1. IInv /\ [Next]_vars => IInv'
  BY NextStep, StutterStep
<1>. QED
  BY InitIInv, <1>1, PTL DEF Spec

\* lwip_comm_init returns 0 only with all six buffers, whole and apart.
THEOREM NetBuffersSafe == Spec => []NetHasItsBuffers
<1>1. IInv => NetHasItsBuffers
  <2>. SUFFICES ASSUME IInv, Up, NEW p \in Names(NetPtrs)
                PROVE  /\ ptr[p] # Null
                       /\ Cardinality(Marked(p)) = Count(p)
                       /\ \A b \in Marked(p) : memmap[b] = Count(p)
                       /\ \A q \in Names(NetPtrs) \ {p} : Marked(p) \cap Marked(q) = {}
    BY DEF NetHasItsBuffers, IInv
  <2>1. Names(NetPtrs) \subseteq Earlier /\ Names(NetPtrs) \subseteq Live
    BY NetNames DEF Up, Earlier, Live
  <2>2. ptr[p] # Null
    BY <2>1, NetNames DEF IInv, NetGot
  <2>3. \A q \in Names(NetPtrs) : Marked(q) = Run(q)
    BY <2>1, MarkedIs
  <2>4. p \in Ptrs /\ Count(p) \in Nat /\ ptr[p] \in Nat
    BY <2>1, <2>2, LiveFacts, CountIs, Finite DEF IInv, TypeOK
  <2>5. Cardinality(Run(p)) = Count(p)
    <3>1. PICK m \in Nat, n \in Nat : m = ptr[p] /\ n = Count(p)
      BY <2>4
    <3>2. Run(p) = m .. m + n - 1 /\ m \in Int /\ m + n - 1 \in Int
      BY <2>2, <3>1 DEF Run
    <3>3. Cardinality(m .. m + n - 1) = IF m > m + n - 1 THEN 0 ELSE (m + n - 1) - m + 1
      BY <3>2, FS_Interval
    <3>. QED
      BY <3>1, <3>2, <3>3
  <2>. QED
    BY <2>1, <2>2, <2>3, <2>5 DEF IInv, Marks
<1>. QED
  BY BootInvariant, <1>1, PTL

\* A failed attempt and a session give back what they took.
THEOREM NothingIsKept == Spec => NothingKept
<1>1. IInv /\ [Next]_vars => [KeepsNothing]_vars
  BY NextStep
<1>2. [][KeepsNothing]_vars => NothingKept
  BY PTL DEF NothingKept, KeepsNothing
<1>. QED
  BY BootInvariant, <1>1, <1>2, PTL DEF Spec

-----------------------------------------------------------------------------
(* The blocks in use are the uppermost as long as there is room.           *)

\* A set of natural numbers that is not empty has a least one.
LEMMA LeastNumber ==
    ASSUME NEW T \in SUBSET Nat, T # {}
    PROVE  \E x \in T : \A y \in T : x <= y
<1>1. \E x \in T : \A y \in T : <<y, x>> \notin OpToRel(<, Nat)
  BY NatLessThanWellFounded, WFMin
<1>2. \A x, y \in Nat : y < x => <<y, x>> \in OpToRel(<, Nat)
  BY DEF OpToRel
<1>3. \E x \in T : \A y \in T : ~(y < x)
  BY <1>1, <1>2, Zenon
<1>. QED
  BY <1>3

\* Induction, on the set of the numbers that have a property.
LEMMA SetInduction ==
    ASSUME NEW S, 0 \in S, \A n \in Nat : n \in S => n + 1 \in S
    PROVE  Nat \subseteq S
<1>. SUFFICES ASSUME Nat \ S # {} PROVE FALSE
  OBVIOUS
<1>1. PICK x \in Nat \ S : \A y \in Nat \ S : x <= y
  BY LeastNumber
<1>2. x # 0 /\ x - 1 \in Nat
  BY <1>1
<1>. QED
  BY <1>1, <1>2

\* Asked is what its recursive definition says.
LEMMA AskedDef ==
    Asked = [n \in 0 .. Len(BootPtrs) |->
               IF n = 0 THEN 0 ELSE Asked[n - 1] + Needed(bytes[BootPtrs[n]])]
<1>. DEFINE size(n) == Needed(bytes[BootPtrs[n]])
            To(h, n) == h = [i \in 0 .. n |-> IF i = 0 THEN 0 ELSE h[i - 1] + size(i)]
            S == {n \in Nat : \E h : To(h, n)}
<1>. HIDE DEF size
<1>1. 0 \in S
  <2>1. To([i \in 0 .. 0 |-> 0], 0)
    OBVIOUS
  <2>. QED
    BY <2>1
<1>2. \A n \in Nat : n \in S => n + 1 \in S
  <2>. SUFFICES ASSUME NEW n \in Nat, NEW h, To(h, n) PROVE \E g : To(g, n + 1)
    OBVIOUS
  <2>. DEFINE g == [i \in 0 .. n + 1 |-> IF i = n + 1 THEN h[n] + size(n + 1) ELSE h[i]]
  <2>1. \A i \in 0 .. n : h[i] = IF i = 0 THEN 0 ELSE h[i - 1] + size(i)
    OBVIOUS
  <2>2. \A i \in 0 .. n + 1 : g[i] = IF i = 0 THEN 0 ELSE g[i - 1] + size(i)
    <3>. TAKE i \in 0 .. n + 1
    <3>1. CASE i = n + 1
      <4>1. g[i - 1] = h[n] /\ i # 0 /\ g[i] = h[n] + size(n + 1)
        BY <3>1
      <4>. QED
        BY <4>1, <3>1, Zenon
    <3>2. CASE i # n + 1
      <4>1. i \in 0 .. n /\ (i # 0 => i - 1 \in 0 .. n /\ i - 1 # n + 1)
        BY <3>2
      <4>2. g[i] = h[i] /\ (i # 0 => g[i - 1] = h[i - 1])
        BY <3>2, <4>1
      <4>. HIDE DEF g
      <4>. QED
        BY <2>1, <4>1, <4>2
    <3>. QED
      BY <3>1, <3>2
  <2>3. To(g, n + 1)
    BY <2>2
  <2>. QED
    BY <2>3
<1>. HIDE DEF S
<1>3. Nat \subseteq S
  BY <1>1, <1>2, SetInduction
<1>4. \E h : To(h, Len(BootPtrs))
  <2>. HIDE DEF To
  <2>1. Len(BootPtrs) \in Nat
    BY Joined
  <2>. QED
    BY <1>3, <2>1, Zenon DEF S
<1>5. Asked = CHOOSE h : To(h, Len(BootPtrs))
  BY Zenon DEF Asked, size
<1>6. To(Asked, Len(BootPtrs))
  <2>. DEFINE P(h) == To(h, Len(BootPtrs))
  <2>. HIDE DEF To
  <2>. QED
    BY <1>4, <1>5, Zenon
<1>. QED
  BY <1>6 DEF size

LEMMA BootIsPtrs == \A i \in 1 .. 10 : BootPtrs[i] \in Ptrs
  BY Joined DEF Ptrs, BootPtrs, Names

\* Asked grows by the count of one pointer after the other.
LEMMA AskedFacts ==
    ASSUME TypeOK
    PROVE  /\ Asked[0] = 0 /\ \A i \in 0 .. 10 : Asked[i] \in Nat
           /\ \A i \in 0 .. 9 : Asked[i + 1] = Asked[i] + Count(BootPtrs[i + 1])
           /\ \A i \in 0 .. 10 : Asked[i] <= Asked[10]
<1>1. Asked[0] = 0
  BY AskedDef, Joined
<1>2. ASSUME NEW i \in 0 .. 9
      PROVE  Asked[i + 1] = Asked[i] + Count(BootPtrs[i + 1])
  <2>1. i + 1 \in 1 .. 10 /\ i + 1 # 0 /\ i + 1 - 1 = i
    OBVIOUS
  <2>2. Asked[i + 1] = Asked[i] + Needed(bytes[BootPtrs[i + 1]])
    BY <2>1, AskedDef, Joined
  <2>. QED
    BY <2>1, <2>2, BootIsPtrs, CountIs
<1>3. \A i \in 1 .. 10 : Count(BootPtrs[i]) \in Nat
  BY BootIsPtrs, CountIs
<1>. DEFINE c(i) == Count(BootPtrs[i])
<1>. HIDE DEF c
<1>4. \A i \in 0 .. 9 : Asked[i + 1] = Asked[i] + c(i + 1) /\ c(i + 1) \in Nat
  BY <1>2, <1>3 DEF c
<1>5. /\ Asked[1] = Asked[0] + c(1) /\ c(1) \in Nat /\ Asked[2] = Asked[1] + c(2) /\ c(2) \in Nat
      /\ Asked[3] = Asked[2] + c(3) /\ c(3) \in Nat /\ Asked[4] = Asked[3] + c(4) /\ c(4) \in Nat
      /\ Asked[5] = Asked[4] + c(5) /\ c(5) \in Nat /\ Asked[6] = Asked[5] + c(6) /\ c(6) \in Nat
      /\ Asked[7] = Asked[6] + c(7) /\ c(7) \in Nat /\ Asked[8] = Asked[7] + c(8) /\ c(8) \in Nat
      /\ Asked[9] = Asked[8] + c(9) /\ c(9) \in Nat /\ Asked[10] = Asked[9] + c(10) /\ c(10) \in Nat
  BY <1>4
<1>6. \A i \in 0 .. 10 : i \in {0, 1, 2, 3, 4, 5, 6, 7, 8, 9, 10}
  OBVIOUS
<1>7. \A i \in 0 .. 10 : Asked[i] \in Nat /\ Asked[i] <= Asked[10]
  BY <1>1, <1>5, <1>6
<1>. QED
  BY <1>1, <1>2, <1>7

\* mymalloc takes the next blocks below the ones in use.
LEMMA MallocFromAbove ==
    ASSUME TypeOK, NEW p \in Ptrs, Mymalloc(p), NEW top \in Nat, top <= NBlocks,
           Count(p) <= top, \A b \in Blocks : memmap[b] # 0 <=> top <= b
    PROVE  /\ ptr'[p] # Null
           /\ \A q \in Ptrs \ {p} : ptr'[q] = ptr[q]
           /\ \A b \in Blocks : memmap'[b] # 0 <=> top - Count(p) <= b
<1>1. /\ Count(p) \in Nat /\ Count(p) >= 1 /\ NBlocks \in Nat /\ Null \notin Nat
      /\ ptr \in [Ptrs -> Blocks \cup {Null}]
  BY CountIs, TableAssumption, BootAssumption DEF TypeOK
<1>2. PICK n \in Nat : n = Count(p) /\ n >= 1 /\ n <= top
  BY <1>1
<1>3. top - n \in Blocks /\ FitsAt(memmap, top - n, n)
  <2>1. top - n \in Blocks /\ \A b \in top - n .. top - n + n - 1 : b \in Blocks /\ b < top
    BY <1>1, <1>2 DEF Blocks
  <2>. QED
    BY <1>1, <1>2, <2>1 DEF FitsAt
<1>4. PICK offset \in Blocks :
          /\ StopsAt(memmap, n, offset)
          /\ memmap' = Mark(memmap, offset, n)
          /\ ptr' = [ptr EXCEPT ![p] = offset]
  BY <1>2, <1>3 DEF Mymalloc
<1>5. offset = top - n
  <2>1. /\ offset + n <= NBlocks /\ \A b \in offset .. offset + n - 1 : memmap[b] = 0
        /\ \A higher \in offset + 1 .. NBlocks - 1 : ~FitsAt(memmap, higher, n)
    BY <1>2, <1>4 DEF StopsAt, FitsAt
  <2>2. /\ offset \in Nat /\ offset + n - 1 \in Blocks
        /\ offset + n - 1 \in offset .. offset + n - 1
    BY <1>1, <1>2, <2>1 DEF Blocks
  <2>3. ~(top <= offset + n - 1)
    BY <2>1, <2>2
  <2>4. ~(top - n \in offset + 1 .. NBlocks - 1)
    BY <1>3, <2>1
  <2>. QED
    BY <1>1, <1>2, <1>3, <2>2, <2>3, <2>4 DEF Blocks
<1>6. ptr'[p] # Null /\ \A q \in Ptrs \ {p} : ptr'[q] = ptr[q]
  BY <1>1, <1>4 DEF Blocks
<1>7. ASSUME NEW b \in Blocks
      PROVE  memmap'[b] # 0 <=> top - n <= b
  <2>1. memmap'[b] = IF b \in top - n .. top - n + n - 1 THEN n ELSE memmap[b]
    BY <1>4, <1>5 DEF Mark
  <2>2. b \in Nat /\ (b \in top - n .. top - n + n - 1 <=> top - n <= b /\ b < top)
    BY <1>1, <1>2 DEF Blocks
  <2>. QED
    BY <1>2, <2>1, <2>2
<1>. QED
  BY <1>2, <1>6, <1>7

\* The sizes of a build do not change.
LEMMA AskedPrimed == ASSUME bytes' = bytes PROVE Asked' = Asked
  BY Zenon DEF Asked

\* What is in use as long as there is room, and what more there is room for.
LEMMA RoomFacts ==
    ASSUME TypeOK, Room(unplugged)
    PROVE  /\ unplugged * Asked[6] \in Nat /\ NBlocks \in Nat
           /\ unplugged * Asked[6] + Asked[10] <= NBlocks
<1>1. /\ unplugged \in Nat /\ NBlocks \in Nat /\ Asked[6] \in Nat
      /\ unplugged * Asked[6] + Asked[10] <= NBlocks
  BY TableAssumption, BootAssumption, AskedFacts, Joined DEF TypeOK, Room
<1>. QED
  BY <1>1

LEMMA LevelFacts ==
    ASSUME IInv
    PROVE  /\ Level \in 0 .. 10 /\ (Session => Level = 10)
           /\ \A i \in 1 .. Level : BootPtrs[i] \in Live
<1>1. /\ at \in Functions /\ k \in 1 .. Len(List) + 1 /\ k \in 1 .. 5
      /\ Len(NetPtrs) = 6 /\ Len(BootPtrs) = 10
      /\ Len(EthPtrs) = 4 /\ Len(CommPtrs) = 2 /\ Len(RecPtrs) = 4
  BY Joined, Lengths DEF IInv, TypeOK, Placed
<1>. DEFINE E == Names(EthPtrs)
            C == Names(CommPtrs)
            R == Names(RecPtrs)
<1>2. /\ \A i \in 1 .. 4 : BootPtrs[i] \in E
      /\ \A i \in 5 .. 6 : BootPtrs[i] \in C
      /\ \A i \in 7 .. 10 : BootPtrs[i] \in R
  <2>1. DOMAIN EthPtrs = 1 .. 4 /\ DOMAIN CommPtrs = 1 .. 2 /\ DOMAIN RecPtrs = 1 .. 4
    BY DEF EthPtrs, CommPtrs, RecPtrs
  <2>2. /\ \A i \in 5 .. 6 : i - 4 \in 1 .. 2 /\ i = 4 + (i - 4)
        /\ \A i \in 7 .. 10 : i - 6 \in 1 .. 4 /\ i = 6 + (i - 6)
    OBVIOUS
  <2>. QED
    BY <2>1, <2>2, Joined DEF Names
<1>. HIDE DEF E, C, R
<1>3. CASE at = "ETH_Mem_Malloc"
  <2>1. /\ Level = k - 1 /\ List = EthPtrs
    BY <1>3 DEF Level, List
  <2>2. \A i \in 1 .. Level : i \in 1 .. k - 1 /\ BootPtrs[i] = List[i]
    BY <1>1, <2>1, Joined
  <2>. QED
    BY <1>1, <1>3, <2>1, <2>2 DEF Live, Mine, Session
<1>4. CASE at = "lwip_comm_mem_malloc"
  <2>1. /\ Level = 4 + k - 1 /\ List = CommPtrs /\ Earlier = E
    BY <1>1, <1>4 DEF Level, List, Earlier, E
  <2>2. \A i \in 1 .. Level : i \in 1 .. 4 \/ (i - 4 \in 1 .. k - 1 /\ BootPtrs[i] = List[i - 4])
    <3>1. \A i \in 1 .. Level :
             i \in 1 .. 4 \/ (i - 4 \in 1 .. k - 1 /\ i - 4 \in 1 .. 2 /\ i = 4 + (i - 4))
      <4>1. Len(List) = 2
        BY <1>1, <2>1, Zenon
      <4>2. k \in 1 .. 3
        BY <1>1, <4>1
      <4>. QED
        BY <2>1, <4>2
    <3>. QED
      BY <2>1, <3>1, Joined
  <2>. QED
    BY <1>1, <1>2, <1>4, <2>1, <2>2 DEF Live, Mine, Session
<1>5. CASE at = "LAN8720_Init"
  <2>1. /\ Level = 6 /\ E \cup C \subseteq Live
    BY <1>1, <1>5 DEF Level, Earlier, E, C, Live
  <2>. QED
    BY <1>1, <1>2, <1>5, <2>1 DEF Session
<1>6. CASE at = "recorders"
  <2>1. /\ Level = 6 + k - 1 /\ List = RecPtrs /\ Earlier = E \cup C
    BY <1>1, <1>6 DEF Level, List, Earlier, E, C
  <2>2. \A i \in 1 .. Level : i \in 1 .. 6 \/ (i - 6 \in 1 .. k - 1 /\ BootPtrs[i] = List[i - 6])
    <3>1. \A i \in 1 .. Level :
             i \in 1 .. 6 \/ (i - 6 \in 1 .. k - 1 /\ i - 6 \in 1 .. 4 /\ i = 6 + (i - 6))
      BY <1>1, <2>1
    <3>. QED
      BY <2>1, <3>1, Joined
  <2>. QED
    BY <1>1, <1>2, <1>6, <2>1, <2>2 DEF Live, Mine, Session
<1>7. CASE at = "retry"
  <2>1. Level = 0
    BY <1>7 DEF Level
  <2>. QED
    BY <1>7, <2>1 DEF Session
<1>8. CASE Session
  <2>1. Level = 10 /\ E \cup C \cup R \subseteq Live
    BY <1>1, <1>8 DEF Session, Level, Earlier, E, C, R, Live
  <2>. QED
    BY <1>2, <1>8, <2>1
<1>. QED
  BY <1>1, <1>3, <1>4, <1>5, <1>6, <1>7, <1>8 DEF Functions, Session

\* Before the sessions, the next buffer is taken right below the others.
LEMMA AskAbove ==
    ASSUME FInv, ~Session, Ask(List)
    PROVE  Stacked'
<1>1. /\ IInv /\ Stacked /\ TypeOK /\ at \in Functions /\ k \in 1 .. Len(List)
      /\ Mymalloc(List[k]) /\ k' = k + 1 /\ UNCHANGED <<bytes, at, unplugged, spent>>
  <2>1. k \in 1 .. Len(List) + 1 /\ k <= Len(List) /\ Len(List) \in 0 .. 4
    BY ListFacts DEF FInv, IInv, TypeOK, Placed, Ask
  <2>. QED
    BY <2>1 DEF FInv, IInv, TypeOK, Ask
<1>2. PICK p \in Ptrs : p = List[k] /\ p \notin Live
  BY <1>1, ListFacts, LiveFacts DEF IInv, Live, Mine
<1>3. /\ Level \in 0 .. 9 /\ BootPtrs[Level + 1] = p
  BY <1>1, <1>2, Numbers
<1>4. Level' = Level + 1 /\ ~Session'
  <2>1. Len(List) \in 0 .. 4 /\ at \notin {"LAN8720_Init", "retry"}
    BY <1>1, ListFacts DEF List
  <2>2. /\ k \in Nat /\ Len(EthPtrs) = 4 /\ Len(NetPtrs) = 6
    BY <1>1, <2>1, Joined, Lengths
  <2>. QED
    BY <1>1, <2>1, <2>2 DEF Level, Session, Functions
<1>. SUFFICES ASSUME Room(unplugged)'
              PROVE  /\ \A i \in 1 .. Level + 1 : ptr'[BootPtrs[i]] # Null
                     /\ \A b \in Blocks : memmap'[b] # 0 <=>
                           NBlocks <= b + unplugged * Asked[6] + Asked[Level + 1]
  BY <1>1, <1>4, AskedPrimed, Joined DEF Stacked
<1>5. Room(unplugged)
  BY <1>1, AskedPrimed DEF Room
<1>6. PICK n \in Nat : n = unplugged * Asked[6] /\ n + Asked[10] <= NBlocks
  BY <1>1, <1>5, RoomFacts
<1>7. PICK a \in Nat : a = Asked[Level]
  <2>1. Level \in 0 .. 10
    BY <1>3
  <2>. QED
    BY <1>1, <2>1, AskedFacts
<1>8. PICK c \in Nat : c = Count(p) /\ Asked[Level + 1] = a + c /\ a + c <= Asked[10]
  <2>1. Level + 1 \in 0 .. 10 /\ Count(p) \in Nat
    BY <1>1, <1>3, CountIs
  <2>2. Asked[Level + 1] = a + Count(p) /\ Asked[Level + 1] <= Asked[10]
    BY <1>1, <1>3, <1>7, <2>1, AskedFacts
  <2>. QED
    BY <2>1, <2>2
<1>9. NBlocks \in Nat /\ Asked[10] \in Nat /\ n + a + c <= NBlocks
  <2>1. NBlocks \in Nat /\ Asked[10] \in Nat
    BY <1>1, <1>5, RoomFacts, AskedFacts
  <2>. QED
    BY <1>6, <1>8, <2>1
<1>10. PICK top \in Nat : top + n + a = NBlocks
  <2>1. NBlocks - n - a \in Nat
    BY <1>9
  <2>. QED
    BY <1>9, <2>1
<1>11. \A b \in Blocks : memmap[b] # 0 <=> top <= b
  <2>1. \A b \in Blocks : memmap[b] # 0 <=> NBlocks <= b + n + a
    BY <1>1, <1>5, <1>6, <1>7, Joined DEF Stacked, FInv
  <2>. QED
    BY <1>9, <1>10, <2>1, Finite
<1>12. /\ ptr'[p] # Null /\ \A q \in Ptrs \ {p} : ptr'[q] = ptr[q]
       /\ \A b \in Blocks : memmap'[b] # 0 <=> top - c <= b
  <2>1. Mymalloc(p) /\ top <= NBlocks /\ Count(p) <= top
    BY <1>1, <1>2, <1>8, <1>9, <1>10
  <2>. QED
    BY <1>1, <1>8, <1>11, <2>1, MallocFromAbove
<1>13. \A b \in Blocks : memmap'[b] # 0 <=> NBlocks <= b + n + (a + c)
  BY <1>9, <1>10, <1>12, Finite
<1>14. ASSUME NEW i \in 1 .. Level + 1
       PROVE  ptr'[BootPtrs[i]] # Null
  <2>1. CASE i = Level + 1
    BY <1>3, <1>12, <2>1
  <2>2. CASE i \in 1 .. Level
    <3>1. ptr[BootPtrs[i]] # Null /\ BootPtrs[i] \in Live
      BY <1>1, <1>5, <2>2, LevelFacts DEF Stacked
    <3>2. BootPtrs[i] \in Ptrs
      BY <1>3, <2>2, BootIsPtrs
    <3>. QED
      BY <1>2, <1>12, <3>1, <3>2
  <2>. QED
    BY <1>3, <2>1, <2>2
<1>. QED
  BY <1>6, <1>8, <1>13, <1>14

\* A step that sets no pointer the function or those before it have set, and that
\* stays, or gets, into the sessions, or leaves the table alone.
LEMMA KeepStacked ==
    ASSUME FInv, bytes' = bytes, unplugged' = unplugged, Level' = Level,
           \A i \in 1 .. Level : ptr'[BootPtrs[i]] = ptr[BootPtrs[i]],
           Session' \/ (~Session /\ memmap' = memmap)
    PROVE  Stacked'
<1>1. Asked' = Asked
  BY AskedPrimed
<1>. QED
  BY <1>1 DEF FInv, Stacked, Room

LEMMA SetInSession ==
    ASSUME FInv, Session, Ask(List)
    PROVE  Stacked'
<1>1. /\ IInv /\ TypeOK /\ at \in Functions /\ k \in 1 .. Len(List)
      /\ Mymalloc(List[k]) /\ k' = k + 1 /\ UNCHANGED <<bytes, at, unplugged, spent>>
  <2>1. k \in 1 .. Len(List) + 1 /\ k <= Len(List) /\ Len(List) \in 0 .. 4
    BY ListFacts DEF FInv, IInv, TypeOK, Placed, Ask
  <2>. QED
    BY <2>1 DEF FInv, IInv, TypeOK, Ask
<1>2. PICK p \in Ptrs : p = List[k] /\ p \notin Live
  BY <1>1, ListFacts, LiveFacts DEF IInv, Live, Mine
<1>3. \A q \in Ptrs \ {p} : ptr'[q] = ptr[q]
  BY <1>1, <1>2, MallocGives
<1>4. \A i \in 1 .. Level : ptr'[BootPtrs[i]] = ptr[BootPtrs[i]]
  BY <1>1, <1>2, <1>3, LevelFacts, LiveFacts DEF IInv
<1>5. Session' /\ Level' = Level
  BY <1>1 DEF Session, Level
<1>. QED
  BY <1>1, <1>4, <1>5, KeepStacked

\* With room for them, no function of lwip_comm_init misses a buffer.
LEMMA AllThere ==
    ASSUME FInv, Room(unplugged), at \in {"ETH_Mem_Malloc", "lwip_comm_mem_malloc"},
           k > Len(List)
    PROVE  Got(List)
<1>1. /\ at \in Functions /\ IInv /\ k \in 1 .. Len(List) + 1
      /\ \A i \in 1 .. Level : ptr[BootPtrs[i]] # Null
  BY DEF FInv, IInv, TypeOK, Placed, Stacked
<1>2. CASE at = "ETH_Mem_Malloc"
  <2>1. List = EthPtrs /\ Level = 4 /\ DOMAIN EthPtrs = 1 .. 4
    <3>1. List = EthPtrs /\ Level = k - 1 /\ Len(EthPtrs) = 4 /\ DOMAIN EthPtrs = 1 .. 4
      BY <1>2, Lengths DEF List, Level, EthPtrs
    <3>. QED
      BY <1>1, <3>1
  <2>2. \A i \in 1 .. 4 : ptr[EthPtrs[i]] # Null
    BY <1>1, <2>1, Joined
  <2>. QED
    BY <2>1, <2>2 DEF Got, Missing, Names
<1>3. CASE at = "lwip_comm_mem_malloc"
  <2>1. List = CommPtrs /\ Level = 6 /\ DOMAIN CommPtrs = 1 .. 2
    <3>1. List = CommPtrs /\ Level = 4 + k - 1 /\ Len(CommPtrs) = 2 /\ DOMAIN CommPtrs = 1 .. 2
      BY <1>3, Lengths DEF List, Level, CommPtrs
    <3>. QED
      BY <1>1, <3>1
  <2>2. \A i \in 1 .. 2 : ptr[CommPtrs[i]] # Null
    <3>1. \A i \in 1 .. 2 : 4 + i \in 1 .. Level
      BY <2>1
    <3>. QED
      BY <1>1, <3>1, Joined
  <2>. QED
    BY <2>1, <2>2 DEF Got, Missing, Names
<1>. QED
  BY <1>2, <1>3

\* A function of lwip_comm_init: the next one begins where it ends.
LEMMA TakeAllStacked ==
    ASSUME FInv, EthMemMalloc \/ LwipCommMemMalloc
    PROVE  Stacked'
<1>1. /\ IInv /\ TypeOK /\ k \in 1 .. Len(List) + 1
      /\ at \in {"ETH_Mem_Malloc", "lwip_comm_mem_malloc"} /\ ~Session
  BY DEF FInv, IInv, Placed, Session, EthMemMalloc, LwipCommMemMalloc
<1>2. PICK next \in {"lwip_comm_mem_malloc", "LAN8720_Init"} :
         /\ TakeAll(List, next)
         /\ next = "lwip_comm_mem_malloc" <=> at = "ETH_Mem_Malloc"
  BY DEF EthMemMalloc, LwipCommMemMalloc, List
<1>3. CASE Ask(List)
  BY <1>1, <1>3, AskAbove
<1>4. CASE /\ Got(List)
           /\ UNCHANGED <<bytes, memmap, ptr, unplugged>>
           /\ Enter(next)
  <2>1. k > Len(List) /\ at' = next /\ k' = 1
    BY <1>4 DEF Got, Enter
  <2>2. Level' = Level /\ ~Session'
    <3>1. CASE at = "ETH_Mem_Malloc"
      <4>1. List = EthPtrs /\ Level = k - 1 /\ Len(EthPtrs) = 4 /\ Level' = 4 + k' - 1
            /\ ~Session'
        BY <1>2, <2>1, <3>1, Lengths DEF List, Level, Session
      <4>. QED
        BY <1>1, <2>1, <4>1
    <3>2. CASE at = "lwip_comm_mem_malloc"
      <4>1. List = CommPtrs /\ Level = 4 + k - 1 /\ Len(CommPtrs) = 2 /\ Level' = 6
            /\ ~Session'
        BY <1>2, <2>1, <3>2, Lengths, Joined DEF List, Level, Session
      <4>. QED
        BY <1>1, <2>1, <4>1
    <3>. QED
      BY <1>1, <3>1, <3>2
  <2>. QED
    BY <1>1, <1>4, <2>2, KeepStacked
<1>5. CASE /\ k > Len(List)
           /\ ~Got(List)
           /\ UNCHANGED <<bytes, ptr, unplugged>>
  <2>1. ~Room(unplugged)
    BY <1>1, <1>5, AllThere
  <2>2. ~Room(unplugged)'
    BY <1>5, <2>1, AskedPrimed DEF Room
  <2>. QED
    BY <2>2 DEF Stacked
<1>. QED
  BY <1>2, <1>3, <1>4, <1>5 DEF TakeAll

\* An attempt without a cable leaves its six buffers in use.
LEMMA NoLinkStacked ==
    ASSUME FInv, NoLink
    PROVE  Stacked'
<1>1. /\ IInv /\ TypeOK /\ at = "LAN8720_Init" /\ unplugged' = unplugged + 1
      /\ UNCHANGED <<bytes, memmap, ptr>> /\ at' = "retry"
  BY DEF FInv, IInv, NoLink, Enter
<1>2. /\ Level = 6 /\ Level' = 0 /\ ~Session /\ ~Session'
  BY <1>1, Joined DEF Level, Session
<1>3. /\ Asked' = Asked /\ Asked[6] \in Nat /\ Asked[10] \in Nat /\ Asked[0] = 0
      /\ unplugged \in Nat /\ NBlocks \in Nat
  BY <1>1, AskedPrimed, AskedFacts, TableAssumption, BootAssumption DEF TypeOK
<1>4. PICK n \in Nat : n = unplugged * Asked[6]
  BY <1>3
<1>5. (unplugged + 1) * Asked[6] = n + Asked[6]
  <2>1. \A u, a \in Nat : (u + 1) * a = u * a + a
    OBVIOUS
  <2>. QED
    BY <1>3, <1>4, <2>1
<1>. SUFFICES ASSUME Room(unplugged)'
              PROVE  \A b \in Blocks :
                        memmap[b] # 0 <=> NBlocks <= b + (unplugged + 1) * Asked[6] + Asked[0]
  BY <1>1, <1>2, <1>3, Joined DEF Stacked
<1>6. n + Asked[6] + Asked[10] <= NBlocks
  BY <1>1, <1>3, <1>5, Joined DEF Room
<1>7. Room(unplugged)
  BY <1>3, <1>4, <1>6, Joined DEF Room
<1>8. \A b \in Blocks : memmap[b] # 0 <=> NBlocks <= b + n + Asked[6]
  BY <1>2, <1>4, <1>7, Joined DEF FInv, Stacked
<1>. QED
  BY <1>3, <1>5, <1>8, Finite

LEMMA NextStacked ==
    ASSUME FInv, Next
    PROVE  Stacked'
<1>1. IInv /\ TypeOK /\ at \in Functions /\ k \in 1 .. Len(List) + 1
  BY DEF FInv, IInv, TypeOK, Placed
<1>2. ASSUME UNCHANGED <<bytes, memmap, ptr, unplugged>>, Level' = Level, Session' \/ ~Session
      PROVE  Stacked'
  BY <1>2, KeepStacked
<1>3. CASE LinkFound
  <2>1. Level' = Level /\ ~Session
    <3>1. Level = 6 /\ Level' = 6 + k' - 1 /\ k' = 1 /\ ~Session
      BY <1>3, Joined DEF LinkFound, Enter, Level, Session
    <3>. QED
      BY <3>1
  <2>. QED
    BY <1>2, <1>3, <2>1 DEF LinkFound
<1>4. CASE Retry
  <2>1. Level' = Level /\ ~Session
    <3>1. Level = 0 /\ Level' = k' - 1 /\ k' = 1 /\ ~Session
      BY <1>4 DEF Retry, Enter, Level, Session
    <3>. QED
      BY <3>1
  <2>. QED
    BY <1>2, <1>4, <2>1 DEF Retry
<1>5. CASE Recorders
  <2>1. at = "recorders" /\ List = RecPtrs /\ ~Session
    BY <1>5 DEF Recorders, List, Session
  <2>2. CASE Ask(RecPtrs)
    BY <2>1, <2>2, AskAbove
  <2>3. CASE /\ k > Len(RecPtrs)
             /\ UNCHANGED <<bytes, memmap, ptr, unplugged>>
             /\ Enter("udp_demo_set_remoteip")
    <3>1. k = 5
      BY <1>1, <2>1, <2>3, Lengths
    <3>2. Level = 10 /\ Level' = 10 /\ Session'
      BY <2>1, <2>3, <3>1, Joined DEF Enter, Level, Session
    <3>. QED
      BY <1>2, <2>3, <3>2
  <2>. QED
    BY <1>5, <2>2, <2>3 DEF Recorders
<1>6. CASE SetRemoteip \/ UdpDemoTest
  <2>1. Session /\ List \in {<<"ip_tbuf">>, <<"tbuf">>}
    BY <1>6 DEF SetRemoteip, UdpDemoTest, Session, List
  <2>2. CASE Ask(List)
    BY <2>1, <2>2, SetInSession
  <2>3. CASE ~Ask(List)
    <3>1. UNCHANGED <<bytes, ptr, unplugged>> /\ at' \in {"udp_demo_test", "loop"}
      BY <1>6, <2>3 DEF SetRemoteip, UdpDemoTest, Scratch, List, Enter
    <3>2. Session' /\ Level' = Level
      BY <2>1, <3>1 DEF Session, Level
    <3>. QED
      BY <3>1, <3>2, KeepStacked
  <2>. QED
    BY <2>2, <2>3
<1>7. CASE Key1
  <2>1. Level' = Level /\ Session'
    BY <1>7 DEF Key1, Enter, Level, Session
  <2>. QED
    BY <1>2, <1>7, <2>1 DEF Key1
<1>. QED
  BY <1>3, <1>4, <1>5, <1>6, <1>7, TakeAllStacked, NoLinkStacked DEF Next, Main, Sessions

\* With room for them, the recorders have their buffers in every session.
THEOREM RecordersAreFed == Spec => []RecordersFed
<1>1. Init => FInv
  <2>. SUFFICES ASSUME Init PROVE Stacked
    BY InitIInv DEF FInv
  <2>1. IInv /\ TypeOK /\ at = "ETH_Mem_Malloc" /\ k = 1 /\ unplugged = 0 /\ memmap = Zeroed
    BY InitIInv DEF Init, IInv
  <2>2. Level = 0
    BY <2>1 DEF Level
  <2>3. NBlocks \in Nat /\ \A b \in Blocks : b \in Nat /\ b < NBlocks
    BY TableAssumption DEF Blocks
  <2>4. Asked[0] = 0 /\ Asked[6] \in Nat /\ Len(NetPtrs) = 6
    <3>1. 6 \in 0 .. 10
      OBVIOUS
    <3>. QED
      BY <2>1, <3>1, AskedFacts, Joined
  <2>5. unplugged * Asked[Len(NetPtrs)] = 0
    BY <2>1, <2>4
  <2>6. \A b \in Blocks : memmap[b] = 0 /\ ~(NBlocks <= b + 0 + 0)
    BY <2>1, <2>3 DEF Zeroed
  <2>. QED
    BY <2>2, <2>3, <2>4, <2>5, <2>6 DEF Stacked
<1>2. FInv /\ [Next]_vars => FInv'
  <2>1. ASSUME FInv, UNCHANGED vars PROVE FInv'
    <3>1. Level' = Level /\ Session' = Session
      BY <2>1 DEF vars, Level, Session
    <3>. QED
      BY <2>1, <3>1, StutterStep, KeepStacked DEF FInv, vars
  <2>. QED
    BY <2>1, NextStep, NextStacked DEF FInv
<1>3. FInv => RecordersFed
  <2>. SUFFICES ASSUME FInv, Session, Room(unplugged)
                PROVE  ~Missing(RecPtrs)
    BY DEF RecordersFed, Session
  <2>1. Level = 10 /\ \A i \in 1 .. 10 : ptr[BootPtrs[i]] # Null
    BY LevelFacts DEF FInv, Stacked
  <2>2. DOMAIN RecPtrs = 1 .. 4 /\ \A i \in 1 .. 4 : 6 + i \in 1 .. 10
    BY DEF RecPtrs
  <2>. QED
    BY <2>1, <2>2, Joined DEF Missing, Names
<1>. QED
  BY <1>1, <1>2, <1>3, PTL DEF Spec
=============================================================================
