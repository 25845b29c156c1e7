---------------------------- MODULE EthRxProofs ----------------------------
(***************************************************************************)
(* EthRx's safety for rings of every size, every set of frames and every   *)
(* interleaving of the handler with the engine: RingInStep, and that what  *)
(* the stack gets is a FrameFifo.                                          *)
(*                                                                         *)
(* The provers have no theory of % with a variable divisor, so the ring is *)
(* measured by Ahead, how far a descriptor is from the oldest one that is  *)
(* the CPU's; Wrap turns it back into the property's %.                    *)
(***************************************************************************)
EXTENDS EthRx, FiniteSetTheorems, SequenceTheorems, TLAPS

\* How many steps of the ring lead from the oldest descriptor of the CPU to i.
Ahead(i) == IF i >= Oldest THEN i - Oldest ELSE i - Oldest + NRx

Count == Len(InRing)

\* The CPU's descriptors are the Count ones from the oldest on ...
Window == \A i \in Slots : ~own[i] <=> Ahead(i) < Count

\* ... and hold the frames in the order in which they came.
InOrder == \A i \in Slots : Ahead(i) < Count => content[i] = InRing[Ahead(i) + 1]

\* The engine is behind the last of them; that is the oldest when the ring is full.
EngineNext == IF Count < NRx THEN Ahead(dmaPos) = Count ELSE Count = NRx /\ dmaPos = Oldest

\* What the handler knows about the frame it is dealing with.
Handling ==
    /\ pc \in {"copy", "return", "poll", "input"} => arrived # <<>>
    /\ pc \in {"copy", "return"} => toGet = After(desc)
    /\ pc \in {"return", "poll", "input"} => p \in {Nothing, Head(arrived)}

IInv == TypeOK /\ Window /\ InOrder /\ EngineNext /\ Handling

-----------------------------------------------------------------------------
(* The ring. *)

\* What % does to a sum that is less than two rounds of the ring.
LEMMA Wrap ==
    ASSUME NEW i \in Slots, NEW k \in 0 .. NRx
    PROVE  (i + k) % NRx = IF i + k < NRx THEN i + k ELSE i + k - NRx
  BY RxAssumption DEF Slots

LEMMA AfterIs ==
    ASSUME NEW i \in Slots
    PROVE  After(i) = (IF i + 1 = NRx THEN 0 ELSE i + 1) /\ After(i) \in Slots
<1>1. (i + 1) % NRx = IF i + 1 < NRx THEN i + 1 ELSE i + 1 - NRx
  BY Wrap, RxAssumption
<1>. QED
  BY <1>1, RxAssumption DEF After, Slots

LEMMA AheadType ==
    ASSUME TypeOK
    PROVE  /\ Oldest \in Slots
           /\ \A i \in Slots : Ahead(i) \in 0 .. NRx - 1
           /\ \A i, j \in Slots : Ahead(i) = Ahead(j) => i = j
           /\ Ahead(Oldest) = 0
<1>1. Oldest \in Slots
  BY DEF TypeOK, Oldest
<1>. QED
  BY <1>1, RxAssumption DEF Slots, Ahead

LEMMA RingType ==
    ASSUME TypeOK, Handling
    PROVE  InRing \in Seq(Frames) /\ Count \in Nat
<1>1. pc \in {"poll", "input"} => Tail(arrived) \in Seq(Frames)
  BY HeadTailProperties DEF TypeOK, Handling
<1>2. InRing \in Seq(Frames)
  BY <1>1 DEF TypeOK, InRing
<1>. QED
  BY <1>2, LenProperties DEF Count

\* A set of consecutive descriptors has as many members as there are.
LEMMA CardinalityOfWindow ==
    ASSUME NEW o \in Slots, NEW n \in 0 .. NRx
    PROVE  Cardinality({(o + k) % NRx : k \in 0 .. n - 1}) = n
<1>. DEFINE W == {(o + k) % NRx : k \in 0 .. n - 1}
            f == [k \in 0 .. n - 1 |-> (o + k) % NRx]
<1>1. f \in Surjection(0 .. n - 1, W)
  BY DEF Surjection
<1>2. \A j, k \in 0 .. n - 1 : f[j] = f[k] => j = k
  <2>. SUFFICES ASSUME NEW j \in 0 .. n - 1, NEW k \in 0 .. n - 1, f[j] = f[k]
                PROVE  j = k
    OBVIOUS
  <2>1. j \in 0 .. NRx /\ k \in 0 .. NRx /\ j < NRx /\ k < NRx
    BY RxAssumption
  <2>2. /\ (o + j) % NRx = IF o + j < NRx THEN o + j ELSE o + j - NRx
        /\ (o + k) % NRx = IF o + k < NRx THEN o + k ELSE o + k - NRx
    BY <2>1, Wrap
  <2>3. (o + j) % NRx = (o + k) % NRx
    OBVIOUS
  <2>. QED
    BY <2>1, <2>2, <2>3, RxAssumption DEF Slots
<1>3. f \in Injection(0 .. n - 1, W)
  <2>1. f \in [0 .. n - 1 -> W]
    OBVIOUS
  <2>. QED
    BY <1>2, <2>1 DEF Injection, IsInjective
<1>4. IsFiniteSet(0 .. n - 1) /\ Cardinality(0 .. n - 1) = n
  BY FS_Interval
<1>. HIDE DEF f, W
<1>5. Cardinality(W) = n
  BY <1>1, <1>3, <1>4, FS_Surjection
<1>. QED
  BY <1>5 DEF W

-----------------------------------------------------------------------------
(* The inductive invariant. *)

LEMMA InitIInv == Init => IInv
<1>. SUFFICES ASSUME Init PROVE IInv
  OBVIOUS
<1>1. 0 \in Slots /\ NRx > 0
  BY RxAssumption DEF Slots
<1>2. arrived = <<>> /\ Oldest = 0 /\ InRing = <<>> /\ Count = 0
  BY DEF Init, Oldest, InRing, Count
<1>3. TypeOK
  <2>1. arrived \in Seq(Frames) /\ late \in 0 .. Burst
    BY <1>2, RxAssumption DEF Init
  <2>. QED
    BY <1>1, <2>1 DEF Init, TypeOK
<1>4. \A i \in Slots : ~(Ahead(i) < Count)
  BY <1>2, <1>3, AheadType
<1>. QED
  BY <1>1, <1>2, <1>3, <1>4, AheadType
     DEF IInv, Window, InOrder, EngineNext, Handling, Init

\* Steps that leave the ring and what is in it alone.
LEMMA RingKept ==
    ASSUME Window, InOrder, EngineNext,
           UNCHANGED <<own, content, dmaPos>>, Oldest' = Oldest, InRing' = InRing
    PROVE  Window' /\ InOrder' /\ EngineNext'
<1>1. Count' = Count /\ \A i : Ahead(i)' = Ahead(i)
  BY DEF Count, Ahead
<1>. QED
  BY <1>1 DEF Window, InOrder, EngineNext, Ahead

\* The oldest descriptor holds a frame as long as one is left to handle.
LEMMA FrameAtOldest ==
    ASSUME IInv, ~own[Oldest]
    PROVE  InRing # <<>> /\ content[Oldest] = Head(InRing)
<1>1. InRing \in Seq(Frames) /\ Count > 0 /\ Oldest \in Slots /\ Ahead(Oldest) = 0
  BY RingType, AheadType DEF IInv, Window
<1>2. InRing # <<>>
  BY <1>1, EmptySeq DEF Count
<1>3. content[Oldest] = InRing[1]
  BY <1>1 DEF IInv, InOrder
<1>. QED
  BY <1>2, <1>3

\* Steps of the handler that neither take a descriptor nor return one.
LEMMA QuietStep ==
    ASSUME IInv, HandlerEnters \/ Copy \/ NoPbuf \/ Poll \/ Drained \/ ClearR \/ ClearNIS \/ Flush
    PROVE  IInv'
<1>. USE DEF IInv
<1>1. /\ UNCHANGED <<own, content, dmaPos, toGet, desc, arrived>>
      /\ Oldest' = Oldest /\ InRing' = InRing
  BY DEF HandlerEnters, Copy, NoPbuf, Poll, Drained, ClearR, ClearNIS, Flush, cpuVars,
         Oldest, InRing
<1>2. Window' /\ InOrder' /\ EngineNext'
  BY <1>1, RingKept
<1>3. TypeOK'
  <2>1. p' \in Frames \cup {Nothing} /\ delivered' = delivered
    BY DEF TypeOK, HandlerEnters, Copy, NoPbuf, Poll, Drained, ClearR, ClearNIS, Flush, cpuVars
  <2>2. late' \in 0 .. Burst
    <3>1. late' = late \/ late' = 0
      BY DEF HandlerEnters, Copy, NoPbuf, Poll, Drained, ClearR, ClearNIS, Flush, cpuVars
    <3>2. late \in 0 .. Burst /\ Burst \in Nat
      BY RxAssumption DEF TypeOK
    <3>. QED
      BY <3>1, <3>2
  <2>3. pc' \in {"idle", "check", "copy", "return", "poll", "input", "clear R", "clear NIS"}
    BY DEF TypeOK, HandlerEnters, Copy, NoPbuf, Poll, Drained, ClearR, ClearNIS, Flush, cpuVars
  <2>4. rbus' \in BOOLEAN /\ r' \in BOOLEAN /\ nis' \in BOOLEAN
    BY DEF TypeOK, HandlerEnters, Copy, NoPbuf, Poll, Drained, ClearR, ClearNIS, Flush, cpuVars
  <2>. QED
    BY <1>1, <2>1, <2>2, <2>3, <2>4 DEF TypeOK
<1>4. Handling'
  <2>1. CASE Copy
    <3>1. InRing = arrived /\ Oldest = desc /\ arrived # <<>>
      BY <2>1 DEF Copy, InRing, Oldest, Handling
    <3>2. ~own[Oldest]
      <4>1. Count > 0
        BY <3>1, RingType, EmptySeq DEF Count
      <4>. QED
        BY <4>1, AheadType DEF Window
    <3>3. p' = Head(arrived)
      BY <2>1, <3>1, <3>2, FrameAtOldest DEF Copy
    <3>. QED
      BY <1>1, <2>1, <3>3 DEF Copy, Handling, After
  <2>2. CASE HandlerEnters \/ NoPbuf \/ Poll \/ Drained \/ ClearR \/ ClearNIS \/ Flush
    BY <1>1, <2>2
       DEF HandlerEnters, NoPbuf, Poll, Drained, ClearR, ClearNIS, Flush, cpuVars, Handling, After
  <2>. QED
    BY <2>1, <2>2
<1>. QED
  BY <1>2, <1>3, <1>4

\* GetRxPktSize and ETH_Rx_Packet agree with the engine on the descriptor with a frame.
LEMMA RxPacketStep ==
    ASSUME IInv, RxPacket
    PROVE  IInv'
<1>. USE DEF IInv
<1>1. /\ UNCHANGED <<own, content, dmaPos, arrived>>
      /\ Oldest = toGet /\ Oldest' = Oldest /\ InRing = arrived /\ InRing' = InRing
  BY DEF RxPacket, Oldest, InRing
<1>2. Window' /\ InOrder' /\ EngineNext'
  BY <1>1, RingKept
<1>3. TypeOK'
  BY AfterIs DEF TypeOK, RxPacket
<1>4. arrived # <<>>
  BY <1>1, FrameAtOldest DEF RxPacket
<1>5. Handling'
  BY <1>1, <1>4 DEF RxPacket, Handling, After
<1>. QED
  BY <1>2, <1>3, <1>5

\* low_level_input returns the oldest descriptor, and no other.
LEMMA ReturnStep ==
    ASSUME IInv, Return
    PROVE  IInv'
<1>. USE DEF IInv
<1>1. /\ own' = [own EXCEPT ![desc] = TRUE] /\ pc = "return" /\ pc' = "poll"
      /\ UNCHANGED <<content, toGet, desc, p, dmaPos, rbus, r, nis, late, arrived, delivered>>
      /\ own \in [Slots -> BOOLEAN] /\ desc \in Slots /\ dmaPos \in Slots
  BY DEF Return, TypeOK
<1>2. /\ Oldest = desc /\ Oldest' = After(desc)
      /\ InRing = arrived /\ InRing' = Tail(arrived) /\ arrived # <<>>
  BY <1>1 DEF Oldest, InRing, Handling
<1>3. /\ Count \in Nat \ {0} /\ Count' = Count - 1
      /\ \A k \in 1 .. Count - 1 : InRing'[k] = InRing[k + 1]
  <2>1. arrived \in Seq(Frames)
    BY DEF TypeOK
  <2>. QED
    BY <1>2, <2>1, HeadTailProperties, EmptySeq DEF Count
<1>4. TypeOK'
  BY <1>1 DEF TypeOK
<1>5. Handling'
  BY <1>1 DEF Handling
<1>6. \A i \in Slots : /\ Ahead(i) \in 0 .. NRx - 1
                       /\ i # desc => Ahead(i) > 0 /\ Ahead(i)' = Ahead(i) - 1
                       /\ i = desc => Ahead(i) = 0 /\ Ahead(i)' = NRx - 1
  <2>1. After(desc) = IF desc + 1 = NRx THEN 0 ELSE desc + 1
    BY <1>1, AfterIs
  <2>. QED
    BY <1>1, <1>2, <2>1, RxAssumption DEF Ahead, Slots
<1>7. Count <= NRx
  BY <1>1, AheadType, RxAssumption DEF EngineNext
<1>8. Window'
  BY <1>1, <1>3, <1>6, <1>7, RxAssumption DEF Window
<1>9. InOrder'
  <2>. SUFFICES ASSUME NEW i \in Slots, Ahead(i)' < Count'
                PROVE  content[i] = InRing'[Ahead(i)' + 1]
    BY <1>1 DEF InOrder
  <2>1. i # desc /\ Ahead(i) \in 1 .. Count - 1 /\ Ahead(i)' + 1 = Ahead(i)
    BY <1>3, <1>6, <1>7, RxAssumption
  <2>. QED
    BY <1>3, <2>1 DEF InOrder
<1>10. EngineNext'
  BY <1>1, <1>2, <1>3, <1>6, <1>7, RxAssumption DEF EngineNext
<1>. QED
  BY <1>4, <1>5, <1>8, <1>9, <1>10

\* ethernetif_input hands the frame on, or gives it up.
LEMMA InputStep ==
    ASSUME IInv, Input
    PROVE  IInv'
<1>. USE DEF IInv
<1>1. /\ UNCHANGED <<own, content, dmaPos, toGet, desc, rbus, r, nis, late>>
      /\ pc = "input" /\ pc' = "check" /\ arrived' = Tail(arrived) /\ arrived # <<>>
      /\ Oldest' = Oldest /\ InRing' = InRing /\ InRing = arrived'
  BY DEF Input, Oldest, InRing, Handling
<1>2. Window' /\ InOrder' /\ EngineNext'
  BY <1>1, RingKept
<1>3. TypeOK'
  <2>1. arrived' \in Seq(Frames)
    BY <1>1, RingType
  <2>2. p' \in Frames \cup {Nothing} /\ delivered' \in Frames \cup {Nothing}
    BY DEF Input, TypeOK
  <2>. QED
    BY <1>1, <2>1, <2>2 DEF TypeOK
<1>4. Handling'
  BY <1>1 DEF Handling
<1>. QED
  BY <1>2, <1>3, <1>4

\* The engine stores a frame behind the others, whatever the handler is doing.
LEMMA StoreStep ==
    ASSUME IInv, NEW f \in Frames, Store(f)
    PROVE  IInv'
<1>. USE DEF IInv
<1>1. /\ own[dmaPos] /\ own' = [own EXCEPT ![dmaPos] = FALSE]
      /\ content' = [content EXCEPT ![dmaPos] = f]
      /\ dmaPos' = After(dmaPos) /\ arrived' = Append(arrived, f)
      /\ UNCHANGED <<toGet, pc, desc, p, delivered, rbus>>
      /\ own \in [Slots -> BOOLEAN] /\ content \in [Slots -> Frames \cup {Nothing}]
      /\ dmaPos \in Slots /\ arrived \in Seq(Frames)
  BY DEF Store, TypeOK, cpuVars
<1>2. Oldest' = Oldest /\ \A i : Ahead(i)' = Ahead(i)
  BY <1>1 DEF Oldest, Ahead
<1>3. InRing \in Seq(Frames) /\ InRing' = Append(InRing, f)
  <2>1. pc \in {"poll", "input"} => Tail(Append(arrived, f)) = Append(Tail(arrived), f)
    BY <1>1 DEF Handling
  <2>. QED
    BY <1>1, <2>1, RingType DEF InRing
<1>4. /\ Count \in Nat /\ Count' = Count + 1 /\ InRing'[Count + 1] = f
      /\ \A k \in 1 .. Count : InRing'[k] = InRing[k]
  BY <1>3, AppendProperties DEF Count
<1>5. /\ Oldest \in Slots
      /\ \A i \in Slots : Ahead(i) \in 0 .. NRx - 1 /\ (i # dmaPos => Ahead(i) # Ahead(dmaPos))
  BY <1>1, AheadType
<1>6. Count < NRx /\ Ahead(dmaPos) = Count
  <2>1. ~(Ahead(dmaPos) < Count)
    BY <1>1 DEF Window
  <2>. QED
    BY <1>4, <1>5, <2>1, AheadType, RxAssumption DEF EngineNext
<1>7. TypeOK'
  <2>1. late' \in 0 .. Burst /\ r' \in BOOLEAN /\ nis' \in BOOLEAN
    <3>1. late' = late \/ (late < Burst /\ late' = late + 1)
      BY DEF Store
    <3>2. late \in 0 .. Burst /\ Burst \in Nat
      BY RxAssumption DEF TypeOK
    <3>3. late' \in 0 .. Burst
      BY <3>1, <3>2
    <3>. QED
      BY <3>3 DEF Store
  <2>2. dmaPos' \in Slots /\ arrived' \in Seq(Frames)
    BY <1>1, AfterIs, AppendProperties
  <2>. QED
    BY <1>1, <2>1, <2>2 DEF TypeOK
<1>8. Window'
  BY <1>1, <1>2, <1>4, <1>5, <1>6, RxAssumption DEF Window
<1>9. InOrder'
  <2>. SUFFICES ASSUME NEW i \in Slots, Ahead(i) < Count + 1
                PROVE  content'[i] = InRing'[Ahead(i) + 1]
    BY <1>2, <1>4 DEF InOrder
  <2>1. CASE i = dmaPos
    BY <1>1, <1>4, <1>6, <2>1
  <2>2. CASE i # dmaPos
    <3>1. Ahead(i) < Count /\ Ahead(i) + 1 \in 1 .. Count
      BY <1>4, <1>5, <1>6, <2>2, RxAssumption
    <3>. QED
      BY <1>1, <1>4, <2>2, <3>1 DEF InOrder
  <2>. QED
    BY <2>1, <2>2
<1>10. EngineNext'
  <2>1. After(dmaPos) = IF dmaPos + 1 = NRx THEN 0 ELSE dmaPos + 1
    BY <1>1, AfterIs
  <2>. DEFINE i == After(dmaPos)
  <2>2. /\ i \in Slots /\ i = IF dmaPos + 1 = NRx THEN 0 ELSE dmaPos + 1
        /\ Count = IF dmaPos >= Oldest THEN dmaPos - Oldest ELSE dmaPos - Oldest + NRx
        /\ Ahead(i) = IF i >= Oldest THEN i - Oldest ELSE i - Oldest + NRx
    BY <1>1, <1>6, <2>1, AfterIs DEF Ahead
  <2>. HIDE DEF i
  <2>3. /\ Count + 1 < NRx => Ahead(i) = Count + 1
        /\ Count + 1 = NRx => i = Oldest
    <3>1. /\ NRx \in Nat \ {0} /\ Oldest \in 0 .. NRx - 1 /\ dmaPos \in 0 .. NRx - 1
          /\ Count \in Nat /\ Count < NRx
      BY <1>1, <1>4, <1>5, <1>6, RxAssumption DEF Slots
    <3>2. CASE dmaPos + 1 = NRx
      BY <2>2, <3>1, <3>2
    <3>3. CASE dmaPos + 1 # NRx
      BY <2>2, <3>1, <3>3
    <3>. QED
      BY <3>2, <3>3
  <2>. QED
    BY <1>1, <1>2, <1>4, <1>6, <2>3, RxAssumption DEF EngineNext, i
<1>11. Handling'
  <2>1. arrived' # <<>> /\ (arrived # <<>> => Head(arrived') = Head(arrived))
    BY <1>1
  <2>. QED
    BY <1>1, <2>1 DEF Handling, After
<1>. QED
  BY <1>7, <1>8, <1>9, <1>10, <1>11

LEMMA StepIInv == IInv /\ [Next]_vars => IInv'
<1>. SUFFICES ASSUME IInv, [Next]_vars PROVE IInv'
  OBVIOUS
<1>1. CASE UNCHANGED vars
  <2>1. /\ UNCHANGED <<own, content, dmaPos>> /\ Oldest' = Oldest /\ InRing' = InRing
        /\ TypeOK' /\ Handling'
    BY <1>1 DEF vars, cpuVars, Oldest, InRing, IInv, TypeOK, Handling, After
  <2>. QED
    BY <2>1, RingKept DEF IInv
<1>2. CASE HandlerEnters \/ Copy \/ NoPbuf \/ Poll \/ Drained \/ ClearR \/ ClearNIS \/ Flush
  BY <1>2, QuietStep
<1>3. CASE RxPacket
  BY <1>3, RxPacketStep
<1>4. CASE Return
  BY <1>4, ReturnStep
<1>5. CASE Input
  BY <1>5, InputStep
<1>6. CASE \E f \in Frames : Store(f)
  BY <1>6, StoreStep
<1>. QED
  BY <1>1, <1>2, <1>3, <1>4, <1>5, <1>6 DEF Next, Handler, Arrives

-----------------------------------------------------------------------------
(* The theorems. *)

\* In every reachable state the ring is a window of filled descriptors before the engine.
THEOREM Invariance == Spec => []IInv
  BY InitIInv, StepIInv, PTL DEF Spec

\* DMARxDescToGet and the engine agree on the ring at every step of ETH_IRQHandler.
THEOREM InStep == Spec => []RingInStep
<1>1. IInv => RingInStep
  <2>. SUFFICES ASSUME IInv PROVE RingInStep
    OBVIOUS
  <2>. USE DEF IInv
  <2>1. /\ Oldest \in Slots /\ dmaPos \in Slots /\ Count \in 0 .. NRx /\ InRing \in Seq(Frames)
        /\ \A i \in Slots : Ahead(i) \in 0 .. NRx - 1
    <3>1. dmaPos \in Slots /\ Count \in Nat /\ Oldest \in Slots /\ InRing \in Seq(Frames)
      BY AheadType, RingType DEF TypeOK
    <3>2. \A i \in Slots : Ahead(i) \in 0 .. NRx - 1
      BY AheadType
    <3>. QED
      BY <3>1, <3>2, RxAssumption DEF EngineNext
  <2>2. \A k \in 0 .. NRx : (Oldest + k) % NRx = IF Oldest + k < NRx THEN Oldest + k ELSE Oldest + k - NRx
    BY <2>1, Wrap
  <2>3. \A k \in 0 .. NRx - 1 : (Oldest + k) % NRx \in Slots /\ Ahead((Oldest + k) % NRx) = k
    BY <2>1, <2>2, RxAssumption DEF Slots, Ahead
  <2>4. \A i \in Slots : i = (Oldest + Ahead(i)) % NRx
    <3>. TAKE i \in Slots
    <3>1. (Oldest + Ahead(i)) % NRx \in Slots /\ Ahead((Oldest + Ahead(i)) % NRx) = Ahead(i)
      BY <2>1, <2>3
    <3>. QED
      BY <3>1, AheadType
  <2>5. Unread = {(Oldest + k) % NRx : k \in 0 .. Count - 1}
    <3>1. \A i \in Unread : Ahead(i) \in 0 .. Count - 1
      BY <2>1 DEF Unread, Window
    <3>2. \A k \in 0 .. Count - 1 : (Oldest + k) % NRx \in Unread
      BY <2>1, <2>3, RxAssumption DEF Unread, Window
    <3>. QED
      BY <2>4, <3>1, <3>2 DEF Unread
  <2>6. Cardinality(Unread) = Count
    BY <2>1, <2>5, CardinalityOfWindow
  <2>7. dmaPos = (Oldest + Count) % NRx
    <3>1. CASE Count < NRx
      BY <2>1, <2>4, <3>1 DEF EngineNext
    <3>2. CASE Count = NRx
      <4>1. (Oldest + NRx) % NRx = Oldest
        BY <2>1, <2>2, RxAssumption DEF Slots
      <4>. QED
        BY <3>2, <4>1, RxAssumption DEF EngineNext
    <3>. QED
      BY <2>1, <3>1, <3>2, RxAssumption
  <2>8. \A k \in 1 .. Count : content[(Oldest + k - 1) % NRx] = InRing[k]
    <3>. TAKE k \in 1 .. Count
    <3>1. k - 1 \in 0 .. NRx - 1 /\ Oldest + (k - 1) = Oldest + k - 1 /\ (k - 1) + 1 = k
      BY <2>1, RxAssumption DEF Slots
    <3>2. (Oldest + k - 1) % NRx \in Slots /\ Ahead((Oldest + k - 1) % NRx) = k - 1
      BY <2>3, <3>1
    <3>. QED
      BY <2>1, <3>1, <3>2 DEF InOrder
  <2>9. pc \in {"copy", "return"} => ~own[desc]
    <3>. SUFFICES ASSUME pc \in {"copy", "return"} PROVE ~own[desc]
      OBVIOUS
    <3>1. Oldest = desc /\ Count # 0
      BY <2>1, EmptySeq DEF Oldest, InRing, Count, Handling
    <3>. QED
      BY <2>1, <3>1, AheadType DEF Window
  <2>. QED
    BY <2>5, <2>6, <2>7, <2>8, <2>9 DEF RingInStep, Count
<1>. QED
  BY <1>1, Invariance, PTL

\* What reaches the stack are the frames that came in, whole, once and in order.
THEOREM Refinement == Spec => DeliversInOrder
<1>1. Init => Fifo!Init
  BY DEF Init, Fifo!Init
<1>2. IInv /\ [Next]_vars => [Fifo!Put \/ Fifo!Take \/ Fifo!GiveUp]_(Fifo!vars)
  <2>. SUFFICES ASSUME IInv, [Next]_vars
                PROVE  [Fifo!Put \/ Fifo!Take \/ Fifo!GiveUp]_(Fifo!vars)
    OBVIOUS
  <2>1. CASE UNCHANGED vars
    BY <2>1 DEF vars, cpuVars, Fifo!vars
  <2>2. CASE Input
    <3>1. arrived # <<>> /\ p \in {Nothing, Head(arrived)} /\ arrived' = Tail(arrived)
      BY <2>2 DEF IInv, Handling, Input
    <3>2. CASE p = Nothing
      BY <2>2, <3>1, <3>2 DEF Input, Fifo!GiveUp
    <3>3. CASE p # Nothing
      BY <2>2, <3>1, <3>3 DEF Input, Fifo!Take
    <3>. QED
      BY <3>2, <3>3
  <2>3. CASE \E f \in Frames : Store(f)
    BY <2>3 DEF Store, cpuVars, Fifo!Put
  <2>4. CASE HandlerEnters \/ RxPacket \/ Copy \/ NoPbuf \/ Return \/ Poll \/ Drained
             \/ ClearR \/ ClearNIS \/ Flush
    BY <2>4 DEF HandlerEnters, RxPacket, Copy, NoPbuf, Return, Poll, Drained, ClearR, ClearNIS,
                Flush, cpuVars, Fifo!vars
  <2>. QED
    BY <2>1, <2>2, <2>3, <2>4 DEF Next, Handler, Arrives
<1>. QED
  BY <1>1, <1>2, Invariance, PTL DEF Spec, DeliversInOrder, Fifo!LossySpec
=============================================================================
