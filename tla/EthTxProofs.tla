---------------------------- MODULE EthTxProofs ----------------------------
(***************************************************************************)
(* EthTx's safety for rings of every size and every set of frames, as long *)
(* as only the interrupt handlers send (~MainSends): RingInStep, and that  *)
(* what leaves is a TransmitFifo.  When the main program sends too, a      *)
(* handler can use the descriptor it has already checked, and the ring is  *)
(* out of step for good.                                                   *)
(*                                                                         *)
(* The ring is measured by Ahead, how far a descriptor is from the one the *)
(* engine is at; Wrap turns it back into the property's %.                 *)
(***************************************************************************)
EXTENDS EthTx, SequenceTheorems, TLAPS

\* How many steps of the ring lead from the engine's descriptor to i.
Ahead(i) == IF i >= dmaPos THEN i - dmaPos ELSE i - dmaPos + NTx

Count == Len(accepted)

\* The descriptor of the next frame: a handler about to move DMATxDescToSet on has
\* already given it away.
NextFree == IF pc["isr"] = "advance" THEN After(toSet) ELSE toSet

\* The engine's descriptors are the Count ones from where it is on ...
Window == \A i \in Slots : own[i] <=> Ahead(i) < Count

\* ... and hold the accepted frames in order; of the one on its way out the engine's
\* copy counts.
InOrder ==
    \A i \in Slots : Ahead(i) < Count =>
        IF i = dmaPos /\ reading # Nothing
        THEN accepted[1] = reading
        ELSE accepted[Ahead(i) + 1] = buffer[i]

\* The next free descriptor is behind the last of them; the engine's when the ring is full.
SenderNext ==
    IF Count < NTx THEN Ahead(NextFree) = Count ELSE Count = NTx /\ NextFree = dmaPos

\* What the one context that sends knows, and what the engine reads.
Sending ==
    /\ ~mainToSend /\ pc["main"] = "idle"
    /\ pc["isr"] # "idle" => desc["isr"] = toSet /\ frame["isr"] \in Frames
    /\ pc["isr"] \in {"check", "own"} => buffer[toSet] = frame["isr"]
    /\ pc["isr"] = "own" => ~own[toSet]
    /\ reading # Nothing => own[dmaPos]

IInv == TypeOK /\ Window /\ InOrder /\ SenderNext /\ Sending

-----------------------------------------------------------------------------
(* The ring. *)

\* What % does to a sum that is less than two rounds of the ring.
LEMMA Wrap ==
    ASSUME NEW i \in Slots, NEW k \in 0 .. NTx
    PROVE  (i + k) % NTx = IF i + k < NTx THEN i + k ELSE i + k - NTx
  BY TxAssumption DEF Slots

LEMMA AfterIs ==
    ASSUME NEW i \in Slots
    PROVE  After(i) = (IF i + 1 = NTx THEN 0 ELSE i + 1) /\ After(i) \in Slots
<1>1. (i + 1) % NTx = IF i + 1 < NTx THEN i + 1 ELSE i + 1 - NTx
  BY Wrap, TxAssumption
<1>. QED
  BY <1>1, TxAssumption DEF After, Slots

LEMMA AheadType ==
    ASSUME TypeOK
    PROVE  /\ \A i \in Slots : Ahead(i) \in 0 .. NTx - 1
           /\ \A i, j \in Slots : Ahead(i) = Ahead(j) => i = j
           /\ Ahead(dmaPos) = 0
           /\ Count \in Nat /\ NextFree \in Slots
<1>1. toSet \in Slots /\ dmaPos \in Slots /\ accepted \in Seq(Frames \cup {Torn})
  BY DEF TypeOK
<1>2. Count \in Nat
  BY <1>1, LenProperties DEF Count
<1>3. NextFree \in Slots
  BY <1>1, AfterIs DEF NextFree
<1>. QED
  BY <1>1, <1>2, <1>3, TxAssumption DEF Slots, Ahead

\* What SenderNext says of the descriptor of the next frame.
LEMMA NextFreeIs ==
    ASSUME IInv
    PROVE  /\ Count <= NTx
           /\ own[NextFree] => Count = NTx /\ NextFree = dmaPos
           /\ ~own[NextFree] => Count < NTx /\ Ahead(NextFree) = Count
<1>1. NextFree \in Slots /\ dmaPos \in Slots /\ Count \in Nat /\ Ahead(dmaPos) = 0
  BY AheadType DEF IInv, TypeOK
<1>2. own[NextFree] <=> Ahead(NextFree) < Count
  BY <1>1 DEF IInv, Window
<1>3. IF Count < NTx THEN Ahead(NextFree) = Count ELSE Count = NTx /\ NextFree = dmaPos
  BY DEF IInv, SenderNext
<1>. QED
  BY <1>1, <1>2, <1>3, TxAssumption

\* The next descriptor is one less ahead; the engine's own is the farthest.
LEMMA AheadTurns ==
    ASSUME NEW d \in Slots, NEW i \in Slots
    PROVE  LET ahead(e) == IF i >= e THEN i - e ELSE i - e + NTx
           IN  ahead(After(d)) = IF i = d THEN NTx - 1 ELSE ahead(d) - 1
  BY AfterIs, TxAssumption DEF Slots

-----------------------------------------------------------------------------
(* The inductive invariant. *)

LEMMA InitIInv == ~MainSends /\ Init => IInv
<1>. SUFFICES ASSUME ~MainSends, Init PROVE IInv
  OBVIOUS
<1>1. 0 \in Slots
  BY TxAssumption DEF Slots
<1>2. accepted = <<>> /\ Count = 0 /\ accepted \in Seq(Frames \cup {Torn})
  BY EmptySeq DEF Init, Count
<1>3. TypeOK
  BY <1>1, <1>2 DEF Init, TypeOK, Contexts
<1>4. \A i \in Slots : ~(Ahead(i) < Count)
  BY <1>2, <1>3, AheadType
<1>5. NextFree = dmaPos /\ Ahead(dmaPos) = 0
  BY <1>3, AheadType DEF NextFree, Init, Contexts
<1>6. Sending
  BY DEF Init, Sending, Contexts
<1>. QED
  BY <1>2, <1>3, <1>4, <1>5, <1>6, TxAssumption DEF IInv, Window, InOrder, SenderNext, Init

\* The main program does not send, so every step of a sender is a handler's.
LEMMA OnlyHandlers ==
    ASSUME IInv, NEW c \in Contexts, Send(c) \/ Step(c)
    PROVE  c = "isr"
<1>1. ~mainToSend /\ pc["main"] = "idle"
  BY DEF IInv, Sending
<1>. QED
  BY <1>1 DEF Contexts, Send, GetCurrentTxBuffer, Step, Copy, TxRefused, TxGranted, SetOwn, Advance

\* Steps that leave the ring and what is in it alone.
LEMMA RingKept ==
    ASSUME Window, InOrder, SenderNext,
           UNCHANGED <<own, buffer, dmaPos, reading, accepted>>, NextFree' = NextFree
    PROVE  Window' /\ InOrder' /\ SenderNext'
<1>1. Count' = Count /\ \A i : Ahead(i)' = Ahead(i)
  BY DEF Count, Ahead
<1>. QED
  BY <1>1 DEF Window, InOrder, SenderNext, Ahead

\* Steps of a handler that change no descriptor and no buffer, and steps of the engine
\* without a frame.
LEMMA QuietStep ==
    ASSUME IInv,
           \/ \E f \in Frames : GetCurrentTxBuffer("isr", f)
           \/ TxRefused("isr") \/ TxGranted("isr") \/ Advance("isr")
           \/ DmaFetchesFree \/ DmaSuspends
    PROVE  IInv'
<1>. USE DEF IInv
<1>1. UNCHANGED <<own, buffer, dmaPos, reading, accepted, wire>>
  BY DEF GetCurrentTxBuffer, TxRefused, TxGranted, Advance, DmaFetchesFree, DmaSuspends,
         cpuVars, dmaVars
<1>2. /\ toSet \in Slots /\ frame \in [Contexts -> Frames \cup {Nothing}]
      /\ desc \in [Contexts -> Slots] /\ "isr" \in Contexts /\ "main" \in Contexts
      /\ pc \in [Contexts -> {"idle", "copy", "check", "own", "advance"}]
  BY DEF TypeOK, Contexts
<1>3. CASE Advance("isr")
  <2>1. /\ pc["isr"] = "advance" /\ desc["isr"] = toSet
        /\ toSet' = After(toSet) /\ pc' = [pc EXCEPT !["isr"] = "idle"]
        /\ UNCHANGED <<frame, desc, mainToSend>>
    BY <1>3 DEF Advance, Current, Sending
  <2>2. tbus' \in BOOLEAN /\ dma' \in {"run", "stopping", "suspended"}
    BY <1>3 DEF Advance, Resume, TypeOK
  <2>3. TypeOK'
    BY <1>1, <1>2, <2>1, <2>2, AfterIs DEF TypeOK
  <2>4. NextFree' = NextFree
    BY <1>2, <2>1 DEF NextFree
  <2>5. Sending'
    BY <1>1, <1>2, <2>1 DEF Sending
  <2>. QED
    BY <1>1, <2>3, <2>4, <2>5, RingKept
<1>4. CASE \E f \in Frames : GetCurrentTxBuffer("isr", f)
  <2>1. PICK f \in Frames : GetCurrentTxBuffer("isr", f)
    BY <1>4
  <2>2. /\ frame' = [frame EXCEPT !["isr"] = f] /\ desc' = [desc EXCEPT !["isr"] = toSet]
        /\ pc["isr"] = "idle" /\ pc' = [pc EXCEPT !["isr"] = "copy"]
        /\ mainToSend' = FALSE /\ UNCHANGED <<toSet, dma, tbus>>
    BY <2>1 DEF GetCurrentTxBuffer, dmaVars, Sending
  <2>3. TypeOK'
    <3>1. /\ frame' \in [Contexts -> Frames \cup {Nothing}] /\ desc' \in [Contexts -> Slots]
          /\ pc' \in [Contexts -> {"idle", "copy", "check", "own", "advance"}]
      BY <1>2, <2>2
    <3>. QED
      BY <1>1, <2>2, <3>1 DEF TypeOK
  <2>4. NextFree' = NextFree
    BY <1>2, <2>2 DEF NextFree
  <2>5. Sending'
    BY <1>1, <1>2, <2>2 DEF Sending
  <2>. QED
    BY <1>1, <2>3, <2>4, <2>5, RingKept
<1>5. CASE TxRefused("isr") \/ TxGranted("isr")
  <2>1. /\ pc["isr"] = "check" /\ desc["isr"] = toSet
        /\ \/ pc' = [pc EXCEPT !["isr"] = "idle"] /\ desc' = desc
           \/ pc' = [pc EXCEPT !["isr"] = "own"] /\ ~own[toSet] /\ desc' = [desc EXCEPT !["isr"] = toSet]
        /\ UNCHANGED <<frame, toSet, mainToSend, dma, tbus>>
    BY <1>5 DEF TxRefused, TxGranted, dmaVars, Sending
  <2>2. desc' = desc
    BY <1>2, <2>1
  <2>3. TypeOK'
    BY <1>1, <1>2, <2>1, <2>2 DEF TypeOK
  <2>4. NextFree' = NextFree
    BY <1>2, <2>1 DEF NextFree
  <2>5. Sending'
    BY <1>1, <1>2, <2>1, <2>2 DEF Sending
  <2>. QED
    BY <1>1, <2>3, <2>4, <2>5, RingKept
<1>6. CASE DmaFetchesFree \/ DmaSuspends
  <2>1. UNCHANGED cpuVars /\ tbus' \in BOOLEAN /\ dma' \in {"run", "stopping", "suspended"}
    BY <1>6 DEF DmaFetchesFree, DmaSuspends, TypeOK
  <2>2. TypeOK' /\ Sending' /\ NextFree' = NextFree
    BY <1>1, <2>1 DEF TypeOK, Sending, NextFree, cpuVars, After
  <2>. QED
    BY <1>1, <2>2, RingKept
<1>. QED
  BY <1>3, <1>4, <1>5, <1>6

\* The frame is copied into a buffer of the CPU's, or over the oldest frame of a full ring.
LEMMA CopyStep ==
    ASSUME IInv, Copy("isr")
    PROVE  IInv'
<1>. USE DEF IInv
<1>1. /\ desc["isr"] = toSet /\ frame["isr"] \in Frames
      /\ pc["isr"] = "copy" /\ pc' = [pc EXCEPT !["isr"] = "check"]
      /\ buffer' = [buffer EXCEPT ![toSet] = frame["isr"]]
      /\ UNCHANGED <<own, toSet, frame, desc, mainToSend, dma, dmaPos, tbus, wire>>
  BY DEF Copy, Sending
<1>2. /\ toSet \in Slots /\ dmaPos \in Slots /\ "isr" \in Contexts /\ "main" \in Contexts
      /\ pc \in [Contexts -> {"idle", "copy", "check", "own", "advance"}]
      /\ buffer \in [Slots -> Frames \cup {Nothing}]
      /\ reading \in Frames \cup {Nothing, Torn} /\ accepted \in Seq(Frames \cup {Torn})
  BY DEF TypeOK, Contexts
<1>3. NextFree = toSet /\ NextFree' = NextFree
  BY <1>1, <1>2 DEF NextFree
<1>4. \A i : Ahead(i)' = Ahead(i)
  BY <1>1 DEF Ahead
<1>5. /\ \A i \in Slots : Ahead(i) \in 0 .. NTx - 1 /\ (i # toSet => Ahead(i) # Ahead(toSet))
      /\ Ahead(dmaPos) = 0 /\ Count \in Nat
  BY <1>2, AheadType
<1>6. CASE own[toSet]
  <2>1. toSet = dmaPos /\ Count = NTx
    BY <1>3, <1>6, NextFreeIs
  <2>. DEFINE x == Overwritten("isr")
  <2>2. /\ accepted' = [accepted EXCEPT ![1] = x]
        /\ reading' = IF reading = Nothing THEN Nothing ELSE x
    BY <1>1, <1>6, <2>1 DEF Copy
  <2>3. x \in Frames \cup {Torn} /\ x # Nothing /\ (reading = Nothing => x = frame["isr"])
    BY <1>1, TxAssumption DEF Overwritten
  <2>. HIDE DEF x
  <2>4. /\ accepted' \in Seq(Frames \cup {Torn}) /\ Count' = Count
        /\ \A k \in 1 .. Count : accepted'[k] = IF k = 1 THEN x ELSE accepted[k]
    <3>1. 1 \in 1 .. Len(accepted)
      BY <2>1, TxAssumption DEF Count
    <3>. QED
      BY <1>2, <2>2, <2>3, <3>1, ExceptSeq DEF Count
  <2>5. InOrder'
    <3>. SUFFICES ASSUME NEW i \in Slots, Ahead(i) < Count
                  PROVE  IF i = dmaPos /\ reading' # Nothing
                         THEN accepted'[1] = reading'
                         ELSE accepted'[Ahead(i) + 1] = buffer'[i]
      BY <1>1, <1>4, <2>4 DEF InOrder
    <3>1. Ahead(i) + 1 \in 1 .. Count /\ 1 \in 1 .. Count
      BY <1>5, <2>1, TxAssumption
    <3>2. CASE i = dmaPos
      <4>1. accepted'[1] = x /\ buffer'[i] = frame["isr"] /\ Ahead(i) + 1 = 1
        BY <1>1, <1>2, <1>5, <2>1, <2>4, <3>1, <3>2
      <4>. QED
        BY <2>2, <2>3, <3>2, <4>1
    <3>3. CASE i # dmaPos
      <4>1. Ahead(i) + 1 # 1 /\ buffer'[i] = buffer[i]
        BY <1>1, <1>2, <1>5, <2>1, <3>3
      <4>2. accepted'[Ahead(i) + 1] = accepted[Ahead(i) + 1]
        BY <2>4, <3>1, <4>1
      <4>. QED
        BY <3>3, <4>1, <4>2 DEF InOrder
    <3>. QED
      BY <3>2, <3>3
  <2>6. Window' /\ SenderNext'
    BY <1>1, <1>3, <1>4, <2>4 DEF Window, SenderNext, Ahead
  <2>7. reading' \in Frames \cup {Nothing, Torn} /\ (reading' # Nothing => own[dmaPos])
    BY <1>6, <2>1, <2>2, <2>3
  <2>8. TypeOK'
    BY <1>1, <1>2, <2>4, <2>7 DEF TypeOK
  <2>9. Sending'
    BY <1>1, <1>2, <2>7 DEF Sending
  <2>. QED
    BY <2>5, <2>6, <2>8, <2>9
<1>7. CASE ~own[toSet]
  <2>1. UNCHANGED <<accepted, reading>> /\ Count' = Count
    BY <1>1, <1>7 DEF Copy, Count
  <2>2. Ahead(toSet) = Count
    BY <1>3, <1>7, NextFreeIs
  <2>3. InOrder'
    BY <1>1, <1>2, <1>4, <2>1, <2>2, <1>5 DEF InOrder
  <2>4. Window' /\ SenderNext'
    BY <1>1, <1>3, <1>4, <2>1 DEF Window, SenderNext, Ahead
  <2>5. TypeOK' /\ Sending'
    BY <1>1, <1>2, <2>1 DEF TypeOK, Sending
  <2>. QED
    BY <2>3, <2>4, <2>5
<1>. QED
  BY <1>6, <1>7

\* ETH_Prepare_Transmit_Descriptors' OWN bit: one more frame behind the others.
LEMMA SetOwnStep ==
    ASSUME IInv, SetOwn("isr")
    PROVE  IInv'
<1>. USE DEF IInv
<1>1. /\ desc["isr"] = toSet /\ frame["isr"] \in Frames
      /\ buffer[toSet] = frame["isr"] /\ ~own[toSet]
      /\ pc["isr"] = "own" /\ pc' = [pc EXCEPT !["isr"] = "advance"]
      /\ own' = [own EXCEPT ![toSet] = TRUE]
      /\ desc' = [desc EXCEPT !["isr"] = toSet]
      /\ accepted' = Append(accepted, frame["isr"])
      /\ UNCHANGED <<buffer, toSet, frame, mainToSend, dma, dmaPos, reading, tbus, wire>>
  BY DEF SetOwn, Sending, Current, dmaVars
<1>2. /\ toSet \in Slots /\ dmaPos \in Slots /\ "isr" \in Contexts /\ "main" \in Contexts
      /\ pc \in [Contexts -> {"idle", "copy", "check", "own", "advance"}]
      /\ own \in [Slots -> BOOLEAN] /\ desc \in [Contexts -> Slots]
      /\ accepted \in Seq(Frames \cup {Torn})
  BY DEF TypeOK, Contexts
<1>3. NextFree = toSet /\ NextFree' = After(toSet)
  BY <1>1, <1>2 DEF NextFree
<1>4. \A i : Ahead(i)' = Ahead(i)
  BY <1>1 DEF Ahead
<1>5. /\ \A i \in Slots : Ahead(i) \in 0 .. NTx - 1 /\ (i # toSet => Ahead(i) # Ahead(toSet))
      /\ Ahead(dmaPos) = 0 /\ Count \in Nat
  BY <1>2, AheadType
<1>6. Count < NTx /\ Ahead(toSet) = Count
  BY <1>1, <1>3, NextFreeIs
<1>7. /\ accepted' \in Seq(Frames \cup {Torn}) /\ Count' = Count + 1
      /\ accepted'[Count + 1] = frame["isr"]
      /\ \A k \in 1 .. Count : accepted'[k] = accepted[k]
  BY <1>1, <1>2, AppendProperties DEF Count
<1>8. TypeOK'
  BY <1>1, <1>2, <1>7 DEF TypeOK
<1>9. Window'
  BY <1>1, <1>2, <1>4, <1>5, <1>6, <1>7 DEF Window
<1>10. InOrder'
  <2>. SUFFICES ASSUME NEW i \in Slots, Ahead(i) < Count + 1
                PROVE  IF i = dmaPos /\ reading # Nothing
                       THEN accepted'[1] = reading
                       ELSE accepted'[Ahead(i) + 1] = buffer[i]
    BY <1>1, <1>4, <1>7 DEF InOrder
  <2>1. CASE i = toSet
    <3>1. ~(i = dmaPos /\ reading # Nothing)
      BY <1>1, <2>1 DEF Sending
    <3>. QED
      BY <1>1, <1>6, <1>7, <2>1, <3>1
  <2>2. CASE i # toSet
    <3>1. Ahead(i) < Count /\ Ahead(i) + 1 \in 1 .. Count /\ 1 \in 1 .. Count
      BY <1>5, <1>6, <2>2
    <3>. QED
      BY <1>7, <3>1 DEF InOrder
  <2>. QED
    BY <2>1, <2>2
<1>11. SenderNext'
  <2>1. /\ After(toSet) \in Slots
        /\ After(toSet) = IF toSet + 1 = NTx THEN 0 ELSE toSet + 1
    BY <1>2, AfterIs
  <2>. DEFINE i == After(toSet)
  <2>2. /\ i = IF toSet + 1 = NTx THEN 0 ELSE toSet + 1
        /\ Count = IF toSet >= dmaPos THEN toSet - dmaPos ELSE toSet - dmaPos + NTx
        /\ Ahead(i) = IF i >= dmaPos THEN i - dmaPos ELSE i - dmaPos + NTx
    BY <1>6, <2>1 DEF Ahead
  <2>. HIDE DEF i
  <2>3. /\ Count + 1 < NTx => Ahead(i) = Count + 1
        /\ Count + 1 = NTx => i = dmaPos
    <3>1. /\ NTx \in Nat \ {0} /\ toSet \in 0 .. NTx - 1 /\ dmaPos \in 0 .. NTx - 1
          /\ Count \in Nat /\ Count < NTx
      BY <1>2, <1>5, <1>6, TxAssumption DEF Slots
    <3>2. CASE toSet + 1 = NTx
      BY <2>2, <3>1, <3>2
    <3>3. CASE toSet + 1 # NTx
      BY <2>2, <3>1, <3>3
    <3>. QED
      BY <3>2, <3>3
  <2>. QED
    BY <1>1, <1>3, <1>4, <1>5, <1>6, <1>7, <2>3, TxAssumption DEF SenderNext, i
<1>12. Sending'
  BY <1>1, <1>2 DEF Sending
<1>. QED
  BY <1>8, <1>9, <1>10, <1>11, <1>12

\* The engine reads the oldest frame.
LEMMA DmaStartStep ==
    ASSUME IInv, DmaStart
    PROVE  IInv'
<1>. USE DEF IInv
<1>1. /\ reading = Nothing /\ own[dmaPos] /\ reading' = buffer[dmaPos]
      /\ UNCHANGED <<own, buffer, cpuVars, dma, dmaPos, tbus, accepted, wire>>
  BY DEF DmaStart
<1>2. dmaPos \in Slots /\ buffer \in [Slots -> Frames \cup {Nothing}]
      /\ accepted \in Seq(Frames \cup {Torn})
  BY DEF TypeOK
<1>3. /\ NextFree' = NextFree /\ Count' = Count /\ \A i : Ahead(i)' = Ahead(i)
  BY <1>1 DEF NextFree, Count, Ahead, cpuVars, After
<1>4. Ahead(dmaPos) = 0 /\ 0 < Count /\ Count \in Nat
  BY <1>1, <1>2, AheadType DEF Window
<1>5. accepted[1] = buffer[dmaPos] /\ accepted[1] \in Frames \cup {Torn}
  <2>1. accepted[Ahead(dmaPos) + 1] = buffer[dmaPos]
    BY <1>1, <1>2, <1>4 DEF InOrder
  <2>2. 1 \in 1 .. Len(accepted)
    BY <1>4 DEF Count
  <2>. QED
    BY <1>2, <1>4, <2>1, <2>2, ElementOfSeq
<1>6. TypeOK'
  BY <1>1, <1>2 DEF TypeOK, cpuVars
<1>7. InOrder'
  BY <1>1, <1>3, <1>5 DEF InOrder
<1>8. Window' /\ SenderNext'
  BY <1>1, <1>3 DEF Window, SenderNext, Ahead
<1>9. Sending'
  BY <1>1 DEF Sending, cpuVars
<1>. QED
  BY <1>6, <1>7, <1>8, <1>9

\* The oldest frame has left, and its descriptor is the CPU's.
LEMMA DmaFinishStep ==
    ASSUME IInv, DmaFinish
    PROVE  /\ IInv'
           /\ accepted # <<>> /\ wire' = Head(accepted) /\ accepted' = Tail(accepted)
<1>. USE DEF IInv
<1>1. /\ reading # Nothing /\ own[dmaPos] /\ wire' = reading /\ reading' = Nothing
      /\ own' = [own EXCEPT ![dmaPos] = FALSE] /\ dmaPos' = After(dmaPos)
      /\ UNCHANGED <<buffer, toSet, pc, frame, desc, mainToSend, dma, tbus>>
  BY DEF DmaFinish, Sending, cpuVars
<1>2. /\ dmaPos \in Slots /\ own \in [Slots -> BOOLEAN] /\ accepted \in Seq(Frames \cup {Torn})
      /\ toSet \in Slots
  BY DEF TypeOK
<1>3. /\ \A i \in Slots : Ahead(i) \in 0 .. NTx - 1 /\ (i # dmaPos => Ahead(i) # 0)
      /\ Ahead(dmaPos) = 0 /\ 0 < Count /\ Count \in Nat /\ Count <= NTx
      /\ NextFree \in Slots
  <2>1. Ahead(dmaPos) = 0 /\ 0 < Count
    BY <1>1, <1>2, AheadType DEF Window
  <2>2. \A i \in Slots : Ahead(i) \in 0 .. NTx - 1 /\ (i # dmaPos => Ahead(i) # 0)
    BY <1>2, <2>1, AheadType
  <2>. QED
    BY <2>1, <2>2, AheadType, NextFreeIs
<1>4. accepted # <<>>
  BY <1>3, EmptySeq DEF Count
<1>5. /\ accepted' = Tail(accepted) /\ accepted' \in Seq(Frames \cup {Torn})
      /\ Count' = Count - 1
      /\ \A k \in 1 .. Count - 1 : accepted'[k] = accepted[k + 1]
  <2>1. accepted' = Tail(accepted)
    BY <1>4 DEF DmaFinish
  <2>. QED
    BY <1>2, <1>4, <2>1, HeadTailProperties DEF Count
<1>6. wire' = Head(accepted)
  <2>1. accepted[1] = reading
    BY <1>1, <1>2, <1>3 DEF InOrder
  <2>. QED
    BY <1>1, <2>1
<1>7. \A i \in Slots : Ahead(i)' = IF i = dmaPos THEN NTx - 1 ELSE Ahead(i) - 1
  BY <1>1, <1>2, AheadTurns DEF Ahead
<1>8. NextFree' = NextFree
  BY <1>1 DEF NextFree, After
<1>9. TypeOK'
  BY <1>1, <1>2, <1>5, AfterIs DEF TypeOK
<1>10. Window'
  <2>. SUFFICES ASSUME NEW i \in Slots PROVE own'[i] <=> Ahead(i)' < Count'
    BY DEF Window
  <2>1. CASE i = dmaPos
    BY <1>1, <1>2, <1>3, <1>5, <1>7, <2>1, TxAssumption
  <2>2. CASE i # dmaPos
    <3>1. Ahead(i)' = Ahead(i) - 1 /\ own'[i] = own[i] /\ Ahead(i) \in 0 .. NTx - 1
      BY <1>1, <1>2, <1>3, <1>7, <2>2
    <3>. QED
      BY <1>3, <1>5, <3>1, TxAssumption DEF Window
  <2>. QED
    BY <2>1, <2>2
<1>11. InOrder'
  <2>. SUFFICES ASSUME NEW i \in Slots, Ahead(i)' < Count'
                PROVE  accepted'[Ahead(i)' + 1] = buffer[i]
    BY <1>1 DEF InOrder
  <2>1. i # dmaPos
    BY <1>3, <1>5, <1>7, TxAssumption
  <2>2. Ahead(i) \in 1 .. Count - 1 /\ Ahead(i)' + 1 = Ahead(i)
    BY <1>3, <1>5, <1>7, <2>1, TxAssumption
  <2>3. accepted[Ahead(i) + 1] = buffer[i]
    BY <2>1, <2>2, <1>3 DEF InOrder
  <2>. QED
    BY <1>5, <2>2, <2>3
<1>12. SenderNext'
  <2>1. NextFree = dmaPos => Count = NTx
    BY <1>1, <1>3, NextFreeIs
  <2>2. NextFree # dmaPos => Count < NTx /\ Ahead(NextFree) = Count
    BY NextFreeIs
  <2>3. Ahead(NextFree)' = Count'
    <3>1. \A i \in Slots : i = NextFree => Ahead(i)' = Count'
      BY <1>3, <1>5, <1>7, <2>1, <2>2, TxAssumption
    <3>. QED
      BY <1>1, <1>3, <1>8, <3>1 DEF Ahead
  <2>. QED
    BY <1>3, <1>5, <2>3, TxAssumption DEF SenderNext
<1>13. Sending'
  <2>1. ~own[toSet] => ~own'[toSet]
    BY <1>1, <1>2
  <2>. QED
    BY <1>1, <2>1 DEF Sending
<1>. QED
  BY <1>4, <1>5, <1>6, <1>9, <1>10, <1>11, <1>12, <1>13

LEMMA StepIInv == IInv /\ [Next]_vars => IInv'
<1>. SUFFICES ASSUME IInv, [Next]_vars PROVE IInv'
  OBVIOUS
<1>1. CASE UNCHANGED vars
  <2>1. /\ UNCHANGED <<own, buffer, dmaPos, reading, accepted>> /\ NextFree' = NextFree
        /\ TypeOK' /\ Sending'
    BY <1>1 DEF vars, cpuVars, dmaVars, NextFree, IInv, TypeOK, Sending, After
  <2>. QED
    BY <2>1, RingKept DEF IInv
<1>2. CASE Dma
  BY <1>2, DmaStartStep, DmaFinishStep, QuietStep DEF Dma
<1>3. ASSUME NEW c \in Contexts, Send(c) \/ Step(c) PROVE IInv'
  <2>1. Send("isr") \/ Step("isr")
    BY <1>3, OnlyHandlers
  <2>. QED
    BY <2>1, QuietStep, CopyStep, SetOwnStep DEF Send, Step
<1>. QED
  BY <1>1, <1>2, <1>3 DEF Next

\* Replacing the oldest frame, as the abstract queue says it.
LEMMA Overwriting ==
    ASSUME TypeOK, Count = NTx, NEW x \in Frames \cup {Torn}
    PROVE  [accepted EXCEPT ![1] = x] = <<x>> \o Tail(accepted)
<1>. DEFINE S == Frames \cup {Torn}
            s == [accepted EXCEPT ![1] = x]
            t == <<x>> \o Tail(accepted)
<1>1. accepted \in Seq(S) /\ accepted # <<>> /\ 1 \in 1 .. Len(accepted)
  BY TxAssumption, EmptySeq DEF TypeOK, Count
<1>2. /\ s \in Seq(S) /\ Len(s) = Len(accepted)
      /\ \A j \in 1 .. Len(accepted) : s[j] = IF j = 1 THEN x ELSE accepted[j]
  BY <1>1, ExceptSeq
<1>3. /\ Tail(accepted) \in Seq(S) /\ Len(Tail(accepted)) = Len(accepted) - 1
      /\ \A i \in 1 .. Len(accepted) - 1 : Tail(accepted)[i] = accepted[i + 1]
  BY <1>1, HeadTailProperties
<1>4. <<x>> \in Seq(S) /\ Len(<<x>>) = 1 /\ <<x>>[1] = x
  OBVIOUS
<1>5. /\ t \in Seq(S) /\ Len(t) = Len(accepted)
      /\ \A j \in 1 .. Len(accepted) : t[j] = IF j = 1 THEN x ELSE accepted[j]
  <2>1. /\ t \in Seq(S) /\ Len(t) = 1 + (Len(accepted) - 1)
        /\ \A j \in 1 .. 1 + (Len(accepted) - 1) :
              t[j] = IF j <= 1 THEN <<x>>[j] ELSE Tail(accepted)[j - 1]
    BY <1>3, <1>4, ConcatProperties
  <2>2. Len(accepted) \in Nat
    BY <1>1, LenProperties
  <2>. HIDE DEF t
  <2>. QED
    BY <1>3, <1>4, <2>1, <2>2
<1>. HIDE DEF s, t, S
<1>6. \A j \in 1 .. Len(s) : s[j] = t[j]
  BY <1>2, <1>5
<1>7. s = t
  BY <1>2, <1>5, <1>6, SeqEqual
<1>. QED
  BY <1>7 DEF s, t

-----------------------------------------------------------------------------
(* The theorems. *)

\* In every reachable state the ring is a window of full descriptors from the engine on.
THEOREM Invariance == ~MainSends => (Spec => []IInv)
<1>1. ASSUME ~MainSends PROVE Spec => []IInv
  <2>1. Init => IInv
    BY <1>1, InitIInv
  <2>. QED
    BY <2>1, StepIInv, PTL DEF Spec
<1>. QED
  BY <1>1

\* Between two calls of low_level_output, DMATxDescToSet, the OWN bits and the frames
\* accepted and not yet out agree (lan8720.c).
THEOREM InStep == ~MainSends => (Spec => []RingInStep)
<1>1. IInv => RingInStep
  <2>. SUFFICES ASSUME IInv PROVE RingInStep
    OBVIOUS
  <2>. USE DEF IInv
  <2>1. /\ dmaPos \in Slots /\ toSet \in Slots /\ Count \in 0 .. NTx
        /\ own \in [Slots -> BOOLEAN]
        /\ \A i \in Slots : Ahead(i) \in 0 .. NTx - 1
    BY AheadType, NextFreeIs, TxAssumption DEF TypeOK
  <2>2. \A k \in 0 .. NTx : (dmaPos + k) % NTx = IF dmaPos + k < NTx THEN dmaPos + k ELSE dmaPos + k - NTx
    BY <2>1, Wrap
  <2>3. \A k \in 0 .. NTx - 1 : (dmaPos + k) % NTx \in Slots /\ Ahead((dmaPos + k) % NTx) = k
    BY <2>1, <2>2, TxAssumption DEF Slots, Ahead
  <2>4. \A i \in Slots : i = (dmaPos + Ahead(i)) % NTx
    <3>. TAKE i \in Slots
    <3>1. (dmaPos + Ahead(i)) % NTx \in Slots /\ Ahead((dmaPos + Ahead(i)) % NTx) = Ahead(i)
      BY <2>1, <2>3
    <3>. QED
      BY <3>1, AheadType
  <2>5. {i \in Slots : own[i]} = {(dmaPos + k) % NTx : k \in 0 .. Count - 1}
    <3>1. \A i \in {j \in Slots : own[j]} : Ahead(i) \in 0 .. Count - 1
      BY <2>1 DEF Window
    <3>2. \A k \in 0 .. Count - 1 : (dmaPos + k) % NTx \in {i \in Slots : own[i]}
      BY <2>1, <2>3, TxAssumption DEF Window
    <3>. QED
      BY <2>4, <3>1, <3>2
  <2>6. (\A c \in Contexts : pc[c] = "idle") => toSet = (dmaPos + Count) % NTx
    <3>. SUFFICES ASSUME \A c \in Contexts : pc[c] = "idle"
                  PROVE  toSet = (dmaPos + Count) % NTx
      OBVIOUS
    <3>1. NextFree = toSet
      BY DEF NextFree, Contexts
    <3>2. CASE Count < NTx
      BY <2>1, <2>4, <3>1, <3>2 DEF SenderNext
    <3>3. CASE Count = NTx
      <4>1. (dmaPos + NTx) % NTx = dmaPos
        BY <2>1, <2>2, TxAssumption DEF Slots
      <4>. QED
        BY <3>1, <3>3, <4>1, TxAssumption DEF SenderNext
    <3>. QED
      BY <2>1, <3>2, <3>3, TxAssumption
  <2>. QED
    BY <2>5, <2>6 DEF RingInStep, Count
<1>. QED
  BY <1>1, Invariance, PTL

\* Every frame answered ETH_SUCCESS leaves whole, once and in order, but for what copying
\* a frame onto a full ring does: it takes the place of the oldest, whether the send is
\* refused after that or, OWN having been cleared meanwhile, granted for a second copy.
THEOREM Refinement == ~MainSends => (Spec => SendsInOrder)
<1>1. Init => Fifo!Init
  BY DEF Init, Fifo!Init
<1>2. IInv /\ [Next]_vars => [Fifo!Put \/ Fifo!Take \/ Fifo!Replace]_(Fifo!vars)
  <2>. SUFFICES ASSUME IInv, [Next]_vars
                PROVE  [Fifo!Put \/ Fifo!Take \/ Fifo!Replace]_(Fifo!vars)
    OBVIOUS
  <2>1. CASE UNCHANGED vars
    BY <2>1 DEF vars, Fifo!vars
  <2>2. CASE DmaFinish
    BY <2>2, DmaFinishStep DEF Fifo!Take
  <2>3. CASE DmaStart \/ DmaFetchesFree \/ DmaSuspends
    BY <2>3 DEF DmaStart, DmaFetchesFree, DmaSuspends, Fifo!vars
  <2>4. ASSUME NEW c \in Contexts, Send(c) \/ Step(c)
        PROVE  [Fifo!Put \/ Fifo!Take \/ Fifo!Replace]_(Fifo!vars)
    <3>1. c = "isr"
      BY <2>4, OnlyHandlers
    <3>2. CASE SetOwn("isr")
      <4>1. frame["isr"] \in Frames
        BY <3>2 DEF SetOwn, IInv, Sending
      <4>. QED
        BY <3>2, <4>1 DEF SetOwn, Fifo!Put
    <3>3. CASE Copy("isr")
      <4>1. wire' = wire /\ desc["isr"] = toSet /\ frame["isr"] \in Frames /\ pc["isr"] = "copy"
        BY <3>3 DEF Copy, IInv, Sending
      <4>2. CASE own[toSet] /\ toSet = dmaPos
        <5>1. Count = NTx
          BY <4>1, <4>2, NextFreeIs DEF NextFree
        <5>. DEFINE x == Overwritten("isr")
        <5>2. accepted' = [accepted EXCEPT ![1] = x]
          BY <3>3, <4>1, <4>2 DEF Copy
        <5>3. x \in Frames \cup {Torn}
          BY <4>1 DEF Overwritten
        <5>. HIDE DEF x
        <5>4. accepted' = <<x>> \o Tail(accepted)
          BY <5>1, <5>2, <5>3, Overwriting DEF IInv
        <5>. QED
          BY <4>1, <5>1, <5>3, <5>4 DEF Fifo!Replace, Count
      <4>3. CASE ~(own[toSet] /\ toSet = dmaPos)
        BY <3>3, <4>1, <4>3 DEF Copy, Fifo!vars
      <4>. QED
        BY <4>2, <4>3
    <3>4. CASE Send("isr") \/ TxRefused("isr") \/ TxGranted("isr") \/ Advance("isr")
      BY <3>4 DEF Send, GetCurrentTxBuffer, TxRefused, TxGranted, Advance, Fifo!vars
    <3>. QED
      BY <2>4, <3>1, <3>2, <3>3, <3>4 DEF Step
  <2>. QED
    BY <2>1, <2>2, <2>3, <2>4 DEF Next, Dma
<1>. QED
  BY <1>1, <1>2, Invariance, PTL DEF Spec, SendsInOrder, Fifo!ReplacingSpec
=============================================================================
