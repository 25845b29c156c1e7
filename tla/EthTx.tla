------------------------------- MODULE EthTx -------------------------------
(***************************************************************************)
(* Sending an Ethernet frame: low_level_output (ethernetif.c) and          *)
(* ETH_Tx_Packet (lan8720.c) over the ring of NTx transmit descriptors     *)
(* that the Ethernet DMA engine serves at the same time.                   *)
(*                                                                         *)
(* Two contexts run low_level_output.  The interrupt context (the Ethernet *)
(* handler answering ARP and ICMP and, once the recorders run, the I2S DMA *)
(* handlers streaming audio: equal preemption priority, so one after the   *)
(* other) preempts the main program anywhere; main sends one frame, the    *)
(* gratuitous ARP of netif_set_up.  The DMA engine interleaves with both.  *)
(***************************************************************************)
EXTENDS Integers, Sequences, FiniteSets

CONSTANTS
    NTx,            \* ETH_TXBUFNB
    Frames,         \* contents of frames
    Nothing,        \* an empty buffer, no frame
    Torn,           \* what leaves when a buffer changes while the DMA reads it
    MainSends       \* TRUE: the main program sends too

Slots == 0 .. NTx - 1

ASSUME TxAssumption ==
    /\ NTx \in Nat \ {0}
    /\ MainSends \in BOOLEAN
    /\ Nothing \notin Frames
    /\ Torn \notin Frames \cup {Nothing}

Contexts == {"main", "isr"}

VARIABLES
    own,        \* OWN bit of each descriptor: TRUE, the DMA may read the buffer
    buffer,     \* content of each descriptor's buffer
    toSet,      \* DMATxDescToSet
    pc,         \* where each context is in low_level_output
    frame,      \* the pbuf chain it was called with
    desc,       \* the descriptor it works on: ETH_GetCurrentTxBuffer, then ETH_Tx_Packet
    mainToSend, \* the main program has yet to send its frame
    dma,        \* the transmit engine: "run", "stopping", "suspended"
    dmaPos,     \* the descriptor it is at
    reading,    \* the frame it is reading
    tbus,       \* ETH_DMASR_TBUS, transmit buffer unavailable
    accepted,   \* frames ETH_Tx_Packet took (ETH_SUCCESS), not yet on the wire; the
                \* oldest as it is after a frame was copied onto a full ring
    wire        \* the frame that left last

cpuVars == <<toSet, pc, frame, desc, mainToSend>>
dmaVars == <<dma, dmaPos, reading>>
vars == <<own, buffer, cpuVars, dmaVars, tbus, accepted, wire>>

\* Buffer2NextDescAddr: the descriptors are chained into a ring.
After(i) == (i + 1) % NTx

-----------------------------------------------------------------------------
(* The CPU. *)

Init ==
    /\ own = [i \in Slots |-> FALSE]
    /\ buffer = [i \in Slots |-> Nothing]
    /\ toSet = 0
    /\ pc = [c \in Contexts |-> "idle"]
    /\ frame = [c \in Contexts |-> Nothing]
    /\ desc = [c \in Contexts |-> 0]
    /\ mainToSend = MainSends
    /\ dma = "run" /\ dmaPos = 0 /\ reading = Nothing
    /\ tbus = FALSE
    /\ accepted = <<>>
    /\ wire = Nothing

\* The main program runs only while no interrupt handler does.
Running(c) == c = "main" => pc["isr"] = "idle"

\* low_level_output is called and asks for the current buffer, also when the ring is
\* full.  Bound: no call starts in the few bus cycles the engine needs to suspend (a
\* call under way may be in any step then).
GetCurrentTxBuffer(c, f) ==
    /\ pc[c] = "idle" /\ Running(c)
    /\ c = "main" => mainToSend
    /\ dma # "stopping"
    /\ frame' = [frame EXCEPT ![c] = f]
    /\ desc' = [desc EXCEPT ![c] = toSet]
    /\ pc' = [pc EXCEPT ![c] = "copy"]
    /\ mainToSend' = (mainToSend /\ c # "main")
    /\ UNCHANGED <<own, buffer, toSet, dmaVars, tbus, accepted, wire>>

\* What becomes of a frame in the ring when another is copied over it.
Overwritten(c) == IF reading \in {Nothing, frame[c]} THEN frame[c] ELSE Torn

\* The frame is copied into the buffer; whose descriptor it is has not been looked at.
Copy(c) ==
    /\ pc[c] = "copy" /\ Running(c)
    /\ buffer' = [buffer EXCEPT ![desc[c]] = frame[c]]
    /\ IF own[desc[c]] /\ desc[c] = dmaPos
       THEN /\ accepted' = [accepted EXCEPT ![1] = Overwritten(c)]
            /\ reading' = IF reading = Nothing THEN Nothing ELSE Overwritten(c)
       ELSE UNCHANGED <<accepted, reading>>
    /\ pc' = [pc EXCEPT ![c] = "check"]
    /\ UNCHANGED <<own, toSet, frame, desc, mainToSend, dma, dmaPos, tbus, wire>>

\* ETH_Tx_Packet: a descriptor of the DMA's is an error, and the frame is dropped.
TxRefused(c) ==
    /\ pc[c] = "check" /\ Running(c)
    /\ own[toSet]
    /\ pc' = [pc EXCEPT ![c] = "idle"]
    /\ UNCHANGED <<own, buffer, toSet, frame, desc, mainToSend, dmaVars, tbus, accepted, wire>>

TxGranted(c) ==
    /\ pc[c] = "check" /\ Running(c)
    /\ ~own[toSet]
    /\ desc' = [desc EXCEPT ![c] = toSet]
    /\ pc' = [pc EXCEPT ![c] = "own"]
    /\ UNCHANGED <<own, buffer, toSet, frame, mainToSend, dmaVars, tbus, accepted, wire>>

\* DMATxDescToSet is not volatile: the build may keep the pointer read by the check or
\* read it again.
Current(c) == {desc[c], toSet}

\* Length, LS, FS and then OWN are written: the buffer is the DMA's.
SetOwn(c) ==
    /\ pc[c] = "own" /\ Running(c)
    /\ \E d \in Current(c) : /\ own' = [own EXCEPT ![d] = TRUE]
                           /\ desc' = [desc EXCEPT ![c] = d]
    /\ accepted' = Append(accepted, frame[c])
    /\ pc' = [pc EXCEPT ![c] = "advance"]
    /\ UNCHANGED <<buffer, toSet, frame, mainToSend, dmaVars, tbus, wire>>

\* Mutant: the suspended engine is never told to poll again.
NoResume == UNCHANGED <<tbus, dma>>

\* TBUS is cleared and a write to DMATPDR makes a suspended engine poll again.
Resume ==
    /\ tbus' = FALSE
    /\ dma' = IF tbus /\ dma = "suspended" THEN "run" ELSE dma

\* Mutant: the ring pointer stays.
AdvanceStuck(c) ==
    /\ pc[c] = "advance" /\ Running(c)
    /\ Resume
    /\ pc' = [pc EXCEPT ![c] = "idle"]
    /\ UNCHANGED <<own, buffer, toSet, frame, desc, mainToSend, dmaPos, reading, accepted, wire>>

\* Mutant: the pointer moves on twice.
AdvanceTwice(c) ==
    /\ pc[c] = "advance" /\ Running(c)
    /\ Resume
    /\ \E d \in Current(c) : toSet' = After(After(d))
    /\ pc' = [pc EXCEPT ![c] = "idle"]
    /\ UNCHANGED <<own, buffer, frame, desc, mainToSend, dmaPos, reading, accepted, wire>>

\* The engine is resumed and the ring pointer moves on to the next descriptor.
Advance(c) ==
    /\ pc[c] = "advance" /\ Running(c)
    /\ Resume
    /\ \E d \in Current(c) : toSet' = After(d)
    /\ pc' = [pc EXCEPT ![c] = "idle"]
    /\ UNCHANGED <<own, buffer, frame, desc, mainToSend, dmaPos, reading, accepted, wire>>

-----------------------------------------------------------------------------
(* The transmit DMA engine (external). *)

DmaStart ==
    /\ dma = "run" /\ reading = Nothing
    /\ own[dmaPos]
    /\ reading' = buffer[dmaPos]
    /\ UNCHANGED <<own, buffer, cpuVars, dma, dmaPos, tbus, accepted, wire>>

\* The whole buffer has been read and the frame leaves; the descriptor is the CPU's.
DmaFinish ==
    /\ reading # Nothing
    /\ wire' = reading
    /\ accepted' = IF accepted = <<>> THEN accepted ELSE Tail(accepted)
    /\ own' = [own EXCEPT ![dmaPos] = FALSE]
    /\ dmaPos' = After(dmaPos)
    /\ reading' = Nothing
    /\ UNCHANGED <<buffer, cpuVars, dma, tbus>>

\* The descriptor it fetched is not its own ...
DmaFetchesFree ==
    /\ dma = "run" /\ reading = Nothing
    /\ ~own[dmaPos]
    /\ dma' = "stopping"
    /\ UNCHANGED <<own, buffer, cpuVars, dmaPos, reading, tbus, accepted, wire>>

\* ... so it raises TBUS and suspends.
DmaSuspends ==
    /\ dma = "stopping"
    /\ dma' = "suspended"
    /\ tbus' = TRUE
    /\ UNCHANGED <<own, buffer, cpuVars, dmaPos, reading, accepted, wire>>

-----------------------------------------------------------------------------
Step(c) == Copy(c) \/ TxRefused(c) \/ TxGranted(c) \/ SetOwn(c) \/ Advance(c)

Send(c) == \E f \in Frames : GetCurrentTxBuffer(c, f)

Dma == DmaStart \/ DmaFinish \/ DmaFetchesFree \/ DmaSuspends

Next == Dma \/ \E c \in Contexts : Send(c) \/ Step(c)

\* The engine and the handlers run on; the audio stream goes on sending; between two
\* handlers the main program gets on.
Fairness ==
    /\ WF_vars(Dma)
    /\ WF_vars(Step("isr"))
    /\ WF_vars(Send("isr"))
    /\ SF_vars(Step("main"))

Spec == Init /\ [][Next]_vars /\ Fairness

-----------------------------------------------------------------------------
(* Properties. *)

\* The variables stay in their types.
TypeOK ==
    /\ own \in [Slots -> BOOLEAN]
    /\ buffer \in [Slots -> Frames \cup {Nothing}]
    /\ toSet \in Slots /\ dmaPos \in Slots
    /\ pc \in [Contexts -> {"idle", "copy", "check", "own", "advance"}]
    /\ frame \in [Contexts -> Frames \cup {Nothing}]
    /\ desc \in [Contexts -> Slots]
    /\ mainToSend \in BOOLEAN /\ tbus \in BOOLEAN
    /\ dma \in {"run", "stopping", "suspended"}
    /\ reading \in Frames \cup {Nothing, Torn}
    /\ accepted \in Seq(Frames \cup {Torn})
    /\ wire \in Frames \cup {Nothing, Torn}

\* lan8720.c:227 says of setting OWN that the buffer goes back to the ETH DMA: from
\* then until the engine clears OWN the CPU does not write the buffer.
BufferIsTheDmas ==
    [][\A i \in Slots : own[i] /\ own'[i] => buffer'[i] = buffer[i]]_vars

\* lan8720.c:233-234 says the pointer is set to the next descriptor for the next send:
\* between two calls the descriptors of the DMA are the ones from where the engine is up
\* to DMATxDescToSet, one for each frame accepted and not yet out, with no gap.
RingInStep ==
    /\ TypeOK
    /\ (\A c \in Contexts : pc[c] = "idle") =>
          /\ toSet = (dmaPos + Len(accepted)) % NTx
          /\ {i \in Slots : own[i]} = {(dmaPos + k) % NTx : k \in 0 .. Len(accepted) - 1}

\* Every frame ETH_Tx_Packet answered ETH_SUCCESS for leaves whole, once and in order,
\* but for what a send onto a full ring does.  Its frame is copied over the oldest one,
\* which is lost or torn; then it is refused or, when the engine has cleared OWN between
\* the copy (ethernetif.c:50-56) and the check (lan8720.c:221), granted, and the frame
\* leaves a second time in its own place.
Fifo == INSTANCE TransmitFifo WITH Capacity <- NTx, queue <- accepted, out <- wire
SendsInOrder == Fifo!ReplacingSpec

\* A frame that was accepted leaves, also one whose DMATPDR write came too early for
\* the engine: the next frame of the stream wakes it.  And lan8720.c:228 says that a
\* transmitter found without a buffer (TBUS) is reset and resumed: while the stream goes
\* on, frames go on leaving.
EveryFrameLeaves ==
    /\ \A i \in Slots : own[i] ~> ~own[i]
    /\ []<><<DmaFinish>>_vars
=============================================================================
