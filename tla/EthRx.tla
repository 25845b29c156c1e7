------------------------------- MODULE EthRx -------------------------------
(***************************************************************************)
(* Receiving Ethernet frames: the interrupt handler ETH_IRQHandler and     *)
(* ETH_Rx_Packet (lan8720.c) with low_level_input and ethernetif_input     *)
(* (ethernetif.c), over the ring of NRx receive descriptors that the DMA   *)
(* engine fills at the same time.                                          *)
(*                                                                         *)
(* The handler has the highest priority and nobody else calls              *)
(* lwip_pkt_handle, so it interleaves with the engine only.  Frames with   *)
(* errors never reach a descriptor (lan8720.c:159), and a frame fits one   *)
(* buffer, so every filled descriptor holds one good frame.                *)
(***************************************************************************)
EXTENDS Integers, Sequences, FiniteSets

CONSTANTS
    NRx,            \* ETH_RXBUFNB
    Frames,         \* contents of frames
    Nothing,        \* an empty buffer, no frame
    Burst           \* most frames that come in while the handler leaves

ASSUME RxAssumption ==
    /\ NRx \in Nat \ {0}
    /\ Burst \in Nat
    /\ Nothing \notin Frames

Slots == 0 .. NRx - 1

VARIABLES
    own,        \* OWN bit of each descriptor: TRUE, the DMA may fill the buffer
    content,    \* content of each descriptor's buffer
    toGet,      \* DMARxDescToGet
    pc,         \* where the handler is
    desc,       \* frame.descriptor
    p,          \* the pbuf low_level_input fills
    dmaPos,     \* the descriptor the receive engine is at
    rbus,       \* ETH_DMASR_RBUS, receive buffer unavailable
    r, nis,     \* interrupt flags of DMASR: receive, and the summary that drives the line
    late,       \* frames that came in since the handler found no more
    arrived,    \* frames stored in the ring and not yet dealt with
    delivered   \* the frame given to netif->input last

cpuVars == <<toGet, pc, desc, p, delivered>>
vars == <<own, content, cpuVars, dmaPos, rbus, r, nis, late, arrived>>

\* Buffer2NextDescAddr: the descriptors are chained into a ring.
After(i) == (i + 1) % NRx

-----------------------------------------------------------------------------
\* ETH_DMARxDescChainInit: all descriptors are the engine's.
Init ==
    /\ own = [i \in Slots |-> TRUE]
    /\ content = [i \in Slots |-> Nothing]
    /\ toGet = 0 /\ desc = 0 /\ dmaPos = 0
    /\ pc = "idle" /\ p = Nothing
    /\ rbus = FALSE /\ r = FALSE /\ nis = FALSE
    /\ late = 0
    /\ arrived = <<>> /\ delivered = Nothing

-----------------------------------------------------------------------------
(* The handler. *)

HandlerEnters ==
    /\ pc = "idle" /\ nis
    /\ pc' = "check"
    /\ UNCHANGED <<own, content, toGet, desc, p, dmaPos, rbus, r, nis, late, arrived, delivered>>

\* Mutant: the descriptor goes back before its buffer is copied.
RxPacketReturns ==
    /\ pc = "check" /\ ~own[toGet]
    /\ desc' = toGet
    /\ toGet' = After(toGet)
    /\ own' = [own EXCEPT ![toGet] = TRUE]
    /\ pc' = "copy"
    /\ UNCHANGED <<content, p, dmaPos, rbus, r, nis, late, arrived, delivered>>

\* GetRxPktSize finds a frame, and so does ETH_Rx_Packet, which moves on in the ring.
RxPacket ==
    /\ pc = "check" /\ ~own[toGet]
    /\ desc' = toGet
    /\ toGet' = After(toGet)
    /\ pc' = "copy"
    /\ UNCHANGED <<own, content, p, dmaPos, rbus, r, nis, late, arrived, delivered>>

\* pbuf_alloc finds pbufs and the frame is copied into them ...
Copy ==
    /\ pc = "copy"
    /\ p' = content[desc]
    /\ pc' = "return"
    /\ UNCHANGED <<own, content, toGet, desc, dmaPos, rbus, r, nis, late, arrived, delivered>>

\* Mutant: without a pbuf low_level_input leaves before it returns the descriptor.
NoPbufLeaves ==
    /\ pc = "copy"
    /\ p' = Nothing
    /\ arrived' = Tail(arrived)
    /\ pc' = "check"
    /\ UNCHANGED <<own, content, toGet, desc, dmaPos, rbus, r, nis, late, delivered>>

\* ... or the pool is used up and there is no pbuf.
NoPbuf ==
    /\ pc = "copy"
    /\ p' = Nothing
    /\ pc' = "return"
    /\ UNCHANGED <<own, content, toGet, desc, dmaPos, rbus, r, nis, late, arrived, delivered>>

\* The descriptor is the engine's again.
Return ==
    /\ pc = "return"
    /\ own' = [own EXCEPT ![desc] = TRUE]
    /\ pc' = "poll"
    /\ UNCHANGED <<content, toGet, desc, p, dmaPos, rbus, r, nis, late, arrived, delivered>>

\* RBUS is cleared and DMARPDR written.  The engine looks at its descriptor again now,
\* or when the next frame comes in, with the same outcome.
Poll ==
    /\ pc = "poll"
    /\ rbus' = FALSE
    /\ pc' = "input"
    /\ UNCHANGED <<own, content, toGet, desc, p, dmaPos, r, nis, late, arrived, delivered>>

\* Mutant: the handler takes one frame for each interrupt.
InputOnce ==
    /\ pc = "input"
    /\ arrived' = Tail(arrived)
    /\ delivered' = IF p = Nothing THEN delivered ELSE p
    /\ p' = Nothing
    /\ pc' = "clear R"
    /\ UNCHANGED <<own, content, toGet, desc, dmaPos, rbus, r, nis, late>>

\* ethernetif_input hands the frame to the stack, or gives it up without a pbuf.
Input ==
    /\ pc = "input"
    /\ arrived' = Tail(arrived)
    /\ delivered' = IF p = Nothing THEN delivered ELSE p
    /\ p' = Nothing
    /\ pc' = "check"
    /\ UNCHANGED <<own, content, toGet, desc, dmaPos, rbus, r, nis, late>>

\* No frame is left, and the handler goes to clear its flags.
Drained ==
    /\ pc = "check" /\ own[toGet]
    /\ pc' = "clear R"
    /\ UNCHANGED <<own, content, toGet, desc, p, dmaPos, rbus, r, nis, late, arrived, delivered>>

ClearR ==
    /\ pc = "clear R"
    /\ r' = FALSE
    /\ pc' = "clear NIS"
    /\ UNCHANGED <<own, content, toGet, desc, p, dmaPos, rbus, nis, late, arrived, delivered>>

ClearNIS ==
    /\ pc = "clear NIS"
    /\ nis' = FALSE
    /\ late' = 0
    /\ pc' = "idle"
    /\ UNCHANGED <<own, content, toGet, desc, p, dmaPos, rbus, r, arrived, delivered>>

-----------------------------------------------------------------------------
(* The receive DMA engine (external). *)

\* A frame comes in while the descriptor is the engine's: it is stored and R is raised.
\* Bound: at most Burst frames while the handler leaves, a matter of a few cycles.
Store(f) ==
    /\ own[dmaPos]
    /\ IF pc \in {"clear R", "clear NIS"}
       THEN late < Burst /\ late' = late + 1
       ELSE UNCHANGED late
    /\ content' = [content EXCEPT ![dmaPos] = f]
    /\ own' = [own EXCEPT ![dmaPos] = FALSE]
    /\ dmaPos' = After(dmaPos)
    /\ r' = TRUE /\ nis' = TRUE
    /\ arrived' = Append(arrived, f)
    /\ UNCHANGED <<cpuVars, rbus>>

\* No descriptor: the frame is flushed, RBUS is raised; it has no interrupt enabled.
Flush ==
    /\ ~own[dmaPos]
    /\ rbus' = TRUE
    /\ UNCHANGED <<own, content, cpuVars, dmaPos, r, nis, late, arrived>>

-----------------------------------------------------------------------------
Handler ==
    \/ HandlerEnters \/ RxPacket \/ Copy \/ NoPbuf \/ Return \/ Poll \/ Input
    \/ Drained \/ ClearR \/ ClearNIS

Arrives == Flush \/ \E f \in Frames : Store(f)

Next == Handler \/ Arrives

Spec == Init /\ [][Next]_vars /\ WF_vars(Handler)

\* Frames keep coming in.
TrafficSpec == Spec /\ WF_vars(Arrives)

-----------------------------------------------------------------------------
(* Properties. *)

\* The variables stay in their types.
TypeOK ==
    /\ own \in [Slots -> BOOLEAN]
    /\ content \in [Slots -> Frames \cup {Nothing}]
    /\ toGet \in Slots /\ desc \in Slots /\ dmaPos \in Slots
    /\ pc \in {"idle", "check", "copy", "return", "poll", "input", "clear R", "clear NIS"}
    /\ p \in Frames \cup {Nothing} /\ delivered \in Frames \cup {Nothing}
    /\ rbus \in BOOLEAN /\ r \in BOOLEAN /\ nis \in BOOLEAN
    /\ late \in 0 .. Burst
    /\ arrived \in Seq(Frames)

Unread == {i \in Slots : ~own[i]}

\* The oldest descriptor that is the CPU's.
Oldest == IF pc \in {"copy", "return"} THEN desc ELSE toGet

\* The frames not dealt with that are still in the ring.
InRing == IF pc \in {"poll", "input"} THEN Tail(arrived) ELSE arrived

\* DMARxDescToGet and the engine agree on the ring at every step: the descriptors of the
\* CPU are the ones from the oldest up to the engine, with no gap, and hold the frames
\* that came in, in order.  So the handler never steps on an empty descriptor (whose
\* address ETH_Rx_Packet would leave 0) and the engine never waits at one that nobody
\* will return.
RingInStep ==
    LET n == Cardinality(Unread) IN
    /\ TypeOK
    /\ Unread = {(Oldest + k) % NRx : k \in 0 .. n - 1}
    /\ dmaPos = (Oldest + n) % NRx
    /\ Len(InRing) = n
    /\ \A k \in 1 .. n : content[(Oldest + k - 1) % NRx] = InRing[k]
    /\ pc \in {"copy", "return"} => ~own[desc]

\* What reaches the stack are the frames that came in, whole, once and in order; one is
\* missing only if there was no pbuf for it.
Fifo == INSTANCE FrameFifo WITH queue <- arrived, out <- delivered
DeliversInOrder == Fifo!LossySpec

\* lwip_comm.c:168 says that lwip_pkt_handle is called after data has been received:
\* every stored frame is taken out of the ring.
EveryFrameHandled == \A i \in Slots : ~own[i] ~> own[i]
=============================================================================
