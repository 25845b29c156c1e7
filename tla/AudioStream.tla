----------------------------- MODULE AudioStream -----------------------------
(***************************************************************************)
(* One recording stream from the codec to the network (i2s.c, recorder.c,  *)
(* udp_demo.c): the DMA stream fills two buffers in turn and raises TCIF   *)
(* when it changes over; the handler clears the flag, reads the bit CT of  *)
(* the stream's control register to learn which buffer is not being        *)
(* filled, and packs its first bytes into pbufs that it sends.             *)
(*                                                                         *)
(* A buffer has Chunks chunks of 512 bytes, what one pbuf of the pool      *)
(* takes: two for I2S2 (DMA1 stream 3), four for I2S3 (DMA1 stream 0).  A  *)
(* chunk holds the number of the block of audio it belongs to.  The DMA    *)
(* does not wait; other handlers of the same priority (the Ethernet        *)
(* handler, the other stream's) may keep this one waiting.                 *)
(***************************************************************************)
EXTENDS Naturals, Sequences

CONSTANTS
    Chunks,   \* I2S_RX_DMA_BUF_SIZE or I2S3_RX_DMA_BUF_SIZE, in chunks
    Packed,   \* TCP_CLIENT_TX_BUFSIZE, in chunks
    Lag,      \* chunks the DMA may fill between TCIF and the end of the handler: the
              \* handler is done before the other buffer is full
    Numbers,  \* bound: blocks are numbered modulo this
    Nothing,  \* an unused chunk, no packet
    Torn      \* a packet with chunks of two blocks, or of none

ASSUME StreamAssumption ==
    /\ Chunks \in Nat \ {0} /\ Packed \in 1 .. Chunks
    /\ Lag \in 0 .. Chunks - 1
    /\ Numbers \in Nat \ {0, 1}
    /\ Nothing \notin Nat /\ Torn \notin Nat \cup {Nothing}

Blocks == 0 .. Numbers - 1

VARIABLES
    ct,        \* bit CT: the memory the DMA fills
    pos,       \* the chunk of it that is next
    block,     \* the number of the block being recorded
    memory,    \* the two buffers
    tcif,      \* transfer complete
    lag,       \* chunks filled since TCIF was raised
    pc,        \* where the handler is
    sendbuf,   \* the buffer it sends
    packet,    \* what it has packed
    recorded,  \* blocks recorded and not dealt with
    sent       \* the packet that left last

dmaVars == <<ct, pos, block, memory>>
vars == <<dmaVars, tcif, lag, pc, sendbuf, packet, recorded, sent>>

Init ==
    /\ ct = 0 /\ pos = 1 /\ block = 0
    /\ memory = [m \in {0, 1} |-> [c \in 1 .. Chunks |-> Nothing]]
    /\ tcif = FALSE /\ lag = 0
    /\ pc = "idle" /\ sendbuf = 0 /\ packet = <<>>
    /\ recorded = <<>> /\ sent = Nothing

-----------------------------------------------------------------------------
(* The DMA stream. *)

\* The handler owes a packet.
Owing == tcif \/ pc # "idle"

\* Mutant: the double buffer mode is not enabled.
ChangeNothing == UNCHANGED ct

\* Double buffer mode: the other memory is next.
ChangeOver == ct' = 1 - ct

\* DMA_BufferSize: the chunk that is next is the last of the buffer.
Ends == pos = Chunks

\* Mutant: the transfer complete interrupt is not enabled.
RaiseNothing == UNCHANGED tcif

\* DMA_IT_TC is enabled: the end of a buffer asks for the handler.
Raise == tcif' = TRUE

\* A chunk inside the buffer.
Fill ==
    /\ Owing => lag < Lag
    /\ ~Ends
    /\ memory' = [memory EXCEPT ![ct][pos] = block]
    /\ pos' = pos + 1
    /\ lag' = IF Owing THEN lag + 1 ELSE lag
    /\ UNCHANGED <<ct, block, tcif, recorded, pc, sendbuf, packet, sent>>

\* The last chunk of the buffer (NDTR is 0): the memories change and TCIF is raised.
Complete ==
    /\ Owing => lag < Lag
    /\ Ends
    /\ memory' = [memory EXCEPT ![ct][pos] = block]
    /\ pos' = 1
    /\ ChangeOver
    /\ block' = (block + 1) % Numbers
    /\ Raise
    /\ lag' = IF Owing THEN lag + 1 ELSE 0
    /\ recorded' = Append(recorded, block)
    /\ UNCHANGED <<pc, sendbuf, packet, sent>>

-----------------------------------------------------------------------------
(* The handler: DMA1_Stream3_IRQHandler or DMA1_Stream0_IRQHandler. *)

ClearTC ==
    /\ pc = "idle" /\ tcif
    /\ tcif' = FALSE
    /\ pc' = "choose"
    /\ UNCHANGED <<dmaVars, lag, sendbuf, packet, recorded, sent>>

\* Mutant: the buffer that is being filled.
ChooseFilled ==
    /\ pc = "choose"
    /\ sendbuf' = ct
    /\ pc' = "alloc"
    /\ UNCHANGED <<dmaVars, tcif, lag, packet, recorded, sent>>

\* rec_i2s_dma_rx_callback: memory 1 is being filled, so the first buffer is sent, and
\* the other way round.
Choose ==
    /\ pc = "choose"
    /\ sendbuf' = 1 - ct
    /\ pc' = "alloc"
    /\ UNCHANGED <<dmaVars, tcif, lag, packet, recorded, sent>>

\* udp_demo_senddata: without a pbuf the block is given up ...
NoPbuf ==
    /\ pc = "alloc"
    /\ recorded' = Tail(recorded)
    /\ pc' = "idle"
    /\ UNCHANGED <<dmaVars, tcif, lag, sendbuf, packet, sent>>

Alloc ==
    /\ pc = "alloc"
    /\ packet' = <<>>
    /\ pc' = "pack"
    /\ UNCHANGED <<dmaVars, tcif, lag, sendbuf, recorded, sent>>

\* ... pbuf_take copies chunk by chunk ...
Pack ==
    /\ pc = "pack" /\ Len(packet) < Packed
    /\ packet' = Append(packet, memory[sendbuf][Len(packet) + 1])
    /\ UNCHANGED <<dmaVars, tcif, lag, pc, sendbuf, recorded, sent>>

\* ... and udp_send sends.
Send ==
    /\ pc = "pack" /\ Len(packet) = Packed
    /\ sent' = IF \E b \in Blocks : \A c \in 1 .. Packed : packet[c] = b
               THEN packet[1] ELSE Torn
    /\ recorded' = Tail(recorded)
    /\ pc' = "idle"
    /\ UNCHANGED <<dmaVars, tcif, lag, sendbuf, packet>>

-----------------------------------------------------------------------------
Handler == ClearTC \/ Choose \/ NoPbuf \/ Alloc \/ Pack \/ Send

Dma == Fill \/ Complete

Next == Handler \/ Dma

Spec == Init /\ [][Next]_vars

-----------------------------------------------------------------------------
(* Properties. *)

\* The variables stay in their types: the DMA stays inside its buffers.
TypeOK ==
    /\ ct \in {0, 1} /\ pos \in 1 .. Chunks /\ block \in Blocks
    /\ memory \in [{0, 1} -> [1 .. Chunks -> Blocks \cup {Nothing}]]
    /\ tcif \in BOOLEAN /\ lag \in 0 .. Lag
    /\ pc \in {"idle", "choose", "alloc", "pack"} /\ sendbuf \in {0, 1}
    /\ packet \in Seq(Blocks)
    /\ recorded \in Seq(Blocks) /\ sent \in Blocks \cup {Nothing, Torn}

\* What leaves are the blocks recorded, each from one block only, once and in order; one
\* is missing only if there was no pbuf for it.  The handler never confuses the buffers,
\* although it reads CT some time after the change that raised TCIF.
Fifo == INSTANCE FrameFifo WITH Frames <- Blocks, queue <- recorded, out <- sent
SendsBlocksInOrder == Fifo!LossySpec

\* While the handler packs a buffer the DMA fills the other one.
ReaderAndWriterApart == pc \in {"alloc", "pack"} => sendbuf # ct

\* The handler owes one packet for each block recorded and not dealt with, so no change
\* of buffers goes unnoticed although TCIF holds one event only.
OwesEachBlock ==
    Len(recorded) = (IF tcif THEN 1 ELSE 0) + (IF pc = "idle" THEN 0 ELSE 1)
=============================================================================
