---------------------------- MODULE UdpDemoProofs ----------------------------
(***************************************************************************)
(* Proofs about the two sides of udp_demo.c.                               *)
(*                                                                         *)
(* AudioStream: safety for buffers of every size (two chunks for I2S2,     *)
(* four for I2S3) and every lag of the handler shorter than a buffer.      *)
(*                                                                         *)
(* RemoteConfig: safety for any messages at any time, sessions opened and  *)
(* closed as often as the user likes, and power cuts at any time.  What a  *)
(* late message spoils, one that changes the buffer after main has looked  *)
(* at its marks, is excluded in the properties and nowhere else.           *)
(***************************************************************************)
EXTENDS AudioStream, RemoteConfig, TLAPS

-----------------------------------------------------------------------------
(* AudioStream.                                                            *)

\* One event at a time: the handler does not run again while it runs.
OneEvent == tcif => pc = "idle"

\* Since TCIF was raised, the DMA has filled the first lag chunks of its buffer.
LagIsPosition == Owing => pos = lag + 1

\* The chunks filled belong to the block that is being recorded.
Filling == \A c \in 1 .. pos - 1 : memory[ct][c] = block

\* While the handler owes a packet, the other buffer holds the block it owes, whole.
Kept == \A c \in 1 .. Chunks : memory[1 - ct][c] = recorded[1]

\* One block is owed, or none.
OwedBlock == IF Owing THEN (\E b \in Blocks : recorded = <<b>>) /\ Kept
                      ELSE recorded = <<>>

\* What the handler has packed is the block it owes.
Packing ==
    /\ pc \in {"alloc", "pack"} => sendbuf = 1 - ct
    /\ pc = "pack" => /\ Len(packet) <= Packed
                      /\ \A c \in 1 .. Len(packet) : packet[c] = recorded[1]

IInv == TypeOK /\ OneEvent /\ LagIsPosition /\ Filling /\ OwedBlock /\ Packing

-----------------------------------------------------------------------------
LEMMA InitIInv == Init => IInv
<1>. SUFFICES ASSUME Init PROVE IInv
  OBVIOUS
<1>1. TypeOK
  <2>1. 0 \in Blocks /\ 1 \in 1 .. Chunks /\ 0 \in 0 .. Lag
    BY StreamAssumption DEF Blocks
  <2>2. memory \in [{0, 1} -> [1 .. Chunks -> Blocks \cup {Nothing}]]
    BY DEF Init
  <2>3. packet \in Seq(Blocks) /\ recorded \in Seq(Blocks)
    BY DEF Init
  <2>. QED
    BY <2>1, <2>2, <2>3 DEF Init, TypeOK
<1>. QED
  BY <1>1 DEF Init, IInv, OneEvent, LagIsPosition, Filling, OwedBlock, Packing, Owing

\* The DMA, filling a chunk, leaves the buffer that is owed alone.
LEMMA FillStep ==
    ASSUME IInv, Fill
    PROVE  IInv'
<1>. USE DEF IInv
<1>1. /\ ct \in {0, 1} /\ pos \in 1 .. Chunks /\ pos < Chunks /\ block \in Blocks
      /\ memory \in [{0, 1} -> [1 .. Chunks -> Blocks \cup {Nothing}]]
      /\ memory' = [memory EXCEPT ![ct][pos] = block]
      /\ pos' = pos + 1
      /\ UNCHANGED <<ct, block, tcif, recorded, pc, sendbuf, packet, sent>>
  BY StreamAssumption DEF Fill, Ends, TypeOK
<1>2. /\ memory' \in [{0, 1} -> [1 .. Chunks -> Blocks \cup {Nothing}]]
      /\ memory'[1 - ct] = memory[1 - ct]
      /\ \A c \in 1 .. Chunks : memory'[ct][c] = IF c = pos THEN block ELSE memory[ct][c]
  <2>1. memory' = [memory EXCEPT ![ct] = [memory[ct] EXCEPT ![pos] = block]]
    BY <1>1
  <2>2. [memory[ct] EXCEPT ![pos] = block] \in [1 .. Chunks -> Blocks \cup {Nothing}]
    BY <1>1
  <2>3. 1 - ct # ct /\ 1 - ct \in {0, 1}
    BY <1>1
  <2>4. memory'[ct] = [memory[ct] EXCEPT ![pos] = block] /\ memory'[1 - ct] = memory[1 - ct]
    BY <1>1, <2>1, <2>3
  <2>5. \A c \in 1 .. Chunks : memory'[ct][c] = IF c = pos THEN block ELSE memory[ct][c]
    BY <1>1, <2>4
  <2>6. memory' \in [{0, 1} -> [1 .. Chunks -> Blocks \cup {Nothing}]]
    BY <1>1, <2>1, <2>2
  <2>. QED
    BY <2>4, <2>5, <2>6
<1>3. Owing' = Owing
  BY <1>1 DEF Owing
<1>4. lag' = (IF Owing THEN lag + 1 ELSE lag) /\ (Owing => lag < Lag) /\ lag \in 0 .. Lag
  BY DEF Fill, Ends, TypeOK
<1>5. TypeOK'
  <2>1. pos' \in 1 .. Chunks /\ lag' \in 0 .. Lag
    BY <1>1, <1>4, StreamAssumption
  <2>. QED
    BY <1>1, <1>2, <2>1 DEF TypeOK
<1>6. OneEvent'
  BY <1>1 DEF OneEvent
<1>7. LagIsPosition'
  BY <1>1, <1>3, <1>4 DEF LagIsPosition
<1>8. Filling'
  <2>1. ASSUME NEW c \in 1 .. pos PROVE memory'[ct][c] = block
    BY <1>1, <1>2, <2>1 DEF Filling
  <2>. QED
    BY <1>1, <2>1 DEF Filling
<1>9. OwedBlock'
  BY <1>1, <1>2, <1>3 DEF OwedBlock, Kept
<1>10. Packing'
  BY <1>1 DEF Packing
<1>. QED
  BY <1>5, <1>6, <1>7, <1>8, <1>9, <1>10

\* A buffer is never completed while a packet is owed: the handler was in time.
LEMMA CompleteNotOwing ==
    ASSUME IInv, Complete
    PROVE  ~Owing
<1>1. Owing => pos = lag + 1 /\ lag < Lag
  BY DEF IInv, LagIsPosition, Complete, Ends
<1>. QED
  BY <1>1, StreamAssumption DEF Complete, Ends, IInv, TypeOK

LEMMA CompleteStep ==
    ASSUME IInv, Complete
    PROVE  IInv'
<1>. USE DEF IInv
<1>1. /\ ct \in {0, 1} /\ pos = Chunks /\ block \in Blocks
      /\ memory \in [{0, 1} -> [1 .. Chunks -> Blocks \cup {Nothing}]]
      /\ memory' = [memory EXCEPT ![ct][pos] = block]
      /\ pos' = 1 /\ ct' = 1 - ct /\ block' = (block + 1) % Numbers
      /\ tcif' = TRUE
      /\ UNCHANGED <<pc, sendbuf, packet, sent>>
  BY DEF Complete, Ends, Raise, ChangeOver, TypeOK
<1>2. /\ ~Owing /\ pc = "idle" /\ ~tcif /\ recorded = <<>>
      /\ lag' = 0 /\ recorded' = <<block>>
  <2>1. ~Owing /\ recorded = <<>>
    BY CompleteNotOwing DEF OwedBlock
  <2>. QED
    BY <2>1 DEF Complete, Owing
<1>3. Chunks \in Nat \ {0} /\ Numbers \in Nat \ {0} /\ Lag \in Nat
  BY StreamAssumption
<1>4. /\ memory' \in [{0, 1} -> [1 .. Chunks -> Blocks \cup {Nothing}]]
      /\ \A c \in 1 .. Chunks : memory'[ct][c] = IF c = pos THEN block ELSE memory[ct][c]
  BY <1>1, <1>3
<1>5. block' \in Blocks
  BY <1>1, <1>3 DEF Blocks
<1>6. TypeOK'
  <2>1. ct' \in {0, 1} /\ pos' \in 1 .. Chunks /\ lag' \in 0 .. Lag
    BY <1>1, <1>2, <1>3
  <2>2. recorded' \in Seq(Blocks)
    BY <1>1, <1>2
  <2>. QED
    BY <1>1, <1>4, <1>5, <2>1, <2>2 DEF TypeOK
<1>7. OneEvent' /\ LagIsPosition'
  BY <1>1, <1>2 DEF OneEvent, LagIsPosition
<1>8. Filling'
  BY <1>1 DEF Filling
<1>9. OwedBlock'
  <2>1. ASSUME NEW c \in 1 .. Chunks PROVE memory'[ct][c] = block
    BY <1>1, <1>3, <1>4, <2>1 DEF Filling
  <2>2. 1 - ct' = ct
    BY <1>1
  <2>. QED
    BY <1>1, <1>2, <2>1, <2>2 DEF OwedBlock, Kept, Owing
<1>10. Packing'
  BY <1>1, <1>2 DEF Packing
<1>. QED
  BY <1>6, <1>7, <1>8, <1>9, <1>10

LEMMA HandlerStep ==
    ASSUME IInv, Handler
    PROVE  IInv'
<1>. USE DEF IInv
<1>1. UNCHANGED dmaVars /\ UNCHANGED lag
  BY DEF Handler, ClearTC, Choose, NoPbuf, Alloc, Pack, Send
<1>2. Filling'
  BY <1>1 DEF Filling, dmaVars
<1>3. ASSUME NEW b \in Blocks, recorded = <<b>>
      PROVE  Tail(recorded) = <<>> /\ recorded[1] = b
  BY <1>3
<1>4. CASE ClearTC
  <2>1. Owing /\ Owing' /\ pc' = "choose" /\ tcif' = FALSE
    BY <1>4 DEF ClearTC, Owing
  <2>2. UNCHANGED <<dmaVars, lag, sendbuf, packet, recorded, sent>>
    BY <1>4 DEF ClearTC
  <2>. QED
    BY <1>2, <2>1, <2>2
       DEF TypeOK, OneEvent, LagIsPosition, OwedBlock, Kept, Packing, dmaVars
<1>5. CASE Choose
  <2>1. Owing /\ Owing' /\ pc' = "alloc" /\ sendbuf' = 1 - ct /\ ~tcif
    BY <1>5 DEF Choose, Owing, OneEvent
  <2>2. UNCHANGED <<dmaVars, tcif, lag, packet, recorded, sent>>
    BY <1>5 DEF Choose
  <2>. QED
    BY <1>2, <2>1, <2>2
       DEF TypeOK, OneEvent, LagIsPosition, OwedBlock, Kept, Packing, dmaVars
<1>6. CASE Alloc
  <2>1. Owing /\ Owing' /\ pc = "alloc" /\ pc' = "pack" /\ packet' = <<>> /\ ~tcif
    BY <1>6 DEF Alloc, Owing, OneEvent
  <2>2. UNCHANGED <<dmaVars, tcif, lag, sendbuf, recorded, sent>>
    BY <1>6 DEF Alloc
  <2>3. Packing'
    BY <2>1, <2>2, StreamAssumption DEF Packing, dmaVars
  <2>. QED
    BY <1>2, <2>1, <2>2, <2>3
       DEF TypeOK, OneEvent, LagIsPosition, OwedBlock, Kept, dmaVars
<1>7. CASE Pack
  <2>1. /\ Owing /\ pc = "pack" /\ Len(packet) < Packed
        /\ sendbuf = 1 - ct
        /\ packet' = Append(packet, memory[sendbuf][Len(packet) + 1])
    BY <1>7 DEF Pack, Owing, Packing
  <2>2. UNCHANGED <<dmaVars, tcif, lag, pc, sendbuf, recorded, sent>>
    BY <1>7 DEF Pack
  <2>3. PICK b \in Blocks : recorded = <<b>> /\ Kept
    BY <2>1 DEF OwedBlock
  <2>4. packet \in Seq(Blocks) /\ Len(packet) \in Nat /\ Len(packet) + 1 \in 1 .. Chunks
    BY <2>1, StreamAssumption DEF TypeOK
  <2>5. packet' = Append(packet, b)
    BY <1>3, <2>1, <2>3, <2>4 DEF Kept
  <2>6. TypeOK'
    <3>1. packet' \in Seq(Blocks)
      BY <2>4, <2>5
    <3>2. UNCHANGED <<ct, pos, block, memory, tcif, lag, pc, sendbuf, recorded, sent>>
      BY <2>2 DEF dmaVars
    <3>. QED
      BY <3>1, <3>2 DEF TypeOK
  <2>7. Packing'
    <3>1. Len(packet') = Len(packet) + 1
      BY <2>4, <2>5
    <3>2. ASSUME NEW c \in 1 .. Len(packet') PROVE packet'[c] = b
      BY <1>3, <2>1, <2>3, <2>4, <2>5, <3>1, <3>2 DEF Packing
    <3>. QED
      BY <1>3, <2>1, <2>2, <2>3, <2>4, <3>1, <3>2, StreamAssumption DEF Packing, dmaVars
  <2>. QED
    BY <1>2, <2>2, <2>6, <2>7
       DEF OneEvent, LagIsPosition, OwedBlock, Kept, Owing, dmaVars
<1>8. CASE NoPbuf \/ Send
  <2>1. /\ Owing /\ pc \in {"alloc", "pack"} /\ pc' = "idle"
        /\ recorded' = Tail(recorded)
        /\ UNCHANGED <<dmaVars, tcif, lag, sendbuf, packet>>
    BY <1>8 DEF NoPbuf, Send, Owing
  <2>2. ~tcif /\ ~Owing'
    BY <2>1 DEF OneEvent, Owing
  <2>3. PICK b \in Blocks : recorded = <<b>>
    BY <2>1 DEF OwedBlock
  <2>4. recorded' = <<>>
    BY <1>3, <2>1, <2>3
  <2>5. sent' \in Blocks \cup {Nothing, Torn}
    <3>1. CASE NoPbuf
      BY <3>1 DEF NoPbuf, TypeOK
    <3>2. CASE Send
      <4>1. packet \in Seq(Blocks) /\ Len(packet) = Packed /\ Packed >= 1
        BY <3>2, StreamAssumption DEF Send, TypeOK
      <4>2. packet[1] \in Blocks
        BY <4>1, StreamAssumption
      <4>. QED
        BY <3>2, <4>2 DEF Send
    <3>. QED
      BY <1>8, <3>1, <3>2
  <2>6. TypeOK'
    <3>1. recorded' \in Seq(Blocks)
      BY <2>4
    <3>2. UNCHANGED <<ct, pos, block, memory, tcif, lag, sendbuf, packet>>
      BY <2>1 DEF dmaVars
    <3>. QED
      BY <2>1, <2>5, <3>1, <3>2 DEF TypeOK
  <2>. QED
    BY <1>2, <2>1, <2>2, <2>4, <2>6
       DEF OneEvent, LagIsPosition, OwedBlock, Packing
<1>. QED
  BY <1>4, <1>5, <1>6, <1>7, <1>8 DEF Handler

LEMMA StepIInv == IInv /\ [Next]_vars => IInv'
<1>1. ASSUME IInv, UNCHANGED vars PROVE IInv'
  BY <1>1 DEF IInv, TypeOK, OneEvent, LagIsPosition, Filling, OwedBlock, Kept, Packing,
              Owing, vars, dmaVars
<1>. QED
  BY <1>1, FillStep, CompleteStep, HandlerStep DEF Next, Dma

-----------------------------------------------------------------------------
(* The theorems. *)

\* In every reachable state the buffer owed is whole and the DMA is in the other one.
THEOREM Invariance == Spec => []IInv
  BY InitIInv, StepIInv, PTL DEF Spec

\* The DMA stays inside its buffers (I2S2ext_RX_DMA_Init's NDTR and the handlers agree).
THEOREM TypeCorrect == Spec => []TypeOK
<1>1. IInv => TypeOK
  BY DEF IInv
<1>. QED
  BY <1>1, Invariance, PTL

\* No change of buffers goes unnoticed: the handler owes one packet for each block.
THEOREM NothingUnnoticed == Spec => []OwesEachBlock
<1>1. IInv => OwesEachBlock
  <2>. SUFFICES ASSUME IInv PROVE OwesEachBlock
    OBVIOUS
  <2>1. CASE Owing
    <3>1. PICK b \in Blocks : recorded = <<b>>
      BY <2>1 DEF IInv, OwedBlock
    <3>2. Len(recorded) = 1
      BY <3>1
    <3>. QED
      BY <2>1, <3>2 DEF IInv, OneEvent, Owing, OwesEachBlock
  <2>2. CASE ~Owing
    BY <2>2 DEF IInv, OwedBlock, Owing, OwesEachBlock
  <2>. QED
    BY <2>1, <2>2
<1>. QED
  BY <1>1, Invariance, PTL

\* While rec_i2s_dma_rx_callback's buffer is packed the DMA fills the other one.
THEOREM Apart == Spec => []ReaderAndWriterApart
<1>1. IInv => ReaderAndWriterApart
  BY DEF IInv, Packing, TypeOK, ReaderAndWriterApart
<1>. QED
  BY <1>1, Invariance, PTL

\* The blocks recorded leave whole, once and in order, or are given up for want of a pbuf.
THEOREM Refinement == Spec => SendsBlocksInOrder
<1>1. Init => Fifo!Init
  BY DEF Init, Fifo!Init
<1>2. IInv /\ [Next]_vars => [Fifo!Put \/ Fifo!Take \/ Fifo!GiveUp]_(Fifo!vars)
  <2>. SUFFICES ASSUME IInv, [Next]_vars
                PROVE  [Fifo!Put \/ Fifo!Take \/ Fifo!GiveUp]_(Fifo!vars)
    OBVIOUS
  <2>1. CASE UNCHANGED vars
    BY <2>1 DEF vars, Fifo!vars
  <2>2. CASE Fill \/ ClearTC \/ Choose \/ Alloc \/ Pack
    BY <2>2 DEF Fill, ClearTC, Choose, Alloc, Pack, Fifo!vars
  <2>3. CASE Complete
    BY <2>3 DEF Complete, IInv, TypeOK, Fifo!Put
  <2>4. ASSUME Owing PROVE recorded # <<>>
    BY <2>4 DEF IInv, OwedBlock
  <2>5. CASE NoPbuf
    BY <2>4, <2>5 DEF NoPbuf, Owing, Fifo!GiveUp
  <2>6. CASE Send
    <3>1. Owing /\ pc = "pack" /\ Len(packet) = Packed
      BY <2>6 DEF Send, Owing
    <3>2. PICK b \in Blocks : recorded = <<b>>
      BY <3>1 DEF IInv, OwedBlock
    <3>3. Packed \in Nat /\ \A c \in 1 .. Packed : packet[c] = b
      BY <3>1, <3>2, StreamAssumption DEF IInv, Packing
    <3>4. packet[1] = b
      BY <3>3, StreamAssumption
    <3>5. sent' = b
      BY <2>6, <3>3, <3>4 DEF Send
    <3>. QED
      BY <2>4, <2>6, <3>1, <3>2, <3>5 DEF Send, Fifo!Take
  <2>. QED
    BY <2>1, <2>2, <2>3, <2>5, <2>6 DEF Next, Dma, Handler
<1>. QED
  BY <1>1, <1>2, Invariance, PTL DEF Spec, SendsBlocksInOrder, Fifo!LossySpec

-----------------------------------------------------------------------------
(* RemoteConfig.                                                           *)

\* A raised flag means a message; the area being handled keeps its flag, and its message
\* the marks main has seen, unless a late one has replaced it.
Flagged ==
    /\ \A a \in Areas : flag[a] => buffer[a] \in Messages
    /\ main \in {"write", "clear"} => flag[area]
    /\ main = "write" /\ ~late => buffer[area].framed
    /\ late => main \in {"write", "clear"}

\* Before the marker is written nothing but the defaults can be expected, and the main
\* program gets no further.
Fresh ==
    /\ main = "mark" => ~marker
    /\ main \notin {"check", "mark"} => marker
    /\ ~marker \/ main = "defaults" => committed = Defaults

\* How far the write under way has got: the defaults, a message, a message written.
Progress ==
    /\ main \notin {"defaults", "write"} => at = 1
    /\ main = "defaults" => \A i \in 1 .. at - 1 : eeprom[area][i] = Defaults[area][i]
    /\ main = "write" /\ ~late =>
           \A i \in 1 .. at - 1 : eeprom[area][i] = buffer[area].data[i]
    /\ main = "clear" /\ ~late /\ buffer[area].framed => eeprom[area] = buffer[area].data

\* An area that no write has begun to change holds what the observer expects.
Stored == \A a \in Areas : ~torn[a] => eeprom[a] = committed[a]

ConfigIInv == ConfigTypeOK /\ Flagged /\ Fresh /\ Progress /\ Stored /\ OnlyFramedStored

-----------------------------------------------------------------------------
LEMMA DefaultsTyped == Defaults \in [Areas -> [1 .. NBytes -> Byte]]
<1>1. <<103, 87>> \in [1 .. 2 -> 0 .. 255] /\ <<30, 10>> \in [1 .. 2 -> 0 .. 255]
  OBVIOUS
<1>. QED
  BY <1>1 DEF Defaults, Areas, NBytes, Byte

LEMMA ConfigInitIInv == ConfigInit => ConfigIInv
<1>. SUFFICES ASSUME ConfigInit PROVE ConfigIInv
  OBVIOUS
<1>1. ConfigTypeOK
  <2>1. eeprom \in [Areas -> [1 .. NBytes -> Byte]]
    BY ConfigAssumption DEF ConfigInit
  <2>2. /\ buffer \in [Areas -> Messages \cup {None}]
        /\ flag \in [Areas -> BOOLEAN] /\ torn \in [Areas -> BOOLEAN]
        /\ mixed \in [Areas -> BOOLEAN]
    BY DEF ConfigInit, NoMessage, NoFlag
  <2>3. area \in Areas /\ at \in 1 .. NBytes
    BY DEF ConfigInit, Areas, NBytes
  <2>. QED
    BY <2>1, <2>2, <2>3, DefaultsTyped DEF ConfigInit, ConfigTypeOK
<1>2. OnlyFramedStored
  BY DEF ConfigInit, OnlyFramedStored, FramedBytes
<1>. QED
  BY <1>1, <1>2 DEF ConfigInit, ConfigIInv, Flagged, Fresh, Progress, Stored, NoFlag

\* A byte written into one area.
LEMMA OneByte ==
    ASSUME NEW e \in [Areas -> [1 .. NBytes -> Byte]], NEW a \in Areas,
           NEW i \in 1 .. NBytes, NEW v \in Byte
    PROVE  LET f == [e EXCEPT ![a][i] = v] IN
           /\ f \in [Areas -> [1 .. NBytes -> Byte]]
           /\ \A b \in Areas \ {a} : f[b] = e[b]
           /\ \A j \in 1 .. NBytes : f[a][j] = IF j = i THEN v ELSE e[a][j]
<1>1. [e EXCEPT ![a][i] = v] = [e EXCEPT ![a] = [e[a] EXCEPT ![i] = v]]
  OBVIOUS
<1>2. [e[a] EXCEPT ![i] = v] \in [1 .. NBytes -> Byte]
  OBVIOUS
<1>. QED
  BY <1>1, <1>2

\* Areas with the same bytes are the same.
LEMMA SameBytes ==
    ASSUME NEW d \in [1 .. NBytes -> Byte], NEW e \in [1 .. NBytes -> Byte],
           \A i \in 1 .. NBytes : d[i] = e[i]
    PROVE  d = e
<1>1. d = [i \in 1 .. NBytes |-> d[i]] /\ e = [i \in 1 .. NBytes |-> e[i]]
  OBVIOUS
<1>2. [i \in 1 .. NBytes |-> d[i]] = [i \in 1 .. NBytes |-> e[i]]
  OBVIOUS
<1>. QED
  BY <1>1, <1>2, Zenon

LEMMA BootStep ==
    ASSUME ConfigIInv, CheckMarker \/ WriteMarker \/ Load \/ Open \/ Quit \/ Poll
    PROVE  ConfigIInv'
<1>. USE DEF ConfigIInv
<1>1. /\ UNCHANGED <<eeprom, at, buffer, flag, late, committed, torn, mixed>>
      /\ marker' \in BOOLEAN /\ (marker => marker')
      /\ area' \in Areas /\ main \notin {"defaults", "write", "clear"}
      /\ main' \in {"mark", "load", "defaults", "menu", "poll"}
      /\ IF main' = "mark" THEN ~marker' ELSE marker'
      /\ main' = "defaults" => ~marker
  <2>1. CASE CheckMarker
    BY <2>1 DEF CheckMarker, observer, ConfigTypeOK
  <2>2. CASE WriteMarker
    BY <2>2 DEF WriteMarker, observer, ConfigTypeOK, Fresh
  <2>3. CASE Load \/ Open \/ Quit \/ Poll
    BY <2>3 DEF Load, Open, Quit, Poll, observer, ConfigTypeOK, Fresh, Other, Areas
  <2>. QED
    BY <2>1, <2>2, <2>3
<1>2. ConfigTypeOK' /\ Flagged' /\ Fresh' /\ Stored' /\ OnlyFramedStored'
  BY <1>1 DEF ConfigTypeOK, Flagged, Fresh, Stored, OnlyFramedStored
<1>3. Progress'
  BY <1>1 DEF Progress
<1>. QED
  BY <1>2, <1>3

LEMMA WriteDefaultStep ==
    ASSUME ConfigIInv, WriteDefault
    PROVE  ConfigIInv'
<1>. USE DEF ConfigIInv
<1>1. /\ main = "defaults" /\ committed = Defaults
      /\ eeprom' = [eeprom EXCEPT ![area][at] = Defaults[area][at]]
      /\ torn' = [torn EXCEPT ![area] = torn[area] /\ at # NBytes]
      /\ UNCHANGED <<marker, buffer, flag, loaded, late, committed, mixed>>
      /\ area \in Areas /\ at \in 1 .. NBytes
  BY DEF WriteDefault, Fresh, ConfigTypeOK
<1>2. /\ eeprom' \in [Areas -> [1 .. NBytes -> Byte]]
      /\ \A b \in Areas \ {area} : eeprom'[b] = eeprom[b]
      /\ \A j \in 1 .. NBytes : eeprom'[area][j] = IF j = at THEN Defaults[area][at]
                                                            ELSE eeprom[area][j]
  BY <1>1, OneByte, DefaultsTyped DEF ConfigTypeOK
<1>3. \/ at < NBytes /\ at' = at + 1 /\ area' = area /\ main' = main
      \/ at = NBytes /\ at' = 1 /\ area' \in Areas /\ main' \in {"defaults", "load"}
  BY <1>1 DEF WriteDefault, NBytes, Areas
<1>4. ConfigTypeOK'
  BY <1>1, <1>2, <1>3 DEF ConfigTypeOK, NBytes
<1>5. Flagged' /\ Fresh'
  BY <1>1, <1>3 DEF Flagged, Fresh
<1>6. \A i \in 1 .. at : eeprom'[area][i] = Defaults[area][i]
  BY <1>1, <1>2 DEF Progress, NBytes
<1>7. Progress'
  BY <1>1, <1>3, <1>6 DEF Progress, NBytes
<1>8. Stored'
  <2>1. ASSUME NEW a \in Areas, ~torn'[a], a # area PROVE eeprom'[a] = committed[a]
    BY <1>1, <1>2, <2>1 DEF Stored, ConfigTypeOK
  <2>2. ASSUME ~torn'[area], at = NBytes PROVE eeprom'[area] = committed[area]
    BY <1>1, <1>2, <1>6, <2>2, DefaultsTyped
  <2>3. ASSUME ~torn'[area], at # NBytes PROVE eeprom'[area] = committed[area]
    <3>1. eeprom[area] = Defaults[area]
      BY <1>1, <2>3 DEF Stored, ConfigTypeOK
    <3>. QED
      BY <1>1, <1>2, <3>1, DefaultsTyped
  <2>. QED
    BY <1>1, <2>1, <2>2, <2>3 DEF Stored
<1>9. OnlyFramedStored'
  BY <1>1, <1>2 DEF OnlyFramedStored, FramedBytes
<1>. QED
  BY <1>4, <1>5, <1>7, <1>8, <1>9

LEMMA HandleStep ==
    ASSUME ConfigIInv, Handle
    PROVE  ConfigIInv'
<1>. USE DEF ConfigIInv
<1>1. /\ main = "poll" /\ flag[area] /\ at = 1
      /\ main' = IF buffer[area].framed THEN "write" ELSE "clear"
      /\ UNCHANGED <<eeprom, marker, area, at, buffer, flag, loaded, observer>>
  BY DEF Handle, Progress
<1>. USE DEF observer
<1>2. ConfigTypeOK' /\ Flagged' /\ Fresh' /\ Stored' /\ OnlyFramedStored'
  BY <1>1 DEF ConfigTypeOK, Flagged, Fresh, Stored, OnlyFramedStored
<1>3. Progress'
  BY <1>1 DEF Progress
<1>. QED
  BY <1>2, <1>3

LEMMA WriteByteStep ==
    ASSUME ConfigIInv, WriteByte
    PROVE  ConfigIInv'
<1>. USE DEF ConfigIInv
<1>. DEFINE m == buffer[area]
<1>1. /\ main = "write" /\ flag[area] /\ area \in Areas /\ at \in 1 .. NBytes
      /\ m \in Messages /\ (late \/ m.framed) /\ m.data \in [1 .. NBytes -> Byte]
      /\ eeprom' = [eeprom EXCEPT ![area][at] = m.data[at]]
      /\ torn' = [torn EXCEPT ![area] = TRUE]
      /\ mixed' = [mixed EXCEPT ![area] = mixed[area] \/ late]
      /\ UNCHANGED <<marker, area, buffer, flag, loaded, late, committed>>
  BY ConfigAssumption DEF WriteByte, Flagged, ConfigTypeOK
<1>2. /\ eeprom' \in [Areas -> [1 .. NBytes -> Byte]]
      /\ \A b \in Areas \ {area} : eeprom'[b] = eeprom[b]
      /\ \A j \in 1 .. NBytes : eeprom'[area][j] = IF j = at THEN m.data[at]
                                                            ELSE eeprom[area][j]
  <2>1. m.data[at] \in Byte
    BY <1>1
  <2>2. eeprom \in [Areas -> [1 .. NBytes -> Byte]]
    BY DEF ConfigTypeOK
  <2>. HIDE DEF m
  <2>. QED
    BY <1>1, <2>1, <2>2, OneByte
<1>3. \/ at < NBytes /\ at' = at + 1 /\ main' = "write"
      \/ at = NBytes /\ at' = 1 /\ main' = "clear"
  BY <1>1 DEF WriteByte, NBytes
<1>4. ConfigTypeOK'
  BY <1>1, <1>2, <1>3 DEF ConfigTypeOK, NBytes
<1>5. Flagged' /\ Fresh'
  BY <1>1, <1>3 DEF Flagged, Fresh
<1>6. ~late => \A i \in 1 .. at : eeprom'[area][i] = m.data[i]
  BY <1>1, <1>2 DEF Progress, NBytes
<1>7. ASSUME at = NBytes, ~late PROVE eeprom'[area] = m.data
  <2>1. eeprom'[area] \in [1 .. NBytes -> Byte] /\ m.data \in [1 .. NBytes -> Byte]
    BY <1>1, <1>2
  <2>2. \A i \in 1 .. NBytes : eeprom'[area][i] = m.data[i]
    BY <1>6, <1>7
  <2>. HIDE DEF m
  <2>. QED
    BY <2>1, <2>2, SameBytes
<1>8. Progress'
  BY <1>1, <1>3, <1>6, <1>7 DEF Progress, NBytes
<1>9. Stored'
  BY <1>1, <1>2 DEF Stored, ConfigTypeOK
<1>10. ASSUME NEW a \in Areas, ~mixed'[a], NEW i \in 1 .. NBytes
       PROVE  eeprom'[a][i] \in FramedBytes(a, i)
  <2>1. ~mixed[a] /\ (a = area => ~late)
    BY <1>1, <1>10 DEF ConfigTypeOK
  <2>2. eeprom[a][i] \in FramedBytes(a, i)
    BY <2>1 DEF OnlyFramedStored
  <2>3. CASE a = area /\ i = at
    BY <1>1, <1>2, <2>1, <2>3 DEF FramedBytes
  <2>4. CASE ~(a = area /\ i = at)
    BY <1>1, <1>2, <2>2, <2>4
  <2>. QED
    BY <2>3, <2>4
<1>11. OnlyFramedStored'
  BY <1>10 DEF OnlyFramedStored, FramedBytes
<1>. QED
  BY <1>4, <1>5, <1>8, <1>9, <1>11

LEMMA ClearStep ==
    ASSUME ConfigIInv, Clear
    PROVE  ConfigIInv'
<1>. USE DEF ConfigIInv
<1>1. /\ main = "clear" /\ flag[area] /\ at = 1 /\ area \in Areas
      /\ flag' = [flag EXCEPT ![area] = FALSE]
      /\ main' = "poll" /\ area' \in Areas /\ late' = FALSE
      /\ buffer[area] \in Messages
      /\ UNCHANGED <<eeprom, marker, at, buffer, loaded>>
  BY DEF Clear, ClearFlag, Flagged, Progress, ConfigTypeOK, Other, Areas
<1>2. CASE buffer[area].framed /\ ~late
  <2>1. /\ committed' = [committed EXCEPT ![area] = buffer[area].data]
        /\ torn' = [torn EXCEPT ![area] = FALSE]
        /\ mixed' = [mixed EXCEPT ![area] = FALSE]
        /\ eeprom[area] = buffer[area].data
    BY <1>1, <1>2 DEF Clear, Progress
  <2>2. marker
    BY <1>1 DEF Fresh
  <2>3. ConfigTypeOK'
    BY <1>1, <2>1, ConfigAssumption DEF ConfigTypeOK
  <2>4. \A i \in 1 .. NBytes : eeprom[area][i] \in FramedBytes(area, i)
    BY <1>1, <1>2, <2>1 DEF FramedBytes
  <2>5. OnlyFramedStored'
    BY <1>1, <2>1, <2>4 DEF ConfigTypeOK, OnlyFramedStored
  <2>. QED
    BY <1>1, <2>1, <2>2, <2>3, <2>5 DEF ConfigTypeOK, Flagged, Fresh, Progress, Stored
<1>3. CASE ~(buffer[area].framed /\ ~late)
  <2>1. UNCHANGED <<committed, torn, mixed>>
    BY <1>3 DEF Clear
  <2>. QED
    BY <1>1, <2>1 DEF ConfigTypeOK, Flagged, Fresh, Progress, Stored, OnlyFramedStored
<1>. QED
  BY <1>2, <1>3

\* A message comes in, or power goes.
LEMMA OutsideStep ==
    ASSUME ConfigIInv,
           PowerCut \/ \E a \in Areas, m \in Messages : Receive(a, m)
    PROVE  ConfigIInv'
<1>. USE DEF ConfigIInv
<1>1. CASE PowerCut
  <2>1. /\ UNCHANGED <<eeprom, marker, committed, torn, mixed>> /\ late' = FALSE
        /\ main' = "check" /\ area' \in Areas /\ at' = 1 /\ at' \in 1 .. NBytes
        /\ buffer' \in [Areas -> Messages \cup {None}]
        /\ flag' = [a \in Areas |-> FALSE]
    BY <1>1 DEF PowerCut, observer, NoMessage, NoFlag, Areas, NBytes
  <2>. QED
    BY <2>1 DEF ConfigTypeOK, Flagged, Fresh, Progress, Stored, OnlyFramedStored
<1>2. ASSUME NEW a \in Areas, NEW m \in Messages, Receive(a, m)
      PROVE  ConfigIInv'
  <2>1. /\ main \in {"poll", "write", "clear"}
        /\ buffer' = [buffer EXCEPT ![a] = m]
        /\ flag' = [flag EXCEPT ![a] = TRUE]
        /\ late' = (late \/ (a = area /\ main # "poll"))
        /\ UNCHANGED <<eeprom, marker, main, area, at, loaded, committed, torn, mixed>>
    BY <1>2 DEF Receive
  <2>2. main \in {"write", "clear"} /\ ~late' => a # area
    BY <2>1
  <2>3. ConfigTypeOK' /\ Fresh' /\ Stored' /\ OnlyFramedStored'
    BY <2>1 DEF ConfigTypeOK, Fresh, Stored, OnlyFramedStored
  <2>4. Flagged' /\ Progress'
    BY <2>1, <2>2 DEF ConfigTypeOK, Flagged, Progress
  <2>. QED
    BY <2>3, <2>4
<1>. QED
  BY <1>1, <1>2

LEMMA ConfigStepIInv == ConfigIInv /\ [ConfigNext]_configVars => ConfigIInv'
<1>1. ASSUME ConfigIInv, UNCHANGED configVars PROVE ConfigIInv'
  BY <1>1 DEF ConfigIInv, ConfigTypeOK, Flagged, Fresh, Progress, Stored, OnlyFramedStored,
              configVars, observer
<1>. QED
  BY <1>1, BootStep, WriteDefaultStep, HandleStep, WriteByteStep, ClearStep, OutsideStep
     DEF ConfigNext, Main

-----------------------------------------------------------------------------
(* The theorems. *)

\* The inductive invariant holds in every reachable state, whenever messages come in.
THEOREM ConfigInvariance == ConfigSpec => []ConfigIInv
<1>1. ConfigIInv /\ [ConfigNext]_configVars => ConfigIInv'
  BY ConfigStepIInv
<1>. QED
  BY <1>1, ConfigInitIInv, PTL DEF ConfigSpec

\* The write loops stay inside their area, whatever comes in and whenever power goes.
THEOREM ConfigTypeCorrect == ConfigSpec => []ConfigTypeOK
<1>1. ConfigSpec => []ConfigIInv
  BY ConfigInvariance
<1>2. ConfigIInv => ConfigTypeOK
  BY DEF ConfigIInv
<1>. QED
  BY <1>1, <1>2, PTL

\* Not a byte of a message without the frame marks gets into the EEPROM, but by a write
\* whose buffer a late message changed.
THEOREM Framed == ConfigSpec => []OnlyFramedStored
<1>1. ConfigSpec => []ConfigIInv
  BY ConfigInvariance
<1>2. ConfigIInv => OnlyFramedStored
  BY DEF ConfigIInv
<1>. QED
  BY <1>1, <1>2, PTL

\* When bit 6 falls a framed message is in the EEPROM, whole, unless it came in late.
THEOREM Processed == ConfigSpec => ProcessedMeansStored
<1>1. ConfigSpec => []ConfigIInv
  BY ConfigInvariance
<1>2. ConfigIInv /\ [ConfigNext]_configVars =>
        [\A a \in Areas :
           main = "clear" /\ main' = "poll" /\ flag[a] /\ ~flag'[a] /\ buffer[a].framed
           /\ ~late => eeprom[a] = buffer[a].data]_configVars
  <2>. SUFFICES ASSUME ConfigIInv, ConfigNext, NEW a \in Areas, main = "clear", main' = "poll",
                       flag[a], ~flag'[a], buffer[a].framed, ~late
                PROVE  eeprom[a] = buffer[a].data
    OBVIOUS
  <2>1. Clear
    BY DEF ConfigNext, Main, CheckMarker, WriteMarker, WriteDefault, Load, Open, Quit, Poll, Handle,
           WriteByte, PowerCut, Receive
  <2>2. a = area
    BY <2>1 DEF Clear, ClearFlag, ConfigIInv, ConfigTypeOK
  <2>. QED
    BY <2>2 DEF ConfigIInv, Progress
<1>. QED
  BY <1>1, <1>2, PTL DEF ConfigSpec, ProcessedMeansStored

\* A configuration that was handled is loaded by every later boot, whatever happens to the
\* power, unless power goes while another one is written over it or a late one gets into it.
THEOREM Survives == ConfigSpec => StoredSurvives
<1>1. ConfigSpec => []ConfigIInv
  BY ConfigInvariance
<1>2. ConfigIInv /\ [ConfigNext]_configVars =>
        [main = "load" /\ main' = "menu" =>
           \A a \in Areas : ~torn[a] => loaded'[a] = committed[a]]_configVars
  <2>. SUFFICES ASSUME ConfigIInv, ConfigNext, main = "load", main' = "menu",
                       NEW a \in Areas, ~torn[a]
                PROVE  loaded'[a] = committed[a]
    OBVIOUS
  <2>1. Load
    BY DEF ConfigNext, Main, CheckMarker, WriteMarker, WriteDefault, Open, Quit, Poll, Handle,
           WriteByte, Clear, PowerCut, Receive
  <2>. QED
    BY <2>1 DEF Load, ConfigIInv, Stored
<1>. QED
  BY <1>1, <1>2, PTL DEF ConfigSpec, StoredSurvives
=============================================================================
