---------------------------- MODULE RemoteConfig ----------------------------
(***************************************************************************)
(* The network configuration in the AT24C02 EEPROM: AT24CXX_Check, which   *)
(* writes the defaults on the first boot, lwip_comm_default_ip_set, which  *)
(* loads them, and the reconfiguration by UDP of udp_demo.c: the receive   *)
(* callbacks (in the Ethernet interrupt) leave a message in a buffer and   *)
(* raise bit 6 of a flag; the main loop checks the frame marks of the      *)
(* message, writes its bytes to the EEPROM one by one (10 ms each) and     *)
(* clears the bit.  Nothing keeps the next message out of the buffer       *)
(* meanwhile.  The loop ends when KEY_UP is pressed, and messages wait      *)
(* until a session is opened again.  Power may go at any time.             *)
(*                                                                         *)
(* There are two areas, each with its message buffer and flag: bytes 0-5,  *)
(* the remote address and ports (udp_demo_recv), and bytes 10-15, the      *)
(* local ones (udp_demo_recv2).  Two bytes stand for the six: the last of  *)
(* the address and the first port.                                         *)
(***************************************************************************)
EXTENDS Naturals

CONSTANTS
    Messages,   \* messages that may come in: records [framed, data]
    Erased,     \* a byte of the EEPROM that was never written
    None        \* no message, no configuration

Areas == {"remote", "local"}
NBytes == 2
Byte == 0 .. 255

ASSUME ConfigAssumption ==
    /\ Messages \subseteq [framed : BOOLEAN, data : [1 .. NBytes -> Byte]]
    /\ None \notin Messages
    /\ Erased \in Byte

VARIABLES
    eeprom,     \* the bytes of each area
    marker,     \* byte 255 is 0x76: the EEPROM is initialised
    main,         \* where the main program is
    area, at,   \* the area and the byte it works on
    buffer,     \* udp_demo_recvbuf, udp_demo_recvbuf2
    flag,       \* bit 6 of udp_demo_flag, udp_demo_flag2
    loaded,     \* the configuration lwip_comm_default_ip_set has read
    late,       \* another message came in since main looked at the marks of this one
    committed,  \* the configuration an observer expects: the last message handled
                \* without a late one
    torn,       \* a write of the area was begun since and is not complete
    mixed       \* that write took bytes of a late message

observer == <<late, committed, torn, mixed>>
configVars == <<eeprom, marker, main, area, at, buffer, flag, loaded, observer>>

\* The values AT24CXX_Check writes: 192.168.1.103:87 and 192.168.1.30:10.
Defaults == [remote |-> <<103, 87>>, local |-> <<30, 10>>]

NoMessage == [a \in Areas |-> None]
NoFlag == [a \in Areas |-> FALSE]

\* A new board.
ConfigInit ==
    /\ eeprom = [a \in Areas |-> [i \in 1 .. NBytes |-> Erased]]
    /\ marker = FALSE
    /\ main = "check" /\ area = "remote" /\ at = 1
    /\ buffer = NoMessage /\ flag = NoFlag /\ loaded = None
    /\ late = FALSE
    /\ committed = Defaults
    /\ torn = [a \in Areas |-> TRUE]
    /\ mixed = [a \in Areas |-> FALSE]

-----------------------------------------------------------------------------
(* Boot. *)

\* Mutant: the defaults are written on every boot.
CheckMarkerAlways ==
    /\ main = "check"
    /\ main' = "mark"
    /\ UNCHANGED <<eeprom, marker, area, at, buffer, flag, loaded, observer>>

\* AT24CXX_Check: byte 255 tells whether the EEPROM was initialised before.
CheckMarker ==
    /\ main = "check"
    /\ main' = IF marker THEN "load" ELSE "mark"
    /\ UNCHANGED <<eeprom, marker, area, at, buffer, flag, loaded, observer>>

\* The marker is written first ...
WriteMarker ==
    /\ main = "mark"
    /\ marker' = TRUE
    /\ main' = "defaults"
    /\ UNCHANGED <<eeprom, area, at, buffer, flag, loaded, observer>>

\* ... then the defaults, byte by byte, the remote area before the local one.
WriteDefault ==
    /\ main = "defaults"
    /\ eeprom' = [eeprom EXCEPT ![area][at] = Defaults[area][at]]
    /\ at' = IF at = NBytes THEN 1 ELSE at + 1
    /\ torn' = [torn EXCEPT ![area] = @ /\ at # NBytes]
    /\ IF at < NBytes THEN UNCHANGED <<area, main>>
       ELSE IF area = "remote" THEN area' = "local" /\ UNCHANGED main
       ELSE area' = "remote" /\ main' = "load"
    /\ UNCHANGED <<marker, buffer, flag, loaded, late, committed, mixed>>

\* lwip_comm_default_ip_set; then udp_demo_set_remoteip waits for the user.
Load ==
    /\ main = "load"
    /\ loaded' = eeprom
    /\ main' = "menu"
    /\ UNCHANGED <<eeprom, marker, area, at, buffer, flag, observer>>

-----------------------------------------------------------------------------
(* Sessions: the main loop of udp_demo_test. *)

\* The user opens a session.
Open ==
    /\ main = "menu"
    /\ main' = "poll"
    /\ UNCHANGED <<eeprom, marker, area, at, buffer, flag, loaded, observer>>

\* KEY_UP ends the loop before the flags are looked at; what came in stays.
Quit ==
    /\ main = "poll" /\ area = "remote"
    /\ main' = "menu"
    /\ UNCHANGED <<eeprom, marker, area, at, buffer, flag, loaded, observer>>

Other(a) == IF a = "remote" THEN "local" ELSE "remote"

\* Nothing came in for this area; the loop goes on to the other.
Poll ==
    /\ main = "poll" /\ ~flag[area]
    /\ area' = Other(area)
    /\ UNCHANGED <<eeprom, marker, main, at, buffer, flag, loaded, observer>>

\* Mutant: the frame marks are not looked at.
HandleAny ==
    /\ main = "poll" /\ flag[area]
    /\ main' = "write"
    /\ UNCHANGED <<eeprom, marker, area, at, buffer, flag, loaded, observer>>

\* A message: with 0x55 first and 0x88 last its bytes are written, else it is dropped.
\* The two marks are read within a few instructions, here at once.
Handle ==
    /\ main = "poll" /\ flag[area]
    /\ main' = IF buffer[area].framed THEN "write" ELSE "clear"
    /\ UNCHANGED <<eeprom, marker, area, at, buffer, flag, loaded, observer>>

\* Mutant: one byte too few is written.
WriteByteShort ==
    /\ main = "write"
    /\ eeprom' = [eeprom EXCEPT ![area][at] = buffer[area].data[at]]
    /\ torn' = [torn EXCEPT ![area] = TRUE]
    /\ mixed' = [mixed EXCEPT ![area] = @ \/ late]
    /\ main' = "clear"
    /\ UNCHANGED <<marker, area, at, buffer, flag, loaded, late, committed>>

\* AT24CXX_Write: one byte, from the buffer as it is now.
WriteByte ==
    /\ main = "write"
    /\ eeprom' = [eeprom EXCEPT ![area][at] = buffer[area].data[at]]
    /\ torn' = [torn EXCEPT ![area] = TRUE]
    /\ mixed' = [mixed EXCEPT ![area] = @ \/ late]
    /\ IF at = NBytes THEN at' = 1 /\ main' = "clear"
                      ELSE at' = at + 1 /\ UNCHANGED main
    /\ UNCHANGED <<marker, area, buffer, flag, loaded, late, committed>>


\* udp_demo_flag &= ~(1<<6).  The callback sets only this bit, so what it does between
\* the load and the store is lost as if it had come before the load.
ClearFlag == flag' = [flag EXCEPT ![area] = FALSE]

\* The message is marked as handled, and the loop goes on.  An observer now expects the
\* content of a framed message in the EEPROM, unless another came in meanwhile.
Clear ==
    /\ main = "clear"
    /\ ClearFlag
    /\ IF buffer[area].framed /\ ~late
       THEN /\ committed' = [committed EXCEPT ![area] = buffer[area].data]
            /\ torn' = [torn EXCEPT ![area] = FALSE]
            /\ mixed' = [mixed EXCEPT ![area] = FALSE]
       ELSE UNCHANGED <<committed, torn, mixed>>
    /\ late' = FALSE
    /\ main' = "poll" /\ area' = Other(area)
    /\ UNCHANGED <<eeprom, marker, at, buffer, loaded>>

-----------------------------------------------------------------------------
(* The callbacks and the power supply. *)

\* udp_demo_recv and udp_demo_recv2, which a session registers, fill the buffer and
\* raise bit 6, whether or not the last message was handled.
Receive(a, m) ==
    /\ main \in {"poll", "write", "clear"}
    /\ buffer' = [buffer EXCEPT ![a] = m]
    /\ flag' = [flag EXCEPT ![a] = TRUE]
    /\ late' = (late \/ (a = area /\ main # "poll"))
    /\ UNCHANGED <<eeprom, marker, main, area, at, loaded, committed, torn, mixed>>

\* Power goes and comes back: the main program starts anew with nothing in RAM, and what
\* is in the EEPROM stays.
PowerCut ==
    /\ main' = "check" /\ area' = "remote" /\ at' = 1
    /\ buffer' = NoMessage /\ flag' = NoFlag /\ loaded' = None
    /\ late' = FALSE
    /\ UNCHANGED <<eeprom, marker, committed, torn, mixed>>

-----------------------------------------------------------------------------
Main == \/ CheckMarker \/ WriteMarker \/ WriteDefault \/ Load
        \/ Poll \/ Handle \/ WriteByte \/ Clear

ConfigNext ==
    \/ Main \/ Open \/ Quit
    \/ \E a \in Areas, m \in Messages : Receive(a, m)
    \/ PowerCut

\* The main program runs on (handlers are short); no key need ever be pressed.
ConfigSpec == ConfigInit /\ [][ConfigNext]_configVars /\ WF_configVars(Main)

-----------------------------------------------------------------------------
(* Properties. *)

\* The variables stay in their types: the write loops stay inside their area.
ConfigTypeOK ==
    /\ eeprom \in [Areas -> [1 .. NBytes -> Byte]]
    /\ marker \in BOOLEAN
    /\ main \in {"check", "mark", "defaults", "load", "menu", "poll", "write", "clear"}
    /\ area \in Areas /\ at \in 1 .. NBytes
    /\ buffer \in [Areas -> Messages \cup {None}]
    /\ flag \in [Areas -> BOOLEAN]
    /\ late \in BOOLEAN
    /\ committed \in [Areas -> [1 .. NBytes -> Byte]]
    /\ torn \in [Areas -> BOOLEAN] /\ mixed \in [Areas -> BOOLEAN]

\* udp_demo.c:181 says that clearing bit 6 marks the data as processed: when the bit
\* falls while power is on, a framed message in the buffer is in the EEPROM, whole,
\* unless it is one that came in after main had looked at the marks of another.
ProcessedMeansStored ==
    [][\A a \in Areas :
         main = "clear" /\ main' = "poll" /\ flag[a] /\ ~flag'[a] /\ buffer[a].framed
         /\ ~late => eeprom[a] = buffer[a].data]_configVars

FramedBytes(a, i) ==
    {Erased, Defaults[a][i]} \cup {m.data[i] : m \in {n \in Messages : n.framed}}

\* A message without the frame marks (udp_demo.c:174, 185) leaves no byte in the EEPROM:
\* each is erased, a default or from a framed message, in every state, also in the
\* middle of a write and after power went there.  The exception is the buffer changing
\* under the write: an area that took bytes of a late message (mixed) may keep them until a
\* write without one is complete.
OnlyFramedStored ==
    \A a \in Areas : ~mixed[a] => \A i \in 1 .. NBytes : eeprom[a][i] \in FramedBytes(a, i)

\* A configuration that was handled survives: whatever happens to the power, whatever
\* comes in and however often sessions end, a boot loads the last message handled without a
\* late one or the defaults, unless a later write was begun and power went in the
\* middle of it or a late message got into it.
StoredSurvives ==
    [][main = "load" /\ main' = "menu" =>
         \A a \in Areas : ~torn[a] => loaded'[a] = committed[a]]_configVars


-----------------------------------------------------------------------------
(* What does not hold. *)

\* ProcessedMeansStored for late messages too: main clears the bit of a message it has not
\* looked at, or has written a part of.
AlwaysStored ==
    [][\A a \in Areas :
         main = "clear" /\ main' = "poll" /\ flag[a] /\ ~flag'[a] /\ buffer[a].framed =>
             eeprom[a] = buffer[a].data]_configVars

\* OnlyFramedStored for late messages too.
NeverUnframed ==
    \A a \in Areas, i \in 1 .. NBytes : eeprom[a][i] \in FramedBytes(a, i)
=============================================================================
