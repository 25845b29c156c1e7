----------------------------- MODULE UdpSession -----------------------------
(***************************************************************************)
(* The UDP session of udp_demo.c over the list udp_pcbs of lwIP (udp.c).   *)
(*                                                                         *)
(* The main program opens a session with two pcbs (udp_new, udp_connect,   *)
(* udp_bind, udp_recv), runs its loop, closes it when WKUP is pressed and  *)
(* opens it anew when KEY1 is pressed.  Interrupt handlers preempt it:     *)
(* udp_input walks the list for a datagram that came in, moves the pcb it  *)
(* finds to the front and calls its callback; the audio DMA handlers send  *)
(* over the global pointers udppcb and udppcb2, at any time, and udp_send  *)
(* binds a pcb that is not bound.  Nothing protects the list (there is no  *)
(* RTOS and SYS_LIGHTWEIGHT_PROT is 0).                                    *)
(***************************************************************************)
EXTENDS Naturals, FiniteSets

CONSTANTS
    Pcbs,       \* the pool MEMP_UDP_PCB
    Nil,        \* a null pointer
    NoPort,     \* local_port 0
    Ports,      \* values of local_port[] in the EEPROM
    Anywhere,   \* TRUE: handlers preempt the stack; FALSE: only between calls of it
    Audio       \* TRUE: the audio handlers send

Channels == {1, 2}

ASSUME SessionAssumption ==
    /\ IsFiniteSet(Pcbs) /\ Cardinality(Pcbs) >= 2
    /\ Nil \notin Pcbs /\ NoPort \notin Ports \cup Pcbs /\ Ports \cap Pcbs = {}
    /\ Anywhere \in BOOLEAN /\ Audio \in BOOLEAN

VARIABLES
    free,       \* the pcbs memp_malloc can give out
    head, next, \* udp_pcbs and the next field of each pcb
    local,      \* local_port; a port udp_new_port chose is named by its pcb
    peer,       \* a remote address and port are set
    connected,  \* UDP_FLAGS_CONNECTED
    recv,       \* the channel whose callback is set, or 0
    udppcb,     \* the global pointers udppcb and udppcb2
    local_port, \* the configured local ports
    linked,     \* bit 5 of udp_demo_flag
    res,        \* udp_demo_test: opening failed
    pc, ch,     \* where the main program is, and the channel it works on
    op,         \* what it links a pcb for
    pred        \* udp_remove: the pcb before the one to remove

listVars == <<head, next>>
pcbVars == <<local, peer, connected, recv>>
appVars == <<udppcb, local_port, linked, res>>
mainVars == <<pc, ch, op, pred>>
vars == <<free, listVars, pcbVars, appVars, mainVars>>

Init ==
    /\ free = Pcbs
    /\ head = Nil /\ next = [p \in Pcbs |-> Nil]
    /\ local = [p \in Pcbs |-> NoPort]
    /\ peer = [p \in Pcbs |-> FALSE]
    /\ connected = [p \in Pcbs |-> FALSE]
    /\ recv = [p \in Pcbs |-> 0]
    /\ udppcb = [c \in Channels |-> Nil]
    /\ local_port \in [Channels -> Ports]
    /\ linked = FALSE /\ res = FALSE
    /\ pc = "new" /\ ch = 1 /\ op = "auto" /\ pred = Nil

-----------------------------------------------------------------------------
(* The list. *)

\* The nth pcb a walk of the list visits.
Visit[n \in 0 .. Cardinality(Pcbs)] ==
    IF n = 0 THEN head
    ELSE IF Visit[n - 1] = Nil THEN Nil ELSE next[Visit[n - 1]]

Steps == 0 .. Cardinality(Pcbs)

Listed == {Visit[n] : n \in Steps} \ {Nil}

\* A walk never ends.
Cyclic == Visit[Cardinality(Pcbs)] # Nil

\* The first pcb of a walk among the pcbs S, Nil if none is.
FirstOf(S) ==
    IF S \cap Listed = {} THEN Nil
    ELSE LET n == CHOOSE i \in Steps : /\ Visit[i] \in S
                                       /\ \A j \in 0 .. i - 1 : Visit[j] \notin S
         IN Visit[n]

\* The last pcb the walk of udp_remove finds before p.
Before(p) == {q \in Listed : next[q] = p}

-----------------------------------------------------------------------------
(* The main program. *)

pcb == udppcb[ch]

\* Both channels were tried: the session runs, or is closed if one of them failed.
NextChannel(failed) ==
    /\ res' = (res \/ failed)
    /\ IF ch = 1 THEN ch' = 2 /\ pc' = "connect"
       ELSE ch' = 1 /\ pc' = IF res \/ failed THEN "close" ELSE "loop"

\* udp_demo_test leaves when it has no memory for its text buffer.
NoBuffer ==
    /\ pc = "new" /\ ch = 1
    /\ pc' = "menu"
    /\ UNCHANGED <<free, listVars, pcbVars, appVars, ch, op, pred>>

\* udp_new
New ==
    /\ pc = "new"
    /\ IF free = {}
       THEN /\ udppcb' = [udppcb EXCEPT ![ch] = Nil]
            /\ UNCHANGED <<free, next, pcbVars>>
       ELSE \E p \in free :
            /\ udppcb' = [udppcb EXCEPT ![ch] = p]
            /\ free' = free \ {p}
            /\ next' = [next EXCEPT ![p] = Nil]
            /\ local' = [local EXCEPT ![p] = NoPort]
            /\ peer' = [peer EXCEPT ![p] = FALSE]
            /\ connected' = [connected EXCEPT ![p] = FALSE]
            /\ recv' = [recv EXCEPT ![p] = 0]
    /\ IF ch = 1 THEN ch' = 2 /\ UNCHANGED pc
                 ELSE ch' = 1 /\ pc' = "connect"
    /\ UNCHANGED <<head, local_port, linked, res, op, pred>>

\* udp_connect begins: a pcb without a port is bound to a port of udp_new_port.
Connect ==
    /\ pc = "connect"
    /\ IF pcb = Nil THEN NextChannel(TRUE) /\ UNCHANGED op
       ELSE /\ IF local[pcb] = NoPort THEN op' = "auto" /\ pc' = "scan"
                                      ELSE pc' = "attach" /\ UNCHANGED op
            /\ UNCHANGED <<ch, res>>
    /\ UNCHANGED <<free, listVars, pcbVars, udppcb, local_port, linked, pred>>

\* Another pcb of the list has the port (all have IP_ADDR_ANY).
OtherOn(port) == \E q \in Listed \ {pcb} : local[q] = port

\* udp_bind walks the list: the port may be in use, and a pcb already in the list is
\* not linked again.
Scan ==
    /\ pc = "scan"
    /\ LET port == IF op = "auto" THEN pcb ELSE local_port[ch] IN
       IF OtherOn(port)
       THEN /\ NextChannel(TRUE)
            /\ UNCHANGED <<local, linked, recv, op>>
       ELSE /\ local' = [local EXCEPT ![pcb] = port]
            /\ IF pcb \notin Listed
               THEN pc' = "link" /\ UNCHANGED <<ch, res, op, linked, recv>>
               ELSE IF op = "auto"
               THEN pc' = "attach" /\ UNCHANGED <<ch, res, op, linked, recv>>
               ELSE /\ recv' = [recv EXCEPT ![pcb] = ch]
                    /\ linked' = (linked \/ ch = 1)
                    /\ NextChannel(FALSE)
                    /\ UNCHANGED op
    /\ UNCHANGED <<free, listVars, peer, connected, udppcb, local_port, pred>>

\* pcb->next = udp_pcbs
Link ==
    /\ pc = "link"
    /\ next' = [next EXCEPT ![pcb] = head]
    /\ pc' = "link head"
    /\ UNCHANGED <<free, head, pcbVars, appVars, ch, op, pred>>

\* udp_pcbs = pcb, and on from where the pcb was to be linked.
LinkHead ==
    /\ pc = "link head"
    /\ head' = pcb
    /\ CASE op = "auto"   -> pc' = "attach" /\ UNCHANGED <<ch, res, op, linked, recv>>
         [] op = "attach" -> pc' = "scan" /\ op' = "port" /\ UNCHANGED <<ch, res, linked, recv>>
         [] op = "port"   -> /\ recv' = [recv EXCEPT ![pcb] = ch]
                             /\ linked' = (linked \/ ch = 1)
                             /\ NextChannel(FALSE)
                             /\ UNCHANGED op
    /\ UNCHANGED <<free, next, local, peer, connected, udppcb, local_port, pred>>

\* udp_connect goes on: the remote side is set, and the pcb linked if it is not.
Attach ==
    /\ pc = "attach"
    /\ peer' = [peer EXCEPT ![pcb] = TRUE]
    /\ connected' = [connected EXCEPT ![pcb] = TRUE]
    /\ IF pcb \in Listed THEN pc' = "scan" /\ op' = "port"
                         ELSE pc' = "link" /\ op' = "attach"
    /\ UNCHANGED <<free, listVars, local, recv, appVars, ch, pred>>

\* WKUP is pressed in the loop.
Quit ==
    /\ pc = "loop"
    /\ pc' = "close"
    /\ UNCHANGED <<free, listVars, pcbVars, appVars, ch, op, pred>>

\* udp_demo_connection_close: udp_disconnect.
Disconnect ==
    /\ pc = "close" /\ pcb # Nil
    /\ peer' = [peer EXCEPT ![pcb] = FALSE]
    /\ connected' = [connected EXCEPT ![pcb] = FALSE]
    /\ pc' = "remove"
    /\ UNCHANGED <<free, listVars, local, recv, appVars, ch, op, pred>>

\* udp_remove: is the pcb the first, or which is before it?
Remove ==
    /\ pc = "remove"
    /\ IF head = pcb THEN pc' = "unlink head" /\ UNCHANGED pred
       ELSE IF Before(pcb) = {} THEN pc' = "free" /\ UNCHANGED pred
       ELSE pc' = "unlink" /\ pred' \in Before(pcb)
    /\ UNCHANGED <<free, listVars, pcbVars, appVars, ch, op>>

\* udp_pcbs = udp_pcbs->next, from udp_pcbs as tested or as it is now.
UnlinkHead ==
    /\ pc = "unlink head"
    /\ \E p \in {pcb, head} \ {Nil} : head' = next[p]
    /\ pc' = "free"
    /\ UNCHANGED <<free, next, pcbVars, appVars, ch, op, pred>>

\* pcb2->next = pcb->next
Unlink ==
    /\ pc = "unlink"
    /\ next' = [next EXCEPT ![pred] = next[pcb]]
    /\ pc' = "free"
    /\ UNCHANGED <<free, head, pcbVars, appVars, ch, op, pred>>

\* Mutant: the pcb is not given back.
FreeNothing == UNCHANGED free

\* memp_free
MempFree == free' = free \cup {pcb}

\* Mutant: bit 5 stays.
LinkedStays == UNCHANGED linked

\* udp_demo_flag &= ~(1<<5)
Unlinked == linked' = FALSE

\* The pcb is freed; the global pointer to it stays.
Free ==
    /\ pc = "free"
    /\ MempFree
    /\ Unlinked
    /\ IF ch = 1 THEN ch' = 2 /\ pc' = "close" /\ UNCHANGED res
                 ELSE ch' = 1 /\ pc' = "menu" /\ res' = FALSE
    /\ UNCHANGED <<listVars, pcbVars, udppcb, local_port, op, pred>>

\* main: KEY1 opens a session, unless bit 5 says there is one.
Key1 ==
    /\ pc = "menu"
    /\ ~linked
    /\ pc' = "new"
    /\ UNCHANGED <<free, listVars, pcbVars, appVars, ch, op, pred>>

-----------------------------------------------------------------------------
(* The interrupt handlers.  A handler runs to its end once it has started. *)

\* The main program is not inside a call of the stack.
BetweenCalls ==
    \/ pc \in {"new", "connect", "loop", "close", "remove", "menu"}
    \/ pc = "scan" /\ op = "port"

Interrupts == Anywhere \/ BetweenCalls

\* Mutant: the pcb found is put first but not taken out of its place.
MoveToFrontTwice(p) ==
    IF head = p THEN UNCHANGED listVars
    ELSE next' = [next EXCEPT ![p] = head] /\ head' = p

\* udp_input puts the pcb it found first.
MoveToFront(p) ==
    IF head = p THEN UNCHANGED listVars
    ELSE LET q == FirstOf(Before(p)) IN
         /\ next' = [next EXCEPT ![q] = next[p], ![p] = head]
         /\ head' = p

\* udp_input: a datagram for a configured port, from the remote side of the session or
\* from another.  A pcb with that remote side gets it, else the first that is not
\* connected; its callback takes the sender as the remote side.
UdpInput(port, known) ==
    /\ Interrupts
    /\ LET here == {p \in Listed : local[p] = port}
           full == FirstOf({p \in here : peer[p] /\ known})
           found == IF full # Nil THEN full ELSE FirstOf({p \in here : ~connected[p]})
       IN /\ IF full # Nil THEN MoveToFront(full) ELSE UNCHANGED listVars
          /\ peer' = IF found # Nil /\ recv[found] # 0
                     THEN [peer EXCEPT ![found] = TRUE] ELSE peer
    /\ UNCHANGED <<free, local, connected, recv, appVars, mainVars>>

\* udp_demo_senddata, udp_demo_senddata2: udp_send over the global pointer, also when it
\* is null (no session yet: what is at address 0 is read, and no pcb changes) or when
\* its pcb was freed.
AudioSend(c) ==
    /\ Audio /\ Interrupts
    /\ LET p == udppcb[c] IN
       IF p # Nil /\ local[p] = NoPort
       THEN /\ local' = [local EXCEPT ![p] = p]
            /\ IF p \in Listed THEN UNCHANGED listVars
               ELSE next' = [next EXCEPT ![p] = head] /\ head' = p
       ELSE UNCHANGED <<local, listVars>>
    /\ UNCHANGED <<free, peer, connected, recv, appVars, mainVars>>

-----------------------------------------------------------------------------
Main == \/ NoBuffer \/ New \/ Connect \/ Scan \/ Link \/ LinkHead \/ Attach
        \/ Quit \/ Disconnect \/ Remove \/ UnlinkHead \/ Unlink \/ Free \/ Key1

Handlers == \/ \E port \in Ports, known \in BOOLEAN : UdpInput(port, known)
            \/ \E c \in Channels : AudioSend(c)

Next == Main \/ Handlers

Spec == Init /\ [][Next]_vars

-----------------------------------------------------------------------------
(* Properties. *)

Live == Pcbs \ free

\* The variables stay in their types; what is given back is a pcb.
TypeOK ==
    /\ free \subseteq Pcbs
    /\ head \in Pcbs \cup {Nil} /\ next \in [Pcbs -> Pcbs \cup {Nil}]
    /\ local \in [Pcbs -> Ports \cup Pcbs \cup {NoPort}]
    /\ peer \in [Pcbs -> BOOLEAN] /\ connected \in [Pcbs -> BOOLEAN]
    /\ recv \in [Pcbs -> Channels \cup {0}]
    /\ udppcb \in [Channels -> Pcbs \cup {Nil}]
    /\ local_port \in [Channels -> Ports]
    /\ linked \in BOOLEAN /\ res \in BOOLEAN
    /\ pc \in {"new", "connect", "scan", "link", "link head", "attach", "loop", "close",
               "remove", "unlink head", "unlink", "free", "menu"}
    /\ ch \in Channels /\ op \in {"auto", "attach", "port"} /\ pred \in Pcbs \cup {Nil}

\* Between two calls of the stack a walk of udp_pcbs ends and visits exactly the pcbs that
\* are in use and bound; no two of them ever have the same port (udp_bind, ERR_USE), so a
\* datagram has one receiver.
ListExact ==
    /\ TypeOK
    /\ BetweenCalls => ~Cyclic /\ Listed = {p \in Live : local[p] # NoPort}
    /\ \A p, q \in Listed : p # q => local[p] # local[q]

\* A session leaves no pcb behind, so the next one finds two (udp_demo_connection_close
\* would write through a null pointer).
NoPcbLost ==
    /\ pc = "menu" => free = Pcbs
    /\ pc = "close" => pcb # Nil

\* udp_demo.c:36 says of bit 5: 0, not connected; 1, connected.  It is set in the loop of
\* a session, clear outside, and while it is set and the loop runs each channel's pcb is
\* live, connected, on its port and has its callback.
LinkedTrue ==
    /\ pc = "menu" => ~linked
    /\ pc = "loop" => /\ linked
                      /\ \A c \in Channels : LET p == udppcb[c] IN
                            /\ p \in Live /\ connected[p]
                            /\ local[p] = local_port[c] /\ recv[p] = c

\* udp.c:940-941 says that udp_remove removes the pcb from the list and frees it: no
\* pcb of the list is free.
RemovedIsGone == Listed \cap free = {}
=============================================================================
