-------------------------- MODULE UdpSessionProofs --------------------------
(***************************************************************************)
(* UdpSession's safety for pools of every size and any set of ports.  That  *)
(* a session leaves no pcb behind and that bit 5 says the truth needs       *)
(* nothing of the interrupts.  That the list is exact is proved for         *)
(* behaviours in which they may come anywhere, but a handler that comes     *)
(* inside a call of the stack changes neither the links nor a port (it      *)
(* finds the pcb first in the list and sends by a bound one).               *)
(***************************************************************************)
EXTENDS UdpSession, FiniteSetTheorems, WellFoundedInduction, TLAPS

Opening == pc \in {"connect", "scan", "link", "link head", "attach"}
Closing == pc \in {"close", "remove", "unlink head", "unlink", "free"}

\* The channels whose pcb the main program holds.
Held == {c \in Channels : \/ pc = "new" /\ c < ch
                          \/ Opening \/ pc = "loop"
                          \/ Closing /\ c >= ch}

Owned == /\ Live = {udppcb[c] : c \in Held}
         /\ \A c, d \in Held : udppcb[c] = udppcb[d] => c = d

\* A port that udp_new_port chose is the pcb's own.
OwnPort == \A p \in Pcbs : local[p] \in Pcbs => local[p] = p

Tried(c) == pc = "loop" \/ (Opening /\ c < ch)

\* A channel that was tried has a bound pcb, and one whose pcb was freed left it bound:
\* what the audio handlers bind by an old pointer is a pcb in use.
BoundOnce ==
    \A c \in Channels :
        Tried(c) \/ Closing \/ udppcb[c] \in free =>
            udppcb[c] \in Pcbs /\ local[udppcb[c]] # NoPort

Done(c) == /\ connected[udppcb[c]] /\ local[udppcb[c]] = local_port[c] /\ recv[udppcb[c]] = c
           /\ c = 1 => linked

\* How far the session is ...
Progress ==
    /\ pc \in {"loop", "menu"} => ch = 1
    /\ pc = "loop" => ~res
    /\ pc \in {"new", "menu"} => ~linked
    /\ \A c \in Channels : Tried(c) /\ ~res => Done(c)

\* ... and how far its channel is.
Doing ==
    /\ pc \in {"link", "link head", "attach"} \/ (pc = "scan" /\ op # "auto") =>
          local[pcb] # NoPort
    /\ pc \in {"scan", "link", "link head"} /\ op # "auto" => connected[pcb]
    /\ pc \in {"link", "link head"} /\ op = "port" => local[pcb] = local_port[ch]

SessionInv == TypeOK /\ Owned /\ OwnPort /\ BoundOnce /\ Progress /\ Doing

\* The pcbs L hang on hd by nx, each once: f[0], f[1], ... f[n - 1].
ListIs(hd, nx, L) ==
    \E n \in 0 .. Cardinality(Pcbs) : \E f \in [0 .. n - 1 -> Pcbs] :
        /\ L = {f[i] : i \in 0 .. n - 1}
        /\ \A i, j \in 0 .. n - 1 : f[i] = f[j] => i = j
        /\ hd = IF n = 0 THEN Nil ELSE f[0]
        /\ \A i \in 0 .. n - 1 : nx[f[i]] = IF i + 1 = n THEN Nil ELSE f[i + 1]

Bound == {p \in Live : local[p] # NoPort}

\* The pcbs in the list: between its binding and its linking, and after udp_remove took
\* it out, a pcb is bound and not in the list.
InList == IF pc \in {"link", "link head", "free"} THEN Bound \ {pcb} ELSE Bound

\* What the calls of the stack have seen of the list is still so.
Midway ==
    /\ pc \in {"link", "link head"} => op = "auto"
    /\ pc = "link head" => next[pcb] = head
    /\ pc = "unlink head" => head = pcb
    /\ pc = "unlink" => pred \in InList /\ next[pred] = pcb

OnePortEach == \A p, q \in Bound : local[p] = local[q] => p = q

IInv == SessionInv /\ ListIs(head, next, InList) /\ Midway /\ OnePortEach

-----------------------------------------------------------------------------
(* Walks of the list. *)

\* A set of natural numbers that is not empty has a least one.
LEMMA LeastNumber ==
    ASSUME NEW T \in SUBSET Nat, T # {}
    PROVE  \E x \in T : \A y \in T : x <= y
<1>1. \E x \in T : \A y \in T : <<y, x>> \notin OpToRel(<, Nat)
  BY NatLessThanWellFounded, WFMin
<1>2. \A x, y \in Nat : y < x => <<y, x>> \in OpToRel(<, Nat)
  BY DEF OpToRel
<1>3. \E x \in T : \A y \in T : ~(y < x)
  BY <1>1, <1>2, Zenon
<1>. QED
  BY <1>3

\* Induction, on the set of the numbers that have a property.
LEMMA SetInduction ==
    ASSUME NEW S, 0 \in S, \A n \in Nat : n \in S => n + 1 \in S
    PROVE  Nat \subseteq S
<1>. SUFFICES ASSUME Nat \ S # {} PROVE FALSE
  OBVIOUS
<1>1. PICK x \in Nat \ S : \A y \in Nat \ S : x <= y
  BY LeastNumber
<1>2. x # 0 /\ x - 1 \in Nat
  BY <1>1
<1>. QED
  BY <1>1, <1>2

LEMMA PoolSize == /\ IsFiniteSet(Pcbs) /\ Cardinality(Pcbs) \in Nat /\ Cardinality(Pcbs) >= 2
                  /\ Steps \subseteq Nat
  BY SessionAssumption, FS_CardinalityType DEF Steps

\* The walk is what its recursive definition says.
LEMMA VisitDef ==
    Visit = [k \in Steps |-> IF k = 0 THEN head
                             ELSE IF Visit[k - 1] = Nil THEN Nil ELSE next[Visit[k - 1]]]
<1>. DEFINE To(h, n) == h = [k \in 0 .. n |-> IF k = 0 THEN head
                                             ELSE IF h[k - 1] = Nil THEN Nil ELSE next[h[k - 1]]]
            S == {n \in Nat : \E h : To(h, n)}
<1>1. 0 \in S
  <2>1. To([k \in 0 .. 0 |-> head], 0)
    OBVIOUS
  <2>. QED
    BY <2>1
<1>2. \A n \in Nat : n \in S => n + 1 \in S
  <2>. SUFFICES ASSUME NEW n \in Nat, NEW h, To(h, n) PROVE \E g : To(g, n + 1)
    OBVIOUS
  <2>. DEFINE step(x) == IF x = Nil THEN Nil ELSE next[x]
              g == [k \in 0 .. n + 1 |-> IF k = n + 1 THEN step(h[n]) ELSE h[k]]
  <2>1. \A k \in 0 .. n : h[k] = IF k = 0 THEN head ELSE step(h[k - 1])
    OBVIOUS
  <2>. HIDE DEF step
  <2>2. \A k \in 0 .. n + 1 : g[k] = IF k = 0 THEN head ELSE step(g[k - 1])
    <3>. TAKE k \in 0 .. n + 1
    <3>1. CASE k = n + 1
      <4>1. g[k - 1] = h[n] /\ k # 0 /\ g[k] = step(h[n])
        BY <3>1
      <4>. QED
        BY <4>1, Zenon
    <3>2. CASE k # n + 1
      <4>1. k \in 0 .. n /\ (k # 0 => k - 1 \in 0 .. n /\ k - 1 # n + 1)
        BY <3>2
      <4>2. g[k] = h[k] /\ (k # 0 => g[k - 1] = h[k - 1])
        BY <3>2, <4>1
      <4>. HIDE DEF g
      <4>. QED
        BY <2>1, <4>1, <4>2
    <3>. QED
      BY <3>1, <3>2
  <2>3. To(g, n + 1)
    BY <2>2 DEF step
  <2>. QED
    BY <2>3
<1>. HIDE DEF S
<1>3. Nat \subseteq S
  BY <1>1, <1>2, SetInduction
<1>4. \E h : To(h, Cardinality(Pcbs))
  BY <1>3, PoolSize DEF S
<1>. QED
  BY <1>4 DEF Visit, Steps

\* A walk meets pcbs and then null pointers.
LEMMA VisitType == TypeOK => \A k \in Steps : Visit[k] \in Pcbs \cup {Nil}
<1>. SUFFICES ASSUME TypeOK PROVE \A k \in Steps : Visit[k] \in Pcbs \cup {Nil}
  OBVIOUS
<1>. DEFINE S == {n \in Nat : n \in Steps => Visit[n] \in Pcbs \cup {Nil}}
<1>1. head \in Pcbs \cup {Nil} /\ next \in [Pcbs -> Pcbs \cup {Nil}]
  BY DEF TypeOK
<1>2. 0 \in S
  <2>1. 0 \in Steps => Visit[0] = head
    BY VisitDef
  <2>. QED
    BY <1>1, <2>1
<1>3. \A n \in Nat : n \in S => n + 1 \in S
  <2>. SUFFICES ASSUME NEW n \in Nat, n \in S, n + 1 \in Steps
                PROVE  Visit[n + 1] \in Pcbs \cup {Nil}
    OBVIOUS
  <2>1. n \in Steps
    BY PoolSize DEF Steps
  <2>2. Visit[n + 1] = IF Visit[n] = Nil THEN Nil ELSE next[Visit[n]]
    BY VisitDef, n + 1 # 0, n + 1 - 1 = n
  <2>. QED
    BY <1>1, <2>1, <2>2
<1>. HIDE DEF S
<1>4. Nat \subseteq S
  BY <1>2, <1>3, SetInduction
<1>. QED
  BY <1>4, PoolSize DEF S

LEMMA ListedType == TypeOK => Listed \subseteq Pcbs
  BY VisitType DEF Listed

\* The first of a walk among some pcbs is one of them.
LEMMA FirstOfIn ==
    ASSUME TypeOK, NEW S \in SUBSET Pcbs
    PROVE  IF S \cap Listed = {} THEN FirstOf(S) = Nil ELSE FirstOf(S) \in S \cap Listed
<1>. DEFINE First(i) == Visit[i] \in S /\ \A j \in 0 .. i - 1 : Visit[j] \notin S
            Meets == {i \in Steps : Visit[i] \in S}
<1>1. Nil \notin S
  BY SessionAssumption
<1>2. CASE S \cap Listed = {}
  BY <1>2 DEF FirstOf
<1>3. CASE S \cap Listed # {}
  <2>1. Meets \in SUBSET Nat /\ Meets # {}
    BY <1>3, PoolSize DEF Listed
  <2>2. PICK i \in Meets : \A j \in Meets : i <= j
    BY <2>1, LeastNumber
  <2>3. \A j \in 0 .. i - 1 : j \in Steps /\ j \notin Meets
    BY <2>1, <2>2, PoolSize DEF Steps
  <2>4. \E n \in Steps : First(n)
    BY <2>2, <2>3
  <2>5. FirstOf(S) = LET n == CHOOSE n \in Steps : First(n) IN Visit[n]
    BY <1>3 DEF FirstOf
  <2>6. \E n \in Steps : First(n) /\ FirstOf(S) = Visit[n]
    BY <2>4, <2>5
  <2>. QED
    BY <1>1, <1>3, <2>6 DEF Listed
<1>. QED
  BY <1>2, <1>3

-----------------------------------------------------------------------------
(* What the list is after a pcb is linked or taken out.  hd and nx stand for *)
(* the head and the links before the step.                                   *)

\* A walk of such a list meets its pcbs and ends.
LEMMA WalkOfList ==
    ASSUME NEW L, ListIs(head, next, L)
    PROVE  Listed = L /\ ~Cyclic
<1>1. PICK n, f :
          /\ n \in 0 .. Cardinality(Pcbs) /\ f \in [0 .. n - 1 -> Pcbs]
          /\ L = {f[i] : i \in 0 .. n - 1}
          /\ head = IF n = 0 THEN Nil ELSE f[0]
          /\ \A i \in 0 .. n - 1 : next[f[i]] = IF i + 1 = n THEN Nil ELSE f[i + 1]
  BY ZenonT(60) DEF ListIs
<1>. DEFINE seen(k) == IF k < n THEN f[k] ELSE Nil
            S == {k \in Nat : k \in Steps => Visit[k] = seen(k)}
<1>a. n \in Nat /\ Cardinality(Pcbs) \in Nat /\ n <= Cardinality(Pcbs)
      /\ Steps = 0 .. Cardinality(Pcbs)
  BY <1>1, PoolSize DEF Steps
<1>2. \A k \in 0 .. n - 1 : f[k] # Nil
  BY <1>1, SessionAssumption
<1>3. 0 \in S
  BY VisitDef, <1>1
<1>4. \A k \in Nat : k \in S => k + 1 \in S
  <2>. SUFFICES ASSUME NEW k \in Nat, k \in S, k + 1 \in Steps
                PROVE  Visit[k + 1] = seen(k + 1)
    OBVIOUS
  <2>1. Visit[k] = seen(k)
    BY PoolSize DEF Steps
  <2>2. Visit[k + 1] = IF Visit[k] = Nil THEN Nil ELSE next[Visit[k]]
    BY VisitDef, k + 1 # 0, k + 1 - 1 = k
  <2>3. CASE k < n
    <3>1. k \in 0 .. n - 1
      BY <1>a, <2>3
    <3>2. Visit[k + 1] = next[f[k]]
      BY <1>2, <2>1, <2>2, <2>3, <3>1
    <3>3. next[f[k]] = IF k + 1 = n THEN Nil ELSE f[k + 1]
      BY <1>1, <3>1
    <3>. QED
      BY <1>a, <2>3, <3>2, <3>3
  <2>4. CASE ~(k < n)
    BY <1>a, <2>1, <2>2, <2>4
  <2>. QED
    BY <2>3, <2>4
<1>. HIDE DEF S
<1>5. Nat \subseteq S
  BY <1>3, <1>4, SetInduction
<1>6. \A k \in Steps : Visit[k] = seen(k)
  BY <1>5, PoolSize DEF S
<1>7. Listed = L
  <2>1. \A k \in 0 .. n - 1 : k \in Steps /\ k < n
    BY <1>a
  <2>2. \A k \in Steps : k < n => k \in 0 .. n - 1
    BY <1>a
  <2>3. Listed \subseteq L
    BY <1>1, <1>6, <2>2 DEF Listed
  <2>4. L \subseteq Listed
    BY <1>1, <1>2, <1>6, <2>1 DEF Listed
  <2>. QED
    BY <2>3, <2>4
<1>8. ~Cyclic
  BY <1>6, <1>a DEF Cyclic
<1>. QED
  BY <1>7, <1>8

LEMMA EmptyList == \A nx : ListIs(Nil, nx, {})
<1>. TAKE nx
<1>. DEFINE f == [i \in 0 .. 0 - 1 |-> Nil]
<1>1. f \in [0 .. 0 - 1 -> Pcbs] /\ {} = {f[i] : i \in 0 .. 0 - 1} /\ 0 .. 0 - 1 = {}
  OBVIOUS
<1>2. 0 \in 0 .. Cardinality(Pcbs)
  BY PoolSize
<1>. QED
  BY <1>1, <1>2 DEF ListIs

\* The link of a pcb that is not in the list does not matter.
LEMMA OtherLink ==
    ASSUME NEW hd, NEW nx \in [Pcbs -> Pcbs \cup {Nil}], NEW L, ListIs(hd, nx, L),
           NEW p \in Pcbs, p \notin L, NEW x
    PROVE  ListIs(hd, [nx EXCEPT ![p] = x], L)
  BY DEF ListIs

\* pcb->next = udp_pcbs; udp_pcbs = pcb.
LEMMA LinkFirst ==
    ASSUME NEW hd, NEW nx \in [Pcbs -> Pcbs \cup {Nil}], NEW L, ListIs(hd, nx, L),
           NEW p \in Pcbs, p \notin L, nx[p] = hd
    PROVE  ListIs(p, nx, L \cup {p})
<1>1. PICK n, f :
          /\ n \in 0 .. Cardinality(Pcbs) /\ f \in [0 .. n - 1 -> Pcbs]
          /\ L = {f[i] : i \in 0 .. n - 1}
          /\ \A i, j \in 0 .. n - 1 : f[i] = f[j] => i = j
          /\ hd = IF n = 0 THEN Nil ELSE f[0]
          /\ \A i \in 0 .. n - 1 : nx[f[i]] = IF i + 1 = n THEN Nil ELSE f[i + 1]
  BY DEF ListIs
<1>. DEFINE m == n + 1
            g == [i \in 0 .. m - 1 |-> IF i = 0 THEN p ELSE f[i - 1]]
<1>2. m \in Nat /\ m - 1 = n /\ n \in Nat
  BY <1>1, PoolSize
<1>3. g[0] = p /\ \A i \in 0 .. m - 1 : i # 0 => i - 1 \in 0 .. n - 1 /\ g[i] = f[i - 1]
  BY <1>2
<1>4. g \in [0 .. m - 1 -> Pcbs]
  BY <1>1, <1>2
<1>5. L \cup {p} = {g[i] : i \in 0 .. m - 1}
  <2>1. \A i \in 0 .. n - 1 : f[i] = g[i + 1] /\ i + 1 \in 0 .. m - 1
    BY <1>2, <1>3
  <2>. HIDE DEF g, m
  <2>2. 0 \in 0 .. m - 1
    BY <1>2
  <2>3. \A x \in L : \E i \in 0 .. m - 1 : x = g[i]
    BY <1>1, <2>1
  <2>4. \A i \in 0 .. m - 1 : g[i] \in L \cup {p}
    BY <1>1, <1>3
  <2>. QED
    BY <1>3, <2>2, <2>3, <2>4
<1>6. \A i, j \in 0 .. m - 1 : g[i] = g[j] => i = j
  <2>1. \A i \in 0 .. n - 1 : f[i] # p
    BY <1>1
  <2>. HIDE DEF g, m
  <2>. QED
    BY <1>1, <1>2, <1>3, <2>1
<1>7. m \in 0 .. Cardinality(Pcbs)
  <2>1. g \in Injection(0 .. m - 1, Pcbs)
    BY <1>4, <1>6 DEF Injection, IsInjective
  <2>2. Cardinality(0 .. m - 1) <= Cardinality(Pcbs)
    BY <2>1, PoolSize, FS_Injection
  <2>3. Cardinality(0 .. m - 1) = m
    BY <1>2, FS_Interval
  <2>. QED
    BY <1>2, <2>2, <2>3
<1>8. \A i \in 0 .. m - 1 : nx[g[i]] = IF i + 1 = m THEN Nil ELSE g[i + 1]
  <2>. TAKE i \in 0 .. m - 1
  <2>. HIDE DEF g
  <2>1. i + 1 # m => g[i + 1] = f[i]
    BY <1>2, <1>3
  <2>2. CASE i = 0
    BY <1>1, <1>2, <1>3, <2>1, <2>2
  <2>3. CASE i # 0
    BY <1>1, <1>2, <1>3, <2>1, <2>3
  <2>. QED
    BY <2>2, <2>3
<1>. HIDE DEF g, m
<1>9. p = IF m = 0 THEN Nil ELSE g[0]
  BY <1>2, <1>3
<1>. QED
  BY <1>4, <1>5, <1>6, <1>7, <1>8, <1>9 DEF ListIs

\* udp_pcbs = udp_pcbs->next.
LEMMA UnlinkFirst ==
    ASSUME NEW p \in Pcbs, NEW nx, NEW L, ListIs(p, nx, L)
    PROVE  p \in L /\ ListIs(nx[p], nx, L \ {p})
<1>1. PICK n, f :
          /\ n \in 0 .. Cardinality(Pcbs) /\ f \in [0 .. n - 1 -> Pcbs]
          /\ L = {f[i] : i \in 0 .. n - 1}
          /\ \A i, j \in 0 .. n - 1 : f[i] = f[j] => i = j
          /\ p = IF n = 0 THEN Nil ELSE f[0]
          /\ \A i \in 0 .. n - 1 : nx[f[i]] = IF i + 1 = n THEN Nil ELSE f[i + 1]
  BY ZenonT(60) DEF ListIs
<1>. DEFINE m == n - 1
            g == [i \in 0 .. m - 1 |-> f[i + 1]]
<1>2. n # 0 /\ m \in Nat /\ m + 1 = n /\ n \in Nat /\ m \in 0 .. Cardinality(Pcbs)
  BY <1>1, SessionAssumption, PoolSize
<1>3. \A i \in 0 .. m - 1 : i + 1 \in 0 .. n - 1 /\ g[i] = f[i + 1]
  BY <1>2
<1>4. g \in [0 .. m - 1 -> Pcbs]
  BY <1>1, <1>2
<1>. HIDE DEF g
<1>5. L \ {p} = {g[i] : i \in 0 .. m - 1}
  <2>1. \A i \in 0 .. n - 1 : i # 0 => i - 1 \in 0 .. m - 1 /\ f[i] = g[i - 1]
    BY <1>2, <1>3
  <2>2. p = f[0] /\ 0 \in 0 .. n - 1
    BY <1>1, <1>2
  <2>3. \A x \in L \ {p} : \E i \in 0 .. m - 1 : x = g[i]
    BY <1>1, <2>1, <2>2
  <2>4. \A i \in 0 .. m - 1 : g[i] \in L \ {p}
    BY <1>1, <1>2, <1>3, <2>2
  <2>. QED
    BY <2>3, <2>4
<1>6. \A i, j \in 0 .. m - 1 : g[i] = g[j] => i = j
  BY <1>1, <1>2, <1>3
<1>7. \A i \in 0 .. m - 1 : nx[g[i]] = IF i + 1 = m THEN Nil ELSE g[i + 1]
  BY <1>1, <1>2, <1>3
<1>8. nx[p] = IF m = 0 THEN Nil ELSE g[0]
  BY <1>1, <1>2, <1>3
<1>. HIDE DEF m
<1>9. p \in L
  BY <1>1, <1>2
<1>. QED
  BY <1>2, <1>4, <1>5, <1>6, <1>7, <1>8, <1>9 DEF ListIs

\* pcb2->next = pcb->next, where pcb2 is before pcb.
LEMMA UnlinkLater ==
    ASSUME NEW hd, NEW nx \in [Pcbs -> Pcbs \cup {Nil}], NEW L, ListIs(hd, nx, L),
           NEW q \in L, NEW p \in Pcbs, nx[q] = p
    PROVE  /\ p \in L /\ p # q /\ hd # p
           /\ ListIs(hd, [nx EXCEPT ![q] = nx[p]], L \ {p})
<1>1. PICK n, f :
          /\ n \in 0 .. Cardinality(Pcbs) /\ f \in [0 .. n - 1 -> Pcbs]
          /\ L = {f[i] : i \in 0 .. n - 1}
          /\ \A i, j \in 0 .. n - 1 : f[i] = f[j] => i = j
          /\ hd = IF n = 0 THEN Nil ELSE f[0]
          /\ \A i \in 0 .. n - 1 : nx[f[i]] = IF i + 1 = n THEN Nil ELSE f[i + 1]
  BY ZenonT(60) DEF ListIs
<1>2. PICK k \in 0 .. n - 1 : q = f[k]
  BY <1>1
<1>3. k + 1 \in 0 .. n - 1 /\ p = f[k + 1]
  BY <1>1, <1>2, SessionAssumption
<1>. DEFINE m == n - 1
            g == [i \in 0 .. m - 1 |-> IF i <= k THEN f[i] ELSE f[i + 1]]
            ny == [nx EXCEPT ![q] = nx[p]]
<1>4. n \in Nat /\ m \in Nat /\ m + 1 = n /\ k \in Nat /\ k + 1 < n /\ m # 0
      /\ m \in 0 .. Cardinality(Pcbs)
  BY <1>1, <1>2, <1>3, PoolSize
<1>5. /\ \A i \in 0 .. m - 1 : i <= k => i \in 0 .. n - 1 /\ g[i] = f[i]
      /\ \A i \in 0 .. m - 1 : ~(i <= k) => i + 1 \in 0 .. n - 1 /\ g[i] = f[i + 1]
  BY <1>4
<1>6. g \in [0 .. m - 1 -> Pcbs]
  BY <1>1, <1>4, <1>5
<1>. HIDE DEF g
<1>7. p \in L /\ p # q /\ hd # p
  BY <1>1, <1>2, <1>3
<1>8. L \ {p} = {g[i] : i \in 0 .. m - 1}
  <2>1. \A i \in 0 .. n - 1 : i <= k => i \in 0 .. m - 1 /\ f[i] = g[i]
    BY <1>4, <1>5
  <2>2. \A i \in 0 .. n - 1 : i > k + 1 => i - 1 \in 0 .. m - 1 /\ f[i] = g[i - 1]
    BY <1>4, <1>5
  <2>3. \A i \in 0 .. m - 1 : g[i] # p /\ g[i] \in L
    <3>. TAKE i \in 0 .. m - 1
    <3>1. k + 1 \in 0 .. n - 1 /\ p = f[k + 1]
      BY <1>3
    <3>2. CASE i <= k
      <4>1. i \in 0 .. n - 1 /\ g[i] = f[i] /\ i # k + 1
        BY <1>4, <1>5, <3>2
      <4>. QED
        BY <1>1, <3>1, <4>1
    <3>3. CASE ~(i <= k)
      <4>1. i + 1 \in 0 .. n - 1 /\ g[i] = f[i + 1] /\ i + 1 # k + 1
        BY <1>4, <1>5, <3>3
      <4>. QED
        BY <1>1, <3>1, <4>1
    <3>. QED
      BY <3>2, <3>3
  <2>4. \A i \in 0 .. n - 1 : f[i] # p => f[i] \in {g[j] : j \in 0 .. m - 1}
    <3>. SUFFICES ASSUME NEW i \in 0 .. n - 1, f[i] # p
                  PROVE  f[i] \in {g[j] : j \in 0 .. m - 1}
      OBVIOUS
    <3>1. i <= k \/ i > k + 1
      BY <1>3, <1>4
    <3>. QED
      BY <2>1, <2>2, <3>1
  <2>5. \A x \in L \ {p} : x \in {g[j] : j \in 0 .. m - 1}
    BY <1>1, <2>4
  <2>. QED
    BY <2>3, <2>5
<1>9. \A i, j \in 0 .. m - 1 : g[i] = g[j] => i = j
  BY <1>1, <1>4, <1>5
<1>10. \A i \in 0 .. m - 1 : ny[g[i]] = IF i + 1 = m THEN Nil ELSE g[i + 1]
  <2>. TAKE i \in 0 .. m - 1
  <2>1. ny[q] = nx[p] /\ \A r \in Pcbs : r # q => ny[r] = nx[r]
    BY <1>1, <1>2
  <2>. HIDE DEF ny
  <2>2. CASE i = k
    <3>1. ny[g[i]] = nx[f[k + 1]]
      BY <1>2, <1>3, <1>5, <2>1, <2>2
    <3>2. nx[f[k + 1]] = IF k + 2 = n THEN Nil ELSE f[k + 2]
      BY <1>1, <1>3, <1>4
    <3>3. k + 2 # n => g[k + 1] = f[k + 2]
      BY <1>4, <1>5
    <3>. QED
      BY <1>4, <2>2, <3>1, <3>2, <3>3
  <2>3. CASE i < k
    <3>1. g[i] = f[i] /\ g[i + 1] = f[i + 1] /\ i \in 0 .. n - 1 /\ i + 1 # n /\ i + 1 # m
      BY <1>4, <1>5, <2>3
    <3>2. f[i] # q /\ f[i] \in Pcbs
      BY <1>1, <1>2, <2>3, <3>1
    <3>. QED
      BY <1>1, <2>1, <3>1, <3>2
  <2>4. CASE i > k
    <3>1. g[i] = f[i + 1] /\ i + 1 \in 0 .. n - 1 /\ (i + 1 # m => g[i + 1] = f[i + 2])
      BY <1>4, <1>5, <2>4
    <3>2. f[i + 1] # q /\ f[i + 1] \in Pcbs
      BY <1>1, <1>2, <1>4, <2>4, <3>1
    <3>3. nx[f[i + 1]] = IF i + 2 = n THEN Nil ELSE f[i + 2]
      BY <1>1, <3>1
    <3>. QED
      BY <1>4, <2>1, <3>1, <3>2, <3>3
  <2>. QED
    BY <1>4, <2>2, <2>3, <2>4
<1>11. hd = IF m = 0 THEN Nil ELSE g[0]
  BY <1>1, <1>4, <1>5
<1>. HIDE DEF m, ny
<1>12. ListIs(hd, ny, L \ {p})
  BY <1>4, <1>6, <1>8, <1>9, <1>10, <1>11 DEF ListIs
<1>. QED
  BY <1>7, <1>12 DEF ny

\* No pcb of the list is its own successor.
LEMMA NotItself ==
    ASSUME NEW hd, NEW nx \in [Pcbs -> Pcbs \cup {Nil}], NEW L, ListIs(hd, nx, L)
    PROVE  \A q \in L, p \in Pcbs : nx[q] = p => p # q
<1>1. PICK n, f :
          /\ n \in 0 .. Cardinality(Pcbs) /\ f \in [0 .. n - 1 -> Pcbs]
          /\ L = {f[i] : i \in 0 .. n - 1}
          /\ \A i, j \in 0 .. n - 1 : f[i] = f[j] => i = j
          /\ hd = IF n = 0 THEN Nil ELSE f[0]
          /\ \A i \in 0 .. n - 1 : nx[f[i]] = IF i + 1 = n THEN Nil ELSE f[i + 1]
  BY ZenonT(60) DEF ListIs
<1>. SUFFICES ASSUME NEW q \in L, nx[q] = q PROVE FALSE
  OBVIOUS
<1>2. PICK k \in 0 .. n - 1 : q = f[k]
  BY <1>1
<1>3. k \in Int /\ n \in Nat
  BY <1>1, <1>2, PoolSize
<1>4. f[k] = IF k + 1 = n THEN Nil ELSE f[k + 1]
  BY <1>1, <1>2
<1>5. f[k] # Nil
  BY <1>1, <1>2, SessionAssumption
<1>6. k + 1 \in 0 .. n - 1 /\ f[k] = f[k + 1]
  BY <1>2, <1>3, <1>4, <1>5
<1>7. k = k + 1
  BY <1>1, <1>2, <1>6
<1>. QED
  BY <1>3, <1>7

\* In a list every pcb but the first has one before it.
LEMMA HasBefore ==
    ASSUME NEW hd, NEW nx, NEW L, ListIs(hd, nx, L)
    PROVE  \A p \in L : hd # p => \E q \in L : nx[q] = p
<1>1. PICK n, f :
          /\ n \in 0 .. Cardinality(Pcbs) /\ f \in [0 .. n - 1 -> Pcbs]
          /\ L = {f[i] : i \in 0 .. n - 1}
          /\ \A i, j \in 0 .. n - 1 : f[i] = f[j] => i = j
          /\ hd = IF n = 0 THEN Nil ELSE f[0]
          /\ \A i \in 0 .. n - 1 : nx[f[i]] = IF i + 1 = n THEN Nil ELSE f[i + 1]
  BY ZenonT(60) DEF ListIs
<1>. SUFFICES ASSUME NEW p \in L, hd # p PROVE \E q \in L : nx[q] = p
  OBVIOUS
<1>2. PICK k \in 0 .. n - 1 : p = f[k]
  BY <1>1
<1>3. k # 0 /\ k - 1 \in 0 .. n - 1 /\ n \in Nat
  BY <1>1, <1>2, PoolSize
<1>4. nx[f[k - 1]] = p
  BY <1>1, <1>2, <1>3
<1>. QED
  BY <1>1, <1>3, <1>4

-----------------------------------------------------------------------------
(* What holds wherever the handlers preempt the main program. *)

LEMMA SessionStart == Init => SessionInv
<1>. SUFFICES ASSUME Init PROVE SessionInv
  OBVIOUS
<1>1. TypeOK
  BY DEF Init, TypeOK, Channels
<1>2. Live = {} /\ Held = {}
  BY DEF Init, Live, Held, Opening, Closing, Channels
<1>3. Owned
  BY <1>2 DEF Owned
<1>4. OwnPort /\ BoundOnce /\ Progress /\ Doing
  BY SessionAssumption
     DEF Init, OwnPort, BoundOnce, Progress, Doing, Tried, Opening, Closing, Channels
<1>. QED
  BY <1>1, <1>3, <1>4 DEF SessionInv

\* The pcb the main program works on is its own.
LEMMA PcbLive ==
    ASSUME SessionInv, Opening \/ pc = "loop" \/ Closing
    PROVE  pcb \in Live /\ pcb \in Pcbs /\ ch \in Held
<1>1. ch \in Held
  <2>1. ch \in Channels
    BY DEF SessionInv, TypeOK
  <2>. QED
    BY <2>1 DEF Held, Channels
<1>. QED
  BY <1>1 DEF SessionInv, Owned, pcb, Live

\* udp_input changes the list and a remote side only.
LEMMA UdpInputSession ==
    ASSUME SessionInv, NEW port \in Ports, NEW known \in BOOLEAN, UdpInput(port, known)
    PROVE  SessionInv'
<1>. DEFINE here == {p \in Listed : local[p] = port}
            full == FirstOf({p \in here : peer[p] /\ known})
            found == IF full # Nil THEN full ELSE FirstOf({p \in here : ~connected[p]})
<1>1. /\ IF full # Nil THEN MoveToFront(full) ELSE UNCHANGED listVars
      /\ peer' = IF found # Nil /\ recv[found] # 0 THEN [peer EXCEPT ![found] = TRUE] ELSE peer
      /\ UNCHANGED <<free, local, connected, recv, appVars, mainVars>>
  BY DEF UdpInput
<1>2. full \in Pcbs \cup {Nil}
  <2>1. {p \in here : peer[p] /\ known} \in SUBSET Pcbs
    BY ListedType DEF SessionInv
  <2>. QED
    BY <2>1, FirstOfIn DEF SessionInv
<1>3. head' \in Pcbs \cup {Nil} /\ next' \in [Pcbs -> Pcbs \cup {Nil}]
  <2>1. head \in Pcbs \cup {Nil} /\ next \in [Pcbs -> Pcbs \cup {Nil}]
    BY DEF SessionInv, TypeOK
  <2>2. CASE UNCHANGED listVars
    BY <2>1, <2>2 DEF listVars
  <2>3. CASE full # Nil /\ head # full /\ MoveToFront(full)
    <3>1. head' = full /\ \E q : next' = [next EXCEPT ![q] = next[full], ![full] = head]
      BY <2>3 DEF MoveToFront
    <3>. HIDE DEF full
    <3>. QED
      BY <1>2, <2>1, <2>3, <3>1
  <2>. QED
    BY <1>1, <2>2, <2>3 DEF MoveToFront
<1>4. peer' \in [Pcbs -> BOOLEAN]
  BY <1>1 DEF SessionInv, TypeOK
<1>. HIDE DEF here, full, found
<1>5. TypeOK'
  BY <1>1, <1>3, <1>4 DEF SessionInv, TypeOK, appVars, mainVars
<1>6. Owned' /\ OwnPort'
  BY <1>1 DEF SessionInv, Owned, OwnPort, Held, Live, Opening, Closing, appVars, mainVars
<1>7. BoundOnce' /\ Progress' /\ Doing'
  BY <1>1 DEF SessionInv, BoundOnce, Progress, Doing, Tried, Done, Opening, Closing, pcb, appVars, mainVars
<1>. QED
  BY <1>5, <1>6, <1>7 DEF SessionInv

\* udp_send changes the list, and gives a pcb without a port its own.
LEMMA AudioSendSession ==
    ASSUME SessionInv, NEW c \in Channels, AudioSend(c)
    PROVE  SessionInv'
<1>. DEFINE p == udppcb[c]
<1>1. UNCHANGED <<free, peer, connected, recv, appVars, mainVars>>
  BY DEF AudioSend
<1>2. p \in Pcbs \cup {Nil}
  BY DEF SessionInv, TypeOK
<1>3. CASE p # Nil /\ local[p] = NoPort
  <2>1. /\ local' = [local EXCEPT ![p] = p]
        /\ UNCHANGED listVars \/ (next' = [next EXCEPT ![p] = head] /\ head' = p)
    BY <1>3 DEF AudioSend
  <2>2. p \in Pcbs /\ p # NoPort
    BY <1>2, <1>3, SessionAssumption
  <2>3. TypeOK'
    BY <1>1, <2>1, <2>2 DEF SessionInv, TypeOK, listVars, appVars, mainVars
  <2>4. \A q \in Pcbs : local'[q] = IF q = p THEN p ELSE local[q]
    BY <2>1, <2>2 DEF SessionInv, TypeOK
  <2>. HIDE DEF p
  <2>5. Owned'
    BY <1>1 DEF SessionInv, Owned, Held, Live, Opening, Closing, appVars, mainVars
  <2>a. OwnPort'
    BY <2>2, <2>4 DEF SessionInv, OwnPort
  <2>6. \A q \in Pcbs : local[q] # NoPort => local'[q] = local[q]
    BY <1>3, <2>4 DEF p
  <2>7. \A d \in Channels : Tried(d) => udppcb[d] \in Pcbs /\ local[udppcb[d]] # NoPort
    BY DEF SessionInv, BoundOnce
  <2>8. Opening => pcb \in Pcbs
    BY PcbLive
  <2>9. BoundOnce'
    BY <1>1, <2>6 DEF SessionInv, BoundOnce, Tried, Opening, Closing, appVars, mainVars
  <2>10. Progress' /\ Doing'
    <3>1. \A d \in Channels : Tried(d) /\ Done(d) => Done(d)'
      BY <1>1, <2>6, <2>7 DEF Done, appVars
    <3>2. \A d \in Channels : Tried(d)' = Tried(d)
      BY <1>1 DEF Tried, Opening, mainVars
    <3>3. Progress'
      BY <1>1, <3>1, <3>2 DEF SessionInv, Progress, appVars, mainVars
    <3>4. Doing'
      BY <1>1, <2>6, <2>8 DEF SessionInv, Doing, Opening, pcb, appVars, mainVars
    <3>. QED
      BY <3>3, <3>4
  <2>. QED
    BY <2>3, <2>5, <2>a, <2>9, <2>10 DEF SessionInv
<1>4. CASE ~(p # Nil /\ local[p] = NoPort)
  <2>1. UNCHANGED <<local, listVars>>
    BY <1>4 DEF AudioSend
  <2>2. TypeOK'
    BY <1>1, <2>1 DEF SessionInv, TypeOK, listVars, appVars, mainVars
  <2>3. Owned' /\ OwnPort'
    BY <1>1, <2>1 DEF SessionInv, Owned, OwnPort, Held, Live, Opening, Closing, appVars, mainVars
  <2>4. BoundOnce' /\ Progress' /\ Doing'
    BY <1>1, <2>1 DEF SessionInv, BoundOnce, Progress, Doing, Tried, Done, Opening, Closing, pcb, appVars, mainVars
  <2>. QED
    BY <2>2, <2>3, <2>4 DEF SessionInv
<1>. QED
  BY <1>3, <1>4

\* A step of opening a channel touches only its pcb ...
OwnPcbOnly ==
    /\ UNCHANGED <<free, udppcb, local_port>>
    /\ linked => linked'
    /\ \A q \in Pcbs : q # pcb => /\ local'[q] = local[q]
                                  /\ connected'[q] = connected[q]
                                  /\ recv'[q] = recv[q]
    /\ local'[pcb] \in {pcb, local[pcb]} \cup Ports

\* ... and goes on with this channel ...
SameChannel == ch' = ch /\ res' = res /\ pc' \in {"scan", "link", "link head", "attach"}

\* ... or to the next one, with the result of this one.
OtherChannel ==
    /\ \/ ch = 1 /\ ch' = 2 /\ pc' = "connect"
       \/ ch = 2 /\ ch' = 1 /\ pc' \in {"close", "loop"}
    /\ pc' = "loop" => ~res'
    /\ res => res'
    /\ local'[pcb] # NoPort
    /\ ~res' => /\ connected'[pcb] /\ local'[pcb] = local_port[ch] /\ recv'[pcb] = ch
                /\ ch = 1 => linked'

\* Where such a step leads.
LEMMA Ways ==
    ASSUME Opening, SameChannel \/ OtherChannel
    PROVE  /\ \/ ch' = ch /\ Opening' /\ pc' \notin {"connect", "loop"}
              \/ ch = 1 /\ ch' = 2 /\ Opening' /\ pc' = "connect"
              \/ ch = 2 /\ ch' = 1 /\ Closing' /\ pc' = "close"
              \/ ch = 2 /\ ch' = 1 /\ pc' = "loop"
           /\ ~Closing /\ pc # "loop" /\ ~(Opening' /\ Closing')
           /\ pc' = "loop" => ~Opening' /\ ~Closing'
  BY DEF Opening, Closing, SameChannel, OtherChannel

LEMMA HeldAndTried ==
    ASSUME ch \in Channels, Opening, SameChannel \/ OtherChannel
    PROVE  /\ Held = Channels /\ Held' = Channels
           /\ \A c \in Channels : Tried(c)' =>
                 (Tried(c) /\ c # ch) \/ (c = ch /\ pc' \in {"connect", "loop"})
           /\ Closing' => \A c \in Channels : (Tried(c) /\ c # ch) \/ c = ch
<1>1. Held = Channels
  BY DEF Held
<1>2. Held' = Channels
  BY Ways DEF Held, Channels
<1>3. \A c \in Channels : Tried(c)' =>
          (Tried(c) /\ c # ch) \/ (c = ch /\ pc' \in {"connect", "loop"})
  BY Ways DEF Tried, Channels
<1>4. Closing' => \A c \in Channels : (Tried(c) /\ c # ch) \/ c = ch
  BY Ways DEF Tried, Channels
<1>. QED
  BY <1>1, <1>2, <1>3, <1>4

LEMMA OpeningStep ==
    ASSUME SessionInv, TypeOK', Doing', Opening, OwnPcbOnly, SameChannel \/ OtherChannel
    PROVE  SessionInv'
<1>1. /\ pcb \in Pcbs /\ ch \in Channels /\ free \subseteq Pcbs
      /\ local \in [Pcbs -> Ports \cup Pcbs \cup {NoPort}]
  BY PcbLive DEF SessionInv, TypeOK
<1>2. Held = Channels /\ Held' = Channels
  BY <1>1, HeldAndTried
<1>3. Owned'
  <2>1. Live = {udppcb[c] : c \in Channels} /\ \A c, d \in Channels : udppcb[c] = udppcb[d] => c = d
    BY <1>2 DEF SessionInv, Owned
  <2>2. Live' = Live /\ udppcb' = udppcb
    BY DEF Live, OwnPcbOnly
  <2>. QED
    BY <1>2, <2>1, <2>2 DEF Owned
<1>4. OwnPort'
  <2>. SUFFICES ASSUME NEW q \in Pcbs, local'[q] \in Pcbs PROVE local'[q] = q
    BY DEF OwnPort
  <2>1. CASE q = pcb
    BY <1>1, <2>1, SessionAssumption DEF SessionInv, OwnPort, OwnPcbOnly
  <2>2. CASE q # pcb
    BY <2>2 DEF SessionInv, OwnPort, OwnPcbOnly
  <2>. QED
    BY <2>1, <2>2
<1>5. \A c \in Channels : udppcb[c] \in Live /\ udppcb[c] \in Pcbs
  BY <1>2 DEF SessionInv, Owned, Live
<1>6. \A c \in Channels : c # ch => udppcb[c] # pcb
  BY <1>1, <1>2 DEF SessionInv, Owned, pcb
<1>9. \A c \in Channels : Tried(c) /\ c # ch =>
          /\ local'[udppcb[c]] = local[udppcb[c]] /\ local[udppcb[c]] # NoPort
          /\ Done(c) => Done(c)'
  BY <1>5, <1>6 DEF SessionInv, BoundOnce, Done, OwnPcbOnly
<1>10. BoundOnce'
  <2>. SUFFICES ASSUME NEW c \in Channels, Tried(c)' \/ Closing'
                PROVE  local'[udppcb[c]] # NoPort
    BY <1>5 DEF BoundOnce, Live, OwnPcbOnly
  <2>1. (Tried(c) /\ c # ch) \/ (c = ch /\ pc' \in {"connect", "loop", "close"})
    BY <1>1, HeldAndTried, Ways
  <2>. QED
    BY <1>9, <2>1 DEF pcb, SameChannel, OtherChannel
<1>11. Progress'
  <2>1. \A c \in Channels : Tried(c)' /\ ~res' => Done(c)'
    <3>. SUFFICES ASSUME NEW c \in Channels, Tried(c)', ~res' PROVE Done(c)'
      OBVIOUS
    <3>1. CASE Tried(c) /\ c # ch
      <4>1. ~res
        BY DEF SameChannel, OtherChannel
      <4>. QED
        BY <1>9, <3>1, <4>1 DEF SessionInv, Progress
    <3>2. CASE c = ch /\ pc' \in {"connect", "loop"}
      BY <3>2 DEF Done, pcb, SameChannel, OtherChannel, OwnPcbOnly
    <3>. QED
      BY <1>1, HeldAndTried, <3>1, <3>2
  <2>. QED
    BY <2>1 DEF Progress, SameChannel, OtherChannel
<1>. QED
  BY <1>3, <1>4, <1>10, <1>11 DEF SessionInv

LEMMA NextChannelWay ==
    ASSUME ch \in Channels, res \in BOOLEAN, NEW failed \in BOOLEAN, NextChannel(failed)
    PROVE  /\ \/ ch = 1 /\ ch' = 2 /\ pc' = "connect"
              \/ ch = 2 /\ ch' = 1 /\ pc' \in {"close", "loop"}
           /\ res' \in BOOLEAN /\ (pc' = "loop" => ~res') /\ (res => res') /\ (failed => res')
           /\ ch' \in Channels /\ pc' \in {"connect", "close", "loop"}
<1>1. ch = 1 \/ ch = 2
  BY DEF Channels
<1>2. res' = (res \/ failed)
  BY DEF NextChannel
<1>3. CASE ch = 1
  BY <1>2, <1>3 DEF NextChannel, Channels
<1>4. CASE ch = 2
  BY <1>2, <1>4 DEF NextChannel, Channels
<1>. QED
  BY <1>1, <1>3, <1>4

\* The types that udp_connect and udp_bind rely on.
LEMMA OpeningTypes ==
    ASSUME SessionInv, Opening
    PROVE  /\ pcb \in Pcbs /\ pcb # Nil /\ pcb # NoPort /\ ch \in Channels /\ res \in BOOLEAN
           /\ local_port[ch] \in Ports /\ local_port[ch] # NoPort
           /\ local \in [Pcbs -> Ports \cup Pcbs \cup {NoPort}]
           /\ connected \in [Pcbs -> BOOLEAN] /\ peer \in [Pcbs -> BOOLEAN]
           /\ recv \in [Pcbs -> Channels \cup {0}]
           /\ head \in Pcbs \cup {Nil} /\ next \in [Pcbs -> Pcbs \cup {Nil}]
           /\ linked \in BOOLEAN
<1>1. TypeOK /\ pcb \in Pcbs
  BY PcbLive DEF SessionInv
<1>2. pcb # Nil
  BY <1>1, SessionAssumption
<1>3. ch \in Channels /\ local_port \in [Channels -> Ports]
  BY <1>1 DEF TypeOK
<1>4. pcb # NoPort /\ local_port[ch] \in Ports /\ local_port[ch] # NoPort
  BY <1>1, <1>3, SessionAssumption
<1>5. /\ res \in BOOLEAN /\ linked \in BOOLEAN
      /\ local \in [Pcbs -> Ports \cup Pcbs \cup {NoPort}]
      /\ connected \in [Pcbs -> BOOLEAN] /\ peer \in [Pcbs -> BOOLEAN]
      /\ recv \in [Pcbs -> Channels \cup {0}]
      /\ head \in Pcbs \cup {Nil} /\ next \in [Pcbs -> Pcbs \cup {Nil}]
  BY <1>1 DEF TypeOK
<1>. QED
  BY <1>1, <1>2, <1>3, <1>4, <1>5

LEMMA ConnectSession == SessionInv /\ Connect => SessionInv'
<1>. SUFFICES ASSUME SessionInv, Connect PROVE SessionInv'
  OBVIOUS
<1>1. Opening
  BY DEF Connect, Opening
<1>2. /\ pcb # Nil /\ pcb \in Pcbs /\ local[pcb] \in Ports \cup Pcbs \cup {NoPort}
  BY <1>1, OpeningTypes
<1>3. /\ UNCHANGED <<free, listVars, pcbVars, udppcb, local_port, linked, pred, ch, res>>
      /\ \/ op' = "auto" /\ pc' = "scan"
         \/ op' = op /\ pc' = "attach" /\ local[pcb] # NoPort
  BY <1>2 DEF Connect
<1>4. TypeOK'
  BY <1>3 DEF SessionInv, TypeOK, listVars, pcbVars
<1>5. Doing'
  BY <1>3 DEF Doing, pcb, pcbVars
<1>6. OwnPcbOnly /\ SameChannel
  BY <1>3 DEF OwnPcbOnly, SameChannel, pcbVars
<1>. QED
  BY <1>1, <1>4, <1>5, <1>6, OpeningStep

LEMMA ScanSession == SessionInv /\ Scan => SessionInv'
<1>. SUFFICES ASSUME SessionInv, Scan PROVE SessionInv'
  OBVIOUS
<1>. DEFINE port == IF op = "auto" THEN pcb ELSE local_port[ch]
<1>1. Opening /\ pc = "scan"
  BY DEF Scan, Opening
<1>2. /\ pcb \in Pcbs /\ ch \in Channels /\ res \in BOOLEAN
      /\ port \in {pcb} \cup Ports /\ port # NoPort
      /\ local \in [Pcbs -> Ports \cup Pcbs \cup {NoPort}] /\ recv \in [Pcbs -> Channels \cup {0}]
      /\ linked \in BOOLEAN
  BY <1>1, OpeningTypes
<1>3. op # "auto" => local[pcb] # NoPort /\ connected[pcb]
  BY <1>1 DEF SessionInv, Doing
<1>4. UNCHANGED <<free, listVars, peer, connected, udppcb, local_port, pred>>
  BY DEF Scan
<1>5. CASE OtherOn(port)
  <2>1. NextChannel(TRUE) /\ UNCHANGED <<local, linked, recv, op>>
    BY <1>5 DEF Scan
  <2>2. local[pcb] # NoPort
    <3>1. CASE op = "auto"
      <4>1. PICK q \in Listed \ {pcb} : local[q] = pcb
        BY <1>5, <3>1 DEF OtherOn
      <4>2. q \in Pcbs
        BY ListedType DEF SessionInv
      <4>. QED
        BY <1>2, <4>1, <4>2 DEF SessionInv, OwnPort
    <3>. QED
      BY <1>3, <3>1
  <2>3. OwnPcbOnly
    BY <1>4, <2>1 DEF OwnPcbOnly
  <2>4. OtherChannel
    BY <1>2, <2>1, <2>2, NextChannelWay DEF OtherChannel
  <2>5. TypeOK'
    BY <1>2, <1>4, <2>1, NextChannelWay DEF SessionInv, TypeOK, listVars
  <2>6. Doing'
    BY <1>2, <2>1, NextChannelWay DEF Doing
  <2>. QED
    BY <1>1, <2>3, <2>4, <2>5, <2>6, OpeningStep
<1>6. CASE ~OtherOn(port)
  <2>1. local' = [local EXCEPT ![pcb] = port]
    BY <1>6 DEF Scan
  <2>2. \/ pc' \in {"link", "attach"} /\ UNCHANGED <<ch, res, op, linked, recv>>
              /\ (pc' = "attach" => op = "auto")
        \/ /\ op # "auto"
           /\ recv' = [recv EXCEPT ![pcb] = ch]
           /\ linked' = (linked \/ ch = 1)
           /\ NextChannel(FALSE)
           /\ op' = op
    BY <1>6 DEF Scan
  <2>. HIDE DEF port
  <2>3. /\ local'[pcb] = port /\ \A q \in Pcbs : q # pcb => local'[q] = local[q]
        /\ local' \in [Pcbs -> Ports \cup Pcbs \cup {NoPort}]
    BY <1>2, <2>1
  <2>4. CASE pc' \in {"link", "attach"} /\ UNCHANGED <<ch, res, op, linked, recv>>
                /\ (pc' = "attach" => op = "auto")
    <3>1. OwnPcbOnly /\ SameChannel
      BY <1>2, <1>4, <2>3, <2>4 DEF OwnPcbOnly, SameChannel
    <3>2. TypeOK'
      BY <1>4, <2>3, <2>4 DEF SessionInv, TypeOK, listVars
    <3>3. pcb' = pcb
      BY <1>4, <2>4 DEF pcb
    <3>4. Doing'
      BY <1>2, <1>3, <1>4, <2>3, <2>4, <3>3 DEF Doing, port
    <3>. QED
      BY <1>1, <3>1, <3>2, <3>4, OpeningStep
  <2>5. CASE /\ op # "auto"
             /\ recv' = [recv EXCEPT ![pcb] = ch]
             /\ linked' = (linked \/ ch = 1)
             /\ NextChannel(FALSE)
             /\ op' = op
    <3>1. /\ recv'[pcb] = ch /\ \A q \in Pcbs : q # pcb => recv'[q] = recv[q]
          /\ recv' \in [Pcbs -> Channels \cup {0}]
      BY <1>2, <2>5
    <3>2. OwnPcbOnly
      BY <1>2, <1>4, <2>3, <2>5, <3>1 DEF OwnPcbOnly
    <3>3. local'[pcb] = local_port[ch]
      BY <2>3, <2>5 DEF port
    <3>4. OtherChannel
      BY <1>2, <1>3, <1>4, <2>3, <2>5, <3>1, <3>3, NextChannelWay DEF OtherChannel
    <3>5. TypeOK'
      BY <1>2, <1>4, <2>3, <2>5, <3>1, NextChannelWay DEF SessionInv, TypeOK, listVars
    <3>6. Doing'
      BY <1>2, <2>5, NextChannelWay DEF Doing
    <3>. QED
      BY <1>1, <3>2, <3>4, <3>5, <3>6, OpeningStep
  <2>. QED
    BY <2>2, <2>4, <2>5
<1>. QED
  BY <1>5, <1>6

LEMMA LinkSession == SessionInv /\ Link => SessionInv'
<1>. SUFFICES ASSUME SessionInv, Link PROVE SessionInv'
  OBVIOUS
<1>1. Opening
  BY DEF Link, Opening
<1>2. /\ pc = "link" /\ pc' = "link head" /\ next' = [next EXCEPT ![pcb] = head]
      /\ UNCHANGED <<free, head, pcbVars, appVars, ch, op, pred>>
  BY DEF Link
<1>3. head \in Pcbs \cup {Nil} /\ next \in [Pcbs -> Pcbs \cup {Nil}]
  BY <1>1, OpeningTypes
<1>4. next' \in [Pcbs -> Pcbs \cup {Nil}]
  BY <1>2, <1>3
<1>5. TypeOK'
  BY <1>2, <1>4 DEF SessionInv, TypeOK, pcbVars, appVars
<1>6. Doing'
  BY <1>2 DEF SessionInv, Doing, pcb, pcbVars, appVars
<1>7. OwnPcbOnly /\ SameChannel
  BY <1>2 DEF OwnPcbOnly, SameChannel, pcbVars, appVars
<1>. QED
  BY <1>1, <1>5, <1>6, <1>7, OpeningStep

LEMMA LinkHeadSession == SessionInv /\ LinkHead => SessionInv'
<1>. SUFFICES ASSUME SessionInv, LinkHead PROVE SessionInv'
  OBVIOUS
<1>1. Opening /\ pc = "link head"
  BY DEF LinkHead, Opening
<1>2. head' = pcb /\ UNCHANGED <<free, next, local, peer, connected, udppcb, local_port, pred>>
  BY DEF LinkHead
<1>3. /\ pcb \in Pcbs /\ ch \in Channels /\ res \in BOOLEAN /\ linked \in BOOLEAN
      /\ recv \in [Pcbs -> Channels \cup {0}]
  BY <1>1, OpeningTypes
<1>4. /\ local[pcb] # NoPort /\ (op # "auto" => connected[pcb])
      /\ (op = "port" => local[pcb] = local_port[ch])
      /\ op \in {"auto", "attach", "port"}
  BY <1>1 DEF SessionInv, Doing, TypeOK
<1>5. CASE op \in {"auto", "attach"}
  <2>1. /\ UNCHANGED <<ch, res, recv, linked>>
        /\ \/ pc' = "attach" /\ op' = op
           \/ op # "auto" /\ pc' = "scan" /\ op' = "port"
    BY <1>5 DEF LinkHead
  <2>2. OwnPcbOnly /\ SameChannel
    BY <1>2, <2>1 DEF OwnPcbOnly, SameChannel
  <2>3. TypeOK'
    BY <1>2, <1>3, <2>1 DEF SessionInv, TypeOK
  <2>4. Doing'
    BY <1>2, <1>4, <2>1 DEF Doing, pcb
  <2>. QED
    BY <1>1, <2>2, <2>3, <2>4, OpeningStep
<1>6. CASE op = "port"
  <2>1. /\ recv' = [recv EXCEPT ![pcb] = ch]
        /\ linked' = (linked \/ ch = 1)
        /\ NextChannel(FALSE)
        /\ op' = op
    BY <1>6 DEF LinkHead
  <2>2. /\ recv'[pcb] = ch /\ \A q \in Pcbs : q # pcb => recv'[q] = recv[q]
        /\ recv' \in [Pcbs -> Channels \cup {0}]
    BY <1>3, <2>1
  <2>3. OwnPcbOnly
    BY <1>2, <2>1, <2>2 DEF OwnPcbOnly
  <2>4. OtherChannel
    BY <1>2, <1>3, <1>4, <1>6, <2>1, <2>2, NextChannelWay DEF OtherChannel
  <2>5. TypeOK'
    BY <1>2, <1>3, <2>1, <2>2, NextChannelWay DEF SessionInv, TypeOK
  <2>6. Doing'
    BY <1>3, <2>1, NextChannelWay DEF Doing
  <2>. QED
    BY <1>1, <2>3, <2>4, <2>5, <2>6, OpeningStep
<1>. QED
  BY <1>4, <1>5, <1>6

LEMMA AttachSession == SessionInv /\ Attach => SessionInv'
<1>. SUFFICES ASSUME SessionInv, Attach PROVE SessionInv'
  OBVIOUS
<1>1. Opening /\ pc = "attach"
  BY DEF Attach, Opening
<1>2. /\ peer' = [peer EXCEPT ![pcb] = TRUE] /\ connected' = [connected EXCEPT ![pcb] = TRUE]
      /\ \/ pc' = "scan" /\ op' = "port"
         \/ pc' = "link" /\ op' = "attach"
      /\ UNCHANGED <<free, listVars, local, recv, appVars, ch, pred>>
  BY DEF Attach
<1>3. /\ pcb \in Pcbs /\ connected \in [Pcbs -> BOOLEAN] /\ peer \in [Pcbs -> BOOLEAN]
  BY <1>1, OpeningTypes
<1>4. /\ connected'[pcb] /\ \A q \in Pcbs : q # pcb => connected'[q] = connected[q]
      /\ connected' \in [Pcbs -> BOOLEAN] /\ peer' \in [Pcbs -> BOOLEAN]
  BY <1>2, <1>3
<1>5. TypeOK'
  BY <1>2, <1>4 DEF SessionInv, TypeOK, listVars, appVars
<1>6. Doing'
  BY <1>1, <1>2, <1>4 DEF SessionInv, Doing, pcb, appVars
<1>7. OwnPcbOnly /\ SameChannel
  BY <1>2, <1>4 DEF OwnPcbOnly, SameChannel, appVars
<1>. QED
  BY <1>1, <1>5, <1>6, <1>7, OpeningStep

\* Until the pcb is freed, closing a channel leaves the session's pcbs as they are.
LEMMA ClosingStep ==
    ASSUME SessionInv, TypeOK', pc = "loop" \/ Closing, Closing', ch' = ch,
           UNCHANGED <<free, udppcb, local>>
    PROVE  SessionInv'
<1>1. ch \in Channels /\ (pc = "loop" => ch = 1)
  BY DEF SessionInv, TypeOK, Progress
<1>2. /\ pc \notin {"new", "menu", "connect", "scan", "link", "link head", "attach"}
      /\ pc' \notin {"new", "menu", "connect", "scan", "link", "link head", "attach", "loop"}
      /\ ~Opening /\ ~Opening' /\ ~(pc = "loop" /\ Closing)
  BY DEF Opening, Closing
<1>3. Held' = Held
  <2>1. CASE pc = "loop"
    <3>1. Held = Channels
      BY <2>1 DEF Held
    <3>2. Held' = {c \in Channels : c >= 1}
      BY <1>1, <1>2, <2>1 DEF Held
    <3>. QED
      BY <3>1, <3>2 DEF Channels
  <2>2. CASE Closing
    <3>1. Held = {c \in Channels : c >= ch}
      BY <1>2, <2>2 DEF Held
    <3>2. Held' = {c \in Channels : c >= ch}
      BY <1>2 DEF Held
    <3>. QED
      BY <3>1, <3>2
  <2>. QED
    BY <2>1, <2>2
<1>4. Owned' /\ OwnPort'
  BY <1>3 DEF SessionInv, Owned, OwnPort, Live
<1>5. \A c \in Channels : udppcb[c] \in Pcbs /\ local[udppcb[c]] # NoPort
  BY DEF SessionInv, BoundOnce, Tried
<1>6. BoundOnce'
  BY <1>5 DEF BoundOnce
<1>7. Progress' /\ Doing'
  BY <1>2 DEF Progress, Doing, Tried
<1>. QED
  BY <1>4, <1>6, <1>7 DEF SessionInv

LEMMA CloseSession ==
    ASSUME SessionInv, Quit \/ Disconnect \/ Remove \/ UnlinkHead \/ Unlink
    PROVE  SessionInv'
<1>1. /\ pc = "loop" \/ Closing
      /\ Closing' /\ ch' = ch /\ UNCHANGED <<free, udppcb, local>>
  BY DEF Quit, Disconnect, Remove, UnlinkHead, Unlink, Closing, pcbVars, appVars
<1>2. pcb \in Pcbs /\ Listed \subseteq Pcbs
  BY <1>1, PcbLive, ListedType DEF SessionInv
<1>3. head \in Pcbs \cup {Nil} /\ next \in [Pcbs -> Pcbs \cup {Nil}]
  BY DEF SessionInv, TypeOK
<1>4. TypeOK'
  <2>1. CASE Quit
    BY <2>1 DEF Quit, SessionInv, TypeOK, listVars, pcbVars, appVars
  <2>2. CASE Disconnect
    <3>1. peer' \in [Pcbs -> BOOLEAN] /\ connected' \in [Pcbs -> BOOLEAN]
      BY <2>2 DEF Disconnect, SessionInv, TypeOK
    <3>. QED
      BY <2>2, <3>1 DEF Disconnect, SessionInv, TypeOK, listVars, appVars
  <2>3. CASE Remove
    <3>1. pred' \in Pcbs \cup {Nil} /\ pc' \in {"unlink head", "free", "unlink"}
      <4>1. Before(pcb) \subseteq Pcbs /\ pred \in Pcbs \cup {Nil}
        BY <1>2 DEF Before, SessionInv, TypeOK
      <4>. QED
        BY <2>3, <4>1 DEF Remove
    <3>. QED
      BY <2>3, <3>1 DEF Remove, SessionInv, TypeOK, listVars, pcbVars, appVars
  <2>4. CASE UnlinkHead
    <3>1. head' \in Pcbs \cup {Nil}
      BY <1>2, <1>3, <2>4 DEF UnlinkHead
    <3>. QED
      BY <2>4, <3>1 DEF UnlinkHead, SessionInv, TypeOK, pcbVars, appVars
  <2>5. CASE Unlink
    <3>1. next' \in [Pcbs -> Pcbs \cup {Nil}]
      BY <1>2, <1>3, <2>5 DEF Unlink
    <3>. QED
      BY <2>5, <3>1 DEF Unlink, SessionInv, TypeOK, pcbVars, appVars
  <2>. QED
    BY <2>1, <2>2, <2>3, <2>4, <2>5
<1>. QED
  BY <1>1, <1>4, ClosingStep

LEMMA FreeSession == SessionInv /\ Free => SessionInv'
<1>. SUFFICES ASSUME SessionInv, Free PROVE SessionInv'
  OBVIOUS
<1>1. Closing /\ pc = "free"
  BY DEF Free, Closing
<1>2. pcb \in Pcbs /\ pcb \in Live /\ ch \in Held
  BY <1>1, PcbLive
<1>3. /\ free' = free \cup {pcb} /\ linked' = FALSE
      /\ UNCHANGED <<listVars, pcbVars, udppcb, local_port, op, pred>>
      /\ \/ ch = 1 /\ ch' = 2 /\ pc' = "close" /\ res' = res
         \/ ch = 2 /\ ch' = 1 /\ pc' = "menu" /\ res' = FALSE
  <2>1. ch = 1 \/ ch = 2
    BY DEF SessionInv, TypeOK, Channels
  <2>. QED
    BY <2>1 DEF Free, MempFree, Unlinked
<1>4. TypeOK'
  BY <1>2, <1>3 DEF SessionInv, TypeOK, Channels, listVars, pcbVars
<1>5. Held' = Held \ {ch}
  <2>1. /\ pc \notin {"new", "loop"} /\ ~Opening /\ pc' \notin {"new", "loop"} /\ ~Opening'
        /\ (pc' = "close" => Closing') /\ (pc' = "menu" => ~Closing')
    BY <1>1, <1>3 DEF Opening, Closing
  <2>. QED
    BY <1>1, <1>3, <2>1 DEF Held, Channels
<1>6. Owned'
  <2>1. /\ Live = {udppcb[c] : c \in Held} /\ \A c, d \in Held : udppcb[c] = udppcb[d] => c = d
        /\ udppcb' = udppcb
    BY <1>3 DEF SessionInv, Owned
  <2>2. Live' = Live \ {udppcb[ch]}
    BY <1>3 DEF Live, pcb
  <2>3. Live' = {udppcb[c] : c \in Held'}
    BY <1>2, <1>5, <2>1, <2>2
  <2>. QED
    BY <1>5, <2>1, <2>3 DEF Owned
<1>7. OwnPort'
  BY <1>3 DEF SessionInv, OwnPort, pcbVars
<1>8. \A c \in Channels : udppcb[c] \in Pcbs /\ local[udppcb[c]] # NoPort
  BY <1>1 DEF SessionInv, BoundOnce
<1>9. BoundOnce'
  BY <1>3, <1>8 DEF BoundOnce, pcbVars
<1>10. Progress' /\ Doing'
  BY <1>3 DEF Progress, Doing, Tried, Opening
<1>. QED
  BY <1>4, <1>6, <1>7, <1>9, <1>10 DEF SessionInv

\* There is a pcb for each channel: the session before left none behind.
LEMMA PoolNotEmpty == SessionInv /\ pc = "new" => free # {}
<1>. SUFFICES ASSUME SessionInv, pc = "new", free = {} PROVE FALSE
  OBVIOUS
<1>1. Pcbs = {udppcb[c] : c \in Held}
  BY DEF SessionInv, Owned, Live
<1>2. Held \subseteq {1}
  BY DEF Held, Opening, Closing, SessionInv, TypeOK, Channels
<1>3. Pcbs \subseteq {udppcb[1]}
  BY <1>1, <1>2
<1>4. Cardinality(Pcbs) <= 1
  <2>1. IsFiniteSet({udppcb[1]}) /\ Cardinality({udppcb[1]}) = 1
    BY FS_Singleton
  <2>2. Cardinality(Pcbs) <= Cardinality({udppcb[1]})
    BY <1>3, <2>1, FS_Subset
  <2>. QED
    BY <2>1, <2>2
<1>. QED
  BY <1>4, PoolSize

LEMMA NewSession == SessionInv /\ New => SessionInv'
<1>. SUFFICES ASSUME SessionInv, New PROVE SessionInv'
  OBVIOUS
<1>1. pc = "new" /\ ch \in Channels /\ free \subseteq Pcbs /\ ~linked
  BY DEF New, SessionInv, TypeOK, Progress
<1>2. PICK p \in free :
          /\ udppcb' = [udppcb EXCEPT ![ch] = p]
          /\ free' = free \ {p}
          /\ next' = [next EXCEPT ![p] = Nil]
          /\ local' = [local EXCEPT ![p] = NoPort]
          /\ peer' = [peer EXCEPT ![p] = FALSE]
          /\ connected' = [connected EXCEPT ![p] = FALSE]
          /\ recv' = [recv EXCEPT ![p] = 0]
  BY PoolNotEmpty DEF New
<1>3. /\ UNCHANGED <<head, local_port, linked, res, op, pred>>
      /\ \/ ch = 1 /\ ch' = 2 /\ pc' = "new"
         \/ ch = 2 /\ ch' = 1 /\ pc' = "connect"
  <2>1. ch = 1 \/ ch = 2
    BY <1>1 DEF Channels
  <2>. QED
    BY <1>1, <2>1 DEF New
<1>4. TypeOK'
  <2>1. p \in Pcbs /\ free' \subseteq Pcbs
    BY <1>1, <1>2
  <2>2. udppcb' \in [Channels -> Pcbs \cup {Nil}] /\ next' \in [Pcbs -> Pcbs \cup {Nil}]
    BY <1>1, <1>2, <2>1 DEF SessionInv, TypeOK
  <2>3. /\ local' \in [Pcbs -> Ports \cup Pcbs \cup {NoPort}]
        /\ peer' \in [Pcbs -> BOOLEAN] /\ connected' \in [Pcbs -> BOOLEAN]
        /\ recv' \in [Pcbs -> Channels \cup {0}]
    BY <1>2 DEF SessionInv, TypeOK
  <2>4. ch' \in Channels
    BY <1>3 DEF Channels
  <2>. QED
    BY <1>3, <2>1, <2>2, <2>3, <2>4 DEF SessionInv, TypeOK
<1>5. /\ udppcb'[ch] = p /\ \A c \in Channels : c # ch => udppcb'[c] = udppcb[c]
      /\ \A q \in Pcbs : q # p => local'[q] = local[q]
      /\ local'[p] = NoPort /\ p \in Pcbs
  BY <1>1, <1>2 DEF SessionInv, TypeOK
<1>6. Held = {c \in Channels : c < ch} /\ Held' = {c \in Channels : c <= ch}
  <2>1. ~Opening /\ ~Closing /\ (pc' = "new" => ~Opening' /\ ~Closing') /\ (pc' = "connect" => Opening')
    BY <1>1 DEF Opening, Closing
  <2>. QED
    BY <1>1, <1>3, <2>1 DEF Held, Channels
<1>7. Owned'
  <2>1. /\ Live = {udppcb[c] : c \in Held} /\ \A c, d \in Held : udppcb[c] = udppcb[d] => c = d
    BY DEF SessionInv, Owned
  <2>2. Live' = Live \cup {p} /\ p \notin Live
    BY <1>1, <1>2 DEF Live
  <2>3. Held' = Held \cup {ch} /\ ch \notin Held /\ Held \subseteq Channels
    BY <1>1, <1>6 DEF Channels
  <2>4. \A c \in Held : udppcb'[c] = udppcb[c]
    BY <1>5, <2>3
  <2>5. Live' = {udppcb'[c] : c \in Held'}
    BY <1>5, <2>1, <2>2, <2>3, <2>4
  <2>6. \A c, d \in Held' : udppcb'[c] = udppcb'[d] => c = d
    BY <1>5, <2>1, <2>2, <2>3, <2>4
  <2>. QED
    BY <2>5, <2>6 DEF Owned
<1>8. OwnPort'
  BY <1>5, SessionAssumption DEF SessionInv, OwnPort
<1>9. /\ \A c \in Channels : ~Tried(c)' /\ ~Closing'
      /\ pc' \notin {"loop", "menu", "scan", "link", "link head", "attach"}
  <2>1. CASE pc' = "new"
    BY <2>1 DEF Tried, Opening, Closing
  <2>2. CASE pc' = "connect" /\ ch' = 1
    BY <2>2 DEF Tried, Opening, Closing, Channels
  <2>. QED
    BY <1>3, <2>1, <2>2
<1>10. BoundOnce'
  <2>. SUFFICES ASSUME NEW c \in Channels, udppcb'[c] \in free'
                PROVE  udppcb'[c] \in Pcbs /\ local'[udppcb'[c]] # NoPort
    BY <1>9 DEF BoundOnce
  <2>1. udppcb'[c] # p /\ udppcb'[c] \in free
    BY <1>2
  <2>2. udppcb'[c] = udppcb[c]
    BY <1>5, <2>1
  <2>. QED
    BY <1>1, <1>5, <2>1, <2>2 DEF SessionInv, BoundOnce
<1>11. Progress' /\ Doing'
  BY <1>1, <1>3, <1>9 DEF Progress, Doing
<1>. QED
  BY <1>4, <1>7, <1>8, <1>10, <1>11 DEF SessionInv

\* Steps between sessions.
LEMMA MenuSession ==
    ASSUME SessionInv, NoBuffer \/ Key1
    PROVE  SessionInv'
<1>1. /\ pc \in {"new", "menu"} /\ pc' \in {"new", "menu"} /\ ch = 1 /\ ~linked
      /\ UNCHANGED <<free, listVars, pcbVars, appVars, ch, op, pred>>
  BY DEF NoBuffer, Key1, SessionInv, Progress
<1>2. ~Opening /\ ~Closing /\ ~Opening' /\ ~Closing'
  BY <1>1 DEF Opening, Closing
<1>3. TypeOK'
  BY <1>1 DEF SessionInv, TypeOK, listVars, pcbVars, appVars
<1>4. Held = {} /\ Held' = {}
  BY <1>1, <1>2 DEF Held, Channels
<1>5. Owned' /\ OwnPort'
  BY <1>1, <1>4 DEF SessionInv, Owned, OwnPort, Live, pcbVars, appVars
<1>6. BoundOnce' /\ Progress' /\ Doing'
  BY <1>1, <1>2 DEF SessionInv, BoundOnce, Progress, Doing, Tried, pcbVars, appVars
<1>. QED
  BY <1>3, <1>5, <1>6 DEF SessionInv

LEMMA NextSession == SessionInv /\ [Next]_vars => SessionInv'
<1>. SUFFICES ASSUME SessionInv, [Next]_vars PROVE SessionInv'
  OBVIOUS
<1>1. CASE UNCHANGED vars
  <2>1. UNCHANGED <<free, head, next, local, peer, connected, recv, udppcb, local_port, linked,
                    res, pc, ch, op, pred>>
    BY <1>1 DEF vars, listVars, pcbVars, appVars, mainVars
  <2>2. TypeOK'
    BY <2>1 DEF SessionInv, TypeOK
  <2>3. Owned' /\ OwnPort'
    BY <2>1 DEF SessionInv, Owned, OwnPort, Held, Live, Opening, Closing
  <2>4. BoundOnce' /\ Progress' /\ Doing'
    BY <2>1 DEF SessionInv, BoundOnce, Progress, Doing, Tried, Done, Opening, Closing, pcb
  <2>. QED
    BY <2>2, <2>3, <2>4 DEF SessionInv
<1>2. CASE Main
  BY <1>2, MenuSession, NewSession, ConnectSession, ScanSession, LinkSession, LinkHeadSession,
     AttachSession, CloseSession, FreeSession DEF Main
<1>3. CASE Handlers
  BY <1>3, UdpInputSession, AudioSendSession DEF Handlers
<1>. QED
  BY <1>1, <1>2, <1>3 DEF Next

\* In every reachable state, wherever the handlers preempt the stack.
LEMMA SessionInvariance == Spec => []SessionInv
  BY SessionStart, NextSession, PTL DEF Spec

\* udp_demo_connection_close gives back what udp_demo_test took, so no session finds the
\* pool empty.
THEOREM PcbsReturned == Spec => []NoPcbLost
<1>1. SessionInv => NoPcbLost
  <2>. SUFFICES ASSUME SessionInv PROVE NoPcbLost
    OBVIOUS
  <2>1. ASSUME pc = "menu" PROVE free = Pcbs
    <3>1. Held = {}
      BY <2>1 DEF Held, Opening, Closing
    <3>. QED
      BY <3>1 DEF SessionInv, Owned, Live, TypeOK
  <2>2. ASSUME pc = "close" PROVE pcb # Nil
    BY <2>2, PcbLive, SessionAssumption DEF Closing
  <2>. QED
    BY <2>1, <2>2 DEF NoPcbLost
<1>. QED
  BY <1>1, SessionInvariance, PTL

\* What bit 5 of udp_demo_flag says of the session is so (udp_demo.c).
THEOREM LinkedIsTrue == Spec => []LinkedTrue
<1>1. SessionInv => LinkedTrue
  <2>. SUFFICES ASSUME SessionInv PROVE LinkedTrue
    OBVIOUS
  <2>1. ASSUME pc = "loop"
        PROVE  linked /\ \A c \in Channels : udppcb[c] \in Live /\ Done(c)
    <3>1. \A c \in Channels : Done(c)
      BY <2>1 DEF SessionInv, Progress, Tried
    <3>2. Held = Channels
      BY <2>1 DEF Held
    <3>. QED
      BY <3>1, <3>2 DEF SessionInv, Owned, Done, Channels
  <2>2. pc = "menu" => ~linked
    BY DEF SessionInv, Progress
  <2>. QED
    BY <2>1, <2>2 DEF LinkedTrue, Done
<1>. QED
  BY <1>1, SessionInvariance, PTL

-----------------------------------------------------------------------------
(* What needs that handlers inside a call of the stack leave the list as it is. *)

HandlersSpareList == Handlers => BetweenCalls \/ UNCHANGED <<listVars, local>>

LEMMA ListTypes ==
    ASSUME IInv
    PROVE  /\ head \in Pcbs \cup {Nil} /\ next \in [Pcbs -> Pcbs \cup {Nil}]
           /\ local \in [Pcbs -> Ports \cup Pcbs \cup {NoPort}]
           /\ free \subseteq Pcbs /\ Bound \subseteq Pcbs /\ InList \subseteq Bound
           /\ Listed = InList /\ ~Cyclic
  BY WalkOfList DEF IInv, SessionInv, TypeOK, InList, Bound, Live

\* udp_input takes the pcb it found out of its place and puts it first.
LEMMA MovedToFront ==
    ASSUME IInv, NEW p \in InList, MoveToFront(p)
    PROVE  ListIs(head', next', InList)
<1>1. CASE head = p
  BY <1>1 DEF MoveToFront, listVars, IInv
<1>2. CASE head # p
  <2>0. PICK q : q = FirstOf(Before(p))
    OBVIOUS
  <2>. DEFINE nx == [next EXCEPT ![q] = next[p]]
  <2>1. Before(p) \in SUBSET Pcbs /\ Before(p) \cap Listed # {}
    <3>1. \E r \in InList : next[r] = p
      BY <1>2, HasBefore DEF IInv
    <3>. QED
      BY <3>1, ListTypes DEF Before
  <2>2. q \in InList /\ next[q] = p
    <3>1. q \in Before(p) \cap Listed
      BY <2>0, <2>1, FirstOfIn DEF IInv, SessionInv
    <3>. QED
      BY <3>1, ListTypes DEF Before
  <2>3. head' = p /\ next' = [next EXCEPT ![q] = next[p], ![p] = head]
    BY <1>2, <2>0 DEF MoveToFront
  <2>5. nx \in [Pcbs -> Pcbs \cup {Nil}] /\ p \in Pcbs /\ q \in Pcbs
    BY <2>2, ListTypes
  <2>4. ListIs(head, nx, InList \ {p}) /\ p # q
    <3>1. next \in [Pcbs -> Pcbs \cup {Nil}] /\ ListIs(head, next, InList)
      BY ListTypes DEF IInv
    <3>2. p \in Pcbs
      BY ListTypes
    <3>. HIDE DEF nx
    <3>4. p # q
      BY <2>2, <3>1, <3>2, NotItself
    <3>3. ListIs(head, [next EXCEPT ![q] = next[p]], InList \ {p})
      BY <2>2, <3>1, <3>2, UnlinkLater
    <3>. QED
      BY <3>3, <3>4 DEF nx
  <2>6. next' = [nx EXCEPT ![p] = head]
    BY <2>3
  <2>. HIDE DEF nx
  <2>7. ListIs(head, next', InList \ {p})
    BY <2>4, <2>5, <2>6, OtherLink
  <2>8. next' \in [Pcbs -> Pcbs \cup {Nil}] /\ next'[p] = head
    BY <2>5, <2>6, ListTypes
  <2>9. ListIs(p, next', (InList \ {p}) \cup {p})
    BY <2>5, <2>7, <2>8, LinkFirst
  <2>10. (InList \ {p}) \cup {p} = InList
    OBVIOUS
  <2>. QED
    BY <2>3, <2>9, <2>10
<1>. QED
  BY <1>1, <1>2

LEMMA HandlersList == HandlersSpareList /\ IInv /\ Handlers => IInv'
<1>. SUFFICES ASSUME HandlersSpareList, IInv, Handlers PROVE IInv'
  OBVIOUS
<1>1. SessionInv /\ SessionInv'
  BY NextSession DEF IInv, Next
<1>8. UNCHANGED <<free, pc, ch, op, pred, udppcb>>
  BY DEF Handlers, UdpInput, AudioSend, mainVars, appVars
<1>7. CASE UNCHANGED <<listVars, local>>
  <2>1. InList' = InList /\ Bound' = Bound /\ UNCHANGED <<head, next, local>>
    BY <1>7, <1>8 DEF InList, Bound, Live, pcb, listVars
  <2>. QED
    BY <1>1, <1>8, <2>1 DEF IInv, Midway, OnePortEach, pcb
<1>. SUFFICES ASSUME BetweenCalls PROVE IInv'
  BY <1>7 DEF HandlersSpareList
<1>2. /\ pc \notin {"link", "link head", "free", "unlink head", "unlink"}
      /\ UNCHANGED <<free, pc, ch, op, pred, udppcb>>
  BY <1>8 DEF BetweenCalls
<1>3. Midway'
  BY <1>2 DEF Midway
<1>4. InList = Bound /\ InList' = Bound'
  BY <1>2 DEF InList
<1>5. ASSUME NEW port \in Ports, NEW known \in BOOLEAN, UdpInput(port, known)
      PROVE  ListIs(head', next', InList') /\ OnePortEach'
  <2>1. local' = local
    BY <1>5 DEF UdpInput
  <2>2. InList' = InList /\ OnePortEach'
    BY <1>2, <1>4, <2>1 DEF IInv, OnePortEach, Bound, Live
  <2>. DEFINE S == {p \in {p \in Listed : local[p] = port} : peer[p] /\ known}
  <2>3. IF FirstOf(S) # Nil THEN MoveToFront(FirstOf(S)) ELSE UNCHANGED listVars
    BY <1>5 DEF UdpInput
  <2>4. S \in SUBSET Pcbs
    BY <1>1, ListedType DEF SessionInv
  <2>. HIDE DEF S
  <2>5. FirstOf(S) # Nil => FirstOf(S) \in InList
    BY <1>1, <2>4, FirstOfIn, ListTypes DEF SessionInv
  <2>6. ListIs(head', next', InList)
    BY <2>3, <2>5, MovedToFront DEF IInv, listVars
  <2>. QED
    BY <2>2, <2>6
<1>6. ASSUME NEW c \in Channels, AudioSend(c)
      PROVE  ListIs(head', next', InList') /\ OnePortEach'
  <2>. DEFINE p == udppcb[c]
  <2>1. CASE p # Nil /\ local[p] = NoPort
    <3>1. p \in Pcbs /\ p # NoPort /\ NoPort \notin Pcbs
      BY <1>1, <2>1, SessionAssumption DEF SessionInv, TypeOK
    <3>2. p \notin free
      BY <1>1, <2>1 DEF SessionInv, BoundOnce
    <3>3. p \notin Bound /\ p \notin Listed
      BY <1>4, <2>1, ListTypes DEF Bound
    <3>4. local' = [local EXCEPT ![p] = p] /\ next' = [next EXCEPT ![p] = head] /\ head' = p
      BY <1>6, <2>1, <3>3 DEF AudioSend
    <3>. HIDE DEF p
    <3>5. \A q \in Pcbs : local'[q] = IF q = p THEN p ELSE local[q]
      BY <3>1, <3>4, ListTypes
    <3>6. Bound' = Bound \cup {p}
      BY <1>2, <3>1, <3>2, <3>5 DEF Bound, Live
    <3>7. ListIs(head, next', Bound)
      BY <1>4, <3>1, <3>3, <3>4, OtherLink, ListTypes DEF IInv
    <3>8. next' \in [Pcbs -> Pcbs \cup {Nil}] /\ next'[p] = head
      BY <3>1, <3>4, ListTypes
    <3>9. ListIs(p, next', Bound \cup {p})
      BY <3>1, <3>3, <3>7, <3>8, LinkFirst
    <3>10. OnePortEach'
      <4>. SUFFICES ASSUME NEW q \in Bound', NEW r \in Bound', local'[q] = local'[r] PROVE q = r
        BY DEF OnePortEach
      <4>1. \A s \in Bound : s \in Pcbs /\ (local[s] = p => s = p)
        BY <1>1, <3>1, ListTypes DEF SessionInv, OwnPort
      <4>. QED
        BY <3>1, <3>5, <3>6, <4>1 DEF IInv, OnePortEach
    <3>. QED
      BY <1>4, <3>4, <3>6, <3>9, <3>10
  <2>2. CASE ~(p # Nil /\ local[p] = NoPort)
    <3>1. UNCHANGED <<local, head, next>>
      BY <1>6, <2>2 DEF AudioSend, listVars
    <3>. QED
      BY <1>2, <1>4, <3>1 DEF IInv, OnePortEach, Bound, Live
  <2>. QED
    BY <2>1, <2>2
<1>. QED
  BY <1>1, <1>3, <1>5, <1>6 DEF Handlers, IInv

\* The pcb of a channel that is bound is bound in the sense of the list.
LEMMA PcbBound ==
    ASSUME SessionInv, Closing \/ pc \in {"link", "link head", "attach"} \/ (pc = "scan" /\ op # "auto")
    PROVE  pcb \in Bound
<1>1. pcb \in Live
  BY PcbLive DEF Opening
<1>2. local[pcb] # NoPort
  BY DEF SessionInv, BoundOnce, Doing, TypeOK, pcb
<1>. QED
  BY <1>1, <1>2 DEF Bound

\* Steps that leave the list, the ports and what is in use alone.
LEMMA QuietList ==
    ASSUME IInv, SessionInv', NoBuffer \/ Key1 \/ Quit \/ Connect \/ Attach \/ Disconnect
    PROVE  IInv'
<1>1. UNCHANGED <<head, next, free, local>>
  BY DEF NoBuffer, Key1, Quit, Connect, Attach, Disconnect, listVars, pcbVars
<1>2. pc \notin {"link", "link head", "free"}
  BY DEF NoBuffer, Key1, Quit, Connect, Attach, Disconnect
<1>3. pc' \notin {"link", "link head", "free", "unlink head", "unlink"}
  <2>1. CASE Attach
    <3>1. pcb \in Listed
      <4>1. pcb \in Bound
        BY <2>1, PcbBound DEF Attach, IInv
      <4>. QED
        BY <1>2, <4>1, ListTypes DEF InList
    <3>. QED
      BY <2>1, <3>1 DEF Attach
  <2>2. CASE Connect
    <3>1. pcb # Nil
      BY <2>2, OpeningTypes DEF IInv, Connect, Opening
    <3>. QED
      BY <2>2, <3>1 DEF Connect
  <2>. QED
    BY <2>1, <2>2 DEF NoBuffer, Key1, Quit, Disconnect
<1>4. InList' = InList /\ Bound' = Bound
  BY <1>1, <1>2, <1>3 DEF InList, Bound, Live
<1>5. OnePortEach'
  BY <1>1, <1>4 DEF IInv, OnePortEach
<1>6. Midway'
  BY <1>3 DEF Midway
<1>. QED
  BY <1>1, <1>4, <1>5, <1>6 DEF IInv

LEMMA NewList == IInv /\ SessionInv' /\ New => IInv'
<1>. SUFFICES ASSUME IInv, SessionInv', New PROVE IInv'
  OBVIOUS
<1>1. pc = "new" /\ pc' \in {"new", "connect"} /\ head' = head
  BY DEF New
<1>2. free # {}
  BY <1>1, PoolNotEmpty DEF IInv
<1>3. PICK p \in free : /\ free' = free \ {p}
                        /\ next' = [next EXCEPT ![p] = Nil]
                        /\ local' = [local EXCEPT ![p] = NoPort]
  BY <1>2 DEF New
<1>4. p \in Pcbs /\ \A q \in Pcbs : local'[q] = IF q = p THEN NoPort ELSE local[q]
  BY <1>3, ListTypes
<1>5. Bound' = Bound /\ p \notin Bound
  BY <1>3, <1>4 DEF Bound, Live
<1>6. InList = Bound /\ InList' = Bound
  BY <1>1, <1>5 DEF InList
<1>7. ListIs(head', next', InList')
  BY <1>1, <1>3, <1>4, <1>5, <1>6, OtherLink, ListTypes DEF IInv
<1>8. OnePortEach'
  BY <1>4, <1>5, ListTypes DEF IInv, OnePortEach
<1>9. Midway'
  BY <1>1 DEF Midway
<1>. QED
  BY <1>7, <1>8, <1>9 DEF IInv

LEMMA ScanList == IInv /\ SessionInv' /\ Scan => IInv'
<1>. SUFFICES ASSUME IInv, SessionInv', Scan PROVE IInv'
  OBVIOUS
<1>. DEFINE port == IF op = "auto" THEN pcb ELSE local_port[ch]
<1>1. /\ pc = "scan" /\ UNCHANGED <<free, head, next, udppcb, local_port>>
      /\ SessionInv /\ Opening
  BY DEF Scan, listVars, IInv, Opening
<1>2. InList = Bound /\ Listed = Bound
  BY <1>1, ListTypes DEF InList
<1>3. /\ pcb \in Pcbs /\ pcb \notin free /\ ch \in Channels /\ res \in BOOLEAN /\ port # NoPort
  BY <1>1, OpeningTypes, PcbLive DEF Live
<1>4. CASE OtherOn(port)
  <2>1. NextChannel(TRUE) /\ local' = local
    BY <1>4 DEF Scan
  <2>2. pc' \in {"connect", "close", "loop"}
    BY <1>3, <2>1, NextChannelWay
  <2>3. Bound' = Bound /\ InList' = Bound
    BY <1>1, <2>1, <2>2 DEF Bound, Live, InList
  <2>4. OnePortEach' /\ Midway'
    BY <2>1, <2>2, <2>3 DEF IInv, OnePortEach, Midway
  <2>. QED
    BY <1>1, <1>2, <2>3, <2>4 DEF IInv
<1>5. CASE ~OtherOn(port)
  <2>1. local' = [local EXCEPT ![pcb] = port]
    BY <1>5 DEF Scan
  <2>2. \/ pcb \notin Listed /\ pc' = "link" /\ UNCHANGED <<ch, op>>
        \/ pcb \in Listed /\ pc' = "attach"
        \/ pcb \in Listed /\ NextChannel(FALSE)
    BY <1>5 DEF Scan
  <2>. HIDE DEF port
  <2>3. \A q \in Pcbs : local'[q] = IF q = pcb THEN port ELSE local[q]
    BY <1>3, <2>1, ListTypes
  <2>4. Bound' = Bound \cup {pcb}
    BY <1>1, <1>3, <2>3 DEF Bound, Live
  <2>5. OnePortEach'
    <3>. SUFFICES ASSUME NEW q \in Bound', NEW r \in Bound', local'[q] = local'[r] PROVE q = r
      BY DEF OnePortEach
    <3>1. \A s \in Bound : s \in Pcbs /\ (s # pcb => local[s] # port)
      BY <1>2, <1>5, ListTypes DEF OtherOn
    <3>. QED
      BY <1>3, <2>3, <2>4, <3>1 DEF IInv, OnePortEach
  <2>6. InList' = Bound /\ Midway'
    <3>1. CASE pcb \notin Listed /\ pc' = "link" /\ UNCHANGED <<ch, op>>
      <4>1. pcb' = pcb
        BY <1>1, <3>1 DEF pcb
      <4>2. op = "auto"
        BY <1>1, <1>2, <3>1, PcbBound
      <4>. QED
        BY <1>2, <2>4, <3>1, <4>1, <4>2 DEF InList, Midway
    <3>2. CASE pcb \in Listed /\ (pc' = "attach" \/ NextChannel(FALSE))
      <4>1. pc' \in {"attach", "connect", "close", "loop"}
        BY <1>3, <3>2, NextChannelWay
      <4>. QED
        BY <1>2, <2>4, <3>2, <4>1 DEF InList, Midway
    <3>. QED
      BY <2>2, <3>1, <3>2
  <2>. QED
    BY <1>1, <1>2, <2>5, <2>6 DEF IInv
<1>. QED
  BY <1>4, <1>5

LEMMA LinkList == IInv /\ SessionInv' /\ Link => IInv'
<1>. SUFFICES ASSUME IInv, SessionInv', Link PROVE IInv'
  OBVIOUS
<1>1. /\ pc = "link" /\ pc' = "link head" /\ next' = [next EXCEPT ![pcb] = head]
      /\ UNCHANGED <<free, head, local, udppcb, ch, op>>
  BY DEF Link, pcbVars, appVars
<1>2. pcb \in Bound /\ pcb \in Pcbs
  BY <1>1, PcbBound, ListTypes DEF IInv
<1>3. pcb' = pcb /\ Bound' = Bound /\ InList = Bound \ {pcb} /\ InList' = Bound \ {pcb}
  BY <1>1 DEF pcb, Bound, Live, InList
<1>4. ListIs(head', next', InList')
  BY <1>1, <1>2, <1>3, OtherLink, ListTypes DEF IInv
<1>5. Midway'
  <2>1. next'[pcb] = head
    BY <1>1, <1>2, ListTypes
  <2>. QED
    BY <1>1, <1>3, <2>1 DEF IInv, Midway
<1>6. OnePortEach'
  BY <1>1, <1>3 DEF IInv, OnePortEach
<1>. QED
  BY <1>4, <1>5, <1>6 DEF IInv

LEMMA LinkHeadList == IInv /\ SessionInv' /\ LinkHead => IInv'
<1>. SUFFICES ASSUME IInv, SessionInv', LinkHead PROVE IInv'
  OBVIOUS
<1>1. pc = "link head" /\ op = "auto" /\ next[pcb] = head
  BY DEF LinkHead, IInv, Midway
<1>2. head' = pcb /\ pc' = "attach" /\ UNCHANGED <<free, next, local, udppcb, ch>>
  BY <1>1 DEF LinkHead
<1>3. pcb \in Bound /\ pcb \in Pcbs
  BY <1>1, PcbBound, ListTypes DEF IInv
<1>4. Bound' = Bound /\ InList = Bound \ {pcb} /\ InList' = Bound
  BY <1>1, <1>2 DEF Bound, Live, InList
<1>5. ListIs(pcb, next, (Bound \ {pcb}) \cup {pcb})
  BY <1>1, <1>3, <1>4, LinkFirst, ListTypes DEF IInv
<1>6. (Bound \ {pcb}) \cup {pcb} = Bound
  BY <1>3
<1>7. Midway' /\ OnePortEach'
  BY <1>2, <1>4 DEF IInv, Midway, OnePortEach
<1>. QED
  BY <1>2, <1>4, <1>5, <1>6, <1>7 DEF IInv

LEMMA RemoveList == IInv /\ SessionInv' /\ Remove => IInv'
<1>. SUFFICES ASSUME IInv, SessionInv', Remove PROVE IInv'
  OBVIOUS
<1>1. pc = "remove" /\ UNCHANGED <<free, head, next, local, udppcb, ch>>
  BY DEF Remove, listVars, pcbVars, appVars
<1>2. InList = Bound /\ Listed = Bound /\ pcb \in Bound
  BY <1>1, PcbBound, ListTypes DEF InList, IInv, Closing
<1>3. pcb' = pcb /\ Bound' = Bound
  BY <1>1 DEF pcb, Bound, Live
<1>4. \/ head = pcb /\ pc' = "unlink head"
      \/ pc' = "unlink" /\ pred' \in Bound /\ next[pred'] = pcb
  <2>1. head # pcb => Before(pcb) # {}
    BY <1>2, HasBefore DEF IInv, Before
  <2>. QED
    BY <1>2, <2>1 DEF Remove, Before
<1>5. InList' = Bound
  BY <1>3, <1>4 DEF InList
<1>6. Midway' /\ OnePortEach'
  BY <1>1, <1>3, <1>4, <1>5 DEF IInv, Midway, OnePortEach
<1>. QED
  BY <1>1, <1>2, <1>5, <1>6 DEF IInv

LEMMA UnlinkList ==
    ASSUME IInv, SessionInv', UnlinkHead \/ Unlink
    PROVE  IInv'
<1>1. /\ pc \in {"unlink head", "unlink"} /\ pc' = "free"
      /\ UNCHANGED <<free, local, udppcb, ch>>
  BY DEF UnlinkHead, Unlink, pcbVars, appVars
<1>2. InList = Bound /\ pcb \in Bound /\ pcb \in Pcbs
  BY <1>1, PcbBound, ListTypes DEF InList, IInv, Closing
<1>3. Bound' = Bound /\ InList' = Bound \ {pcb}
  BY <1>1 DEF pcb, Bound, Live, InList
<1>4. ListIs(head', next', Bound \ {pcb})
  <2>1. CASE UnlinkHead
    <3>1. head = pcb /\ head' = next[pcb] /\ next' = next
      BY <1>2, <2>1 DEF UnlinkHead, IInv, Midway
    <3>. QED
      BY <1>2, <3>1, UnlinkFirst DEF IInv
  <2>2. CASE Unlink
    <3>1. /\ pred \in Bound /\ next[pred] = pcb
          /\ head' = head /\ next' = [next EXCEPT ![pred] = next[pcb]]
      BY <1>2, <2>2 DEF Unlink, IInv, Midway
    <3>2. next \in [Pcbs -> Pcbs \cup {Nil}] /\ ListIs(head, next, Bound)
      BY <1>2, ListTypes DEF IInv
    <3>3. ListIs(head, [next EXCEPT ![pred] = next[pcb]], Bound \ {pcb})
      BY <1>2, <3>1, <3>2, UnlinkLater
    <3>. QED
      BY <3>1, <3>3
  <2>. QED
    BY <2>1, <2>2
<1>5. Midway' /\ OnePortEach'
  BY <1>1, <1>3 DEF IInv, Midway, OnePortEach
<1>. QED
  BY <1>3, <1>4, <1>5 DEF IInv

LEMMA FreeList == IInv /\ SessionInv' /\ Free => IInv'
<1>. SUFFICES ASSUME IInv, SessionInv', Free PROVE IInv'
  OBVIOUS
<1>1. /\ pc = "free" /\ pc' \in {"close", "menu"} /\ free' = free \cup {pcb}
      /\ UNCHANGED <<head, next, local>>
  BY DEF Free, MempFree, listVars, pcbVars
<1>2. InList = Bound \ {pcb} /\ InList' = Bound' /\ Bound' = Bound \ {pcb}
  BY <1>1 DEF InList, Bound, Live
<1>3. Midway' /\ OnePortEach'
  BY <1>1, <1>2 DEF IInv, Midway, OnePortEach
<1>. QED
  BY <1>1, <1>2, <1>3 DEF IInv

LEMMA StartList == Init => IInv
<1>. SUFFICES ASSUME Init PROVE IInv
  OBVIOUS
<1>1. Bound = {} /\ InList = {} /\ head = Nil
  BY DEF Init, Bound, Live, InList
<1>. QED
  BY <1>1, EmptyList, SessionStart DEF Init, IInv, Midway, OnePortEach

LEMMA Invariance == Spec /\ [][HandlersSpareList]_vars => []IInv
<1>1. IInv /\ [Next]_vars /\ [HandlersSpareList]_vars => IInv'
  <2>. SUFFICES ASSUME IInv, [Next]_vars, [HandlersSpareList]_vars PROVE IInv'
    OBVIOUS
  <2>1. SessionInv'
    BY NextSession DEF IInv
  <2>2. CASE UNCHANGED vars
    <3>1. UNCHANGED <<free, head, next, local, udppcb, pc, ch, op, pred>>
      BY <2>2 DEF vars, listVars, pcbVars, appVars, mainVars
    <3>2. InList' = InList /\ Bound' = Bound
      BY <3>1 DEF InList, Bound, Live, pcb
    <3>. QED
      BY <2>1, <3>1, <3>2 DEF IInv, Midway, OnePortEach, pcb
  <2>3. CASE Main
    BY <2>1, <2>3, QuietList, NewList, ScanList, LinkList, LinkHeadList, RemoveList, UnlinkList, FreeList
       DEF Main
  <2>4. CASE Handlers /\ HandlersSpareList
    BY <2>4, HandlersList
  <2>. QED
    BY <2>2, <2>3, <2>4 DEF Next
<1>. QED
  BY <1>1, StartList, PTL DEF Spec

\* Between two calls of the stack a walk of udp_pcbs ends and meets exactly the pcbs in use
\* that are bound, each on a port of its own (udp_bind, udp_remove, udp_input): handlers
\* may come anywhere, as long as inside a call they change neither links nor ports.
THEOREM ListIsExact == Spec /\ [][HandlersSpareList]_vars => []ListExact
<1>1. IInv => ListExact
  <2>. SUFFICES ASSUME IInv PROVE ListExact
    OBVIOUS
  <2>1. TypeOK /\ ~Cyclic /\ Listed = InList /\ InList \subseteq Bound
    BY ListTypes DEF IInv, SessionInv
  <2>2. BetweenCalls => InList = {p \in Live : local[p] # NoPort}
    BY DEF BetweenCalls, InList, Bound
  <2>3. \A p, q \in Listed : p # q => local[p] # local[q]
    BY <2>1 DEF IInv, OnePortEach
  <2>. QED
    BY <2>1, <2>2, <2>3 DEF ListExact
<1>. QED
  BY <1>1, Invariance, PTL
=============================================================================
