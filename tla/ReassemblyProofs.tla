-------------------------- MODULE ReassemblyProofs --------------------------
(***************************************************************************)
(* Reassembly's safety for every number of elements, limit of pbufs, set of  *)
(* datagrams and way to fragment them.                                      *)
(*                                                                         *)
(* What is delivered, and the limit, do not depend on the lists: they hold   *)
(* of every behaviour.  The lists, the count and that nobody is refused      *)
(* without need hold as long as the victim of an overflow is where           *)
(* ip_reass_remove_oldest_datagram takes it to be, at the end (SafeVictim).  *)
(***************************************************************************)
EXTENDS Reassembly, FiniteSetTheorems, SequenceTheorems, WellFoundedInduction, TLAPS

-----------------------------------------------------------------------------
(* Numbers and sets of numbers.                                            *)

\* A set of natural numbers that is not empty has a least one.
LEMMA LeastNumber ==
    ASSUME NEW T \in SUBSET Nat, T # {}
    PROVE  \E x \in T : \A y \in T : x <= y
<1>1. \E x \in T : \A y \in T : <<y, x>> \notin OpToRel(<, Nat)
  BY NatLessThanWellFounded, WFMin
<1>2. \A x, y \in Nat : y < x => <<y, x>> \in OpToRel(<, Nat)
  BY DEF OpToRel
<1>3. \E x \in T : \A y \in T : ~(y < x)
  BY <1>1, <1>2, Zenon
<1>. QED
  BY <1>3

\* Induction, on the set of the numbers that have a property.
LEMMA SetInduction ==
    ASSUME NEW S, 0 \in S, \A n \in Nat : n \in S => n + 1 \in S
    PROVE  Nat \subseteq S
<1>. SUFFICES ASSUME Nat \ S # {} PROVE FALSE
  OBVIOUS
<1>1. PICK x \in Nat \ S : \A y \in Nat \ S : x <= y
  BY LeastNumber
<1>2. x # 0 /\ x - 1 \in Nat
  BY <1>1
<1>. QED
  BY <1>1, <1>2

LEMMA Positions ==
    ASSUME NEW n \in Nat
    PROVE  IsFiniteSet(1 .. n) /\ Cardinality(1 .. n) = n
<1>1. IsFiniteSet(1 .. n) /\ Cardinality(1 .. n) = IF 1 > n THEN 0 ELSE n - 1 + 1
  BY FS_Interval
<1>. QED
  BY <1>1

\* A set of positions that holds all positions before each of its own is as long as it
\* has members.
LEMMA InitialSegment ==
    ASSUME NEW m \in Nat, NEW S \in SUBSET (1 .. m),
           \A i \in S : \A j \in 1 .. i : j \in S
    PROVE  Cardinality(S) \in 0 .. m /\ S = 1 .. Cardinality(S)
<1>. DEFINE T == {k \in Nat : k + 1 \notin S}
<1>1. m \in T
  OBVIOUS
<1>2. PICK k \in T : \A y \in T : k <= y
  <2>. HIDE DEF T
  <2>. QED
    BY <1>1, LeastNumber DEF T
<1>3. k \in Nat /\ k <= m /\ k + 1 \notin S
  BY <1>1, <1>2
<1>4. \A i \in 1 .. k : i \in S
  <2>. TAKE i \in 1 .. k
  <2>1. i - 1 \in Nat /\ i - 1 < k /\ (i - 1) + 1 = i
    BY <1>3
  <2>. QED
    BY <1>2, <2>1
<1>5. \A i \in S : i <= k
  <2>. SUFFICES ASSUME NEW i \in S, i > k PROVE FALSE
    BY <1>3
  <2>. QED
    BY <1>3
<1>. HIDE DEF T
<1>6. S = 1 .. k
  <2>1. \A i \in S : i \in 1 .. k
    BY <1>3, <1>5
  <2>. QED
    BY <1>4, <2>1
<1>7. Cardinality(1 .. k) = k
  BY <1>3, Positions
<1>. QED
  BY <1>3, <1>6, <1>7

\* A finite set of natural numbers that is not empty has a least and a greatest member.
LEMMA MinIs ==
    ASSUME NEW m \in Nat, NEW S \in SUBSET (1 .. m), S # {}
    PROVE  Min(S) \in S /\ \A y \in S : Min(S) <= y
<1>1. \E x \in S : \A y \in S : x <= y
  BY LeastNumber
<1>. QED
  BY <1>1, Zenon DEF Min

LEMMA MaxIs ==
    ASSUME NEW m \in Nat, NEW S \in SUBSET (1 .. m), S # {}
    PROVE  Max(S) \in S /\ \A y \in S : y <= Max(S)
<1>. DEFINE T == {k \in Nat : \A y \in S : y <= k}
<1>1. m \in T
  OBVIOUS
<1>2. PICK k \in T : \A y \in T : k <= y
  <2>. HIDE DEF T
  <2>. QED
    BY <1>1, LeastNumber DEF T
<1>3. k \in S
  <2>. SUFFICES ASSUME k \notin S PROVE FALSE
    OBVIOUS
  <2>1. k \in Nat /\ k > 0
    <3>1. PICK y : y \in S
      OBVIOUS
    <3>2. k \in Nat /\ y <= k /\ y \in Nat /\ y >= 1
      BY <1>2, <3>1
    <3>. QED
      BY <3>2
  <2>2. \A y \in S : y <= k - 1
    BY <1>2, <2>1
  <2>3. k - 1 \in T
    BY <2>1, <2>2
  <2>. QED
    BY <1>2, <2>1, <2>3
<1>4. \E x \in S : \A y \in S : x >= y
  BY <1>2, <1>3
<1>5. Max(S) \in S /\ \A y \in S : Max(S) >= y
  BY <1>4, Zenon DEF Max
<1>. QED
  BY <1>5

-----------------------------------------------------------------------------
(* The lists.                                                              *)

\* q is the list from head on.
Linked(links, head, q) ==
    /\ q \in Seq(Elements) /\ IsInjective(q)
    /\ head = IF q = <<>> THEN NULL ELSE q[1]
    /\ \A i \in DOMAIN q : links[q[i]] = IF i < Len(q) THEN q[i + 1] ELSE NULL

\* Walk is what its recursive definition says.
LEMMA WalkDef ==
    ASSUME NEW links, NEW head
    PROVE  Walk(links, head) =
             [n \in 0 .. MEMP_NUM_REASSDATA |->
                IF n = 0 THEN head
                ELSE IF Walk(links, head)[n - 1] = NULL THEN NULL
                ELSE links[Walk(links, head)[n - 1]]]
<1>. DEFINE after(e) == IF e = NULL THEN NULL ELSE links[e]
            To(h, n) == h = [i \in 0 .. n |-> IF i = 0 THEN head ELSE after(h[i - 1])]
            S == {n \in Nat : \E h : To(h, n)}
<1>. HIDE DEF after
<1>1. 0 \in S
  <2>1. To([i \in 0 .. 0 |-> head], 0)
    OBVIOUS
  <2>. QED
    BY <2>1
<1>2. \A n \in Nat : n \in S => n + 1 \in S
  <2>. SUFFICES ASSUME NEW n \in Nat, NEW h, To(h, n) PROVE \E g : To(g, n + 1)
    OBVIOUS
  <2>. DEFINE g == [i \in 0 .. n + 1 |-> IF i = n + 1 THEN after(h[n]) ELSE h[i]]
  <2>1. \A i \in 0 .. n : h[i] = IF i = 0 THEN head ELSE after(h[i - 1])
    OBVIOUS
  <2>2. \A i \in 0 .. n + 1 : g[i] = IF i = 0 THEN head ELSE after(g[i - 1])
    <3>. TAKE i \in 0 .. n + 1
    <3>1. CASE i = n + 1
      <4>1. g[i - 1] = h[n] /\ i # 0 /\ g[i] = after(h[n])
        BY <3>1
      <4>. QED
        BY <4>1, <3>1, Zenon
    <3>2. CASE i # n + 1
      <4>1. i \in 0 .. n /\ (i # 0 => i - 1 \in 0 .. n /\ i - 1 # n + 1)
        BY <3>2
      <4>2. g[i] = h[i] /\ (i # 0 => g[i - 1] = h[i - 1])
        BY <3>2, <4>1
      <4>. HIDE DEF g
      <4>. QED
        BY <2>1, <4>1, <4>2
    <3>. QED
      BY <3>1, <3>2
  <2>3. To(g, n + 1)
    BY <2>2
  <2>. QED
    BY <2>3
<1>. HIDE DEF S
<1>3. Nat \subseteq S
  BY <1>1, <1>2, SetInduction
<1>4. \E h : To(h, MEMP_NUM_REASSDATA)
  <2>. HIDE DEF To
  <2>1. MEMP_NUM_REASSDATA \in Nat
    BY ReassemblyAssumption
  <2>. QED
    BY <1>3, <2>1, Zenon DEF S
<1>5. Walk(links, head) = CHOOSE h : To(h, MEMP_NUM_REASSDATA)
  BY Zenon DEF Walk, after
<1>6. To(Walk(links, head), MEMP_NUM_REASSDATA)
  <2>. DEFINE P(h) == To(h, MEMP_NUM_REASSDATA)
  <2>. HIDE DEF To
  <2>. QED
    BY <1>4, <1>5, Zenon
<1>. QED
  BY <1>6 DEF after

\* However the elements are linked, what is followed is a sequence of elements, and
\* the head is its first.
LEMMA FromType ==
    ASSUME NEW links \in [Elements -> Elements \cup {NULL}], NEW head \in Elements \cup {NULL}
    PROVE  /\ From(links, head) \in Seq(Elements)
           /\ head # NULL => 1 \in DOMAIN From(links, head) /\ From(links, head)[1] = head
<1>. DEFINE N == MEMP_NUM_REASSDATA
            at == Walk(links, head)
            S == {m \in 1 .. N + 1 : at[m - 1] # NULL}
<1>1. N \in Nat \ {0}
  BY ReassemblyAssumption
<1>2. /\ at[0] = head
      /\ \A n \in 1 .. N : at[n] = IF at[n - 1] = NULL THEN NULL ELSE links[at[n - 1]]
  <2>1. at = [n \in 0 .. N |-> IF n = 0 THEN head ELSE IF at[n - 1] = NULL THEN NULL
                               ELSE links[at[n - 1]]]
    BY WalkDef
  <2>. HIDE DEF at
  <2>2. \A n \in 0 .. N : at[n] = IF n = 0 THEN head ELSE IF at[n - 1] = NULL THEN NULL
                               ELSE links[at[n - 1]]
    BY <2>1, Zenon
  <2>3. 0 \in 0 .. N /\ \A n \in 1 .. N : n \in 0 .. N /\ n # 0
    BY <1>1
  <2>. QED
    BY <2>2, <2>3
<1>3. From(links, head) = [n \in 1 .. Cardinality(S) |-> at[n - 1]]
  BY DEF From
<1>. HIDE DEF at, N
<1>4. \A n \in 0 .. N : at[n] \in Elements \cup {NULL}
  <2>. DEFINE T == {n \in Nat : n <= N => at[n] \in Elements \cup {NULL}}
  <2>1. 0 \in T
    BY <1>2
  <2>2. \A n \in Nat : n \in T => n + 1 \in T
    <3>. SUFFICES ASSUME NEW n \in Nat, n \in T, n + 1 <= N
                  PROVE  at[n + 1] \in Elements \cup {NULL}
      OBVIOUS
    <3>1. n + 1 \in 1 .. N /\ (n + 1) - 1 = n /\ at[n] \in Elements \cup {NULL}
      BY <1>1
    <3>2. at[n + 1] = IF at[n] = NULL THEN NULL ELSE links[at[n]]
      BY <1>2, <3>1
    <3>. QED
      BY <3>1, <3>2
  <2>. HIDE DEF T
  <2>3. Nat \subseteq T
    BY <2>1, <2>2, SetInduction
  <2>. QED
    BY <1>1, <2>3 DEF T
<1>5. \A i \in S : \A j \in 1 .. i : j \in S
  <2>. DEFINE T == {d \in Nat : \A i \in S : d < i => i - d \in S}
  <2>1. 0 \in T
    OBVIOUS
  <2>2. \A d \in Nat : d \in T => d + 1 \in T
    <3>. SUFFICES ASSUME NEW d \in Nat, d \in T, NEW i \in S, d + 1 < i
                  PROVE  i - (d + 1) \in S
      OBVIOUS
    <3>0. i \in 1 .. N + 1 /\ d < i
      BY <1>1
    <3>1. i - d \in S
      BY <3>0
    <3>. DEFINE k == i - (d + 1)
    <3>2. k \in 1 .. N /\ k = (i - d) - 1 /\ k \in 1 .. N + 1
      BY <1>1, <3>0
    <3>3. at[k] # NULL
      BY <3>1, <3>2
    <3>. HIDE DEF k
    <3>4. at[k - 1] # NULL
      BY <1>2, <3>2, <3>3
    <3>5. k \in S
      BY <3>2, <3>4
    <3>. QED
      BY <3>5 DEF k
  <2>. HIDE DEF T
  <2>3. Nat \subseteq T
    BY <2>1, <2>2, SetInduction
  <2>. TAKE i \in S
  <2>. TAKE j \in 1 .. i
  <2>4. i - j \in Nat /\ i - j < i /\ i - (i - j) = j
    BY <1>1
  <2>. QED
    BY <2>3, <2>4 DEF T
<1>6. Cardinality(S) \in 0 .. N + 1 /\ S = 1 .. Cardinality(S)
  <2>. HIDE DEF S
  <2>1. N + 1 \in Nat
    BY <1>1
  <2>2. S \in SUBSET (1 .. N + 1)
    BY DEF S
  <2>. QED
    BY <1>5, <2>1, <2>2, InitialSegment
<1>. DEFINE c == Cardinality(S)
<1>12. c \in Nat /\ c <= N + 1
  BY <1>1, <1>6
<1>7. \A n \in 1 .. c : at[n - 1] \in Elements
  <2>. TAKE n \in 1 .. c
  <2>2. n \in S /\ n - 1 \in 0 .. N
    BY <1>1, <1>6, <1>12
  <2>. QED
    BY <1>4, <2>2
<1>8. head # NULL => 1 \in S
  BY <1>1, <1>2
<1>9. head # NULL => 1 \in 1 .. c /\ 1 - 1 = 0
  BY <1>6, <1>8
<1>. HIDE DEF c, S
<1>10. From(links, head) = [n \in 1 .. c |-> at[n - 1]]
  BY <1>3 DEF c, S
<1>11. From(links, head) \in Seq(Elements)
  BY <1>7, <1>12, <1>10, SeqDef
<1>. QED
  BY <1>2, <1>9, <1>10, <1>11

\* A list is no longer than there are elements.
LEMMA LinkedShort ==
    ASSUME NEW links, NEW head, NEW q, Linked(links, head, q)
    PROVE  Len(q) \in 0 .. MEMP_NUM_REASSDATA /\ DOMAIN q = 1 .. Len(q)
<1>1. q \in Seq(Elements) /\ Len(q) \in Nat /\ DOMAIN q = 1 .. Len(q) /\ q \in [1 .. Len(q) -> Elements]
  BY DEF Linked
<1>2. q \in Injection(1 .. Len(q), Elements)
  BY <1>1 DEF Injection, Linked
<1>3. /\ IsFiniteSet(Elements) /\ Cardinality(Elements) = MEMP_NUM_REASSDATA
      /\ Cardinality(1 .. Len(q)) = Len(q)
  BY <1>1, Positions, ReassemblyAssumption DEF Elements
<1>4. Cardinality(1 .. Len(q)) <= Cardinality(Elements)
  BY <1>2, <1>3, FS_Injection
<1>. QED
  BY <1>1, <1>3, <1>4, ReassemblyAssumption

\* What is followed is the list, if there is one.
LEMMA FromIs ==
    ASSUME NEW links, NEW head, NEW q, Linked(links, head, q)
    PROVE  From(links, head) = q
<1>. DEFINE N == MEMP_NUM_REASSDATA
            at == Walk(links, head)
            S == {m \in 1 .. N + 1 : at[m - 1] # NULL}
<1>1. /\ N \in Nat \ {0} /\ Len(q) \in 0 .. N /\ DOMAIN q = 1 .. Len(q)
      /\ \A i \in 1 .. Len(q) : q[i] # NULL
  <2>1. N \in Nat \ {0} /\ NULL \notin Elements
    BY ReassemblyAssumption
  <2>2. Len(q) \in 0 .. N /\ DOMAIN q = 1 .. Len(q) /\ q \in Seq(Elements)
    BY LinkedShort DEF Linked
  <2>. QED
    BY <2>1, <2>2
<1>2. at = [n \in 0 .. N |-> IF n = 0 THEN head ELSE IF at[n - 1] = NULL THEN NULL
                             ELSE links[at[n - 1]]]
  BY WalkDef
<1>3. From(links, head) = [n \in 1 .. Cardinality(S) |-> at[n - 1]]
  BY DEF From
<1>. HIDE DEF at, N
<1>. DEFINE item(n) == IF n < Len(q) THEN q[n + 1] ELSE NULL
<1>4. \A n \in 0 .. N : at[n] = item(n)
  <2>. DEFINE T == {n \in Nat : n <= N => at[n] = item(n)}
  <2>1. 0 \in T
    <3>1. at[0] = head
      BY <1>1, <1>2
    <3>2. q \in Seq(Elements) /\ head = IF q = <<>> THEN NULL ELSE q[1]
      BY DEF Linked
    <3>3. 0 < Len(q) <=> q # <<>>
      BY <3>2, EmptySeq, <1>1
    <3>. QED
      BY <3>1, <3>2, <3>3
  <2>2. \A n \in Nat : n \in T => n + 1 \in T
    <3>. SUFFICES ASSUME NEW n \in Nat, n \in T, n + 1 <= N
                  PROVE  at[n + 1] = item(n + 1)
      <4>. HIDE DEF item
      <4>. QED
        OBVIOUS
    <3>1. n + 1 \in 0 .. N /\ n + 1 # 0 /\ (n + 1) - 1 = n /\ n <= N
      BY <1>1
    <3>2. at[n + 1] = IF at[n] = NULL THEN NULL ELSE links[at[n]]
      BY <1>2, <3>1
    <3>3. at[n] = IF n < Len(q) THEN q[n + 1] ELSE NULL
      BY <3>1
    <3>4. CASE n < Len(q)
      <4>1. n + 1 \in 1 .. Len(q)
        BY <1>1, <3>4
      <4>2. q[n + 1] # NULL /\ links[q[n + 1]] = IF n + 1 < Len(q) THEN q[(n + 1) + 1] ELSE NULL
        BY <1>1, <4>1 DEF Linked
      <4>. QED
        BY <3>2, <3>3, <3>4, <4>2
    <3>5. CASE ~(n < Len(q))
      <4>1. ~(n + 1 < Len(q))
        BY <1>1, <3>5
      <4>. QED
        BY <3>2, <3>3, <3>5, <4>1
    <3>. QED
      BY <3>4, <3>5
  <2>. HIDE DEF T
  <2>3. Nat \subseteq T
    BY <2>1, <2>2, SetInduction
  <2>. QED
    BY <1>1, <2>3 DEF T
<1>5. S = 1 .. Len(q)
  <2>1. \A m \in 1 .. N + 1 : m - 1 \in 0 .. N /\ (m - 1) + 1 = m /\ (m - 1 < Len(q) <=> m <= Len(q))
    BY <1>1
  <2>2. \A m \in 1 .. N + 1 : at[m - 1] # NULL <=> m <= Len(q)
    <3>. TAKE m \in 1 .. N + 1
    <3>1. at[m - 1] = IF m <= Len(q) THEN q[m] ELSE NULL
      BY <1>4, <2>1
    <3>2. m <= Len(q) => m \in 1 .. Len(q)
      BY <1>1
    <3>. QED
      BY <1>1, <3>1, <3>2
  <2>3. S = {m \in 1 .. N + 1 : m <= Len(q)}
    BY <2>2
  <2>. QED
    BY <1>1, <2>3
<1>6. Cardinality(S) = Len(q)
  <2>1. Len(q) \in Nat
    BY <1>1
  <2>2. Cardinality(1 .. Len(q)) = Len(q)
    BY <2>1, Positions
  <2>. HIDE DEF S
  <2>. QED
    BY <1>5, <2>2
<1>7. From(links, head) = [n \in 1 .. Len(q) |-> at[n - 1]]
  <2>. HIDE DEF S
  <2>. QED
    BY <1>3, <1>6
<1>8. \A n \in 1 .. Len(q) : at[n - 1] = q[n]
  <2>. TAKE n \in 1 .. Len(q)
  <2>1. n - 1 \in 0 .. N /\ n - 1 < Len(q) /\ (n - 1) + 1 = n
    BY <1>1
  <2>. QED
    BY <1>4, <2>1
<1>9. q = [n \in 1 .. Len(q) |-> q[n]]
  BY DEF Linked
<1>. QED
  BY <1>7, <1>8, <1>9

\* A list none of whose elements is written stays as it is.
LEMMA LinkedSame ==
    ASSUME NEW links, NEW head, NEW q, Linked(links, head, q),
           NEW links2, \A i \in DOMAIN q : links2[q[i]] = links[q[i]]
    PROVE  Linked(links2, head, q)
  BY DEF Linked

\* An element put in front.
LEMMA LinkedPush ==
    ASSUME NEW links, NEW head, NEW q, Linked(links, head, q),
           NEW e \in Elements, e \notin Range(q),
           NEW links2, \A i \in DOMAIN q : links2[q[i]] = links[q[i]],
           links2[e] = head
    PROVE  Linked(links2, e, <<e>> \o q)
<1>. DEFINE r == <<e>> \o q
<1>1. q \in Seq(Elements) /\ Len(q) \in Nat /\ DOMAIN q = 1 .. Len(q)
  BY DEF Linked
<1>2. /\ r \in Seq(Elements) /\ Len(r) = Len(q) + 1 /\ DOMAIN r = 1 .. Len(q) + 1
      /\ \A i \in 1 .. Len(q) + 1 : r[i] = IF i = 1 THEN e ELSE q[i - 1]
      /\ r # <<>>
  BY <1>1
<1>. HIDE DEF r
<1>3. \A i \in 2 .. Len(q) + 1 : i - 1 \in DOMAIN q
  BY <1>1
<1>4. IsInjective(r)
  <2>. SUFFICES ASSUME NEW i \in DOMAIN r, NEW j \in DOMAIN r, r[i] = r[j]
                PROVE  i = j
    BY DEF IsInjective
  <2>1. i \in 1 .. Len(q) + 1 /\ j \in 1 .. Len(q) + 1
    BY <1>2
  <2>2. \A k \in DOMAIN q : q[k] # e
    BY DEF Range
  <2>3. CASE i = 1
    BY <1>1, <1>2, <1>3, <2>1, <2>2, <2>3
  <2>4. CASE j = 1
    BY <1>1, <1>2, <1>3, <2>1, <2>2, <2>4
  <2>5. CASE i # 1 /\ j # 1
    <3>1. i - 1 \in DOMAIN q /\ j - 1 \in DOMAIN q /\ q[i - 1] = q[j - 1]
      BY <1>1, <1>2, <2>1, <2>5
    <3>2. i - 1 = j - 1
      BY <3>1 DEF Linked, IsInjective
    <3>. QED
      BY <2>1, <3>2, <1>1
  <2>. QED
    BY <2>3, <2>4, <2>5
<1>5. \A i \in DOMAIN r : links2[r[i]] = IF i < Len(r) THEN r[i + 1] ELSE NULL
  <2>. TAKE i \in DOMAIN r
  <2>1. i \in 1 .. Len(q) + 1
    BY <1>2
  <2>2. CASE i = 1
    <3>1. links2[r[i]] = IF q = <<>> THEN NULL ELSE q[1]
      BY <1>2, <2>1, <2>2 DEF Linked
    <3>2. (q # <<>> <=> i < Len(r)) /\ (q # <<>> => r[i + 1] = q[1])
      BY <1>1, <1>2, <2>2, EmptySeq
    <3>. QED
      BY <3>1, <3>2
  <2>3. CASE i # 1
    <3>1. i - 1 \in DOMAIN q /\ r[i] = q[i - 1]
      BY <1>1, <1>2, <2>1, <2>3
    <3>2. links2[q[i - 1]] = IF i - 1 < Len(q) THEN q[(i - 1) + 1] ELSE NULL
      BY <3>1 DEF Linked
    <3>3. (i - 1 < Len(q) <=> i < Len(r)) /\ (i < Len(r) => r[i + 1] = q[(i - 1) + 1])
      BY <1>1, <1>2, <2>1, <2>3
    <3>. QED
      BY <3>1, <3>2, <3>3
  <2>. QED
    BY <2>2, <2>3
<1>. QED
  BY <1>2, <1>4, <1>5 DEF Linked, r

\* A sequence without its n-th element.
Without(q, n) == [i \in 1 .. Len(q) - 1 |-> IF i < n THEN q[i] ELSE q[i + 1]]

LEMMA WithoutType ==
    ASSUME NEW S, NEW q \in Seq(S), NEW n \in 1 .. Len(q)
    PROVE  /\ Without(q, n) \in Seq(S) /\ Len(Without(q, n)) = Len(q) - 1
           /\ DOMAIN Without(q, n) = 1 .. Len(q) - 1
           /\ \A i \in 1 .. Len(q) - 1 : Without(q, n)[i] = IF i < n THEN q[i] ELSE q[i + 1]
<1>1. Len(q) \in Nat /\ Len(q) - 1 \in Nat /\ n \in Nat
  OBVIOUS
<1>2. \A i \in 1 .. Len(q) - 1 : (IF i < n THEN q[i] ELSE q[i + 1]) \in S
  BY <1>1
<1>3. Without(q, n) \in [1 .. Len(q) - 1 -> S]
  BY <1>2 DEF Without
<1>4. Without(q, n) \in Seq(S)
  BY <1>1, <1>3, SeqDef
<1>. QED
  BY <1>1, <1>3, <1>4 DEF Without

\* Where the elements of a sequence without its n-th stood.
LEMMA WithoutPlaces ==
    ASSUME NEW S, NEW q \in Seq(S), NEW n \in 1 .. Len(q), IsInjective(q)
    PROVE  /\ IsInjective(Without(q, n))
           /\ Range(Without(q, n)) = Range(q) \ {q[n]}
           /\ \A i \in 1 .. Len(q) - 1 : Without(q, n)[i] # q[n]
<1>. DEFINE w == Without(q, n)
            at(i) == IF i < n THEN i ELSE i + 1
<1>1. Len(q) \in Nat /\ n \in Nat /\ DOMAIN q = 1 .. Len(q) /\ DOMAIN w = 1 .. Len(q) - 1
  BY WithoutType
<1>2. \A i \in DOMAIN w : w[i] = q[at(i)]
  BY <1>1, WithoutType
<1>. HIDE DEF w
<1>3. /\ \A i \in DOMAIN w : at(i) \in DOMAIN q /\ at(i) # n
      /\ \A i, j \in DOMAIN w : at(i) = at(j) => i = j
      /\ \A k \in DOMAIN q : k # n => \E i \in DOMAIN w : at(i) = k
  <2>1. \A i \in DOMAIN w : at(i) \in DOMAIN q /\ at(i) # n
    BY <1>1
  <2>2. \A i, j \in DOMAIN w : at(i) = at(j) => i = j
    BY <1>1
  <2>3. ASSUME NEW k \in DOMAIN q, k # n
        PROVE  \E i \in DOMAIN w : at(i) = k
    <3>. DEFINE i == IF k < n THEN k ELSE k - 1
    <3>1. i \in DOMAIN w /\ at(i) = k
      BY <1>1, <2>3
    <3>. QED
      BY <3>1
  <2>. QED
    BY <2>1, <2>2, <2>3
<1>. HIDE DEF at
<1>4. \A i, j \in DOMAIN q : q[i] = q[j] => i = j
  BY DEF IsInjective
<1>5. IsInjective(w)
  BY <1>2, <1>3, <1>4 DEF IsInjective
<1>6. \A i \in DOMAIN w : w[i] # q[n] /\ w[i] \in Range(q)
  BY <1>1, <1>2, <1>3, <1>4 DEF Range
<1>7. \A x \in Range(q) : x # q[n] => x \in Range(w)
  <2>. SUFFICES ASSUME NEW k \in DOMAIN q, q[k] # q[n] PROVE q[k] \in Range(w)
    BY DEF Range
  <2>1. PICK i \in DOMAIN w : at(i) = k
    BY <1>3
  <2>. QED
    BY <1>2, <2>1 DEF Range
<1>8. Range(w) = Range(q) \ {q[n]}
  <2>1. \A x \in Range(w) : x # q[n] /\ x \in Range(q)
    <3>. SUFFICES ASSUME NEW i \in DOMAIN w PROVE w[i] # q[n] /\ w[i] \in Range(q)
      BY Zenon DEF Range
    <3>. QED
      BY <1>6
  <2>. QED
    BY <1>7, <2>1
<1>. QED
  BY <1>1, <1>5, <1>6, <1>8 DEF w

\* An element taken out, whose predecessor, or the head, is given its successor.
LEMMA LinkedWithout ==
    ASSUME NEW links, NEW head, NEW q, Linked(links, head, q), NEW n \in DOMAIN q,
           NEW links2, NEW head2, head2 = IF n = 1 THEN links[head] ELSE head,
           \A i \in DOMAIN q : i # n =>
              links2[q[i]] = IF i = n - 1 THEN links[q[n]] ELSE links[q[i]]
    PROVE  Linked(links2, head2, Without(q, n))
<1>. DEFINE w == Without(q, n)
<1>1. q \in Seq(Elements) /\ Len(q) \in Nat /\ DOMAIN q = 1 .. Len(q) /\ n \in 1 .. Len(q)
  BY DEF Linked
<1>2. /\ w \in Seq(Elements) /\ Len(w) = Len(q) - 1 /\ DOMAIN w = 1 .. Len(q) - 1
      /\ \A i \in 1 .. Len(q) - 1 : w[i] = IF i < n THEN q[i] ELSE q[i + 1]
      /\ IsInjective(w)
  <2>1. IsInjective(q)
    BY DEF Linked
  <2>2. IsInjective(w)
    BY <1>1, <2>1, WithoutPlaces
  <2>. QED
    BY <1>1, <2>2, WithoutType
<1>. HIDE DEF w
<1>3. \A i \in 1 .. Len(q) : links[q[i]] = IF i < Len(q) THEN q[i + 1] ELSE NULL
  BY <1>1 DEF Linked
<1>4. head = q[1]
  BY <1>1, EmptySeq DEF Linked
<1>5. w = <<>> <=> Len(q) = 1
  BY <1>1, <1>2, EmptySeq
<1>6. head2 = IF w = <<>> THEN NULL ELSE w[1]
  <2>1. CASE n = 1
    <3>1. head2 = IF 1 < Len(q) THEN q[1 + 1] ELSE NULL
      BY <1>1, <1>3, <1>4, <2>1
    <3>. QED
      BY <1>1, <1>2, <1>5, <2>1, <3>1
  <2>2. CASE n # 1
    <3>1. 1 \in 1 .. Len(q) - 1 /\ 1 < n
      BY <1>1, <2>2
    <3>. QED
      BY <1>2, <1>4, <1>5, <2>2, <3>1
  <2>. QED
    BY <2>1, <2>2
<1>7. \A i \in DOMAIN w : links2[w[i]] = IF i < Len(w) THEN w[i + 1] ELSE NULL
  <2>. TAKE i \in DOMAIN w
  <2>0. i \in 1 .. Len(q) - 1 /\ i \in 1 .. Len(q) /\ i + 1 \in 1 .. Len(q) /\ i \in Nat /\ n \in Nat
    BY <1>1, <1>2
  <2>1. CASE i < n - 1
    <3>1. w[i] = q[i] /\ w[i + 1] = q[i + 1] /\ i < Len(w) /\ i # n /\ i # n - 1 /\ i < Len(q)
      BY <1>1, <1>2, <2>0, <2>1
    <3>. QED
      BY <1>1, <1>3, <2>0, <3>1
  <2>2. CASE i = n - 1
    <3>1. /\ w[i] = q[i] /\ i # n /\ (i < Len(w) <=> n < Len(q))
          /\ i < Len(w) => w[i + 1] = q[n + 1]
      BY <1>1, <1>2, <2>0, <2>2
    <3>2. links2[q[i]] = links[q[n]]
      BY <1>1, <2>0, <2>2, <3>1
    <3>3. links[q[n]] = IF n < Len(q) THEN q[n + 1] ELSE NULL
      BY <1>1, <1>3
    <3>. QED
      BY <3>1, <3>2, <3>3
  <2>3. CASE i >= n
    <3>1. /\ w[i] = q[i + 1] /\ i + 1 # n /\ i + 1 # n - 1 /\ (i < Len(w) <=> i + 1 < Len(q))
          /\ i < Len(w) => w[i + 1] = q[(i + 1) + 1]
      BY <1>1, <1>2, <2>0, <2>3
    <3>2. links2[q[i + 1]] = links[q[i + 1]]
      BY <1>1, <2>0, <3>1
    <3>3. links[q[i + 1]] = IF i + 1 < Len(q) THEN q[(i + 1) + 1] ELSE NULL
      BY <1>3, <2>0
    <3>. QED
      BY <3>1, <3>2, <3>3
  <2>4. i < n - 1 \/ i = n - 1 \/ i >= n
    BY <2>0
  <2>. QED
    BY <2>1, <2>2, <2>3, <2>4
<1>. QED
  BY <1>2, <1>6, <1>7 DEF Linked, w

-----------------------------------------------------------------------------
(* Sums.                                                                   *)

\* Sums is what its recursive definition says.
LEMMA SumsDef ==
    ASSUME NEW c \in Seq(Int)
    PROVE  Sums(c) = [n \in 0 .. Len(c) |-> IF n = 0 THEN 0 ELSE Sums(c)[n - 1] + c[n]]
<1>. DEFINE num(i) == c[i]
            To(h, n) == h = [i \in 0 .. n |-> IF i = 0 THEN 0 ELSE h[i - 1] + num(i)]
            S == {n \in Nat : \E h : To(h, n)}
<1>. HIDE DEF num
<1>1. 0 \in S
  <2>1. To([i \in 0 .. 0 |-> 0], 0)
    OBVIOUS
  <2>. QED
    BY <2>1
<1>2. \A n \in Nat : n \in S => n + 1 \in S
  <2>. SUFFICES ASSUME NEW n \in Nat, NEW h, To(h, n) PROVE \E g : To(g, n + 1)
    <3>. HIDE DEF To
    <3>. QED
      OBVIOUS
  <2>. DEFINE g == [i \in 0 .. n + 1 |-> IF i = n + 1 THEN h[n] + num(n + 1) ELSE h[i]]
  <2>1. \A i \in 0 .. n : h[i] = IF i = 0 THEN 0 ELSE h[i - 1] + num(i)
    OBVIOUS
  <2>2. \A i \in 0 .. n + 1 : g[i] = IF i = 0 THEN 0 ELSE g[i - 1] + num(i)
    <3>. TAKE i \in 0 .. n + 1
    <3>1. CASE i = n + 1
      <4>1. g[i - 1] = h[n] /\ i # 0 /\ g[i] = h[n] + num(n + 1)
        BY <3>1
      <4>. QED
        BY <4>1, <3>1, Zenon
    <3>2. CASE i # n + 1
      <4>1. i \in 0 .. n /\ (i # 0 => i - 1 \in 0 .. n /\ i - 1 # n + 1)
        BY <3>2
      <4>2. g[i] = h[i] /\ (i # 0 => g[i - 1] = h[i - 1])
        BY <3>2, <4>1
      <4>. HIDE DEF g
      <4>. QED
        BY <2>1, <4>1, <4>2
    <3>. QED
      BY <3>1, <3>2
  <2>3. To(g, n + 1)
    BY <2>2
  <2>. QED
    BY <2>3
<1>. HIDE DEF S
<1>3. Nat \subseteq S
  BY <1>1, <1>2, SetInduction
<1>4. \E h : To(h, Len(c))
  <2>. HIDE DEF To
  <2>1. Len(c) \in Nat
    OBVIOUS
  <2>. QED
    BY <1>3, <2>1, Zenon DEF S
<1>5. Sums(c) = CHOOSE h : To(h, Len(c))
  BY Zenon DEF Sums, num
<1>6. To(Sums(c), Len(c))
  <2>. DEFINE P(h) == To(h, Len(c))
  <2>. HIDE DEF To
  <2>. QED
    BY <1>4, <1>5, Zenon
<1>. QED
  BY <1>6 DEF num

LEMMA SumsFacts ==
    ASSUME NEW c \in Seq(Int)
    PROVE  /\ Sums(c)[0] = 0
           /\ \A n \in 1 .. Len(c) : Sums(c)[n] = Sums(c)[n - 1] + c[n]
           /\ \A n \in 0 .. Len(c) : Sums(c)[n] \in Int
           /\ Total(c) \in Int
<1>. DEFINE s == Sums(c)
<1>1. s = [n \in 0 .. Len(c) |-> IF n = 0 THEN 0 ELSE s[n - 1] + c[n]]
  BY SumsDef
<1>. HIDE DEF s
<1>2. Len(c) \in Nat /\ \A n \in 1 .. Len(c) : c[n] \in Int
  OBVIOUS
<1>3. s[0] = 0 /\ \A n \in 1 .. Len(c) : s[n] = s[n - 1] + c[n]
  <2>1. 0 \in 0 .. Len(c) /\ \A n \in 1 .. Len(c) : n \in 0 .. Len(c) /\ n # 0
    BY <1>2
  <2>2. s[0] = 0
    BY <1>1, <2>1
  <2>3. ASSUME NEW n \in 1 .. Len(c) PROVE s[n] = s[n - 1] + c[n]
    <3>1. n \in 0 .. Len(c) /\ n # 0
      BY <2>1
    <3>. QED
      BY <1>1, <3>1
  <2>. QED
    BY <2>2, <2>3
<1>4. \A n \in 0 .. Len(c) : s[n] \in Int
  <2>. DEFINE T == {n \in Nat : n <= Len(c) => s[n] \in Int}
  <2>1. 0 \in T
    BY <1>3
  <2>2. \A n \in Nat : n \in T => n + 1 \in T
    <3>. SUFFICES ASSUME NEW n \in Nat, n \in T, n + 1 <= Len(c) PROVE s[n + 1] \in Int
      OBVIOUS
    <3>1. n <= Len(c) /\ n + 1 \in 1 .. Len(c) /\ (n + 1) - 1 = n
      BY <1>2
    <3>2. s[n + 1] = s[n] + c[n + 1]
      BY <1>3, <3>1
    <3>. QED
      BY <1>2, <3>1, <3>2
  <2>. HIDE DEF T
  <2>3. Nat \subseteq T
    BY <2>1, <2>2, SetInduction
  <2>. QED
    BY <1>2, <2>3 DEF T
<1>. QED
  BY <1>2, <1>3, <1>4 DEF Total, s

\* Equal beginnings have equal sums.
LEMMA SumsAgree ==
    ASSUME NEW c \in Seq(Int), NEW d \in Seq(Int), NEW m \in 0 .. Len(c), m <= Len(d),
           \A i \in 1 .. m : c[i] = d[i]
    PROVE  Sums(c)[m] = Sums(d)[m]
<1>. DEFINE T == {n \in Nat : n <= m => Sums(c)[n] = Sums(d)[n]}
<1>1. 0 \in T
  BY SumsFacts
<1>2. \A n \in Nat : n \in T => n + 1 \in T
  <2>. SUFFICES ASSUME NEW n \in Nat, n \in T, n + 1 <= m PROVE Sums(c)[n + 1] = Sums(d)[n + 1]
    OBVIOUS
  <2>1. /\ n <= m /\ n + 1 \in 1 .. Len(c) /\ n + 1 \in 1 .. Len(d) /\ n + 1 \in 1 .. m
        /\ (n + 1) - 1 = n
    OBVIOUS
  <2>2. /\ Sums(c)[n + 1] = Sums(c)[n] + c[n + 1]
        /\ Sums(d)[n + 1] = Sums(d)[n] + d[n + 1]
    BY <2>1, SumsFacts
  <2>. QED
    BY <2>1, <2>2
<1>. HIDE DEF T
<1>3. Nat \subseteq T
  BY <1>1, <1>2, SetInduction
<1>4. m \in Nat /\ m <= m
  OBVIOUS
<1>. QED
  BY <1>3, <1>4 DEF T

\* A number taken out of a sequence, or put in, seen the other way round.
LEMMA TotalWithout ==
    ASSUME NEW c \in Seq(Int), NEW n \in 1 .. Len(c)
    PROVE  Total(c) = Total(Without(c, n)) + c[n]
<1>. DEFINE w == Without(c, n)
<1>1. /\ w \in Seq(Int) /\ Len(w) = Len(c) - 1 /\ Len(c) \in Nat /\ n \in Nat /\ c[n] \in Int
      /\ \A i \in 1 .. Len(c) - 1 : w[i] = IF i < n THEN c[i] ELSE c[i + 1]
  BY WithoutType
<1>. HIDE DEF w
<1>2. Sums(c)[n - 1] = Sums(w)[n - 1]
  <2>1. n - 1 \in 0 .. Len(c) /\ n - 1 <= Len(w) /\ \A i \in 1 .. n - 1 : c[i] = w[i]
    BY <1>1
  <2>. QED
    BY <1>1, <2>1, SumsAgree
<1>3. /\ \A i \in 1 .. Len(c) : Sums(c)[i] = Sums(c)[i - 1] + c[i]
      /\ \A i \in 0 .. Len(c) : Sums(c)[i] \in Int
      /\ \A i \in 1 .. Len(w) : Sums(w)[i] = Sums(w)[i - 1] + w[i]
      /\ \A i \in 0 .. Len(w) : Sums(w)[i] \in Int
  BY <1>1, SumsFacts
<1>. DEFINE T == {k \in Nat : n + k <= Len(c) => Sums(c)[n + k] = Sums(w)[n + k - 1] + c[n]}
<1>4. 0 \in T
  <2>1. n + 0 = n /\ n + 0 - 1 = n - 1 /\ Sums(c)[n] = Sums(c)[n - 1] + c[n]
    BY <1>1, <1>3
  <2>. QED
    BY <1>2, <2>1
<1>5. \A k \in Nat : k \in T => k + 1 \in T
  <2>. SUFFICES ASSUME NEW k \in Nat, k \in T, n + (k + 1) <= Len(c)
                PROVE  Sums(c)[n + (k + 1)] = Sums(w)[n + (k + 1) - 1] + c[n]
    OBVIOUS
  <2>1. PICK j \in Nat : j = n + k
    BY <1>1
  <2>2. /\ n + (k + 1) = j + 1 /\ n + (k + 1) - 1 = j /\ j + 1 \in 1 .. Len(c) /\ (j + 1) - 1 = j
        /\ j \in 1 .. Len(w) /\ j \in 0 .. Len(w) /\ j - 1 \in 0 .. Len(w) /\ j >= n
        /\ n + k - 1 = j - 1 /\ n + k <= Len(c)
    BY <1>1, <2>1
  <2>3. Sums(c)[j] = Sums(w)[j - 1] + c[n]
    BY <2>1, <2>2
  <2>4. /\ Sums(c)[j + 1] = Sums(c)[j] + c[j + 1]
        /\ Sums(w)[j] = Sums(w)[j - 1] + w[j]
        /\ Sums(w)[j - 1] \in Int
    BY <1>3, <2>2
  <2>5. w[j] = c[j + 1] /\ c[j + 1] \in Int
    BY <1>1, <2>2
  <2>6. Sums(c)[j + 1] = Sums(w)[j] + c[n]
    <3>1. \A x, y, z \in Int : (x + y) + z = (x + z) + y
      OBVIOUS
    <3>2. (Sums(w)[j - 1] + c[n]) + c[j + 1] = (Sums(w)[j - 1] + c[j + 1]) + c[n]
      BY <1>1, <2>4, <2>5, <3>1
    <3>. QED
      BY <2>3, <2>4, <2>5, <3>2, Zenon
  <2>. QED
    BY <2>2, <2>6
<1>. HIDE DEF T
<1>6. Nat \subseteq T
  BY <1>4, <1>5, SetInduction
<1>7. PICK k \in Nat : k = Len(c) - n
  <2>1. Len(c) - n \in Nat
    BY <1>1
  <2>. QED
    BY <2>1
<1>8. n + k = Len(c) /\ n + k <= Len(c) /\ n + k - 1 = Len(w)
  BY <1>1, <1>7
<1>9. Sums(c)[n + k] = Sums(w)[n + k - 1] + c[n]
  BY <1>6, <1>8 DEF T
<1>. QED
  BY <1>8, <1>9 DEF Total, w

\* Two sequences that differ in one place.
LEMMA TotalUpdate ==
    ASSUME NEW c \in Seq(Int), NEW d \in Seq(Int), Len(c) = Len(d), NEW n \in 1 .. Len(c),
           \A i \in 1 .. Len(c) : i # n => c[i] = d[i]
    PROVE  Total(d) = Total(c) - c[n] + d[n]
<1>1. Without(c, n) = Without(d, n)
  <2>1. \A i \in 1 .. Len(c) - 1 : (IF i < n THEN c[i] ELSE c[i + 1]) = (IF i < n THEN d[i] ELSE d[i + 1])
    OBVIOUS
  <2>. QED
    BY <2>1 DEF Without
<1>2. Without(c, n) \in Seq(Int) /\ c[n] \in Int /\ d[n] \in Int
  BY WithoutType
<1>3. Total(Without(c, n)) \in Int /\ Total(c) \in Int /\ Total(d) \in Int
  BY <1>2, SumsFacts
<1>4. Total(c) = Total(Without(c, n)) + c[n] /\ Total(d) = Total(Without(d, n)) + d[n]
  BY TotalWithout
<1>. QED
  BY <1>1, <1>2, <1>3, <1>4

\* Sums of natural numbers, and that no number is more than the sum.
LEMMA TotalNat ==
    ASSUME NEW c \in Seq(Nat)
    PROVE  Total(c) \in Nat /\ (c = <<>> => Total(c) = 0) /\ \A n \in 1 .. Len(c) : c[n] <= Total(c)
<1>1. \A d \in Seq(Nat) : d \in Seq(Int)
  OBVIOUS
<1>2. \A d \in Seq(Nat) : Total(d) \in Nat
  <2>. TAKE d \in Seq(Nat)
  <2>. DEFINE T == {n \in Nat : n <= Len(d) => Sums(d)[n] \in Nat}
  <2>1. 0 \in T
    BY <1>1, SumsFacts
  <2>2. \A n \in Nat : n \in T => n + 1 \in T
    <3>. SUFFICES ASSUME NEW n \in Nat, n \in T, n + 1 <= Len(d) PROVE Sums(d)[n + 1] \in Nat
      OBVIOUS
    <3>1. n <= Len(d) /\ n + 1 \in 1 .. Len(d) /\ (n + 1) - 1 = n
      OBVIOUS
    <3>2. Sums(d)[n + 1] = Sums(d)[n] + d[n + 1] /\ d[n + 1] \in Nat
      BY <1>1, <3>1, SumsFacts
    <3>. QED
      BY <3>1, <3>2
  <2>. HIDE DEF T
  <2>3. Nat \subseteq T
    BY <2>1, <2>2, SetInduction
  <2>4. Len(d) \in Nat /\ Len(d) <= Len(d)
    OBVIOUS
  <2>. QED
    BY <2>3, <2>4 DEF T, Total
<1>3. ASSUME NEW n \in 1 .. Len(c) PROVE c[n] <= Total(c)
  <2>1. Without(c, n) \in Seq(Nat) /\ c[n] \in Nat /\ c \in Seq(Int)
    <3>1. Without(c, n) \in Seq(Nat)
      BY WithoutType
    <3>. QED
      BY <3>1
  <2>2. Total(c) = Total(Without(c, n)) + c[n]
    BY <2>1, TotalWithout
  <2>. QED
    BY <1>2, <2>1, <2>2
<1>4. c = <<>> => Total(c) = 0
  BY <1>1, SumsFacts DEF Total
<1>. QED
  BY <1>2, <1>3, <1>4

-----------------------------------------------------------------------------
(* Fragments.                                                              *)

LEMMA FragmentType ==
    ASSUME NEW f \in Fragments
    PROVE  /\ f.id \in Ids /\ f.start \in Nat /\ f.end \in Nat /\ f.start < f.end
           /\ f.clen \in Nat \ {0} /\ f.clen <= IP_REASS_MAX_PBUFS /\ f.more_fragments \in BOOLEAN
<1>0. PICK id \in Ids : f \in FragmentsOf(id)
  BY DEF Fragments
<1>1. PICK c \in Fragmentations[id] : \E n \in DOMAIN c :
         f = [id |-> id, start |-> c[n].start, end |-> c[n].end, clen |-> c[n].clen,
              more_fragments |-> n < Len(c)]
  BY <1>0 DEF FragmentsOf
<1>2. PICK n \in DOMAIN c :
         f = [id |-> id, start |-> c[n].start, end |-> c[n].end, clen |-> c[n].clen,
              more_fragments |-> n < Len(c)]
  BY <1>1
<1>5. IP_REASS_MAX_PBUFS \in Nat \ {0} /\ c \in Seq([start : Nat, end : Nat, clen : 1 .. IP_REASS_MAX_PBUFS])
  BY ReassemblyAssumption
<1>3. c[n] \in [start : Nat, end : Nat, clen : 1 .. IP_REASS_MAX_PBUFS]
  <2>1. \A S : c \in Seq(S) => c[n] \in S
    BY <1>2
  <2>. QED
    BY <1>5, <2>1, Zenon
<1>4. c[n].start < c[n].end
  BY <1>2, ReassemblyAssumption
<1>. QED
  BY <1>0, <1>2, <1>3, <1>4, <1>5

\* f put in behind the first k.
LEMMA InsertAtIs ==
    ASSUME NEW S, NEW s \in Seq(S), NEW k \in 0 .. Len(s), NEW f \in S
    PROVE  LET t == InsertAt(s, k + 1, f)
           IN /\ t \in Seq(S) /\ Len(t) = Len(s) + 1 /\ DOMAIN t = 1 .. Len(s) + 1
              /\ \A i \in 1 .. Len(s) + 1 : t[i] = IF i <= k THEN s[i] ELSE IF i = k + 1 THEN f ELSE s[i - 1]
              /\ Without(t, k + 1) = s
<1>. DEFINE t == InsertAt(s, k + 1, f)
<1>1. Len(s) \in Nat /\ k \in Nat /\ (k + 1) - 1 = k
  OBVIOUS
<1>2. t = SubSeq(s, 1, k) \o <<f>> \o SubSeq(s, k + 1, Len(s))
  BY <1>1 DEF InsertAt
<1>3. /\ SubSeq(s, 1, k) \in Seq(S) /\ Len(SubSeq(s, 1, k)) = k
      /\ \A i \in 1 .. k : SubSeq(s, 1, k)[i] = s[i]
  BY <1>1
<1>4. /\ SubSeq(s, k + 1, Len(s)) \in Seq(S) /\ Len(SubSeq(s, k + 1, Len(s))) = Len(s) - k
      /\ \A i \in 1 .. Len(s) - k : SubSeq(s, k + 1, Len(s))[i] = s[k + i]
  BY <1>1
<1>. DEFINE a == SubSeq(s, 1, k)
            b == SubSeq(s, k + 1, Len(s))
            c == a \o <<f>>
<1>9. a \in Seq(S) /\ Len(a) = k /\ b \in Seq(S) /\ Len(b) = Len(s) - k /\ t = c \o b
  BY <1>2, <1>3, <1>4
<1>. HIDE DEF t, a, b
<1>10. \A u, v \in Seq(S) :
         /\ u \o v \in Seq(S) /\ Len(u \o v) = Len(u) + Len(v)
         /\ \A i \in 1 .. Len(u) + Len(v) : (u \o v)[i] = IF i <= Len(u) THEN u[i] ELSE v[i - Len(u)]
  BY ConcatProperties, Zenon
<1>5. c \in Seq(S) /\ Len(c) = k + 1 /\ \A i \in 1 .. k + 1 : c[i] = IF i <= k THEN s[i] ELSE f
  <2>1. c \in Seq(S) /\ Len(c) = k + 1 /\ \A i \in 1 .. k + 1 : c[i] = IF i <= k THEN a[i] ELSE f
    <3>1. <<f>> \in Seq(S) /\ Len(<<f>>) = 1 /\ <<f>>[1] = f
      OBVIOUS
    <3>2. /\ c \in Seq(S) /\ Len(c) = k + 1
          /\ \A i \in 1 .. k + 1 : c[i] = IF i <= k THEN a[i] ELSE <<f>>[i - k]
      BY <1>9, <1>10, <3>1, Zenon
    <3>3. \A i \in 1 .. k + 1 : ~(i <= k) => i - k = 1
      BY <1>1
    <3>. HIDE DEF c
    <3>. QED
      BY <3>1, <3>2, <3>3
  <2>2. \A i \in 1 .. k + 1 : i <= k => i \in 1 .. k
    BY <1>1
  <2>. QED
    BY <1>3, <2>1, <2>2 DEF a
<1>. HIDE DEF c
<1>6. /\ t \in Seq(S) /\ Len(t) = Len(s) + 1
      /\ \A i \in 1 .. Len(s) + 1 : t[i] = IF i <= k + 1 THEN c[i] ELSE b[i - (k + 1)]
  <2>1. /\ t \in Seq(S) /\ Len(t) = (k + 1) + (Len(s) - k)
        /\ \A i \in 1 .. (k + 1) + (Len(s) - k) : t[i] = IF i <= k + 1 THEN c[i] ELSE b[i - (k + 1)]
    <3>1. /\ c \o b \in Seq(S) /\ Len(c \o b) = Len(c) + Len(b)
          /\ \A i \in 1 .. Len(c) + Len(b) : (c \o b)[i] = IF i <= Len(c) THEN c[i] ELSE b[i - Len(c)]
      BY <1>5, <1>9, <1>10, Zenon
    <3>2. Len(c) = k + 1 /\ Len(b) = Len(s) - k /\ t = c \o b
      BY <1>5, <1>9
    <3>. QED
      BY <3>1, <3>2, Zenon
  <2>2. (k + 1) + (Len(s) - k) = Len(s) + 1
    BY <1>1
  <2>. QED
    BY <2>1, <2>2, Zenon
<1>7. \A i \in 1 .. Len(s) + 1 : t[i] = IF i <= k THEN s[i] ELSE IF i = k + 1 THEN f ELSE s[i - 1]
  <2>. TAKE i \in 1 .. Len(s) + 1
  <2>1. CASE i <= k + 1
    BY <1>1, <1>5, <1>6, <2>1
  <2>2. CASE i > k + 1
    <3>1. i - (k + 1) \in 1 .. Len(s) - k /\ k + (i - (k + 1)) = i - 1
      BY <1>1, <2>2
    <3>2. b[i - (k + 1)] = s[i - 1]
      BY <1>4, <3>1 DEF b
    <3>. QED
      BY <1>1, <1>6, <2>2, <3>2
  <2>. QED
    BY <1>1, <2>1, <2>2
<1>8. Without(t, k + 1) = s
  <2>1. \A i \in 1 .. Len(s) : (IF i < k + 1 THEN t[i] ELSE t[i + 1]) = s[i]
    BY <1>1, <1>6, <1>7
  <2>2. Without(t, k + 1) = [i \in 1 .. Len(s) |-> s[i]]
    <3>1. Len(t) - 1 = Len(s)
      BY <1>1, <1>6
    <3>2. Without(t, k + 1) = [i \in 1 .. Len(s) |-> IF i < k + 1 THEN t[i] ELSE t[i + 1]]
      BY <3>1, Zenon DEF Without
    <3>3. [i \in 1 .. Len(s) |-> IF i < k + 1 THEN t[i] ELSE t[i + 1]] = [i \in 1 .. Len(s) |-> s[i]]
      BY <2>1
    <3>. QED
      BY <3>2, <3>3, Zenon
  <2>3. s = [i \in 1 .. Len(s) |-> s[i]]
    OBVIOUS
  <2>. QED
    BY <2>2, <2>3, Zenon
<1>. QED
  BY <1>1, <1>6, <1>7, <1>8 DEF t

\* A fragment holds a pbuf at least.
LEMMA PbufsType ==
    ASSUME NEW s \in Seq(Fragments)
    PROVE  Pbufs(s) \in Nat /\ (s = <<>> => Pbufs(s) = 0) /\ (s # <<>> => Pbufs(s) >= 1)
<1>. DEFINE c == [n \in DOMAIN s |-> s[n].clen]
<1>1. DOMAIN s = 1 .. Len(s) /\ Len(s) \in Nat /\ \A n \in 1 .. Len(s) : s[n] \in Fragments
  OBVIOUS
<1>2. \A n \in 1 .. Len(s) : s[n].clen \in Nat \ {0}
  BY <1>1, FragmentType
<1>3. c \in Seq(Nat) /\ Len(c) = Len(s) /\ \A n \in 1 .. Len(s) : c[n] = s[n].clen
  <2>1. c \in [1 .. Len(s) -> Nat]
    BY <1>1, <1>2
  <2>2. c \in Seq(Nat)
    BY <1>1, <2>1, SeqDef
  <2>. QED
    BY <1>1, <2>2
<1>4. Pbufs(s) = Total(c)
  BY DEF Pbufs
<1>. HIDE DEF c
<1>5. Total(c) \in Nat /\ (c = <<>> => Total(c) = 0) /\ \A n \in 1 .. Len(c) : c[n] <= Total(c)
  BY <1>3, TotalNat
<1>6. s = <<>> => c = <<>>
  BY <1>1, <1>3, EmptySeq
<1>7. s # <<>> => 1 \in 1 .. Len(s)
  BY <1>1, EmptySeq
<1>8. s # <<>> => Total(c) >= 1
  <2>. SUFFICES ASSUME s # <<>> PROVE Total(c) >= 1
    OBVIOUS
  <2>1. c[1] \in Nat \ {0} /\ c[1] <= Total(c)
    BY <1>2, <1>3, <1>5, <1>7
  <2>. QED
    BY <1>5, <2>1
<1>. QED
  BY <1>4, <1>5, <1>6, <1>8

LEMMA PbufsInsert ==
    ASSUME NEW s \in Seq(Fragments), NEW k \in 0 .. Len(s), NEW f \in Fragments
    PROVE  Pbufs(InsertAt(s, k + 1, f)) = Pbufs(s) + f.clen
<1>. DEFINE t == InsertAt(s, k + 1, f)
            c == [n \in DOMAIN t |-> t[n].clen]
            d == [n \in DOMAIN s |-> s[n].clen]
<1>1. /\ t \in Seq(Fragments) /\ Len(t) = Len(s) + 1 /\ DOMAIN t = 1 .. Len(s) + 1
      /\ \A i \in 1 .. Len(s) + 1 : t[i] = IF i <= k THEN s[i] ELSE IF i = k + 1 THEN f ELSE s[i - 1]
  BY InsertAtIs
<1>2. Len(s) \in Nat /\ k \in Nat /\ DOMAIN s = 1 .. Len(s)
  OBVIOUS
<1>3. Pbufs(t) = Total(c) /\ Pbufs(s) = Total(d)
  BY DEF Pbufs
<1>. HIDE DEF t
<1>4. c \in Seq(Int) /\ Len(c) = Len(s) + 1 /\ \A i \in 1 .. Len(s) + 1 : c[i] = t[i].clen
  <2>1. \A i \in 1 .. Len(s) + 1 : t[i] \in Fragments
    BY <1>1
  <2>2. \A i \in 1 .. Len(s) + 1 : t[i].clen \in Int
    BY <2>1, FragmentType
  <2>3. c \in [1 .. Len(s) + 1 -> Int] /\ Len(s) + 1 \in Nat
    BY <1>1, <1>2, <2>2
  <2>4. c \in Seq(Int)
    BY <2>3, SeqDef
  <2>. QED
    BY <1>1, <1>2, <2>4
<1>5. d = [i \in 1 .. Len(s) |-> s[i].clen]
  BY <1>2
<1>. HIDE DEF c, d
<1>6. k + 1 \in 1 .. Len(c) /\ c[k + 1] = f.clen
  BY <1>1, <1>2, <1>4
<1>7. Without(c, k + 1) = d
  <2>1. Len(c) - 1 = Len(s)
    BY <1>2, <1>4
  <2>2. \A i \in 1 .. Len(s) : (IF i < k + 1 THEN c[i] ELSE c[i + 1]) = s[i].clen
    <3>. TAKE i \in 1 .. Len(s)
    <3>1. CASE i < k + 1
      BY <1>1, <1>2, <1>4, <3>1
    <3>2. CASE ~(i < k + 1)
      <4>1. i + 1 \in 1 .. Len(s) + 1 /\ ~(i + 1 <= k) /\ i + 1 # k + 1 /\ (i + 1) - 1 = i
        BY <1>2, <3>2
      <4>2. t[i + 1] = s[i]
        BY <1>1, <4>1
      <4>. QED
        BY <1>4, <3>2, <4>1, <4>2
    <3>. QED
      BY <3>1, <3>2
  <2>. QED
    BY <1>5, <2>1, <2>2 DEF Without
<1>8. Total(c) = Total(d) + f.clen
  BY <1>4, <1>6, <1>7, TotalWithout
<1>. QED
  BY <1>3, <1>8 DEF t

-----------------------------------------------------------------------------
(* The fragments of one datagram.                                          *)

Sorted(fragments) ==
    \A m, n \in DOMAIN fragments : m < n => fragments[m].start < fragments[n].start

\* Before says where the fragments that begin before f end.
LEMMA BeforeIs ==
    ASSUME NEW s \in Seq(Fragments), Sorted(s), NEW f \in Fragments
    PROVE  /\ Before(s, f) \in 0 .. Len(s)
           /\ \A n \in 1 .. Len(s) : n <= Before(s, f) <=> s[n].start < f.start
<1>. DEFINE S == {n \in DOMAIN s : s[n].start < f.start}
<1>1. /\ DOMAIN s = 1 .. Len(s) /\ Len(s) \in Nat /\ f.start \in Nat
      /\ \A n \in 1 .. Len(s) : s[n].start \in Nat
  <2>1. \A n \in 1 .. Len(s) : s[n] \in Fragments
    OBVIOUS
  <2>. QED
    BY <2>1, FragmentType
<1>2. \A i \in S : \A j \in 1 .. i : j \in S
  <2>. TAKE i \in S
  <2>. TAKE j \in 1 .. i
  <2>1. i \in 1 .. Len(s) /\ j \in 1 .. Len(s) /\ (j < i \/ j = i) /\ s[i].start < f.start
    BY <1>1
  <2>2. j < i => s[j].start < s[i].start
    BY <1>1, <2>1 DEF Sorted
  <2>. QED
    BY <1>1, <2>1, <2>2
<1>3. S \in SUBSET (1 .. Len(s)) /\ Before(s, f) = Cardinality(S)
  BY <1>1 DEF Before
<1>4. \A n \in 1 .. Len(s) : n \in S <=> s[n].start < f.start
  BY <1>1
<1>. HIDE DEF S
<1>5. Cardinality(S) \in 0 .. Len(s) /\ S = 1 .. Cardinality(S)
  BY <1>1, <1>2, <1>3, InitialSegment
<1>. QED
  BY <1>1, <1>3, <1>4, <1>5

\* A fragment that does not overlap is put where it belongs.
LEMMA InsertSorted ==
    ASSUME NEW s \in Seq(Fragments), Sorted(s), NEW f \in Fragments, ~Overlaps(s, f)
    PROVE  Sorted(InsertAt(s, Before(s, f) + 1, f))
<1>. DEFINE k == Before(s, f)
            t == InsertAt(s, k + 1, f)
<1>1. /\ k \in 0 .. Len(s) /\ Len(s) \in Nat
      /\ \A n \in 1 .. Len(s) : n <= k <=> s[n].start < f.start
  BY BeforeIs
<1>. HIDE DEF k
<1>2. /\ DOMAIN t = 1 .. Len(s) + 1
      /\ \A i \in 1 .. Len(s) + 1 : t[i] = IF i <= k THEN s[i] ELSE IF i = k + 1 THEN f ELSE s[i - 1]
  BY <1>1, InsertAtIs
<1>3. \A n \in 1 .. Len(s) : /\ s[n].start \in Nat /\ s[n].end \in Nat /\ s[n].start < s[n].end
                             /\ n > k => f.start < s[n].start
  <2>. TAKE n \in 1 .. Len(s)
  <2>1. s[n] \in Fragments /\ n \in DOMAIN s
    OBVIOUS
  <2>2. s[n].start \in Nat /\ s[n].end \in Nat /\ s[n].start < s[n].end /\ f.start \in Nat
    BY <2>1, FragmentType
  <2>3. ~(s[n].start <= f.start /\ f.start < s[n].end)
    BY <2>1 DEF Overlaps
  <2>. QED
    BY <1>1, <2>2, <2>3
<1>4. f.start \in Nat
  BY FragmentType
<1>. HIDE DEF t
<1>5. ASSUME NEW m \in DOMAIN t, NEW n \in DOMAIN t, m < n
      PROVE  t[m].start < t[n].start
  <2>1. m \in 1 .. Len(s) + 1 /\ n \in 1 .. Len(s) + 1
    BY <1>2
  <2>2. CASE n <= k
    <3>1. m \in DOMAIN s /\ n \in DOMAIN s /\ t[m] = s[m] /\ t[n] = s[n]
      BY <1>1, <1>2, <1>5, <2>1, <2>2
    <3>. QED
      BY <1>5, <3>1 DEF Sorted
  <2>3. CASE n = k + 1
    <3>1. m \in 1 .. Len(s) /\ m <= k /\ t[m] = s[m] /\ t[n] = f
      BY <1>1, <1>2, <1>5, <2>1, <2>3
    <3>. QED
      BY <1>1, <3>1
  <2>4. CASE n > k + 1
    <3>1. n - 1 \in 1 .. Len(s) /\ n - 1 > k /\ t[n] = s[n - 1]
      BY <1>1, <1>2, <2>1, <2>4
    <3>2. CASE m <= k
      <4>1. m \in 1 .. Len(s) /\ t[m] = s[m]
        BY <1>1, <1>2, <2>1, <3>2
      <4>2. s[m].start < f.start /\ f.start < s[n - 1].start
        BY <1>1, <1>3, <3>1, <3>2, <4>1
      <4>3. s[m].start < s[n - 1].start
        BY <1>3, <1>4, <3>1, <4>1, <4>2
      <4>. QED
        BY <3>1, <4>1, <4>3
    <3>3. CASE m = k + 1
      <4>1. t[m] = f
        BY <1>1, <1>2, <2>1, <3>3
      <4>. QED
        BY <1>3, <3>1, <4>1
    <3>4. CASE m > k + 1
      <4>1. m - 1 \in DOMAIN s /\ n - 1 \in DOMAIN s /\ m - 1 < n - 1 /\ t[m] = s[m - 1]
        BY <1>1, <1>2, <1>5, <2>1, <3>4, <3>1
      <4>. QED
        BY <3>1, <4>1 DEF Sorted
    <3>. QED
      BY <1>1, <2>1, <3>2, <3>3, <3>4
  <2>. QED
    BY <1>1, <2>1, <2>2, <2>3, <2>4
<1>6. Sorted(t)
  BY <1>5 DEF Sorted
<1>. QED
  BY <1>6 DEF k, t

-----------------------------------------------------------------------------
(* What holds of every behaviour.                                          *)

Datagrams == [id : Ids \cup {NULL}, last : BOOLEAN, datagram_len : Nat, p : Seq(Fragments)]

Typed ==
    /\ next \in [Elements -> Elements \cup {NULL}]
    /\ reassdatagrams \in Elements \cup {NULL} /\ memp_tab \in Elements \cup {NULL}
    /\ ipr \in [Elements -> Datagrams]
    /\ ip_reass_pbufcount \in Int /\ pbufs_freed \in Nat
    /\ step \in {"receive", "overflow", "exhausted", "find", "enqueue", "chain"}
    /\ p \in Fragments \cup {NULL} /\ (step # "receive" => p \in Fragments)
    /\ delivered \in [datagram_len : Nat, p : Seq(Fragments)] \cup {NULL}
    /\ burst \in Seq(Fragments)

\* The fragments of a datagram are its own and begin one after the other; they may
\* overlap.
Arranged ==
    \A e \in Elements :
       Sorted(ipr[e].p) /\ \A n \in DOMAIN ipr[e].p : ipr[e].p[n].id = ipr[e].id

\* A fragment to be chained has a datagram.
Found == step = "chain" => Own # {}

\* The limit is kept, also with the fragment for which room has been found.
Limited ==
    /\ ip_reass_pbufcount <= IP_REASS_MAX_PBUFS
    /\ step \in {"find", "enqueue", "exhausted", "chain"} =>
          ip_reass_pbufcount + p.clen <= IP_REASS_MAX_PBUFS

\* What is delivered begins with the first byte, is in order, holds no byte twice and
\* comes from one datagram; but for its end, DeliveredInOrder.
FromTheFirstByte ==
    delivered # NULL =>
        /\ delivered.p # <<>> /\ delivered.p[1].start = 0
        /\ \A n \in 2 .. Len(delivered.p) :
              /\ delivered.p[n - 1].end <= delivered.p[n].start
              /\ delivered.p[n - 1].id = delivered.p[n].id

IInv == Typed /\ Arranged /\ Found /\ Limited /\ FromTheFirstByte

LEMMA NullIs ==
    /\ NULL \notin Elements /\ NULL \notin Ids
    /\ \A d \in [datagram_len : Nat, p : Seq(Fragments)] : d # NULL
  BY ReassemblyAssumption

LEMMA NoDatagramType == NoDatagram \in Datagrams
<1>1. <<>> \in Seq(Fragments)
  OBVIOUS
<1>. QED
  BY <1>1 DEF NoDatagram, Datagrams

LEMMA QueueType ==
    ASSUME Typed
    PROVE  /\ Queue \in Seq(Elements) /\ DOMAIN Queue = 1 .. Len(Queue) /\ Len(Queue) \in Nat
           /\ \A n \in DOMAIN Queue : Queue[n] \in Elements
           /\ \A id : Others(id) \in SUBSET (1 .. Len(Queue))
           /\ Own \in SUBSET (1 .. Len(Queue))
<1>1. Queue \in Seq(Elements)
  BY FromType DEF Typed, Queue
<1>. QED
  BY <1>1 DEF Others, Own

\* The datagram that is displaced is one of the list and not the fragment's own.
LEMMA OldestIs ==
    ASSUME Typed, Others(p.id) # {}
    PROVE  /\ Max(Others(p.id)) \in DOMAIN Queue /\ Oldest = Queue[Max(Others(p.id))]
           /\ Oldest \in Elements /\ ipr[Oldest].id # p.id
           /\ Freed(Oldest) \in Nat
           /\ \A n \in DOMAIN Queue : n > Max(Others(p.id)) => ipr[Queue[n]].id = p.id
<1>1. Others(p.id) \in SUBSET (1 .. Len(Queue)) /\ Len(Queue) \in Nat
  BY QueueType
<1>2. Max(Others(p.id)) \in Others(p.id) /\ \A n \in Others(p.id) : n <= Max(Others(p.id))
  BY <1>1, MaxIs
<1>3. /\ Max(Others(p.id)) \in DOMAIN Queue /\ Oldest = Queue[Max(Others(p.id))]
      /\ ipr[Oldest].id # p.id
  BY <1>2 DEF Others, Oldest
<1>4. Oldest \in Elements
  BY <1>3, QueueType
<1>5. Freed(Oldest) \in Nat
  <2>1. ipr[Oldest].p \in Seq(Fragments)
    BY <1>4 DEF Typed, Datagrams
  <2>. QED
    BY <2>1, PbufsType DEF Freed
<1>6. \A n \in DOMAIN Queue : n > Max(Others(p.id)) => ipr[Queue[n]].id = p.id
  <2>. TAKE n \in DOMAIN Queue
  <2>1. n \notin Others(p.id) => ipr[Queue[n]].id = p.id
    BY DEF Others
  <2>2. n \in Others(p.id) => n <= Max(Others(p.id))
    BY <1>2
  <2>3. n \in Nat /\ Max(Others(p.id)) \in Nat
    BY <1>1, <1>2, QueueType
  <2>. QED
    BY <2>1, <2>2, <2>3
<1>. QED
  BY <1>3, <1>4, <1>5, <1>6

\* The datagram of the fragment that is chained, and where in it the fragment goes.
Place == Min(Own)
Mine == Queue[Place]
Marked == [ipr[Mine] EXCEPT !.last = @ \/ ~p.more_fragments,
                            !.datagram_len = IF p.more_fragments THEN @ ELSE p.end]
Gap == Before(ipr[Mine].p, p)
Joined == InsertAt(ipr[Mine].p, Gap + 1, p)

LEMMA MineIs ==
    ASSUME IInv, step = "chain"
    PROVE  /\ Place \in DOMAIN Queue /\ Place \in Own /\ Mine \in Elements
           /\ ipr[Mine] \in Datagrams /\ ipr[Mine].id = p.id /\ p \in Fragments
           /\ Marked \in Datagrams /\ Marked.id = p.id /\ Marked.p = ipr[Mine].p
           /\ Marked.last = (ipr[Mine].last \/ ~p.more_fragments)
           /\ Marked.datagram_len = IF p.more_fragments THEN ipr[Mine].datagram_len ELSE p.end
           /\ \A n \in Own : Place <= n
<1>. USE DEF IInv
<1>1. Own \in SUBSET (1 .. Len(Queue)) /\ Len(Queue) \in Nat /\ Own # {}
  BY QueueType DEF Found
<1>2. Place \in Own /\ \A n \in Own : Place <= n
  BY <1>1, MinIs DEF Place
<1>3. Place \in DOMAIN Queue /\ ipr[Mine].id = p.id
  BY <1>2 DEF Own, Mine
<1>4. Mine \in Elements
  BY <1>3, QueueType DEF Mine
<1>5. ipr[Mine] \in Datagrams /\ p \in Fragments
  BY <1>4 DEF Typed
<1>6. p.more_fragments \in BOOLEAN /\ p.end \in Nat
  BY <1>5, FragmentType
<1>7. /\ Marked.id = ipr[Mine].id /\ Marked.p = ipr[Mine].p
      /\ Marked.last = (ipr[Mine].last \/ ~p.more_fragments)
      /\ Marked.datagram_len = IF p.more_fragments THEN ipr[Mine].datagram_len ELSE p.end
      /\ Marked \in Datagrams
  BY <1>5, <1>6 DEF Marked, Datagrams
<1>. QED
  BY <1>2, <1>3, <1>4, <1>5, <1>7

\* Chain, its three ends apart.
LEMMA ChainIs ==
    ASSUME IInv, Chain
    PROVE  /\ step = "chain" /\ step' = "receive" /\ p' = NULL
           /\ UNCHANGED <<pbufs_freed, burst>>
           /\ \/ /\ Overlaps(ipr[Mine].p, p)
                 /\ ipr' = [ipr EXCEPT ![Mine] = Marked]
                 /\ ip_reass_pbufcount' = ip_reass_pbufcount
                 /\ UNCHANGED <<next, reassdatagrams, memp_tab, delivered>>
              \/ /\ ~Overlaps(ipr[Mine].p, p) /\ ~(Marked.last /\ Valid(Joined, Gap))
                 /\ ipr' = [ipr EXCEPT ![Mine] = [Marked EXCEPT !.p = Joined]]
                 /\ ip_reass_pbufcount' = ip_reass_pbufcount + p.clen
                 /\ UNCHANGED <<next, reassdatagrams, memp_tab, delivered>>
              \/ /\ ~Overlaps(ipr[Mine].p, p) /\ Marked.last /\ Valid(Joined, Gap)
                 /\ delivered' = [datagram_len |-> Marked.datagram_len, p |-> Joined]
                 /\ Dequeue(Mine, IF Place = 1 THEN NULL ELSE Queue[Place - 1])
                 /\ ip_reass_pbufcount' = ip_reass_pbufcount + p.clen - Pbufs(Joined)
<1>1. step = "chain"
  BY DEF Chain
<1>2. Marked.p = ipr[Mine].p
  BY <1>1, MineIs
<1>3. ip_reass_pbufcount + ThrownAway = ip_reass_pbufcount
  BY DEF IInv, Typed, ThrownAway
<1>. QED
  BY <1>1, <1>2, <1>3 DEF Chain, Place, Mine, Marked, Gap, Joined

\* What becomes of the fragments when one is put in.
LEMMA JoinedIs ==
    ASSUME IInv, step = "chain", ~Overlaps(ipr[Mine].p, p)
    PROVE  /\ Joined \in Seq(Fragments) /\ Joined # <<>> /\ Len(Joined) = Len(ipr[Mine].p) + 1
           /\ DOMAIN Joined = 1 .. Len(ipr[Mine].p) + 1
           /\ Gap \in 0 .. Len(ipr[Mine].p)
           /\ \A i \in 1 .. Len(ipr[Mine].p) + 1 :
                 Joined[i] = IF i <= Gap THEN ipr[Mine].p[i] ELSE IF i = Gap + 1 THEN p ELSE ipr[Mine].p[i - 1]
           /\ Sorted(Joined) /\ \A n \in DOMAIN Joined : Joined[n].id = p.id
           /\ Pbufs(Joined) = Pbufs(ipr[Mine].p) + p.clen /\ Pbufs(ipr[Mine].p) \in Nat
           /\ p \in Fragments /\ p.clen \in Nat
<1>. DEFINE s == ipr[Mine].p
<1>1. /\ s \in Seq(Fragments) /\ p \in Fragments /\ Mine \in Elements /\ ipr[Mine].id = p.id
      /\ Sorted(s) /\ \A n \in DOMAIN s : s[n].id = p.id
  BY MineIs DEF Datagrams, IInv, Arranged
<1>. HIDE DEF s
<1>2. Gap \in 0 .. Len(s)
  BY <1>1, BeforeIs DEF Gap, s
<1>3. /\ Joined \in Seq(Fragments) /\ Len(Joined) = Len(s) + 1 /\ DOMAIN Joined = 1 .. Len(s) + 1
      /\ \A i \in 1 .. Len(s) + 1 : Joined[i] = IF i <= Gap THEN s[i] ELSE IF i = Gap + 1 THEN p ELSE s[i - 1]
  <2>. DEFINE t == InsertAt(s, Gap + 1, p)
  <2>1. /\ t \in Seq(Fragments) /\ Len(t) = Len(s) + 1 /\ DOMAIN t = 1 .. Len(s) + 1
        /\ \A i \in 1 .. Len(s) + 1 : t[i] = IF i <= Gap THEN s[i] ELSE IF i = Gap + 1 THEN p ELSE s[i - 1]
    BY <1>1, <1>2, InsertAtIs
  <2>2. Joined = t
    BY DEF Joined, s
  <2>. QED
    BY <2>1, <2>2, Zenon
<1>4. Sorted(Joined)
  BY <1>1, InsertSorted DEF Joined, Gap, s
<1>5. Pbufs(Joined) = Pbufs(s) + p.clen /\ Pbufs(s) \in Nat
  <2>1. Pbufs(InsertAt(s, Gap + 1, p)) = Pbufs(s) + p.clen /\ Pbufs(s) \in Nat
    BY <1>1, <1>2, PbufsInsert, PbufsType
  <2>. QED
    BY <2>1 DEF Joined, s
<1>6. Len(s) \in Nat /\ DOMAIN s = 1 .. Len(s) /\ Gap \in Nat
  BY <1>1, <1>2
<1>7. \A n \in DOMAIN Joined : Joined[n].id = p.id
  <2>. TAKE n \in DOMAIN Joined
  <2>1. n \in 1 .. Len(s) + 1
    BY <1>3
  <2>2. n <= Gap => n \in DOMAIN s
    BY <1>2, <1>6, <2>1
  <2>3. ~(n <= Gap) /\ n # Gap + 1 => n - 1 \in DOMAIN s
    BY <1>2, <1>6, <2>1
  <2>. QED
    BY <1>1, <1>3, <2>1, <2>2, <2>3
<1>8. Joined # <<>>
  BY <1>3, <1>6, EmptySeq
<1>9. p.clen \in Nat
  BY <1>1, FragmentType
<1>. QED
  BY <1>1, <1>2, <1>3, <1>4, <1>5, <1>7, <1>8, <1>9 DEF s

LEMMA DequeueType ==
    ASSUME Typed, Arranged, NEW e \in Elements, NEW prev, Dequeue(e, prev)
    PROVE  /\ next' \in [Elements -> Elements \cup {NULL}]
           /\ reassdatagrams' \in Elements \cup {NULL} /\ memp_tab' \in Elements \cup {NULL}
           /\ ipr' \in [Elements -> Datagrams]
           /\ Arranged'
<1>1. /\ next \in [Elements -> Elements \cup {NULL}]
      /\ reassdatagrams \in Elements \cup {NULL} /\ memp_tab \in Elements \cup {NULL}
      /\ ipr \in [Elements -> Datagrams]
  BY DEF Typed
<1>2. next[e] \in Elements \cup {NULL}
  BY <1>1
<1>3. /\ next' \in [Elements -> Elements \cup {NULL}]
      /\ reassdatagrams' \in Elements \cup {NULL} /\ memp_tab' \in Elements \cup {NULL}
  BY <1>1, <1>2 DEF Dequeue
<1>4. ipr' = [ipr EXCEPT ![e] = NoDatagram]
  BY DEF Dequeue
<1>5. ipr' \in [Elements -> Datagrams]
  BY <1>1, <1>4, NoDatagramType
<1>6. Arranged'
  <2>. SUFFICES ASSUME NEW x \in Elements
                PROVE  Sorted(ipr'[x].p) /\ \A n \in DOMAIN ipr'[x].p : ipr'[x].p[n].id = ipr'[x].id
    BY DEF Arranged
  <2>1. CASE x = e
    <3>1. ipr'[x].p = <<>> /\ DOMAIN ipr'[x].p = {}
      BY <1>1, <1>4, <2>1 DEF NoDatagram
    <3>. QED
      BY <3>1 DEF Sorted
  <2>2. CASE x # e
    <3>1. ipr'[x] = ipr[x]
      BY <1>1, <1>4, <2>2
    <3>. QED
      BY <3>1 DEF Arranged
  <2>. QED
    BY <2>1, <2>2
<1>. QED
  BY <1>3, <1>5, <1>6

LEMMA InitIInv == Init => IInv
<1>. SUFFICES ASSUME Init PROVE IInv
  OBVIOUS
<1>1. MEMP_NUM_REASSDATA \in Nat \ {0} /\ IP_REASS_MAX_PBUFS \in Nat \ {0}
  BY ReassemblyAssumption
<1>2. next \in [Elements -> Elements \cup {NULL}] /\ memp_tab \in Elements
  BY <1>1 DEF Init, Elements
<1>3. ipr \in [Elements -> Datagrams] /\ burst \in Seq(Fragments)
  BY NoDatagramType DEF Init
<1>4. Typed
  BY <1>2, <1>3 DEF Init, Typed
<1>5. Arranged
  <2>1. \A e \in Elements : ipr[e].p = <<>>
    BY DEF Init, NoDatagram
  <2>. QED
    BY <2>1 DEF Arranged, Sorted
<1>. QED
  BY <1>1, <1>4, <1>5 DEF Init, IInv, Found, Limited, FromTheFirstByte

LEMMA ReceiveStep ==
    ASSUME IInv, NEW f \in Fragments, Receive(f)
    PROVE  IInv'
<1>. USE DEF IInv
<1>1. /\ p' = f /\ delivered' = NULL /\ pbufs_freed' = 0
      /\ step = "receive"
      /\ step' = IF ip_reass_pbufcount + f.clen > IP_REASS_MAX_PBUFS THEN "overflow" ELSE "find"
      /\ UNCHANGED <<next, reassdatagrams, memp_tab, ipr, ip_reass_pbufcount>>
      /\ burst' = Burst(f)
  BY DEF Receive, lists
<1>2. burst' \in Seq(Fragments)
  <2>1. burst \in Seq(Fragments)
    BY DEF Typed
  <2>2. burst' \in {<<f>>, <<>>, Append(burst, f)}
    BY <1>1 DEF Burst
  <2>3. <<f>> \in Seq(Fragments) /\ <<>> \in Seq(Fragments) /\ Append(burst, f) \in Seq(Fragments)
    BY <2>1
  <2>. QED
    BY <2>2, <2>3
<1>3. Typed'
  BY <1>1, <1>2 DEF Typed
<1>4. Limited'
  <2>1. f.clen \in Nat /\ ip_reass_pbufcount \in Int /\ IP_REASS_MAX_PBUFS \in Nat
    BY FragmentType, ReassemblyAssumption DEF Typed
  <2>. QED
    BY <1>1, <2>1 DEF Limited
<1>5. Arranged' /\ Found' /\ FromTheFirstByte'
  BY <1>1 DEF Arranged, Found, FromTheFirstByte
<1>. QED
  BY <1>3, <1>4, <1>5

LEMMA FindStep ==
    ASSUME IInv, Find
    PROVE  IInv'
<1>. USE DEF IInv
<1>1. /\ step = "find" /\ pbufs_freed' = 0
      /\ step' = IF Own # {} THEN "chain" ELSE IF memp_tab = NULL THEN "exhausted" ELSE "enqueue"
      /\ UNCHANGED <<next, reassdatagrams, memp_tab, ipr, ip_reass_pbufcount, p, delivered, burst>>
  BY DEF Find, lists
<1>2. Typed'
  BY <1>1 DEF Typed
<1>3. Own' = Own
  BY <1>1 DEF Own, Queue
<1>. QED
  BY <1>1, <1>2, <1>3 DEF Arranged, Found, Limited, FromTheFirstByte

LEMMA MakeRoomStep ==
    ASSUME IInv, MakeRoom
    PROVE  IInv'
<1>. USE DEF IInv
<1>1. step \in {"overflow", "exhausted"} /\ p \in Fragments /\ UNCHANGED <<delivered, burst>>
  BY DEF MakeRoom, Typed
<1>2. /\ next' \in [Elements -> Elements \cup {NULL}]
      /\ reassdatagrams' \in Elements \cup {NULL} /\ memp_tab' \in Elements \cup {NULL}
      /\ ipr' \in [Elements -> Datagrams]
      /\ Arranged'
      /\ ip_reass_pbufcount' \in Int /\ pbufs_freed' \in Nat
      /\ ip_reass_pbufcount' <= ip_reass_pbufcount
  <2>1. CASE Others(p.id) = {}
    BY <2>1 DEF MakeRoom, Typed, lists, Arranged
  <2>2. CASE Others(p.id) # {}
    <3>1. Dequeue(Oldest, Prev)
      BY <2>2 DEF MakeRoom, FreeCompleteDatagram
    <3>2. /\ ip_reass_pbufcount' = ip_reass_pbufcount - Freed(Oldest)
          /\ pbufs_freed' = pbufs_freed + Freed(Oldest)
      BY <2>2 DEF MakeRoom, FreeCompleteDatagram
    <3>3. Oldest \in Elements /\ Freed(Oldest) \in Nat
      BY <2>2, OldestIs
    <3>4. /\ next' \in [Elements -> Elements \cup {NULL}]
          /\ reassdatagrams' \in Elements \cup {NULL} /\ memp_tab' \in Elements \cup {NULL}
          /\ ipr' \in [Elements -> Datagrams]
          /\ Arranged'
      BY <3>1, <3>3, DequeueType
    <3>5. ip_reass_pbufcount \in Int /\ pbufs_freed \in Nat
      BY DEF Typed
    <3>. QED
      BY <3>2, <3>3, <3>4, <3>5
  <2>. QED
    BY <2>1, <2>2
<1>3. \/ step' = step /\ p' = p
      \/ /\ step = "overflow" /\ step' = "find" /\ p' = p
         /\ ip_reass_pbufcount' + p.clen <= IP_REASS_MAX_PBUFS
      \/ step = "exhausted" /\ step' = "enqueue" /\ p' = p
      \/ step' = "receive" /\ p' = NULL
  BY <1>1 DEF MakeRoom, Drop
<1>4. step' # "chain" /\ (step' # "receive" => p' \in Fragments) /\ p' \in Fragments \cup {NULL}
      /\ step' \in {"receive", "overflow", "exhausted", "find", "enqueue", "chain"}
  BY <1>1, <1>3
<1>5. Typed'
  BY <1>1, <1>2, <1>4 DEF Typed
<1>6. Limited'
  <2>1. /\ ip_reass_pbufcount \in Int /\ ip_reass_pbufcount' \in Int /\ p.clen \in Nat
        /\ IP_REASS_MAX_PBUFS \in Nat
    BY <1>1, <1>2, FragmentType, ReassemblyAssumption DEF Typed
  <2>. QED
    BY <1>1, <1>2, <1>3, <2>1 DEF Limited
<1>7. Found' /\ FromTheFirstByte'
  BY <1>1, <1>4 DEF Found, FromTheFirstByte
<1>. QED
  BY <1>2, <1>5, <1>6, <1>7

LEMMA EnqueueStep ==
    ASSUME IInv, EnqueueNewDatagram
    PROVE  IInv'
<1>. USE DEF IInv
<1>1. /\ step = "enqueue" /\ p \in Fragments /\ p.id \in Ids
      /\ UNCHANGED <<ip_reass_pbufcount, pbufs_freed, delivered, burst>>
  BY FragmentType DEF EnqueueNewDatagram, Typed
<1>2. CASE memp_tab = NULL
  BY <1>1, <1>2 DEF EnqueueNewDatagram, Drop, lists, Typed, Arranged, Found, Limited, FromTheFirstByte
<1>3. CASE memp_tab # NULL
  <2>. DEFINE e == memp_tab
              d == [NoDatagram EXCEPT !.id = p.id]
  <2>1. /\ memp_tab' = next[e] /\ next' = [next EXCEPT ![e] = reassdatagrams]
        /\ reassdatagrams' = e /\ ipr' = [ipr EXCEPT ![e] = d]
        /\ step' = "chain" /\ p' = p
    BY <1>3 DEF EnqueueNewDatagram
  <2>2. /\ e \in Elements /\ next \in [Elements -> Elements \cup {NULL}]
        /\ ipr \in [Elements -> Datagrams]
    BY <1>3 DEF Typed
  <2>3. d \in Datagrams /\ d.id = p.id /\ d.p = <<>>
    BY <1>1, NoDatagramType DEF NoDatagram, Datagrams
  <2>. HIDE DEF e, d
  <2>4. Typed'
    <3>1. next' \in [Elements -> Elements \cup {NULL}] /\ memp_tab' \in Elements \cup {NULL}
      BY <2>1, <2>2 DEF Typed, e
    <3>2. ipr' \in [Elements -> Datagrams]
      BY <2>1, <2>2, <2>3
    <3>. QED
      BY <1>1, <2>1, <2>2, <3>1, <3>2 DEF Typed
  <2>5. Arranged'
    <3>. SUFFICES ASSUME NEW x \in Elements
                  PROVE  Sorted(ipr'[x].p) /\ \A n \in DOMAIN ipr'[x].p : ipr'[x].p[n].id = ipr'[x].id
      BY DEF Arranged
    <3>1. CASE x = e
      <4>1. ipr'[x].p = <<>> /\ DOMAIN ipr'[x].p = {}
        BY <2>1, <2>2, <2>3, <3>1
      <4>. QED
        BY <4>1 DEF Sorted
    <3>2. CASE x # e
      <4>1. ipr'[x] = ipr[x]
        BY <2>1, <2>2, <3>2
      <4>. QED
        BY <4>1 DEF Arranged
    <3>. QED
      BY <3>1, <3>2
  <2>6. Found'
    <3>1. From(next', reassdatagrams')[1] = e /\ 1 \in DOMAIN From(next', reassdatagrams')
      <4>1. /\ next' \in [Elements -> Elements \cup {NULL}]
            /\ reassdatagrams' \in Elements \cup {NULL} /\ reassdatagrams' # NULL
        BY <1>3, <2>1, <2>4 DEF Typed, e
      <4>. QED
        BY <2>1, <4>1, FromType
    <3>2. 1 \in DOMAIN Queue' /\ Queue'[1] = e
      BY <3>1 DEF Queue
    <3>3. ipr'[e].id = p'.id
      BY <2>1, <2>2, <2>3
    <3>4. 1 \in Own'
      BY <3>2, <3>3 DEF Own
    <3>. QED
      BY <3>4 DEF Found
  <2>. QED
    BY <1>1, <2>1, <2>4, <2>5, <2>6 DEF Limited, FromTheFirstByte
<1>. QED
  BY <1>2, <1>3

\* A datagram taken to be complete has its fragments in order, without an overlap.
LEMMA JoinedInOrder ==
    ASSUME IInv, step = "chain", ~Overlaps(ipr[Mine].p, p), Valid(Joined, Gap)
    PROVE  /\ Joined[1].start = 0
           /\ \A n \in 2 .. Len(Joined) : Joined[n - 1].end <= Joined[n].start
<1>. DEFINE s == ipr[Mine].p
            t == Joined
            k == Gap
<1>1. /\ t \in Seq(Fragments) /\ Len(t) = Len(s) + 1 /\ k \in 0 .. Len(s)
      /\ \A i \in 1 .. Len(s) + 1 : t[i] = IF i <= k THEN s[i] ELSE IF i = k + 1 THEN p ELSE s[i - 1]
  BY JoinedIs
<1>2. s \in Seq(Fragments) /\ Sorted(s) /\ p \in Fragments
  BY MineIs DEF Datagrams, IInv, Arranged
<1>3. /\ t[1].start = 0
      /\ \A i \in 1 .. k - 1 : t[i].end = t[i + 1].start
      /\ \A i \in k + 1 .. Len(t) - 1 : t[i].end = t[i + 1].start
  BY DEF Valid, Adjacent
<1>4. \A i \in 1 .. Len(s) : i <= k => s[i].start < p.start
  BY <1>2, BeforeIs DEF Gap
<1>5. \A i \in DOMAIN s : ~(s[i].start <= p.start /\ p.start < s[i].end)
  BY DEF Overlaps
<1>. HIDE DEF s, t, k
<1>6. Len(s) \in Nat /\ k \in Nat /\ DOMAIN s = 1 .. Len(s) /\ Len(t) \in Nat
  BY <1>1, <1>2
<1>7. \A i \in 1 .. Len(t) : t[i].start \in Nat /\ t[i].end \in Nat
  <2>1. \A i \in 1 .. Len(t) : t[i] \in Fragments
    BY <1>1
  <2>. QED
    BY <2>1, FragmentType
<1>8. ASSUME NEW n \in 2 .. Len(t) PROVE t[n - 1].end <= t[n].start
  <2>1. /\ n \in Nat /\ n - 1 \in 1 .. Len(t) /\ n \in 1 .. Len(t) /\ (n - 1) + 1 = n
        /\ t[n].start \in Nat /\ t[n - 1].end \in Nat
    BY <1>6, <1>7
  <2>2. CASE n <= k
    <3>1. n - 1 \in 1 .. k - 1
      BY <1>6, <2>1, <2>2
    <3>. QED
      BY <1>3, <2>1, <3>1
  <2>3. CASE n = k + 1
    <3>1. k \in 1 .. Len(s) /\ n - 1 = k /\ t[k] = s[k] /\ t[n] = p
      BY <1>1, <1>6, <2>1, <2>3
    <3>2. s[k].start < p.start /\ ~(s[k].start <= p.start /\ p.start < s[k].end)
      BY <1>4, <1>5, <1>6, <3>1
    <3>3. s[k] \in Fragments
      BY <1>2, <3>1
    <3>4. s[k].start \in Nat /\ s[k].end \in Nat /\ p.start \in Nat
      BY <1>2, <3>3, FragmentType
    <3>5. s[k].end <= p.start
      BY <3>2, <3>4
    <3>. QED
      BY <3>1, <3>5
  <2>4. CASE n > k + 1
    <3>1. n - 1 \in k + 1 .. Len(t) - 1
      BY <1>6, <2>1, <2>4
    <3>. QED
      BY <1>3, <2>1, <3>1
  <2>. QED
    BY <1>6, <2>1, <2>2, <2>3, <2>4
<1>. QED
  BY <1>3, <1>8 DEF t

LEMMA ChainStep ==
    ASSUME IInv, Chain
    PROVE  IInv'
<1>. USE DEF IInv
<1>1. step = "chain" /\ step' = "receive" /\ p' = NULL /\ UNCHANGED <<pbufs_freed, burst>>
  BY ChainIs
<1>2. /\ Mine \in Elements /\ ipr[Mine] \in Datagrams /\ Marked \in Datagrams
      /\ Marked.id = p.id /\ Marked.id = ipr[Mine].id /\ Marked.p = ipr[Mine].p
      /\ ipr \in [Elements -> Datagrams]
  BY <1>1, MineIs DEF Typed
<1>3. /\ ip_reass_pbufcount + p.clen <= IP_REASS_MAX_PBUFS /\ ip_reass_pbufcount \in Int
      /\ IP_REASS_MAX_PBUFS \in Nat /\ p.clen \in Nat
  <2>1. p \in Fragments
    BY <1>1 DEF Typed
  <2>. QED
    BY <1>1, <2>1, FragmentType, ReassemblyAssumption DEF Limited, Typed
<1>4. ASSUME NEW d \in Datagrams, ipr' = [ipr EXCEPT ![Mine] = d], Sorted(d.p),
             \A n \in DOMAIN d.p : d.p[n].id = d.id
      PROVE  ipr' \in [Elements -> Datagrams] /\ Arranged'
  <2>1. ipr' \in [Elements -> Datagrams]
    BY <1>2, <1>4
  <2>. SUFFICES ASSUME NEW x \in Elements
                PROVE  Sorted(ipr'[x].p) /\ \A n \in DOMAIN ipr'[x].p : ipr'[x].p[n].id = ipr'[x].id
    BY <2>1 DEF Arranged
  <2>2. CASE x = Mine
    <3>1. ipr'[x] = d
      BY <1>2, <1>4, <2>2
    <3>. QED
      BY <1>4, <3>1
  <2>3. CASE x # Mine
    <3>1. ipr'[x] = ipr[x]
      BY <1>2, <1>4, <2>3
    <3>. QED
      BY <3>1 DEF Arranged
  <2>. QED
    BY <2>2, <2>3
<1>5. CASE /\ Overlaps(ipr[Mine].p, p)
           /\ ipr' = [ipr EXCEPT ![Mine] = Marked]
           /\ ip_reass_pbufcount' = ip_reass_pbufcount
           /\ UNCHANGED <<next, reassdatagrams, memp_tab, delivered>>
  <2>1. Sorted(Marked.p) /\ \A n \in DOMAIN Marked.p : Marked.p[n].id = Marked.id
    BY <1>2 DEF Arranged
  <2>2. ipr' \in [Elements -> Datagrams] /\ Arranged'
    BY <1>2, <1>4, <1>5, <2>1
  <2>3. Typed'
    BY <1>1, <1>5, <2>2 DEF Typed
  <2>. QED
    BY <1>1, <1>3, <1>5, <2>2, <2>3 DEF Found, Limited, FromTheFirstByte
<1>6. CASE /\ ~Overlaps(ipr[Mine].p, p) /\ ~(Marked.last /\ Valid(Joined, Gap))
           /\ ipr' = [ipr EXCEPT ![Mine] = [Marked EXCEPT !.p = Joined]]
           /\ ip_reass_pbufcount' = ip_reass_pbufcount + p.clen
           /\ UNCHANGED <<next, reassdatagrams, memp_tab, delivered>>
  <2>. DEFINE d == [Marked EXCEPT !.p = Joined]
  <2>1. /\ Joined \in Seq(Fragments) /\ Sorted(Joined) /\ \A n \in DOMAIN Joined : Joined[n].id = p.id
    BY <1>1, <1>6, JoinedIs
  <2>2. d \in Datagrams /\ d.p = Joined /\ d.id = p.id
    BY <1>2, <2>1 DEF Datagrams
  <2>3. ipr' = [ipr EXCEPT ![Mine] = d]
    BY <1>6
  <2>. HIDE DEF d
  <2>4. ipr' \in [Elements -> Datagrams] /\ Arranged'
    <3>1. Sorted(d.p) /\ \A n \in DOMAIN d.p : d.p[n].id = d.id
      BY <2>1, <2>2
    <3>. QED
      BY <1>4, <2>2, <2>3, <3>1
  <2>5. Typed'
    BY <1>1, <1>3, <1>6, <2>4 DEF Typed
  <2>. QED
    BY <1>1, <1>3, <1>6, <2>4, <2>5 DEF Found, Limited, FromTheFirstByte
<1>7. CASE /\ ~Overlaps(ipr[Mine].p, p) /\ Marked.last /\ Valid(Joined, Gap)
           /\ delivered' = [datagram_len |-> Marked.datagram_len, p |-> Joined]
           /\ Dequeue(Mine, IF Place = 1 THEN NULL ELSE Queue[Place - 1])
           /\ ip_reass_pbufcount' = ip_reass_pbufcount + p.clen - Pbufs(Joined)
  <2>1. /\ Joined \in Seq(Fragments) /\ Joined # <<>> /\ \A n \in DOMAIN Joined : Joined[n].id = p.id
        /\ Pbufs(Joined) = Pbufs(ipr[Mine].p) + p.clen /\ Pbufs(ipr[Mine].p) \in Nat
    BY <1>1, <1>7, JoinedIs
  <2>2. /\ next' \in [Elements -> Elements \cup {NULL}]
        /\ reassdatagrams' \in Elements \cup {NULL} /\ memp_tab' \in Elements \cup {NULL}
        /\ ipr' \in [Elements -> Datagrams] /\ Arranged'
    BY <1>2, <1>7, DequeueType
  <2>3. delivered' \in [datagram_len : Nat, p : Seq(Fragments)]
    BY <1>2, <1>7, <2>1 DEF Datagrams
  <2>4. ip_reass_pbufcount' \in Int /\ ip_reass_pbufcount' <= IP_REASS_MAX_PBUFS
    BY <1>3, <1>7, <2>1
  <2>5. Typed'
    BY <1>1, <2>2, <2>3, <2>4 DEF Typed
  <2>6. FromTheFirstByte'
    <3>1. Joined[1].start = 0 /\ \A n \in 2 .. Len(Joined) : Joined[n - 1].end <= Joined[n].start
      BY <1>1, <1>7, JoinedInOrder
    <3>2. \A n \in 2 .. Len(Joined) : Joined[n - 1].id = Joined[n].id
      <4>. TAKE n \in 2 .. Len(Joined)
      <4>1. n \in DOMAIN Joined /\ n - 1 \in DOMAIN Joined
        BY <2>1
      <4>. QED
        BY <2>1, <4>1
    <3>3. delivered'.p = Joined
      BY <1>7
    <3>. QED
      BY <2>1, <3>1, <3>2, <3>3 DEF FromTheFirstByte
  <2>. QED
    BY <1>1, <2>2, <2>4, <2>5, <2>6 DEF Found, Limited
<1>. QED
  BY <1>5, <1>6, <1>7, ChainIs

LEMMA StepIInv == IInv /\ [Next]_vars => IInv'
<1>. SUFFICES ASSUME IInv, [Next]_vars PROVE IInv'
  OBVIOUS
<1>1. CASE UNCHANGED vars
  BY <1>1 DEF vars, lists, IInv, Typed, Arranged, Found, Own, Queue, Limited, FromTheFirstByte
<1>2. CASE \E f \in Fragments : Receive(f)
  BY <1>2, ReceiveStep
<1>3. CASE MakeRoom
  BY <1>3, MakeRoomStep
<1>4. CASE Find
  BY <1>4, FindStep
<1>5. CASE EnqueueNewDatagram
  BY <1>5, EnqueueStep
<1>6. CASE Chain
  BY <1>6, ChainStep
<1>. QED
  BY <1>1, <1>2, <1>3, <1>4, <1>5, <1>6 DEF Next

\* However the lists are linked, a datagram's fragments are its own and begin one after
\* the other, and a fragment is chained to a datagram that is in the list (ip_reass).
THEOREM ReassemblyInvariant == Spec => []IInv
  BY InitIInv, StepIInv, PTL DEF Spec

\* Every variable has its type.
THEOREM TypeCorrect == Spec => []TypeOK
<1>1. IInv => TypeOK
  <2>. SUFFICES ASSUME IInv, NEW e \in Elements
                PROVE  ipr[e].id \in Ids \cup {NULL} /\ Range(ipr[e].p) \subseteq Fragments
    BY DEF IInv, Typed, TypeOK
  <2>1. ipr[e].id \in Ids \cup {NULL} /\ ipr[e].p \in Seq(Fragments)
    BY DEF IInv, Typed, Datagrams
  <2>2. \A n \in DOMAIN ipr[e].p : ipr[e].p[n] \in Fragments
    BY <2>1
  <2>. QED
    BY <2>1, <2>2, Zenon DEF Range
<1>. QED
  BY <1>1, ReassemblyInvariant, PTL

\* The pbufs counted never exceed IP_REASS_MAX_PBUFS, whatever has happened to the lists.
THEOREM LimitKept == Spec => [](ip_reass_pbufcount <= IP_REASS_MAX_PBUFS)
<1>1. IInv => ip_reass_pbufcount <= IP_REASS_MAX_PBUFS
  BY DEF IInv, Limited
<1>. QED
  BY <1>1, ReassemblyInvariant, PTL

-----------------------------------------------------------------------------
(* What is delivered.                                                      *)

\* The length of a datagram whose last fragment has come is that fragment's end, if
\* all ways to cut the datagram up share it.
EndKnown ==
    \A e \in Elements :
       ipr[e].last /\ SharesLast(ipr[e].id)
         => \E n \in DOMAIN ipr[e].p :
               ~ipr[e].p[n].more_fragments /\ ipr[e].p[n].end = ipr[e].datagram_len

OrderInv == IInv /\ EndKnown /\ DeliveredInOrder

\* What it means for the last fragment f of a datagram.
LEMMA LastIsShared ==
    ASSUME NEW f \in Fragments, NEW g \in Fragments, g.id = f.id, SharesLast(f.id),
           ~f.more_fragments
    PROVE  g.end <= f.start \/ (~g.more_fragments /\ g.end = f.end)
<1>1. ASSUME NEW h \in Fragments PROVE h \in FragmentsOf(h.id)
  <2>1. PICK id \in Ids : h \in FragmentsOf(id)
    BY DEF Fragments
  <2>2. h.id = id
    BY <2>1 DEF FragmentsOf
  <2>. QED
    BY <2>1, <2>2
<1>2. f \in FragmentsOf(f.id) /\ g \in FragmentsOf(f.id)
  BY <1>1
<1>. QED
  BY <1>2 DEF SharesLast

\* A last fragment that is thrown away overlaps the last fragment.
LEMMA EndOverlapped ==
    ASSUME NEW s \in Seq(Fragments), Sorted(s), NEW f \in Fragments, SharesLast(f.id),
           \A n \in DOMAIN s : s[n].id = f.id,
           ~f.more_fragments, Overlaps(s, f)
    PROVE  \E n \in DOMAIN s : ~s[n].more_fragments /\ s[n].end = f.end
<1>1. DOMAIN s = 1 .. Len(s) /\ Len(s) \in Nat /\ \A n \in DOMAIN s : s[n] \in Fragments
  OBVIOUS
<1>2. f.start \in Nat /\ f.end \in Nat /\ f.start < f.end
  BY FragmentType
<1>3. PICK n \in DOMAIN s : s[n].end > f.start
  <2>1. CASE \E n \in DOMAIN s : s[n].start <= f.start /\ f.start < s[n].end
    <3>1. PICK n \in DOMAIN s : f.start < s[n].end
      BY <2>1
    <3>2. s[n].end \in Nat
      BY <1>1, FragmentType
    <3>. QED
      BY <1>2, <3>1, <3>2
  <2>2. CASE Before(s, f) < Len(s) /\ 0 < Before(s, f) /\ f.end > s[Before(s, f) + 1].start
    <3>. DEFINE k == Before(s, f)
    <3>1. k \in 0 .. Len(s) /\ \A n \in 1 .. Len(s) : n <= k <=> s[n].start < f.start
      BY BeforeIs
    <3>. HIDE DEF k
    <3>2. k < Len(s)
      BY <2>2 DEF k
    <3>3. k + 1 \in 1 .. Len(s) /\ ~(k + 1 <= k)
      BY <1>1, <3>1, <3>2
    <3>4. ~(s[k + 1].start < f.start)
      BY <3>1, <3>3
    <3>5. s[k + 1].start \in Nat /\ s[k + 1].end \in Nat /\ s[k + 1].start < s[k + 1].end
      BY <1>1, <3>3, FragmentType
    <3>6. s[k + 1].end > f.start
      BY <1>2, <3>4, <3>5
    <3>. QED
      BY <1>1, <3>3, <3>6
  <2>. QED
    BY <2>1, <2>2 DEF Overlaps
<1>4. s[n].end \in Nat /\ s[n] \in Fragments /\ s[n].id = f.id
  BY <1>1, FragmentType
<1>5. ~(s[n].end <= f.start)
  BY <1>2, <1>3, <1>4
<1>. QED
  BY <1>4, <1>5, LastIsShared

\* Once the last fragment has been seen, it is among the fragments.
LEMMA JoinedEnd ==
    ASSUME IInv, EndKnown, step = "chain", ~Overlaps(ipr[Mine].p, p), Marked.last,
           SharesLast(p.id)
    PROVE  \E n \in DOMAIN Joined : ~Joined[n].more_fragments /\ Joined[n].end = Marked.datagram_len
<1>. DEFINE s == ipr[Mine].p
<1>1. /\ DOMAIN Joined = 1 .. Len(s) + 1 /\ Gap \in 0 .. Len(s)
      /\ \A i \in 1 .. Len(s) + 1 : Joined[i] = IF i <= Gap THEN s[i] ELSE IF i = Gap + 1 THEN p ELSE s[i - 1]
  BY JoinedIs
<1>2. /\ Mine \in Elements /\ s \in Seq(Fragments) /\ ipr[Mine].id = p.id
      /\ Marked.last = (ipr[Mine].last \/ ~p.more_fragments)
      /\ Marked.datagram_len = IF p.more_fragments THEN ipr[Mine].datagram_len ELSE p.end
  BY MineIs DEF Datagrams
<1>3. CASE p.more_fragments
  <2>1. PICK n \in DOMAIN s : ~s[n].more_fragments /\ s[n].end = Marked.datagram_len
    BY <1>2, <1>3 DEF EndKnown
  <2>. HIDE DEF s
  <2>2. n \in 1 .. Len(s) /\ Len(s) \in Nat
    BY <1>2
  <2>3. CASE n <= Gap
    <3>1. n \in DOMAIN Joined /\ Joined[n] = s[n]
      BY <1>1, <2>2, <2>3
    <3>. QED
      BY <2>1, <3>1
  <2>4. CASE n > Gap
    <3>1. n + 1 \in DOMAIN Joined /\ Joined[n + 1] = s[n]
      BY <1>1, <2>2, <2>4
    <3>. QED
      BY <2>1, <3>1
  <2>. QED
    BY <1>1, <2>2, <2>3, <2>4
<1>4. CASE ~p.more_fragments
  <2>. HIDE DEF s
  <2>1. Gap + 1 \in DOMAIN Joined /\ Joined[Gap + 1] = p
    BY <1>1, <1>2
  <2>. QED
    BY <1>2, <1>4, <2>1
<1>. QED
  BY <1>3, <1>4

LEMMA EndKnownStep ==
    ASSUME OrderInv, [Next]_vars
    PROVE  EndKnown'
<1>. USE DEF OrderInv
<1>0. ipr \in [Elements -> Datagrams] /\ IInv
  BY DEF IInv, Typed
<1>1. ASSUME NEW e \in Elements, NEW d,
             ipr' = [ipr EXCEPT ![e] = d],
             d.last /\ SharesLast(d.id)
               => \E n \in DOMAIN d.p : ~d.p[n].more_fragments /\ d.p[n].end = d.datagram_len
      PROVE  EndKnown'
  <2>. SUFFICES ASSUME NEW x \in Elements, ipr'[x].last, SharesLast(ipr'[x].id)
                PROVE  \E n \in DOMAIN ipr'[x].p :
                          ~ipr'[x].p[n].more_fragments /\ ipr'[x].p[n].end = ipr'[x].datagram_len
    BY DEF EndKnown
  <2>1. CASE x = e
    <3>1. ipr'[x] = d
      BY <1>0, <1>1, <2>1
    <3>. QED
      BY <1>1, <3>1
  <2>2. CASE x # e
    <3>1. ipr'[x] = ipr[x]
      BY <1>0, <1>1, <2>2
    <3>. QED
      BY <3>1 DEF EndKnown
  <2>. QED
    BY <2>1, <2>2
<1>2. CASE UNCHANGED ipr
  BY <1>2 DEF EndKnown
<1>3. CASE MakeRoom
  <2>1. CASE Others(p.id) = {}
    BY <1>2, <1>3, <2>1 DEF MakeRoom, lists
  <2>2. CASE Others(p.id) # {}
    <3>1. ipr' = [ipr EXCEPT ![Oldest] = NoDatagram]
      BY <1>3, <2>2 DEF MakeRoom, FreeCompleteDatagram, Dequeue
    <3>2. Oldest \in Elements
      BY <1>0, <2>2, OldestIs DEF IInv
    <3>3. ~NoDatagram.last
      BY DEF NoDatagram
    <3>. QED
      BY <1>1, <3>1, <3>2, <3>3
  <2>. QED
    BY <2>1, <2>2
<1>4. CASE EnqueueNewDatagram
  <2>1. CASE memp_tab = NULL
    BY <1>2, <1>4, <2>1 DEF EnqueueNewDatagram, lists
  <2>2. CASE memp_tab # NULL
    <3>. DEFINE d == [NoDatagram EXCEPT !.id = p.id]
    <3>1. ipr' = [ipr EXCEPT ![memp_tab] = d] /\ memp_tab \in Elements
      BY <1>0, <1>4, <2>2 DEF EnqueueNewDatagram, IInv, Typed
    <3>2. ~d.last
      BY DEF NoDatagram
    <3>. HIDE DEF d
    <3>. QED
      BY <1>1, <3>1, <3>2
  <2>. QED
    BY <2>1, <2>2
<1>5. CASE Chain
  <2>1. step = "chain"
    BY <1>5 DEF Chain
  <2>2. /\ Mine \in Elements /\ p \in Fragments /\ Marked.p = ipr[Mine].p
        /\ Marked \in Datagrams /\ Marked.id = p.id /\ ipr[Mine].id = p.id
        /\ Marked.last = (ipr[Mine].last \/ ~p.more_fragments)
        /\ Marked.datagram_len = IF p.more_fragments THEN ipr[Mine].datagram_len ELSE p.end
        /\ ipr[Mine].p \in Seq(Fragments) /\ Sorted(ipr[Mine].p)
        /\ \A n \in DOMAIN ipr[Mine].p : ipr[Mine].p[n].id = p.id
    BY <1>0, <2>1, MineIs DEF Datagrams, IInv, Arranged
  <2>3. CASE ipr' = [ipr EXCEPT ![Mine] = Marked] /\ Overlaps(ipr[Mine].p, p)
    <3>1. CASE p.more_fragments
      <4>1. Marked.last => ipr[Mine].last /\ Marked.datagram_len = ipr[Mine].datagram_len
        BY <2>2, <3>1
      <4>. QED
        BY <1>1, <2>2, <2>3, <4>1 DEF EndKnown
    <3>2. CASE ~p.more_fragments
      <4>1. SharesLast(p.id)
              => \E n \in DOMAIN Marked.p : ~Marked.p[n].more_fragments /\ Marked.p[n].end = p.end
        BY <2>2, <2>3, <3>2, EndOverlapped
      <4>. QED
        BY <1>1, <2>2, <2>3, <3>2, <4>1
    <3>. QED
      BY <3>1, <3>2
  <2>4. CASE ipr' = [ipr EXCEPT ![Mine] = [Marked EXCEPT !.p = Joined]] /\ ~Overlaps(ipr[Mine].p, p)
    <3>. DEFINE d == [Marked EXCEPT !.p = Joined]
    <3>1. /\ d.p = Joined /\ d.last = Marked.last /\ d.datagram_len = Marked.datagram_len
          /\ d.id = p.id
      BY <2>2 DEF Datagrams
    <3>2. Marked.last /\ SharesLast(p.id)
            => \E n \in DOMAIN Joined : ~Joined[n].more_fragments
                                     /\ Joined[n].end = Marked.datagram_len
      BY <1>0, <2>1, <2>4, JoinedEnd
    <3>3. ipr' = [ipr EXCEPT ![Mine] = d]
      BY <2>4
    <3>. HIDE DEF d
    <3>. QED
      BY <1>1, <2>2, <3>1, <3>2, <3>3
  <2>5. CASE \E prev : Dequeue(Mine, prev)
    <3>1. ipr' = [ipr EXCEPT ![Mine] = NoDatagram] /\ ~NoDatagram.last
      BY <2>5 DEF Dequeue, NoDatagram
    <3>. QED
      BY <1>1, <2>2, <3>1
  <2>. QED
    BY <1>0, <1>5, <2>3, <2>4, <2>5, ChainIs
<1>6. CASE \E f \in Fragments : Receive(f)
  BY <1>2, <1>6 DEF Receive, lists
<1>7. CASE Find
  BY <1>2, <1>7 DEF Find, lists
<1>8. CASE UNCHANGED vars
  BY <1>2, <1>8 DEF vars, lists
<1>. QED
  BY <1>3, <1>4, <1>5, <1>6, <1>7, <1>8 DEF Next

\* The last fragment is the last of all.
LEMMA EndIsLast ==
    ASSUME NEW s \in Seq(Fragments), s # <<>>, Sorted(s), SharesLast(s[1].id),
           \A n \in DOMAIN s : s[n].id = s[1].id,
           \A n \in 2 .. Len(s) : s[n - 1].end <= s[n].start,
           NEW n \in DOMAIN s, ~s[n].more_fragments
    PROVE  Last(s).end = s[n].end
<1>. DEFINE m == Len(s)
<1>1. /\ DOMAIN s = 1 .. Len(s) /\ m \in Nat /\ m \in DOMAIN s /\ Last(s) = s[m] /\ 1 \in DOMAIN s
      /\ n \in Nat /\ n <= m /\ \A i \in DOMAIN s : s[i] \in Fragments
  BY EmptySeq DEF Last
<1>2. \A i \in DOMAIN s : s[i].start \in Nat /\ s[i].end \in Nat /\ s[i].start < s[i].end
  BY <1>1, FragmentType
<1>. HIDE DEF m
<1>3. CASE n = m
  BY <1>1, <1>3
<1>4. CASE n < m
  <2>1. n + 1 \in 2 .. Len(s) /\ n + 1 \in DOMAIN s /\ (n + 1) - 1 = n
    BY <1>1, <1>4 DEF m
  <2>2. s[n].end <= s[n + 1].start
    BY <2>1
  <2>3. s[n + 1].start <= s[m].start
    <3>1. CASE n + 1 = m
      BY <1>1, <1>2, <3>1
    <3>2. CASE n + 1 < m
      <4>1. s[n + 1].start < s[m].start
        BY <1>1, <2>1, <3>2 DEF Sorted
      <4>2. s[n + 1].start \in Nat /\ s[m].start \in Nat
        BY <1>1, <1>2, <2>1
      <4>. QED
        BY <4>1, <4>2
    <3>. QED
      BY <1>1, <1>4, <3>1, <3>2
  <2>4. ~(s[m].end <= s[n].start) /\ s[m].end # s[n].end
    <3>1. s[m].start \in Nat /\ s[m].end \in Nat /\ s[m].start < s[m].end
      BY <1>1, <1>2
    <3>2. s[n].start \in Nat /\ s[n].end \in Nat /\ s[n].start < s[n].end
      BY <1>2
    <3>3. s[n + 1].start \in Nat
      BY <1>2, <2>1
    <3>. HIDE DEF m
    <3>. DEFINE a == s[n].start
                b == s[n].end
                c == s[n + 1].start
                d == s[m].start
                e == s[m].end
    <3>4. /\ a \in Nat /\ b \in Nat /\ c \in Nat /\ d \in Nat /\ e \in Nat
          /\ a < b /\ b <= c /\ c <= d /\ d < e
      BY <2>2, <2>3, <3>1, <3>2, <3>3
    <3>5. ~(e <= a) /\ e # b
      <4>. HIDE DEF a, b, c, d, e
      <4>. QED
        BY <3>4
    <3>. QED
      BY <3>5
  <2>5. s[m].id = s[1].id /\ s[n].id = s[1].id
    BY <1>1, Zenon
  <2>6. s[m] \in Fragments /\ s[n] \in Fragments /\ s[m].id = s[n].id /\ SharesLast(s[n].id)
    BY <1>1, <2>5, Zenon
  <2>7. s[m].end <= s[n].start \/ (~s[m].more_fragments /\ s[m].end = s[n].end)
    <3>. HIDE DEF m
    <3>. QED
      BY <2>6, LastIsShared
  <2>. QED
    BY <2>4, <2>7
<1>. QED
  BY <1>1, <1>3, <1>4

LEMMA DeliveredInOrderStep ==
    ASSUME OrderInv, [Next]_vars
    PROVE  DeliveredInOrder'
<1>. USE DEF OrderInv
<1>0. IInv
  OBVIOUS
<1>1. CASE UNCHANGED delivered \/ delivered' = NULL
  BY <1>1 DEF DeliveredInOrder
<1>2. CASE /\ Chain /\ ~Overlaps(ipr[Mine].p, p) /\ Marked.last /\ Valid(Joined, Gap)
           /\ delivered' = [datagram_len |-> Marked.datagram_len, p |-> Joined]
  <2>0. step = "chain"
    BY <1>2 DEF Chain
  <2>1. /\ Joined \in Seq(Fragments) /\ Joined # <<>> /\ Sorted(Joined)
        /\ \A n \in DOMAIN Joined : Joined[n].id = p.id
    BY <1>0, <1>2, <2>0, JoinedIs
  <2>2. Joined[1].start = 0 /\ \A n \in 2 .. Len(Joined) : Joined[n - 1].end <= Joined[n].start
    BY <1>0, <1>2, <2>0, JoinedInOrder
  <2>3. DOMAIN Joined = 1 .. Len(Joined) /\ Len(Joined) \in Nat /\ 1 \in DOMAIN Joined
    BY <2>1, EmptySeq
  <2>4. \A i \in DOMAIN Joined : Joined[i].id = Joined[1].id
    BY <2>1, <2>3
  <2>5. ASSUME SharesLast(Joined[1].id) PROVE Last(Joined).end = Marked.datagram_len
    <3>1. Joined[1].id = p.id
      BY <2>1, <2>3
    <3>2. PICK n \in DOMAIN Joined : ~Joined[n].more_fragments /\ Joined[n].end = Marked.datagram_len
      BY <1>0, <1>2, <2>0, <2>5, <3>1, JoinedEnd
    <3>3. Last(Joined).end = Joined[n].end
      BY <2>1, <2>2, <2>4, <2>5, <3>2, EndIsLast
    <3>. QED
      BY <3>2, <3>3
  <2>6. \A i \in 2 .. Len(Joined) : Joined[i - 1].id = Joined[i].id
    <3>. TAKE i \in 2 .. Len(Joined)
    <3>1. i \in DOMAIN Joined /\ i - 1 \in DOMAIN Joined
      BY <2>3
    <3>. QED
      BY <2>1, <3>1
  <2>7. delivered'.p = Joined /\ delivered'.datagram_len = Marked.datagram_len
    BY <1>2
  <2>. QED
    BY <2>2, <2>5, <2>6, <2>7 DEF DeliveredInOrder
<1>3. CASE Chain
  BY <1>0, <1>1, <1>2, <1>3, ChainIs
<1>. QED
  BY <1>1, <1>3 DEF Next, vars, Receive, MakeRoom, Find, EnqueueNewDatagram

\* A datagram is delivered from its first byte on, in order, without a byte twice and
\* from its own fragments only, and up to its last byte if all ways to cut it up share
\* the last fragment (ip_reass_chain_frag_into_datagram_and_validate).
THEOREM InOrder == Spec => []DeliveredInOrder
<1>1. Init => OrderInv
  <2>1. Init => EndKnown /\ DeliveredInOrder
    BY DEF Init, EndKnown, DeliveredInOrder, NoDatagram
  <2>. QED
    BY <2>1, InitIInv DEF OrderInv
<1>2. OrderInv /\ [Next]_vars => OrderInv'
  BY StepIInv, EndKnownStep, DeliveredInOrderStep DEF OrderInv
<1>3. OrderInv => DeliveredInOrder
  BY DEF OrderInv
<1>. QED
  BY <1>1, <1>2, <1>3, PTL DEF Spec

-----------------------------------------------------------------------------
(* The lists and the count, as long as the victim is at the end.            *)

\* Each element is in one list and once, and a datagram has one element.
Lists ==
    /\ Linked(next, reassdatagrams, Queue) /\ Linked(next, memp_tab, Pool)
    /\ Range(Queue) \cap Range(Pool) = {} /\ Range(Queue) \cup Range(Pool) = Elements
    /\ \A m, n \in DOMAIN Queue : ipr[Queue[m]].id = ipr[Queue[n]].id => m = n

\* The pbufs of the datagrams in the list.
Counts == [n \in DOMAIN Queue |-> Pbufs(ipr[Queue[n]].p)]

Counted == ip_reass_pbufcount = Total(Counts)

\* While room is made: what has been freed is no longer counted, and an element that
\* has been freed is there to be taken.
Making ==
    /\ step \in {"exhausted", "enqueue"} => Own = {}
    /\ step = "overflow" => ip_reass_pbufcount + pbufs_freed <= IP_REASS_MAX_PBUFS
    /\ step = "exhausted" /\ pbufs_freed > 0 => memp_tab # NULL
    /\ step = "enqueue" => memp_tab # NULL

ListInv == IInv /\ Lists /\ Counted /\ Making

LEMMA ListsAre ==
    ASSUME NEW q, NEW r, Linked(next', reassdatagrams', q), Linked(next', memp_tab', r)
    PROVE  Queue' = q /\ Pool' = r
<1>1. From(next', reassdatagrams') = q /\ From(next', memp_tab') = r
  BY FromIs
<1>. QED
  BY <1>1 DEF Queue, Pool

LEMMA RangePush ==
    ASSUME NEW S, NEW q \in Seq(S), NEW e \in S
    PROVE  /\ Range(<<e>> \o q) = {e} \cup Range(q)
           /\ <<e>> \o q \in Seq(S) /\ DOMAIN (<<e>> \o q) = 1 .. Len(q) + 1
           /\ \A i \in 1 .. Len(q) + 1 : (<<e>> \o q)[i] = IF i = 1 THEN e ELSE q[i - 1]
<1>. DEFINE r == <<e>> \o q
<1>1. /\ r \in Seq(S) /\ Len(r) = Len(q) + 1 /\ DOMAIN r = 1 .. Len(q) + 1
      /\ \A i \in 1 .. Len(q) + 1 : r[i] = IF i = 1 THEN e ELSE q[i - 1]
      /\ Len(q) \in Nat /\ DOMAIN q = 1 .. Len(q)
  OBVIOUS
<1>. HIDE DEF r
<1>2. \A i \in DOMAIN r : r[i] = e \/ \E j \in DOMAIN q : r[i] = q[j]
  <2>. TAKE i \in DOMAIN r
  <2>1. i = 1 \/ i - 1 \in DOMAIN q
    BY <1>1
  <2>. QED
    BY <1>1, <2>1
<1>3. 1 \in DOMAIN r /\ r[1] = e /\ \A j \in DOMAIN q : j + 1 \in DOMAIN r /\ r[j + 1] = q[j]
  BY <1>1
<1>4. Range(r) = {e} \cup Range(q)
  BY <1>2, <1>3 DEF Range
<1>. QED
  BY <1>1, <1>4 DEF r

LEMMA CountsType ==
    ASSUME Typed
    PROVE  /\ Counts \in Seq(Nat) /\ Counts \in Seq(Int)
           /\ Len(Counts) = Len(Queue) /\ DOMAIN Counts = 1 .. Len(Queue)
           /\ \A n \in 1 .. Len(Queue) : Counts[n] = Pbufs(ipr[Queue[n]].p) /\ Counts[n] \in Nat
<1>1. DOMAIN Queue = 1 .. Len(Queue) /\ Len(Queue) \in Nat /\ \A n \in DOMAIN Queue : Queue[n] \in Elements
  BY QueueType
<1>2. \A n \in 1 .. Len(Queue) : Pbufs(ipr[Queue[n]].p) \in Nat
  <2>. TAKE n \in 1 .. Len(Queue)
  <2>1. ipr[Queue[n]].p \in Seq(Fragments)
    BY <1>1 DEF Typed, Datagrams
  <2>. QED
    BY <2>1, PbufsType
<1>3. Counts = [n \in 1 .. Len(Queue) |-> Pbufs(ipr[Queue[n]].p)]
  BY <1>1 DEF Counts
<1>4. Counts \in [1 .. Len(Queue) -> Nat]
  BY <1>2, <1>3
<1>5. Counts \in Seq(Nat)
  BY <1>1, <1>4, SeqDef
<1>6. \A c \in Seq(Nat) : c \in Seq(Int)
  OBVIOUS
<1>. QED
  BY <1>1, <1>2, <1>3, <1>4, <1>5, <1>6

CountsAre ==
    /\ Counts \in Seq(Int) /\ Len(Counts) = Len(Queue)
    /\ \A n \in 1 .. Len(Queue) : Counts[n] = Pbufs(ipr[Queue[n]].p)

LEMMA CountsPrimed == Typed' => CountsAre'
<1>1. Typed => CountsAre
  BY CountsType DEF CountsAre
<1>. QED
  BY <1>1, PTL

\* A datagram is taken out of its place, and its element given back.
LEMMA DequeueLists ==
    ASSUME Typed, Arranged, Lists, NEW n \in DOMAIN Queue, NEW prev, Dequeue(Queue[n], prev),
           n # 1 => prev = Queue[n - 1]
    PROVE  /\ Queue' = Without(Queue, n) /\ Lists' /\ memp_tab' = Queue[n] /\ memp_tab' # NULL
           /\ \A i \in DOMAIN Queue' : Queue'[i] # Queue[n] /\ ipr'[Queue'[i]] = ipr[Queue'[i]]
           /\ Range(Queue') = Range(Queue) \ {Queue[n]}
           /\ Total(Counts') = Total(Counts) - Freed(Queue[n])
<1>. DEFINE e == Queue[n]
            q == Queue
            w == Without(Queue, n)
            r == Pool
<1>1. /\ q \in Seq(Elements) /\ DOMAIN q = 1 .. Len(q) /\ Len(q) \in Nat /\ e \in Elements
      /\ n \in 1 .. Len(q) /\ n \in Nat
      /\ \A i \in DOMAIN q : q[i] \in Elements
  BY QueueType
<1>2. IsInjective(q) /\ \A i, j \in DOMAIN q : q[i] = q[j] => i = j
  BY DEF Lists, Linked, IsInjective
<1>3. reassdatagrams = q[1]
  BY <1>1, EmptySeq DEF Lists, Linked
<1>4. /\ next \in [Elements -> Elements \cup {NULL}] /\ ipr \in [Elements -> Datagrams]
  BY DEF Typed
<1>5. reassdatagrams = e <=> n = 1
  BY <1>1, <1>2, <1>3
<1>6. /\ memp_tab' = e /\ e # NULL
      /\ ipr' = [ipr EXCEPT ![e] = NoDatagram]
  BY <1>1, NullIs DEF Dequeue
<1>7. /\ next'[e] = memp_tab
      /\ reassdatagrams' = IF n = 1 THEN next[reassdatagrams] ELSE reassdatagrams
      /\ \A x \in Elements : x # e => next'[x] = IF n # 1 /\ x = q[n - 1] THEN next[e] ELSE next[x]
  <2>1. CASE n = 1
    <3>1. reassdatagrams' = next[e] /\ next' = [next EXCEPT ![e] = memp_tab] /\ reassdatagrams = e
      BY <1>5, <2>1 DEF Dequeue
    <3>. QED
      BY <1>1, <1>4, <2>1, <3>1
  <2>2. CASE n # 1
    <3>1. /\ reassdatagrams' = reassdatagrams
          /\ next' = [[next EXCEPT ![q[n - 1]] = next[e]] EXCEPT ![e] = memp_tab]
      BY <1>5, <2>2 DEF Dequeue
    <3>2. q[n - 1] \in Elements
      <4>1. n - 1 \in DOMAIN q
        BY <1>1, <2>2
      <4>. QED
        BY <1>1, <4>1
    <3>. HIDE DEF e, q
    <3>. QED
      BY <1>1, <1>4, <2>2, <3>1, <3>2
  <2>. QED
    BY <2>1, <2>2
<1>8. Linked(next', reassdatagrams', w)
  <2>1. \A i \in DOMAIN q : i # n => next'[q[i]] = IF i = n - 1 THEN next[q[n]] ELSE next[q[i]]
    <3>. SUFFICES ASSUME NEW i \in DOMAIN q, i # n
                  PROVE  next'[q[i]] = IF i = n - 1 THEN next[q[n]] ELSE next[q[i]]
      OBVIOUS
    <3>1. q[i] # e /\ q[i] \in Elements
      BY <1>1, <1>2
    <3>2. next'[q[i]] = IF n # 1 /\ q[i] = q[n - 1] THEN next[e] ELSE next[q[i]]
      BY <1>7, <3>1
    <3>3. n # 1 /\ q[i] = q[n - 1] <=> i = n - 1
      <4>1. n # 1 => n - 1 \in DOMAIN q
        BY <1>1
      <4>2. i \in Nat /\ i >= 1
        BY <1>1
      <4>. QED
        BY <1>1, <1>2, <4>1, <4>2
    <3>. QED
      BY <3>2, <3>3
  <2>2. Linked(next, reassdatagrams, q) /\ n \in DOMAIN q
    BY DEF Lists
  <2>3. reassdatagrams' = IF n = 1 THEN next[reassdatagrams] ELSE reassdatagrams
    BY <1>7
  <2>. HIDE DEF q, e
  <2>4. Linked(next', reassdatagrams', Without(q, n))
    BY <2>1, <2>2, <2>3, LinkedWithout
  <2>. QED
    BY <2>4 DEF q
<1>9. Linked(next', memp_tab', <<e>> \o r)
  <2>1. e \in Range(q)
    BY <1>1, Zenon DEF Range
  <2>2. e \notin Range(r) /\ \A i \in DOMAIN r : r[i] \notin Range(q) /\ r[i] \in Elements
    <3>1. \A i \in DOMAIN r : r[i] \in Range(r)
      BY Zenon DEF Range
    <3>2. Range(q) \cap Range(r) = {} /\ Range(q) \cup Range(r) = Elements
      BY DEF Lists
    <3>. QED
      BY <2>1, <3>1, <3>2
  <2>3. n # 1 => q[n - 1] \in Range(q)
    <3>1. n # 1 => n - 1 \in DOMAIN q
      BY <1>1
    <3>. QED
      BY <3>1, Zenon DEF Range
  <2>4. \A i \in DOMAIN r : next'[r[i]] = next[r[i]]
    <3>. TAKE i \in DOMAIN r
    <3>1. r[i] \in Elements /\ r[i] # e /\ ~(n # 1 /\ r[i] = q[n - 1])
      BY <2>1, <2>2, <2>3
    <3>. QED
      BY <1>7, <3>1
  <2>5. Linked(next, memp_tab, r)
    BY DEF Lists
  <2>. HIDE DEF e, r, q
  <2>6. Linked(next', e, <<e>> \o r)
    BY <1>1, <1>7, <2>2, <2>4, <2>5, LinkedPush
  <2>. QED
    BY <1>6, <2>6
<1>10. Queue' = w /\ Pool' = <<e>> \o r
  BY <1>8, <1>9, ListsAre
<1>11. /\ w \in Seq(Elements) /\ Len(w) = Len(q) - 1 /\ DOMAIN w = 1 .. Len(q) - 1
       /\ \A i \in 1 .. Len(q) - 1 : w[i] = IF i < n THEN q[i] ELSE q[i + 1]
       /\ Range(w) = Range(q) \ {e} /\ \A i \in 1 .. Len(q) - 1 : w[i] # e
  <2>. HIDE DEF q
  <2>1. IsInjective(q)
    BY <1>2
  <2>2. /\ Range(Without(q, n)) = Range(q) \ {q[n]}
        /\ \A i \in 1 .. Len(q) - 1 : Without(q, n)[i] # q[n]
    BY <1>1, <2>1, WithoutPlaces
  <2>3. /\ Without(q, n) \in Seq(Elements) /\ Len(Without(q, n)) = Len(q) - 1
        /\ DOMAIN Without(q, n) = 1 .. Len(q) - 1
        /\ \A i \in 1 .. Len(q) - 1 : Without(q, n)[i] = IF i < n THEN q[i] ELSE q[i + 1]
    BY <1>1, WithoutType
  <2>. QED
    BY <2>2, <2>3 DEF q
<1>12. Range(<<e>> \o r) = {e} \cup Range(r)
  BY <1>1, RangePush DEF Lists, Linked
<1>13. Range(Queue') \cap Range(Pool') = {} /\ Range(Queue') \cup Range(Pool') = Elements
  <2>1. Range(q) \cap Range(r) = {} /\ Range(q) \cup Range(r) = Elements
    BY DEF Lists
  <2>2. e \in Range(q)
    BY <1>1, Zenon DEF Range
  <2>. HIDE DEF e, q, r, w
  <2>. QED
    BY <1>10, <1>11, <1>12, <2>1, <2>2
<1>14. \A i \in DOMAIN w : w[i] # e /\ w[i] \in Elements /\ ipr'[w[i]] = ipr[w[i]]
  <2>. TAKE i \in DOMAIN w
  <2>1. w[i] # e /\ w[i] \in Elements
    BY <1>11
  <2>. HIDE DEF w, e
  <2>. QED
    BY <1>4, <1>6, <2>1
<1>15. \A i, j \in DOMAIN w : ipr'[w[i]].id = ipr'[w[j]].id => i = j
  <2>. SUFFICES ASSUME NEW i \in DOMAIN w, NEW j \in DOMAIN w, ipr[w[i]].id = ipr[w[j]].id
                PROVE  i = j
    BY <1>14
  <2>. DEFINE a == IF i < n THEN i ELSE i + 1
              b == IF j < n THEN j ELSE j + 1
  <2>1. a \in DOMAIN q /\ b \in DOMAIN q /\ w[i] = q[a] /\ w[j] = q[b]
    BY <1>1, <1>11
  <2>2. a = b
    BY <2>1 DEF Lists
  <2>3. i \in Nat /\ j \in Nat
    BY <1>11
  <2>. QED
    BY <1>1, <2>2, <2>3
<1>16. Lists'
  BY <1>8, <1>9, <1>10, <1>13, <1>15 DEF Lists
<1>17. Counts' = Without(Counts, n)
  <2>1. Len(Counts) = Len(q) /\ \A i \in 1 .. Len(q) : Counts[i] = Pbufs(ipr[q[i]].p)
    BY CountsType
  <2>2. Counts' = [i \in 1 .. Len(q) - 1 |-> Pbufs(ipr'[w[i]].p)]
    BY <1>10, <1>11 DEF Counts
  <2>3. \A i \in 1 .. Len(q) - 1 : Pbufs(ipr'[w[i]].p) = IF i < n THEN Counts[i] ELSE Counts[i + 1]
    <3>. TAKE i \in 1 .. Len(q) - 1
    <3>1. ipr'[w[i]] = ipr[w[i]]
      BY <1>11, <1>14
    <3>2. i \in 1 .. Len(q) /\ i + 1 \in 1 .. Len(q)
      BY <1>1
    <3>. QED
      BY <1>11, <2>1, <3>1, <3>2
  <2>. QED
    BY <2>1, <2>2, <2>3 DEF Without
<1>18. Total(Counts') = Total(Counts) - Freed(e)
  <2>1. Counts \in Seq(Int) /\ Len(Counts) = Len(q) /\ Counts[n] = Freed(e) /\ Counts[n] \in Nat
    BY <1>1, CountsType DEF Freed
  <2>2. Total(Counts) = Total(Without(Counts, n)) + Counts[n]
    BY <1>1, <2>1, TotalWithout
  <2>3. Total(Without(Counts, n)) \in Int
    <3>1. Without(Counts, n) \in Seq(Int)
      BY <1>1, <2>1, WithoutType
    <3>. QED
      BY <3>1, SumsFacts
  <2>. QED
    BY <1>17, <2>1, <2>2, <2>3
<1>. QED
  BY <1>6, <1>10, <1>11, <1>14, <1>16, <1>18

LEMMA InitLists == Init => Lists /\ Counted /\ Making
<1>. SUFFICES ASSUME Init PROVE Lists /\ Counted /\ Making
  OBVIOUS
<1>. DEFINE N == MEMP_NUM_REASSDATA
            r == [i \in 1 .. N |-> N + 1 - i]
<1>1. N \in Nat \ {0} /\ NULL \notin Elements /\ Elements = 1 .. N
  BY ReassemblyAssumption, NullIs DEF Elements
<1>2. /\ next = [e \in Elements |-> IF e = 1 THEN NULL ELSE e - 1]
      /\ reassdatagrams = NULL /\ memp_tab = N /\ ip_reass_pbufcount = 0 /\ step = "receive"
  BY DEF Init
<1>. HIDE DEF N
<1>3. /\ r \in Seq(Elements) /\ Len(r) = N /\ DOMAIN r = 1 .. N /\ r # <<>>
      /\ \A i \in 1 .. N : r[i] = N + 1 - i
  <2>1. r \in [1 .. N -> Elements] /\ N \in Nat
    BY <1>1
  <2>2. r \in Seq(Elements) /\ Len(r) = N
    BY <2>1, SeqDef
  <2>. QED
    BY <1>1, <2>2, EmptySeq
<1>. HIDE DEF r
<1>4. Linked(next, memp_tab, r)
  <2>1. IsInjective(r)
    BY <1>1, <1>3 DEF IsInjective
  <2>2. memp_tab = r[1]
    BY <1>1, <1>2, <1>3
  <2>3. ASSUME NEW i \in DOMAIN r
        PROVE  next[r[i]] = IF i < Len(r) THEN r[i + 1] ELSE NULL
    <3>1. i \in 1 .. N /\ r[i] \in Elements /\ r[i] = N + 1 - i
      <4>1. i \in 1 .. N
        BY <1>3
      <4>2. N + 1 - i \in 1 .. N
        BY <1>1, <4>1
      <4>. QED
        BY <1>1, <1>3, <4>1, <4>2
    <3>2. next[r[i]] = IF r[i] = 1 THEN NULL ELSE r[i] - 1
      BY <1>2, <3>1
    <3>3. CASE i < N
      <4>1. i \in Nat /\ i + 1 \in 1 .. N /\ N + 1 - i # 1 /\ N + 1 - (i + 1) = (N + 1 - i) - 1
        BY <1>1, <3>1, <3>3
      <4>2. r[i + 1] = N + 1 - (i + 1)
        BY <1>3, <4>1
      <4>. QED
        BY <1>3, <3>1, <3>2, <3>3, <4>1, <4>2
    <3>4. CASE ~(i < N)
      <4>1. N + 1 - i = 1
        BY <1>1, <3>1, <3>4
      <4>. QED
        BY <1>3, <3>1, <3>2, <3>4, <4>1
    <3>. QED
      BY <3>3, <3>4
  <2>. QED
    BY <1>3, <2>1, <2>2, <2>3 DEF Linked
<1>5. Linked(next, reassdatagrams, <<>>)
  BY <1>2 DEF Linked, IsInjective
<1>6. Pool = r /\ Queue = <<>>
  BY <1>4, <1>5, FromIs DEF Pool, Queue
<1>7. Range(Queue) = {} /\ DOMAIN Queue = {}
  BY <1>6 DEF Range
<1>8. Range(Pool) = Elements
  <2>1. \A x \in Elements : N + 1 - x \in DOMAIN r /\ r[N + 1 - x] = x
    BY <1>1, <1>3
  <2>2. \A i \in DOMAIN r : r[i] \in Elements
    BY <1>3
  <2>. QED
    BY <1>6, <2>1, <2>2 DEF Range
<1>9. Total(Counts) = 0
  <2>1. Counts \in Seq(Nat) /\ Len(Counts) = 0
    BY <1>6, InitIInv, CountsType DEF IInv
  <2>2. Counts = <<>>
    BY <2>1, EmptySeq
  <2>. QED
    BY <2>1, <2>2, TotalNat
<1>. QED
  BY <1>2, <1>4, <1>5, <1>6, <1>7, <1>8, <1>9 DEF Lists, Counted, Making

\* Nothing that the lists depend on has changed.
LEMMA ListsSame ==
    ASSUME Lists, Counted, UNCHANGED <<next, reassdatagrams, memp_tab, ipr, ip_reass_pbufcount>>
    PROVE  Lists' /\ Counted' /\ Queue' = Queue /\ Pool' = Pool /\ Counts' = Counts
<1>1. Queue' = Queue /\ Pool' = Pool
  BY DEF Queue, Pool
<1>2. Counts' = Counts
  BY <1>1 DEF Counts
<1>. QED
  BY <1>1, <1>2 DEF Lists, Counted

LEMMA ReceiveLists ==
    ASSUME ListInv, NEW f \in Fragments, Receive(f)
    PROVE  (Lists /\ Counted /\ Making)'
<1>1. /\ pbufs_freed' = 0 /\ step' \in {"overflow", "find"}
      /\ UNCHANGED <<next, reassdatagrams, memp_tab, ipr, ip_reass_pbufcount>>
  BY DEF Receive, lists
<1>2. Lists' /\ Counted'
  BY <1>1, ListsSame DEF ListInv
<1>3. ip_reass_pbufcount \in Int /\ ip_reass_pbufcount <= IP_REASS_MAX_PBUFS
  BY DEF ListInv, IInv, Typed, Limited
<1>. QED
  BY <1>1, <1>2, <1>3 DEF Making

LEMMA FindLists ==
    ASSUME ListInv, Find
    PROVE  (Lists /\ Counted /\ Making)'
<1>1. /\ pbufs_freed' = 0 /\ p' = p
      /\ step' = IF Own # {} THEN "chain" ELSE IF memp_tab = NULL THEN "exhausted" ELSE "enqueue"
      /\ UNCHANGED <<next, reassdatagrams, memp_tab, ipr, ip_reass_pbufcount>>
  BY DEF Find, lists
<1>2. Lists' /\ Counted' /\ Queue' = Queue
  BY <1>1, ListsSame DEF ListInv
<1>3. Own' = Own
  BY <1>1, <1>2 DEF Own
<1>. QED
  BY <1>1, <1>2, <1>3 DEF Making

\* The predecessor of the victim is where the search takes it to be.
LEMMA VictimIs ==
    ASSUME ListInv, SafeVictim, step \in {"overflow", "exhausted"}, Others(p.id) # {}
    PROVE  /\ Max(Others(p.id)) \in DOMAIN Queue
           /\ Max(Others(p.id)) # 1 => Prev = Queue[Max(Others(p.id)) - 1]
<1>. DEFINE m == Max(Others(p.id))
<1>1. DOMAIN Queue = 1 .. Len(Queue) /\ Len(Queue) \in Nat
  BY QueueType DEF ListInv, IInv
<1>2. m \in DOMAIN Queue /\ \A n \in DOMAIN Queue : n > m => ipr[Queue[n]].id = p.id
  BY OldestIs DEF ListInv, IInv
<1>. HIDE DEF m
<1>3. m # 1 => m = Len(Queue)
  <2>. SUFFICES ASSUME m # 1, m # Len(Queue) PROVE FALSE
    OBVIOUS
  <2>1. Len(Queue) > 2 /\ Len(Queue) \in DOMAIN Queue /\ Len(Queue) > m
    BY <1>1, <1>2
  <2>2. ipr[Queue[Len(Queue)]].id = p.id
    BY <1>2, <2>1
  <2>3. Own # {}
    BY <2>1, <2>2 DEF Own
  <2>. QED
    BY <2>1, <2>2, <2>3 DEF SafeVictim, ListInv, Making
<1>4. m # 1 => Prev = Queue[m - 1]
  BY <1>1, <1>2, <1>3 DEF Prev
<1>. QED
  BY <1>2, <1>4 DEF m

LEMMA MakeRoomLists ==
    ASSUME ListInv, SafeVictim, MakeRoom
    PROVE  (Lists /\ Counted /\ Making)'
<1>1. /\ step \in {"overflow", "exhausted"} /\ p \in Fragments
      /\ ip_reass_pbufcount \in Int /\ pbufs_freed \in Nat /\ Typed /\ Arranged
  BY DEF MakeRoom, ListInv, IInv, Typed
<1>2. /\ Lists' /\ Counted' /\ ip_reass_pbufcount' + pbufs_freed' = ip_reass_pbufcount + pbufs_freed
      /\ (pbufs_freed' > 0 /\ pbufs_freed' # pbufs_freed) => memp_tab' # NULL
      /\ pbufs_freed' = pbufs_freed => memp_tab' = memp_tab \/ memp_tab' # NULL
      /\ \A i \in DOMAIN Queue' : \E j \in DOMAIN Queue : ipr'[Queue'[i]].id = ipr[Queue[j]].id
  <2>1. CASE Others(p.id) = {}
    <3>1. UNCHANGED <<next, reassdatagrams, memp_tab, ipr, ip_reass_pbufcount, pbufs_freed>>
      BY <2>1 DEF MakeRoom, lists
    <3>. QED
      BY <3>1, ListsSame DEF ListInv
  <2>2. CASE Others(p.id) # {}
    <3>. DEFINE m == Max(Others(p.id))
    <3>1. /\ m \in DOMAIN Queue /\ Oldest = Queue[m] /\ (m # 1 => Prev = Queue[m - 1])
          /\ Freed(Oldest) \in Nat
      BY <1>1, <2>2, OldestIs, VictimIs
    <3>2. /\ Dequeue(Oldest, Prev)
          /\ ip_reass_pbufcount' = ip_reass_pbufcount - Freed(Oldest)
          /\ pbufs_freed' = pbufs_freed + Freed(Oldest)
      BY <2>2 DEF MakeRoom, FreeCompleteDatagram
    <3>. HIDE DEF m
    <3>3. /\ Queue' = Without(Queue, m) /\ Lists' /\ memp_tab' # NULL
          /\ \A i \in DOMAIN Queue' : Queue'[i] # Queue[m] /\ ipr'[Queue'[i]] = ipr[Queue'[i]]
          /\ Range(Queue') = Range(Queue) \ {Queue[m]}
          /\ Total(Counts') = Total(Counts) - Freed(Queue[m])
      BY <1>1, <3>1, <3>2, DequeueLists DEF ListInv
    <3>4. Counted'
      BY <3>1, <3>2, <3>3 DEF Counted, ListInv
    <3>5. \A i \in DOMAIN Queue' : \E j \in DOMAIN Queue : ipr'[Queue'[i]].id = ipr[Queue[j]].id
      <4>. TAKE i \in DOMAIN Queue'
      <4>1. Queue'[i] \in Range(Queue)
        <5>1. Queue'[i] \in Range(Queue')
          BY Zenon DEF Range
        <5>. QED
          BY <3>3, <5>1
      <4>2. PICK j \in DOMAIN Queue : Queue'[i] = Queue[j]
        BY <4>1, Zenon DEF Range
      <4>. QED
        BY <3>3, <4>2
    <3>6. ip_reass_pbufcount' + pbufs_freed' = ip_reass_pbufcount + pbufs_freed
      BY <1>1, <3>1, <3>2
    <3>. QED
      BY <3>3, <3>4, <3>5, <3>6
  <2>. QED
    BY <2>1, <2>2
<1>3. \/ step' = step /\ p' = p
      \/ step = "overflow" /\ step' = "find"
      \/ step = "exhausted" /\ step' = "enqueue" /\ p' = p /\ pbufs_freed' >= p.clen
      \/ step' = "receive"
  BY <1>1 DEF MakeRoom, Drop
<1>4. step = "exhausted" /\ p' = p => Own' = {}
  <2>. SUFFICES ASSUME step = "exhausted", p' = p, NEW i \in Own' PROVE FALSE
    OBVIOUS
  <2>1. i \in DOMAIN Queue' /\ ipr'[Queue'[i]].id = p.id
    BY DEF Own
  <2>2. PICK j \in DOMAIN Queue : ipr[Queue[j]].id = p.id
    BY <1>2, <2>1
  <2>3. j \in Own
    BY <2>2 DEF Own
  <2>. QED
    BY <2>3 DEF ListInv, Making
<1>5. step = "exhausted" /\ pbufs_freed' > 0 => memp_tab' # NULL
  BY <1>1, <1>2 DEF ListInv, Making
<1>6. p.clen \in Nat \ {0}
  BY <1>1, FragmentType
<1>7. ip_reass_pbufcount' \in Int /\ pbufs_freed' \in Nat
  BY StepIInv DEF ListInv, Next, IInv, Typed
<1>8. step = "overflow" => ip_reass_pbufcount' + pbufs_freed' <= IP_REASS_MAX_PBUFS
  BY <1>2 DEF ListInv, Making
<1>9. Making'
  <2>1. CASE step' = step /\ p' = p
    BY <1>1, <1>4, <1>5, <1>8, <2>1 DEF Making
  <2>2. CASE step = "overflow" /\ step' = "find"
    BY <2>2 DEF Making
  <2>3. CASE step = "exhausted" /\ step' = "enqueue" /\ p' = p /\ pbufs_freed' >= p.clen
    <3>1. pbufs_freed' > 0
      BY <1>6, <1>7, <2>3
    <3>. QED
      BY <1>4, <1>5, <2>3, <3>1 DEF Making
  <2>4. CASE step' = "receive"
    BY <2>4 DEF Making
  <2>. QED
    BY <1>3, <2>1, <2>2, <2>3, <2>4
<1>. QED
  BY <1>2, <1>9

\* A new datagram at the head of the list.
LEMMA EnqueueIs ==
    ASSUME ListInv, EnqueueNewDatagram
    PROVE  /\ (Lists /\ Counted /\ Making)'
           /\ memp_tab \in Elements /\ Queue' = <<memp_tab>> \o Queue /\ step' = "chain" /\ p' = p
           /\ ipr'[memp_tab] = [NoDatagram EXCEPT !.id = p.id]
           /\ \A n \in DOMAIN Queue : Queue[n] # memp_tab /\ ipr'[Queue[n]] = ipr[Queue[n]]
<1>. DEFINE e == memp_tab
            d == [NoDatagram EXCEPT !.id = p.id]
            q == Queue
            r == Pool
<1>1. /\ e # NULL /\ Own = {} /\ Typed /\ Arranged /\ Linked(next, e, r) /\ Linked(next, reassdatagrams, q)
      /\ Range(q) \cap Range(r) = {} /\ Range(q) \cup Range(r) = Elements
  BY DEF EnqueueNewDatagram, ListInv, Making, IInv, Lists
<1>2. /\ memp_tab' = next[e] /\ next' = [next EXCEPT ![e] = reassdatagrams]
      /\ reassdatagrams' = e /\ ipr' = [ipr EXCEPT ![e] = d]
      /\ step' = "chain" /\ p' = p /\ UNCHANGED ip_reass_pbufcount
  BY <1>1 DEF EnqueueNewDatagram
<1>3. e \in Elements /\ next \in [Elements -> Elements \cup {NULL}] /\ ipr \in [Elements -> Datagrams]
  BY <1>1 DEF Typed
<1>4. q \in Seq(Elements) /\ DOMAIN q = 1 .. Len(q) /\ Len(q) \in Nat /\ r \in Seq(Elements)
  BY <1>1 DEF Linked
<1>5. 1 \in DOMAIN r /\ r[1] = e
  BY <1>1, <1>4, EmptySeq DEF Linked
<1>6. e \in Range(r) /\ e \notin Range(q) /\ \A i \in DOMAIN q : q[i] # e /\ q[i] \in Elements
  <2>1. e \in Range(r) /\ \A i \in DOMAIN q : q[i] \in Range(q)
    BY <1>5, Zenon DEF Range
  <2>. QED
    BY <1>1, <2>1
<1>7. d.id = p.id /\ d.p = <<>>
  BY DEF NoDatagram
<1>. HIDE DEF e, d, q, r
<1>8. Linked(next', reassdatagrams', <<e>> \o q)
  <2>1. \A i \in DOMAIN q : next'[q[i]] = next[q[i]]
    BY <1>2, <1>3, <1>6
  <2>2. next'[e] = reassdatagrams
    BY <1>2, <1>3
  <2>3. Linked(next', e, <<e>> \o q)
    BY <1>1, <1>3, <1>6, <2>1, <2>2, LinkedPush
  <2>. QED
    BY <1>2, <2>3
<1>9. Linked(next', memp_tab', Without(r, 1))
  <2>1. \A i \in DOMAIN r : i # 1 => r[i] # e /\ r[i] \in Elements
    BY <1>1, <1>4, <1>5 DEF Linked, IsInjective
  <2>2. \A i \in DOMAIN r : i # 1 => next'[r[i]] = next[r[i]] /\ i # 1 - 1
    BY <1>2, <1>3, <1>4, <2>1
  <2>3. \A i \in DOMAIN r : i # 1 => next'[r[i]] = IF i = 1 - 1 THEN next[r[1]] ELSE next[r[i]]
    BY <2>2
  <2>4. memp_tab' = IF 1 = 1 THEN next[e] ELSE e
    BY <1>2
  <2>. QED
    BY <1>1, <1>5, <2>3, <2>4, LinkedWithout
<1>10. Queue' = <<e>> \o q /\ Pool' = Without(r, 1)
  BY <1>8, <1>9, ListsAre
<1>11. /\ Range(<<e>> \o q) = {e} \cup Range(q) /\ DOMAIN (<<e>> \o q) = 1 .. Len(q) + 1
       /\ \A i \in 1 .. Len(q) + 1 : (<<e>> \o q)[i] = IF i = 1 THEN e ELSE q[i - 1]
  BY <1>3, <1>4, RangePush
<1>12. Range(Without(r, 1)) = Range(r) \ {e}
  <2>1. IsInjective(r) /\ 1 \in 1 .. Len(r)
    BY <1>1, <1>4, <1>5 DEF Linked
  <2>2. Range(Without(r, 1)) = Range(r) \ {r[1]}
    BY <1>4, <2>1, WithoutPlaces
  <2>. QED
    BY <1>5, <2>2
<1>13. /\ ipr'[e] = d
       /\ \A i \in DOMAIN q : ipr'[q[i]] = ipr[q[i]] /\ ipr[q[i]].id # p.id
  <2>1. \A i \in DOMAIN q : ipr[q[i]].id # p.id
    BY <1>1 DEF Own, q
  <2>. QED
    BY <1>2, <1>3, <1>6, <2>1
<1>14. Lists'
  <2>1. Range(Queue') \cap Range(Pool') = {} /\ Range(Queue') \cup Range(Pool') = Elements
    BY <1>1, <1>6, <1>10, <1>11, <1>12
  <2>2. ASSUME NEW i \in DOMAIN Queue', NEW j \in DOMAIN Queue',
               ipr'[Queue'[i]].id = ipr'[Queue'[j]].id
        PROVE  i = j
    <3>. DEFINE w == <<e>> \o q
    <3>0. Queue' = w /\ i \in 1 .. Len(q) + 1 /\ j \in 1 .. Len(q) + 1
      BY <1>10, <1>11
    <3>1. /\ w[i] = IF i = 1 THEN e ELSE q[i - 1]
          /\ w[j] = IF j = 1 THEN e ELSE q[j - 1]
          /\ (i # 1 => i - 1 \in DOMAIN q) /\ (j # 1 => j - 1 \in DOMAIN q)
          /\ i \in Nat /\ j \in Nat
      BY <1>4, <1>11, <3>0
    <3>. HIDE DEF w
    <3>2. CASE i = 1 \/ j = 1
      BY <1>7, <1>13, <2>2, <3>0, <3>1, <3>2
    <3>3. CASE i # 1 /\ j # 1
      <4>1. ipr[q[i - 1]].id = ipr[q[j - 1]].id
        BY <1>13, <2>2, <3>0, <3>1, <3>3
      <4>2. i - 1 = j - 1
        BY <3>1, <3>3, <4>1 DEF ListInv, Lists, q
      <4>. QED
        BY <3>1, <4>2
    <3>. QED
      BY <3>2, <3>3
  <2>. QED
    BY <1>8, <1>9, <1>10, <2>1, <2>2 DEF Lists
<1>15. Counted'
  <2>1. Typed'
    BY EnqueueStep DEF ListInv, IInv
  <2>2. /\ Counts' \in Seq(Int) /\ Len(Counts') = Len(Queue')
        /\ \A n \in 1 .. Len(Queue') : Counts'[n] = Pbufs(ipr'[Queue'[n]].p)
    BY <2>1, CountsPrimed DEF CountsAre
  <2>3. /\ Counts \in Seq(Int) /\ Len(Counts) = Len(q) /\ DOMAIN Counts = 1 .. Len(q)
        /\ \A n \in 1 .. Len(q) : Counts[n] = Pbufs(ipr[q[n]].p)
    BY <1>1, CountsType DEF q
  <2>4. Len(Queue') = Len(q) + 1 /\ 1 \in 1 .. Len(Queue')
    BY <1>3, <1>4, <1>10
  <2>5. Counts'[1] = 0
    <3>1. Pbufs(<<>>) = 0
      <4>1. <<>> \in Seq(Fragments)
        OBVIOUS
      <4>. QED
        BY <4>1, PbufsType
    <3>2. Queue'[1] = e
      BY <1>10, <1>11, <2>4
    <3>. QED
      BY <1>7, <1>13, <2>2, <2>4, <3>1, <3>2
  <2>6. Without(Counts', 1) = Counts
    <3>1. \A i \in 1 .. Len(q) : (IF i < 1 THEN Counts'[i] ELSE Counts'[i + 1]) = Counts[i]
      <4>. TAKE i \in 1 .. Len(q)
      <4>1. ~(i < 1) /\ i + 1 \in 1 .. Len(Queue') /\ i + 1 # 1 /\ (i + 1) - 1 = i /\ i \in DOMAIN q
        BY <1>4, <2>4
      <4>2. Queue'[i + 1] = q[i]
        BY <1>10, <1>11, <2>4, <4>1
      <4>. QED
        BY <1>13, <2>2, <2>3, <4>1, <4>2
    <3>2. Len(Counts') - 1 = Len(q)
      BY <1>4, <2>2, <2>4
    <3>3. Without(Counts', 1) = [i \in 1 .. Len(q) |-> IF i < 1 THEN Counts'[i] ELSE Counts'[i + 1]]
      BY <3>2, Zenon DEF Without
    <3>4. Counts = [i \in 1 .. Len(q) |-> Counts[i]]
      BY <2>3
    <3>. QED
      BY <3>1, <3>3, <3>4
  <2>7. Total(Counts') = Total(Counts)
    <3>1. Total(Counts') = Total(Without(Counts', 1)) + Counts'[1]
      BY <2>2, <2>4, TotalWithout
    <3>2. Total(Counts) \in Int
      BY <2>3, SumsFacts
    <3>. QED
      BY <2>5, <2>6, <3>1, <3>2
  <2>. QED
    BY <1>2, <2>7 DEF Counted, ListInv
<1>16. Making'
  BY <1>2 DEF Making
<1>. QED
  BY <1>2, <1>3, <1>6, <1>10, <1>13, <1>14, <1>15, <1>16 DEF e, d, q

\* One datagram of the list is written, but for its id.
LEMMA ReplaceLists ==
    ASSUME Typed, Typed', Lists, NEW n \in DOMAIN Queue, NEW d,
           ipr' = [ipr EXCEPT ![Queue[n]] = d], d.id = ipr[Queue[n]].id,
           UNCHANGED <<next, reassdatagrams, memp_tab>>
    PROVE  /\ Lists' /\ Queue' = Queue
           /\ ipr'[Queue[n]] = d /\ \A i \in DOMAIN Queue : i # n => ipr'[Queue[i]] = ipr[Queue[i]]
           /\ Total(Counts') = Total(Counts) - Freed(Queue[n]) + Pbufs(d.p)
<1>1. Queue' = Queue /\ Pool' = Pool
  BY DEF Queue, Pool
<1>2. /\ DOMAIN Queue = 1 .. Len(Queue) /\ Len(Queue) \in Nat /\ \A i \in DOMAIN Queue : Queue[i] \in Elements
      /\ ipr \in [Elements -> Datagrams]
  BY QueueType DEF Typed
<1>3. \A i \in DOMAIN Queue : i # n => Queue[i] # Queue[n]
  BY DEF Lists, Linked, IsInjective
<1>4. ipr'[Queue[n]] = d /\ \A i \in DOMAIN Queue : i # n => ipr'[Queue[i]] = ipr[Queue[i]]
  BY <1>2, <1>3
<1>5. \A i \in DOMAIN Queue : ipr'[Queue[i]].id = ipr[Queue[i]].id
  BY <1>4
<1>6. Lists'
  BY <1>1, <1>5 DEF Lists
<1>7. /\ Counts' \in Seq(Int) /\ Len(Counts') = Len(Queue)
      /\ \A i \in 1 .. Len(Queue) : Counts'[i] = Pbufs(ipr'[Queue[i]].p)
  BY <1>1, CountsPrimed DEF CountsAre
<1>8. /\ Counts \in Seq(Int) /\ Len(Counts) = Len(Queue)
      /\ \A i \in 1 .. Len(Queue) : Counts[i] = Pbufs(ipr[Queue[i]].p)
  BY CountsType
<1>9. Total(Counts') = Total(Counts) - Counts[n] + Counts'[n]
  <2>1. n \in 1 .. Len(Counts)
    BY <1>2, <1>8
  <2>2. ASSUME NEW i \in 1 .. Len(Counts), i # n PROVE Counts[i] = Counts'[i]
    <3>1. i \in DOMAIN Queue /\ i \in 1 .. Len(Queue)
      BY <1>2, <1>8
    <3>2. Counts[i] = Pbufs(ipr[Queue[i]].p) /\ Counts'[i] = Pbufs(ipr'[Queue[i]].p)
      BY <1>7, <1>8, <3>1
    <3>3. ipr'[Queue[i]] = ipr[Queue[i]]
      BY <1>4, <2>2, <3>1
    <3>. QED
      BY <3>2, <3>3
  <2>. QED
    BY <1>7, <1>8, <2>1, <2>2, TotalUpdate
<1>10. Counts[n] = Freed(Queue[n]) /\ Counts'[n] = Pbufs(d.p)
  BY <1>2, <1>4, <1>7, <1>8 DEF Freed
<1>. QED
  BY <1>1, <1>4, <1>6, <1>9, <1>10

LEMMA ChainLists ==
    ASSUME ListInv, Chain
    PROVE  /\ (Lists /\ Counted /\ Making)'
           /\ Own = {Place}
<1>1. /\ IInv /\ Lists /\ Counted /\ Typed /\ Arranged
      /\ step = "chain" /\ step' = "receive" /\ ip_reass_pbufcount \in Int
      /\ ip_reass_pbufcount = Total(Counts)
  BY ChainIs DEF ListInv, IInv, Typed, Counted
<1>2. /\ Place \in DOMAIN Queue /\ Place \in Own /\ Mine \in Elements /\ p \in Fragments
      /\ Marked.id = ipr[Mine].id /\ Marked.p = ipr[Mine].p
      /\ Mine = Queue[Place] /\ ipr[Mine].id = p.id /\ ipr[Mine].p \in Seq(Fragments)
      /\ Marked \in Datagrams /\ DOMAIN Queue = 1 .. Len(Queue)
  BY <1>1, MineIs, QueueType DEF Mine, Datagrams
<1>3. Own = {Place}
  <2>1. \A n \in Own : n = Place
    BY <1>1, <1>2 DEF Own, Lists
  <2>. QED
    BY <1>2, <2>1
<1>4. Typed'
  BY <1>1, ChainStep DEF ListInv, IInv
<1>5. Making'
  BY <1>1 DEF Making
<1>6. Freed(Mine) = Pbufs(ipr[Mine].p) /\ Freed(Mine) \in Nat
  BY <1>2, PbufsType DEF Freed
<1>7. Total(Counts) \in Int
  BY <1>1, CountsType, SumsFacts
<1>8. CASE /\ ipr' = [ipr EXCEPT ![Mine] = Marked] /\ ip_reass_pbufcount' = ip_reass_pbufcount
           /\ UNCHANGED <<next, reassdatagrams, memp_tab>>
  <2>1. Lists' /\ Total(Counts') = Total(Counts) - Freed(Mine) + Pbufs(Marked.p)
    BY <1>1, <1>2, <1>4, <1>8, ReplaceLists
  <2>. QED
    BY <1>1, <1>2, <1>3, <1>5, <1>6, <1>7, <1>8, <2>1 DEF Counted
<1>9. CASE /\ ipr' = [ipr EXCEPT ![Mine] = [Marked EXCEPT !.p = Joined]]
           /\ ~Overlaps(ipr[Mine].p, p)
           /\ ip_reass_pbufcount' = ip_reass_pbufcount + p.clen
           /\ UNCHANGED <<next, reassdatagrams, memp_tab>>
  <2>. DEFINE d == [Marked EXCEPT !.p = Joined]
  <2>1. d.id = ipr[Mine].id /\ d.p = Joined /\ ipr' = [ipr EXCEPT ![Mine] = d]
    BY <1>2, <1>9 DEF Datagrams
  <2>. HIDE DEF d
  <2>2. Lists' /\ Total(Counts') = Total(Counts) - Freed(Mine) + Pbufs(Joined)
    BY <1>1, <1>2, <1>4, <1>9, <2>1, ReplaceLists
  <2>3. Pbufs(Joined) = Freed(Mine) + p.clen /\ p.clen \in Nat
    BY <1>1, <1>6, <1>9, JoinedIs
  <2>. QED
    BY <1>1, <1>3, <1>5, <1>6, <1>7, <1>9, <2>2, <2>3 DEF Counted
<1>10. CASE /\ ~Overlaps(ipr[Mine].p, p)
            /\ Dequeue(Mine, IF Place = 1 THEN NULL ELSE Queue[Place - 1])
            /\ ip_reass_pbufcount' = ip_reass_pbufcount + p.clen - Pbufs(Joined)
  <2>1. Lists' /\ Total(Counts') = Total(Counts) - Freed(Mine)
    <3>. DEFINE prev == IF Place = 1 THEN NULL ELSE Queue[Place - 1]
    <3>1. Dequeue(Queue[Place], prev) /\ (Place # 1 => prev = Queue[Place - 1])
      BY <1>2, <1>10
    <3>. HIDE DEF prev
    <3>. QED
      BY <1>1, <1>2, <3>1, DequeueLists
  <2>2. Pbufs(Joined) = Freed(Mine) + p.clen /\ p.clen \in Nat
    BY <1>1, <1>6, <1>10, JoinedIs
  <2>. QED
    BY <1>1, <1>3, <1>5, <1>6, <1>7, <1>10, <2>1, <2>2 DEF Counted
<1>. QED
  BY <1>1, <1>8, <1>9, <1>10, ChainIs

LEMMA InitListInv == Init => ListInv
  BY InitIInv, InitLists DEF ListInv

LEMMA StepListInv == ListInv /\ SafeVictim /\ [Next]_vars => ListInv'
<1>. SUFFICES ASSUME ListInv, SafeVictim, [Next]_vars PROVE ListInv'
  OBVIOUS
<1>1. IInv'
  BY StepIInv DEF ListInv
<1>2. CASE UNCHANGED vars
  <2>1. Lists' /\ Counted' /\ Queue' = Queue
    BY <1>2, ListsSame DEF vars, lists, ListInv
  <2>2. Making'
    BY <1>2, <2>1 DEF vars, lists, Making, Own, ListInv
  <2>. QED
    BY <1>1, <2>1, <2>2 DEF ListInv
<1>3. CASE \E f \in Fragments : Receive(f)
  BY <1>1, <1>3, ReceiveLists DEF ListInv
<1>4. CASE MakeRoom
  BY <1>1, <1>4, MakeRoomLists DEF ListInv
<1>5. CASE Find
  BY <1>1, <1>5, FindLists DEF ListInv
<1>6. CASE EnqueueNewDatagram
  BY <1>1, <1>6, EnqueueIs DEF ListInv
<1>7. CASE Chain
  BY <1>1, <1>7, ChainLists DEF ListInv
<1>. QED
  BY <1>2, <1>3, <1>4, <1>5, <1>6, <1>7 DEF Next

\* As long as the victim of each overflow is at the end of the list, each element is
\* in one place, and the count is right (ip_reass_remove_oldest_datagram).
THEOREM ListsInvariant == Spec /\ []SafeVictim => []ListInv
  BY InitListInv, StepListInv, PTL DEF Spec

\* Under the same condition no element is lost or in two places, and no datagram has
\* two elements.
THEOREM ListsSafe == Spec /\ []SafeVictim => []ListsExact
<1>1. ListInv /\ TypeOK => ListsExact
  BY DEF ListInv, Lists, Linked, ListsExact
<1>. QED
  BY <1>1, ListsInvariant, TypeCorrect, PTL

\* Under the same condition the count is that of the pbufs queued.
THEOREM CountRight == Spec /\ []SafeVictim => []CountExact
<1>1. ListInv => CountExact
  BY DEF ListInv, Counted, Counts, CountExact, IInv, Limited
<1>. QED
  BY <1>1, ListsInvariant, PTL

-----------------------------------------------------------------------------
(* Who is displaced, and who is refused.                                   *)

\* A turn of the loop that makes room takes one of the others away, if there is one,
\* and leaves the rest.
LEMMA MakeRoomIs ==
    ASSUME ListInv, SafeVictim, MakeRoom
    PROVE  \/ /\ Others(p.id) = {} /\ Queue' = Queue
              /\ UNCHANGED <<ipr, ip_reass_pbufcount, pbufs_freed>>
           \/ \E m \in Others(p.id) :
                 /\ Oldest = Queue[m] /\ Freed(Oldest) \in Nat
                 /\ Range(Queue') = Range(Queue) \ {Queue[m]} /\ Len(Queue') = Len(Queue) - 1
                 /\ \A i \in DOMAIN Queue' : ipr'[Queue'[i]] = ipr[Queue'[i]] /\ Queue'[i] # Queue[m]
                 /\ ip_reass_pbufcount' = ip_reass_pbufcount - Freed(Oldest)
                 /\ pbufs_freed' = pbufs_freed + Freed(Oldest)
<1>1. Typed /\ Arranged /\ Lists /\ step \in {"overflow", "exhausted"}
  BY DEF ListInv, IInv, MakeRoom
<1>2. CASE Others(p.id) = {}
  BY <1>2 DEF MakeRoom, lists, Queue
<1>3. CASE Others(p.id) # {}
  <2>. DEFINE m == Max(Others(p.id))
  <2>1. Others(p.id) \in SUBSET (1 .. Len(Queue)) /\ Len(Queue) \in Nat /\ Queue \in Seq(Elements)
    BY <1>1, QueueType
  <2>2. m \in Others(p.id)
    BY <1>3, <2>1, MaxIs
  <2>3. /\ m \in DOMAIN Queue /\ Oldest = Queue[m] /\ (m # 1 => Prev = Queue[m - 1])
        /\ Freed(Oldest) \in Nat
    BY <1>1, <1>3, OldestIs, VictimIs
  <2>4. /\ Dequeue(Oldest, Prev)
        /\ ip_reass_pbufcount' = ip_reass_pbufcount - Freed(Oldest)
        /\ pbufs_freed' = pbufs_freed + Freed(Oldest)
    BY <1>3 DEF MakeRoom, FreeCompleteDatagram
  <2>. HIDE DEF m
  <2>5. /\ Queue' = Without(Queue, m)
        /\ \A i \in DOMAIN Queue' : Queue'[i] # Queue[m] /\ ipr'[Queue'[i]] = ipr[Queue'[i]]
        /\ Range(Queue') = Range(Queue) \ {Queue[m]}
    BY <1>1, <2>3, <2>4, DequeueLists
  <2>6. Len(Queue') = Len(Queue) - 1
    <3>1. m \in 1 .. Len(Queue)
      BY <2>1, <2>2
    <3>. QED
      BY <2>1, <2>5, <3>1, WithoutType
  <2>. QED
    BY <2>2, <2>3, <2>4, <2>5, <2>6
<1>. QED
  BY <1>2, <1>3

LEMMA Survivors ==
    ASSUME ListInv, SafeVictim, MakeRoom
    PROVE  /\ \A i \in DOMAIN Queue' : \E j \in DOMAIN Queue :
                 Queue'[i] = Queue[j] /\ ipr'[Queue'[i]] = ipr[Queue[j]]
           /\ \A j \in Own : \E i \in DOMAIN Queue' :
                 Queue'[i] = Queue[j] /\ ipr'[Queue'[i]] = ipr[Queue[j]]
           /\ ip_reass_pbufcount' + pbufs_freed' = ip_reass_pbufcount + pbufs_freed
           /\ Cardinality(Others(p.id)) <= 1 =>
                 \A i \in DOMAIN Queue' : ipr'[Queue'[i]].id = p.id
<1>1. /\ ip_reass_pbufcount \in Int /\ pbufs_freed \in Nat
      /\ DOMAIN Queue = 1 .. Len(Queue) /\ Len(Queue) \in Nat
      /\ Others(p.id) \in SUBSET (1 .. Len(Queue))
  BY QueueType DEF ListInv, IInv, Typed
<1>2. CASE /\ Others(p.id) = {} /\ Queue' = Queue
           /\ UNCHANGED <<ipr, ip_reass_pbufcount, pbufs_freed>>
  <2>1. \A i \in DOMAIN Queue : ipr[Queue[i]].id = p.id
    BY <1>2 DEF Others
  <2>2. \A j \in Own : j \in DOMAIN Queue
    BY DEF Own
  <2>. QED
    BY <1>1, <1>2, <2>1, <2>2
<1>3. ASSUME NEW m \in Others(p.id),
             /\ Oldest = Queue[m] /\ Freed(Oldest) \in Nat
             /\ Range(Queue') = Range(Queue) \ {Queue[m]} /\ Len(Queue') = Len(Queue) - 1
             /\ \A i \in DOMAIN Queue' : ipr'[Queue'[i]] = ipr[Queue'[i]] /\ Queue'[i] # Queue[m]
             /\ ip_reass_pbufcount' = ip_reass_pbufcount - Freed(Oldest)
             /\ pbufs_freed' = pbufs_freed + Freed(Oldest)
      PROVE  /\ \A i \in DOMAIN Queue' : \E j \in DOMAIN Queue :
                   Queue'[i] = Queue[j] /\ ipr'[Queue'[i]] = ipr[Queue[j]]
             /\ \A j \in Own : \E i \in DOMAIN Queue' :
                   Queue'[i] = Queue[j] /\ ipr'[Queue'[i]] = ipr[Queue[j]]
             /\ ip_reass_pbufcount' + pbufs_freed' = ip_reass_pbufcount + pbufs_freed
             /\ Cardinality(Others(p.id)) <= 1 =>
                   \A i \in DOMAIN Queue' : ipr'[Queue'[i]].id = p.id
  <2>0. m \in DOMAIN Queue /\ ipr[Queue[m]].id # p.id
    BY DEF Others
  <2>1. ASSUME NEW i \in DOMAIN Queue'
        PROVE  \E j \in DOMAIN Queue : Queue'[i] = Queue[j] /\ ipr'[Queue'[i]] = ipr[Queue[j]]
    <3>1. Queue'[i] \in Range(Queue')
      BY Zenon DEF Range
    <3>2. Queue'[i] \in Range(Queue)
      BY <1>3, <3>1
    <3>3. PICK j \in DOMAIN Queue : Queue'[i] = Queue[j]
      BY <3>2, Zenon DEF Range
    <3>. QED
      BY <1>3, <3>3
  <2>2. ASSUME NEW j \in Own
        PROVE  \E i \in DOMAIN Queue' : Queue'[i] = Queue[j] /\ ipr'[Queue'[i]] = ipr[Queue[j]]
    <3>1. j \in DOMAIN Queue /\ ipr[Queue[j]].id = p.id
      BY DEF Own
    <3>2. Queue[j] \in Range(Queue)
      BY <3>1, Zenon DEF Range
    <3>3. Queue[j] \in Range(Queue')
      BY <1>3, <2>0, <3>1, <3>2
    <3>4. PICK i \in DOMAIN Queue' : Queue'[i] = Queue[j]
      BY <3>3, Zenon DEF Range
    <3>. QED
      BY <1>3, <3>4
  <2>3. ip_reass_pbufcount' + pbufs_freed' = ip_reass_pbufcount + pbufs_freed
    BY <1>1, <1>3
  <2>4. ASSUME Cardinality(Others(p.id)) <= 1, NEW i \in DOMAIN Queue'
        PROVE  ipr'[Queue'[i]].id = p.id
    <3>1. PICK j \in DOMAIN Queue : Queue'[i] = Queue[j] /\ ipr'[Queue'[i]] = ipr[Queue[j]]
      BY <2>1
    <3>2. j # m
      BY <1>3, <3>1
    <3>3. Others(p.id) = {m}
      <4>1. IsFiniteSet(Others(p.id))
        <5>1. IsFiniteSet(1 .. Len(Queue))
          BY <1>1, Positions
        <5>. QED
          BY <1>1, <5>1, FS_Subset
      <4>2. Cardinality(Others(p.id)) \in Nat
        BY <4>1, FS_CardinalityType
      <4>3. Cardinality(Others(p.id)) # 0
        BY <4>1, FS_EmptySet
      <4>4. Cardinality(Others(p.id)) = 1
        BY <2>4, <4>2, <4>3
      <4>5. PICK x : Others(p.id) = {x}
        BY <4>1, <4>4, FS_Singleton
      <4>. QED
        BY <4>5
    <3>4. j \notin Others(p.id)
      BY <3>2, <3>3
    <3>. QED
      BY <3>1, <3>4 DEF Others
  <2>. QED
    BY <2>1, <2>2, <2>3, <2>4
<1>. QED
  BY <1>2, <1>3, MakeRoomIs

\* Whoever is refused has displaced everybody else.
LEMMA DroppedAlone ==
    ASSUME ListInv, SafeVictim, MakeRoom, step' = "receive"
    PROVE  /\ Cardinality(Others(p.id)) <= 1
           /\ \A i \in DOMAIN Queue' : ipr'[Queue'[i]].id = p.id
           /\ step = "overflow" => \/ pbufs_freed' = 0
                                   \/ ~(ip_reass_pbufcount' + p.clen <= IP_REASS_MAX_PBUFS)
           /\ step = "exhausted" => ~(pbufs_freed' >= p.clen)
<1>1. /\ step \in {"overflow", "exhausted"} /\ p \in Fragments
      /\ ip_reass_pbufcount \in Int /\ pbufs_freed \in Nat
      /\ IP_REASS_MAX_PBUFS \in Nat
  BY ReassemblyAssumption DEF MakeRoom, ListInv, IInv, Typed
<1>2. /\ RoomMade
      /\ step = "overflow" => \/ pbufs_freed' = 0
                              \/ ~(ip_reass_pbufcount' + p.clen <= IP_REASS_MAX_PBUFS)
      /\ step = "exhausted" => ~(pbufs_freed' >= p.clen)
  BY <1>1 DEF MakeRoom
<1>3. p.clen \in Nat \ {0}
  BY <1>1, FragmentType
<1>4. ip_reass_pbufcount' + pbufs_freed' = ip_reass_pbufcount + pbufs_freed
  BY Survivors
<1>5. ip_reass_pbufcount' \in Int /\ pbufs_freed' \in Nat
  BY StepIInv DEF ListInv, Next, IInv, Typed
<1>6. Cardinality(Others(p.id)) <= 1
  <2>. SUFFICES ASSUME ~(Cardinality(Others(p.id)) <= 1) PROVE FALSE
    OBVIOUS
  <2>1. Cardinality(Others(p.id)) \in Nat
    <3>1. Others(p.id) \in SUBSET (1 .. Len(Queue)) /\ Len(Queue) \in Nat
      BY QueueType DEF ListInv, IInv
    <3>2. IsFiniteSet(Others(p.id))
      BY <3>1, Positions, FS_Subset
    <3>. QED
      BY <3>2, FS_CardinalityType
  <2>2. pbufs_freed + Freed(Oldest) >= p.clen
    BY <1>2, <2>1 DEF RoomMade
  <2>3. Others(p.id) # {}
    BY FS_EmptySet
  <2>4. pbufs_freed' = pbufs_freed + Freed(Oldest)
    BY <2>3 DEF MakeRoom, FreeCompleteDatagram
  <2>5. pbufs_freed' >= p.clen /\ pbufs_freed' # 0
    BY <1>3, <1>5, <2>2, <2>4
  <2>6. CASE step = "overflow"
    <3>1. ip_reass_pbufcount + pbufs_freed <= IP_REASS_MAX_PBUFS
      BY <2>6 DEF ListInv, Making
    <3>2. \A a, b, c, m \in Int : a + b <= m /\ b >= c => a + c <= m
      OBVIOUS
    <3>3. ip_reass_pbufcount' + pbufs_freed' <= IP_REASS_MAX_PBUFS
      BY <1>4, <3>1
    <3>4. p.clen \in Int /\ pbufs_freed' \in Int /\ IP_REASS_MAX_PBUFS \in Int
      BY <1>1, <1>3, <1>5
    <3>5. ip_reass_pbufcount' + p.clen <= IP_REASS_MAX_PBUFS
      BY <1>5, <2>5, <3>2, <3>3, <3>4, Zenon
    <3>. QED
      BY <1>2, <2>5, <2>6, <3>5
  <2>. QED
    BY <1>1, <1>2, <2>5, <2>6
<1>. QED
  BY <1>2, <1>6, Survivors

LEMMA RefusedStep ==
    ASSUME ListInv, SafeVictim, [Next]_vars, step # "chain", step' = "receive", vars' # vars
    PROVE  \A n \in DOMAIN Queue' : ipr'[Queue'[n]].id = p.id
<1>1. CASE MakeRoom
  BY <1>1, DroppedAlone
<1>2. ~Chain /\ ~Find /\ ~(\E f \in Fragments : Receive(f))
  BY DEF Chain, Find, Receive
<1>3. ~EnqueueNewDatagram
  BY EnqueueIs
<1>. QED
  BY <1>1, <1>2, <1>3 DEF Next

\* Under the same condition a fragment is refused for lack of room only after every
\* other datagram has been displaced (ip_reass, ip_reass_enqueue_new_datagram).
THEOREM RefusedAlone == Spec /\ []SafeVictim => RefusedOnlyAlone
<1>. DEFINE A == (step # "chain" /\ step' = "receive")
                    => \A n \in DOMAIN Queue' : ipr'[Queue'[n]].id = p.id
<1>1. ListInv /\ SafeVictim /\ [Next]_vars => [A]_vars
  BY RefusedStep
<1>2. RefusedOnlyAlone <=> [][A]_vars
  BY DEF RefusedOnlyAlone
<1>. HIDE DEF A
<1>. QED
  BY <1>1, <1>2, ListsInvariant, PTL DEF Spec

-----------------------------------------------------------------------------
(* Bursts.                                                                 *)

\* Fragments of one datagram, from its first byte on, each where the last one ended.
InARow(s) ==
    /\ s # <<>> /\ s[1].start = 0 /\ Adjacent(s, 1, Len(s))
    /\ \A n \in DOMAIN s : s[n].id = s[1].id

\* A datagram that comes in a row does not need more pbufs than there are, and its
\* first fragment no more than there are elements: displacing a datagram frees one pbuf
\* at least for each element.
Fits ==
    /\ \A s \in Seq(Fragments) : InARow(s) => Pbufs(s) <= IP_REASS_MAX_PBUFS
    /\ \A f \in Fragments : f.start = 0 => f.clen <= MEMP_NUM_REASSDATA

\* A datagram of the list holds these fragments, not the last one among them.
Held(s, id) ==
    \E n \in DOMAIN Queue :
       ipr[Queue[n]].id = id /\ ipr[Queue[n]].p = s /\ ~ipr[Queue[n]].last

\* Every datagram of the list holds a pbuf, so that displacing it is of use.
Filled ==
    /\ \A n \in DOMAIN Queue :
          ipr[Queue[n]].p # <<>> \/ (step = "chain" /\ ipr[Queue[n]].id = p.id)
    /\ step = "exhausted" => pbufs_freed + Len(Queue) >= MEMP_NUM_REASSDATA
    /\ step = "overflow" => ip_reass_pbufcount + pbufs_freed + p.clen > IP_REASS_MAX_PBUFS

\* Where the fragments of the burst are.
Row ==
    burst # <<>> =>
       /\ InARow(burst)
       /\ step = "receive" /\ Last(burst).more_fragments => Held(burst, Last(burst).id)
       /\ step = "receive" /\ ~Last(burst).more_fragments => delivered # NULL /\ delivered.p = burst
       /\ step # "receive" => Last(burst) = p
       /\ step # "receive" /\ (step = "chain" \/ Len(burst) > 1) => Held(Front(burst), p.id)
       /\ step # "receive" /\ step # "chain" /\ Len(burst) = 1 => Own = {}

BurstInv == ListInv /\ Filled /\ Row

LEMMA FrontIs ==
    ASSUME NEW b \in Seq(Fragments), b # <<>>
    PROVE  /\ Front(b) \in Seq(Fragments) /\ Len(b) \in Nat \ {0} /\ Len(Front(b)) = Len(b) - 1
           /\ DOMAIN b = 1 .. Len(b) /\ DOMAIN Front(b) = 1 .. Len(b) - 1
           /\ \A i \in 1 .. Len(b) - 1 : Front(b)[i] = b[i]
           /\ Last(b) = b[Len(b)] /\ Last(b) \in Fragments
           /\ InsertAt(Front(b), Len(Front(b)) + 1, Last(b)) = b
           /\ Pbufs(b) = Pbufs(Front(b)) + Last(b).clen
<1>. DEFINE s == Front(b)
            f == Last(b)
<1>1. Len(b) \in Nat \ {0} /\ DOMAIN b = 1 .. Len(b)
  BY EmptySeq
<1>2. PICK k \in Nat : k + 1 = Len(b) /\ k = Len(b) - 1
  <2>1. Len(b) - 1 \in Nat /\ (Len(b) - 1) + 1 = Len(b)
    BY <1>1
  <2>. QED
    BY <2>1
<1>3. f = b[k + 1] /\ f \in Fragments
  <2>1. Len(b) \in 1 .. Len(b)
    BY <1>1
  <2>2. b[Len(b)] \in Fragments
    BY <2>1
  <2>. QED
    BY <1>2, <2>2 DEF Last
<1>4. s \in Seq(Fragments) /\ Len(s) = k /\ DOMAIN s = 1 .. k /\ \A i \in 1 .. k : s[i] = b[i]
  <2>1. k \in 0 .. Len(b)
    BY <1>2
  <2>2. /\ SubSeq(b, 1, k) \in Seq(Fragments) /\ Len(SubSeq(b, 1, k)) = k
        /\ \A i \in 1 .. k : SubSeq(b, 1, k)[i] = b[i]
    BY <1>2, <2>1
  <2>3. DOMAIN SubSeq(b, 1, k) = 1 .. k
    BY <2>2
  <2>4. s = SubSeq(b, 1, k)
    BY <1>2 DEF Front
  <2>. QED
    BY <2>2, <2>3, <2>4
<1>. HIDE DEF s, f
<1>5. k \in 0 .. Len(s)
  BY <1>2, <1>4
<1>. DEFINE t == InsertAt(s, k + 1, f)
<1>6. /\ t \in Seq(Fragments) /\ Len(t) = Len(s) + 1 /\ DOMAIN t = 1 .. Len(s) + 1
      /\ \A i \in 1 .. Len(s) + 1 : t[i] = IF i <= k THEN s[i] ELSE IF i = k + 1 THEN f ELSE s[i - 1]
  <2>1. s \in Seq(Fragments) /\ f \in Fragments
    BY <1>3, <1>4
  <2>. QED
    BY <1>5, <2>1, InsertAtIs
<1>7. Pbufs(t) = Pbufs(s) + f.clen
  <2>1. s \in Seq(Fragments) /\ f \in Fragments
    BY <1>3, <1>4
  <2>. QED
    BY <1>5, <2>1, PbufsInsert
<1>. HIDE DEF t
<1>8. t = b
  <2>1. Len(t) = k + 1 /\ Len(b) = k + 1
    BY <1>2, <1>4, <1>6
  <2>2. \A i \in 1 .. k + 1 : t[i] = b[i]
    <3>. TAKE i \in 1 .. k + 1
    <3>1. t[i] = IF i <= k THEN s[i] ELSE IF i = k + 1 THEN f ELSE s[i - 1]
      BY <1>4, <1>6
    <3>2. i <= k => i \in 1 .. k
      OBVIOUS
    <3>3. ~(i <= k) => i = k + 1
      OBVIOUS
    <3>. QED
      BY <1>3, <1>4, <3>1, <3>2, <3>3
  <2>3. t = [i \in 1 .. k + 1 |-> t[i]]
    BY <1>6, <2>1
  <2>4. b = [i \in 1 .. k + 1 |-> b[i]]
    BY <2>1
  <2>. QED
    BY <2>2, <2>3, <2>4
<1>9. Len(s) = Len(b) - 1 /\ DOMAIN s = 1 .. Len(b) - 1
  BY <1>2, <1>4
<1>10. InsertAt(s, Len(s) + 1, f) = b
  BY <1>4, <1>8 DEF t
<1>. QED
  BY <1>1, <1>2, <1>3, <1>4, <1>7, <1>8, <1>9, <1>10 DEF s, f

LEMMA AppendIs ==
    ASSUME NEW b \in Seq(Fragments), NEW f \in Fragments
    PROVE  /\ Append(b, f) \in Seq(Fragments) /\ Append(b, f) # <<>>
           /\ Len(Append(b, f)) = Len(b) + 1 /\ DOMAIN Append(b, f) = 1 .. Len(b) + 1
           /\ \A i \in 1 .. Len(b) : Append(b, f)[i] = b[i]
           /\ Append(b, f)[Len(b) + 1] = f
           /\ Front(Append(b, f)) = b /\ Last(Append(b, f)) = f
<1>. DEFINE a == Append(b, f)
<1>1. /\ a \in Seq(Fragments) /\ a # <<>> /\ Len(a) = Len(b) + 1 /\ DOMAIN a = 1 .. Len(b) + 1
      /\ \A i \in 1 .. Len(b) : a[i] = b[i]
      /\ a[Len(b) + 1] = f /\ Len(b) \in Nat
  OBVIOUS
<1>. HIDE DEF a
<1>2. Last(a) = f
  BY <1>1 DEF Last
<1>3. Front(a) = b
  <2>1. /\ Front(a) \in Seq(Fragments) /\ Len(Front(a)) = Len(a) - 1
        /\ \A i \in 1 .. Len(a) - 1 : Front(a)[i] = a[i]
    BY <1>1, FrontIs
  <2>2. Len(Front(a)) = Len(b) /\ \A i \in 1 .. Len(b) : Front(a)[i] = b[i]
    BY <1>1, <2>1
  <2>3. Front(a) = [i \in 1 .. Len(Front(a)) |-> Front(a)[i]] /\ b = [i \in 1 .. Len(b) |-> b[i]]
    BY <2>1
  <2>. QED
    BY <2>2, <2>3
<1>. QED
  BY <1>1, <1>2, <1>3 DEF a

\* The next fragment of a row goes behind all others.
LEMMA RowIs ==
    ASSUME NEW b \in Seq(Fragments), InARow(b), Sorted(Front(b))
    PROVE  /\ ~Overlaps(Front(b), Last(b)) /\ Before(Front(b), Last(b)) = Len(Front(b))
           /\ Valid(b, Len(Front(b)))
<1>. DEFINE s == Front(b)
            f == Last(b)
            m == Len(Front(b))
<1>1. /\ s \in Seq(Fragments) /\ Len(b) \in Nat \ {0} /\ Len(s) = Len(b) - 1
      /\ DOMAIN b = 1 .. Len(b) /\ DOMAIN s = 1 .. Len(b) - 1
      /\ \A i \in 1 .. Len(b) - 1 : s[i] = b[i]
      /\ f = b[Len(b)] /\ f \in Fragments
  BY FrontIs DEF InARow
<1>2. m = Len(b) - 1 /\ m \in Nat /\ Len(s) = m /\ DOMAIN s = 1 .. m
  BY <1>1
<1>3. b[1].start = 0 /\ \A i \in 1 .. Len(b) - 1 : b[i].end = b[i + 1].start
  BY DEF InARow, Adjacent
<1>. HIDE DEF s, f, m
<1>4. /\ \A n \in 1 .. m : s[n].start \in Nat /\ s[n].end \in Nat /\ s[n].start < s[n].end
      /\ f.start \in Nat
  <2>1. \A n \in 1 .. m : s[n] \in Fragments
    BY <1>1, <1>2
  <2>. QED
    BY <1>1, <2>1, FragmentType
<1>5. m > 0 => s[m].end = f.start
  <2>1. m > 0 => m \in 1 .. Len(b) - 1 /\ m + 1 = Len(b)
    BY <1>2
  <2>. QED
    BY <1>1, <1>3, <2>1
<1>6. \A n \in 1 .. m : s[n].end <= f.start
  <2>. TAKE n \in 1 .. m
  <2>1. CASE n = m
    BY <1>2, <1>4, <1>5, <2>1
  <2>2. CASE n # m
    <3>1. n \in 1 .. Len(b) - 1 /\ n + 1 \in 1 .. m /\ m \in 1 .. m /\ n \in Nat
      BY <1>2, <2>2
    <3>2. s[n].end = s[n + 1].start
      BY <1>1, <1>2, <1>3, <3>1
    <3>3. n + 1 < m => s[n + 1].start < s[m].start
      BY <1>2, <3>1 DEF Sorted, s
    <3>4. s[n + 1].start <= s[m].start
      <4>1. s[n + 1].start \in Nat /\ s[m].start \in Nat
        BY <1>4, <3>1
      <4>2. n + 1 < m \/ n + 1 = m
        BY <1>2, <3>1
      <4>. QED
        BY <3>3, <4>1, <4>2
    <3>5. s[m].start < s[m].end /\ s[m].end = f.start /\ s[m].start \in Nat /\ s[n].end \in Nat
      BY <1>2, <1>4, <1>5, <3>1
    <3>. QED
      BY <1>4, <3>2, <3>4, <3>5
  <2>. QED
    BY <2>1, <2>2
<1>7. Before(s, f) = m
  <2>1. Before(s, f) \in 0 .. m /\ \A n \in 1 .. m : n <= Before(s, f) <=> s[n].start < f.start
    <3>1. Sorted(s)
      BY DEF s
    <3>. QED
      BY <1>1, <1>2, <3>1, BeforeIs
  <2>2. m > 0 => m <= Before(s, f)
    <3>1. m > 0 => m \in 1 .. m
      BY <1>2
    <3>. QED
      BY <1>4, <1>5, <2>1, <3>1
  <2>. QED
    BY <1>2, <2>1, <2>2
<1>8. ~Overlaps(s, f)
  <2>1. \A n \in DOMAIN s : ~(s[n].start <= f.start /\ f.start < s[n].end)
    BY <1>2, <1>4, <1>6
  <2>. QED
    BY <1>2, <1>7, <2>1 DEF Overlaps
<1>9. Valid(b, m)
  <2>1. Adjacent(b, 1, m)
    <3>1. \A i \in 1 .. m - 1 : i \in 1 .. Len(b) - 1
      BY <1>2
    <3>. QED
      BY <1>3, <3>1 DEF Adjacent
  <2>2. Adjacent(b, 1, m + 1) /\ Adjacent(b, m + 1, Len(b))
    <3>1. m + 1 = Len(b)
      BY <1>1, <1>2
    <3>. QED
      BY <1>1, <1>3, <3>1 DEF Adjacent
  <2>. QED
    BY <1>3, <2>1, <2>2 DEF Valid
<1>. QED
  BY <1>7, <1>8, <1>9 DEF s, f, m

LEMMA ReceiveBurst ==
    ASSUME BurstInv, NEW f \in Fragments, Receive(f)
    PROVE  Filled' /\ Row'
<1>1. /\ step = "receive" /\ p' = f /\ pbufs_freed' = 0 /\ burst' = Burst(f)
      /\ step' = IF ip_reass_pbufcount + f.clen > IP_REASS_MAX_PBUFS THEN "overflow" ELSE "find"
      /\ UNCHANGED <<next, reassdatagrams, memp_tab, ipr, ip_reass_pbufcount>>
      /\ ip_reass_pbufcount \in Int /\ burst \in Seq(Fragments)
  BY DEF Receive, lists, BurstInv, ListInv, IInv, Typed
<1>2. Queue' = Queue
  BY <1>1 DEF Queue
<1>3. Filled'
  BY <1>1, <1>2 DEF Filled, BurstInv
<1>4. CASE f.start = 0 /\ \A n \in DOMAIN Queue : ipr[Queue[n]].id # f.id
  <2>1. burst' = <<f>>
    BY <1>1, <1>4 DEF Burst
  <2>2. /\ Len(burst') = 1 /\ burst'[1] = f /\ DOMAIN burst' = {1} /\ burst' # <<>>
        /\ Last(burst') = f
    BY <2>1 DEF Last
  <2>3. InARow(burst')
    BY <1>4, <2>2 DEF InARow, Adjacent
  <2>4. Own' = {}
    BY <1>1, <1>2, <1>4 DEF Own
  <2>. QED
    BY <1>1, <1>3, <2>2, <2>3, <2>4 DEF Row
<1>5. CASE /\ burst # <<>> /\ Last(burst).more_fragments
           /\ Last(burst).id = f.id /\ Last(burst).end = f.start
           /\ burst' = Append(burst, f)
  <2>1. InARow(burst) /\ Held(burst, f.id)
    BY <1>1, <1>5 DEF BurstInv, Row
  <2>2. /\ burst' # <<>> /\ Len(burst') = Len(burst) + 1 /\ DOMAIN burst' = 1 .. Len(burst) + 1
        /\ \A i \in 1 .. Len(burst) : burst'[i] = burst[i]
        /\ burst'[Len(burst) + 1] = f /\ Front(burst') = burst /\ Last(burst') = f
    BY <1>1, <1>5, AppendIs
  <2>3. /\ Len(burst) \in Nat \ {0} /\ DOMAIN burst = 1 .. Len(burst)
        /\ Last(burst) = burst[Len(burst)]
    BY <1>1, <1>5, FrontIs
  <2>. DEFINE m == Len(burst)
  <2>4. /\ burst[1].start = 0 /\ \A i \in 1 .. m - 1 : burst[i].end = burst[i + 1].start
        /\ \A n \in 1 .. m : burst[n].id = burst[1].id
    BY <2>1, <2>3 DEF InARow, Adjacent
  <2>5. /\ m \in Nat \ {0} /\ burst'[m + 1] = f /\ burst[m].end = f.start /\ burst[m].id = f.id
        /\ DOMAIN burst' = 1 .. m + 1 /\ Len(burst') = m + 1
        /\ \A i \in 1 .. m : burst'[i] = burst[i]
    BY <1>5, <2>2, <2>3
  <2>. HIDE DEF m
  <2>6. 1 \in 1 .. m /\ m \in 1 .. m /\ \A i \in 1 .. m + 1 : i = m + 1 \/ i \in 1 .. m
    BY <2>5
  <2>7. \A i \in 1 .. m : burst'[i].end = burst'[i + 1].start
    <3>. TAKE i \in 1 .. m
    <3>1. i = m \/ (i \in 1 .. m - 1 /\ i + 1 \in 1 .. m)
      BY <2>5
    <3>. QED
      BY <2>4, <2>5, <2>6, <3>1
  <2>8. \A n \in 1 .. m + 1 : burst'[n].id = burst'[1].id
    BY <2>4, <2>5, <2>6
  <2>9. Adjacent(burst', 1, m + 1)
    <3>1. (m + 1) - 1 = m
      BY <2>5
    <3>. QED
      BY <2>7, <3>1 DEF Adjacent
  <2>10. InARow(burst')
    BY <2>2, <2>4, <2>5, <2>6, <2>8, <2>9 DEF InARow
  <2>11. Held(Front(burst), p.id)'
    BY <1>1, <1>2, <2>1, <2>2 DEF Held
  <2>12. Len(burst') # 1
    BY <2>5
  <2>. QED
    BY <1>1, <1>3, <2>2, <2>10, <2>11, <2>12 DEF Row
<1>6. CASE burst' = <<>>
  BY <1>3, <1>6 DEF Row
<1>. QED
  BY <1>1, <1>4, <1>5, <1>6 DEF Burst

LEMMA FindBurst ==
    ASSUME BurstInv, Find
    PROVE  Filled' /\ Row'
<1>1. /\ step = "find" /\ pbufs_freed' = 0
      /\ step' = IF Own # {} THEN "chain" ELSE IF memp_tab = NULL THEN "exhausted" ELSE "enqueue"
      /\ UNCHANGED <<next, reassdatagrams, memp_tab, ipr, ip_reass_pbufcount, p, delivered, burst>>
  BY DEF Find, lists
<1>2. Queue' = Queue /\ Own' = Own
  BY <1>1 DEF Queue, Own
<1>3. memp_tab = NULL => Len(Queue) >= MEMP_NUM_REASSDATA
  <2>. SUFFICES ASSUME memp_tab = NULL PROVE Len(Queue) >= MEMP_NUM_REASSDATA
    OBVIOUS
  <2>1. Pool = <<>>
    <3>. SUFFICES ASSUME Pool # <<>> PROVE FALSE
      OBVIOUS
    <3>1. Pool \in Seq(Elements) /\ memp_tab = Pool[1]
      BY DEF BurstInv, ListInv, Lists, Linked
    <3>2. Pool[1] \in Elements
      BY <3>1, EmptySeq
    <3>. QED
      BY <3>1, <3>2, NullIs
  <2>2. Range(Queue) = Elements
    <3>1. Range(Pool) = {}
      BY <2>1 DEF Range
    <3>. QED
      BY <3>1 DEF BurstInv, ListInv, Lists
  <2>3. /\ Len(Queue) \in Nat /\ DOMAIN Queue = 1 .. Len(Queue)
        /\ Queue \in [1 .. Len(Queue) -> Elements]
    BY QueueType DEF BurstInv, ListInv, IInv
  <2>4. Queue \in Surjection(1 .. Len(Queue), Elements)
    BY <2>2, <2>3 DEF Surjection, Range
  <2>5. /\ IsFiniteSet(1 .. Len(Queue)) /\ Cardinality(1 .. Len(Queue)) = Len(Queue)
        /\ Cardinality(Elements) = MEMP_NUM_REASSDATA
    BY <2>3, Positions, ReassemblyAssumption DEF Elements
  <2>6. Cardinality(Elements) <= Cardinality(1 .. Len(Queue))
    BY <2>4, <2>5, FS_Surjection
  <2>. QED
    BY <2>3, <2>5, <2>6, ReassemblyAssumption
<1>4. Filled'
  <2>1. \A n \in DOMAIN Queue : ipr[Queue[n]].p # <<>>
    BY <1>1 DEF BurstInv, Filled
  <2>2. Len(Queue) \in Nat /\ MEMP_NUM_REASSDATA \in Nat
    BY QueueType, ReassemblyAssumption DEF BurstInv, ListInv, IInv
  <2>. QED
    BY <1>1, <1>2, <1>3, <2>1, <2>2 DEF Filled
<1>5. Row'
  <2>. SUFFICES ASSUME burst # <<>> PROVE Row'
    BY <1>1 DEF Row
  <2>1. /\ InARow(burst) /\ Last(burst) = p
        /\ (Len(burst) > 1 => Held(Front(burst), p.id)) /\ (Len(burst) = 1 => Own = {})
    BY <1>1 DEF BurstInv, Row
  <2>2. \A s, id : Held(s, id)' <=> Held(s, id)
    BY <1>1, <1>2 DEF Held
  <2>3. step' = "chain" => Len(burst) > 1
    <3>1. Len(burst) \in Nat \ {0}
      BY FrontIs DEF BurstInv, ListInv, IInv, Typed
    <3>. QED
      BY <1>1, <2>1, <3>1
  <2>4. step' # "receive"
    BY <1>1
  <2>5. Held(Front(burst), p.id)' <=> Held(Front(burst), p.id)
    BY <1>1, <1>2 DEF Held
  <2>. QED
    BY <1>1, <1>2, <2>1, <2>3, <2>4, <2>5 DEF Row
<1>. QED
  BY <1>4, <1>5

LEMMA EnqueueBurst ==
    ASSUME BurstInv, EnqueueNewDatagram
    PROVE  Filled' /\ Row'
<1>. DEFINE e == memp_tab
<1>1. /\ e \in Elements /\ Queue' = <<e>> \o Queue /\ step' = "chain" /\ p' = p /\ step = "enqueue"
      /\ ipr'[e] = [NoDatagram EXCEPT !.id = p.id] /\ UNCHANGED burst
      /\ \A n \in DOMAIN Queue : Queue[n] # e /\ ipr'[Queue[n]] = ipr[Queue[n]]
  BY EnqueueIs DEF BurstInv, EnqueueNewDatagram
<1>2. ipr'[e].id = p.id /\ ipr'[e].p = <<>> /\ ~ipr'[e].last
  BY <1>1 DEF NoDatagram
<1>3. /\ DOMAIN Queue = 1 .. Len(Queue) /\ Len(Queue) \in Nat /\ Queue \in Seq(Elements)
      /\ burst \in Seq(Fragments) /\ Own = {}
  BY <1>1, QueueType DEF BurstInv, ListInv, IInv, Typed, Making
<1>. HIDE DEF e
<1>4. /\ DOMAIN Queue' = 1 .. Len(Queue) + 1
      /\ \A i \in 1 .. Len(Queue) + 1 : Queue'[i] = IF i = 1 THEN e ELSE Queue[i - 1]
  <2>1. /\ DOMAIN (<<e>> \o Queue) = 1 .. Len(Queue) + 1
        /\ \A i \in 1 .. Len(Queue) + 1 : (<<e>> \o Queue)[i] = IF i = 1 THEN e ELSE Queue[i - 1]
    BY <1>1, <1>3, RangePush
  <2>. QED
    BY <1>1, <2>1
<1>5. Filled'
  <2>1. ASSUME NEW i \in DOMAIN Queue'
        PROVE  ipr'[Queue'[i]].p # <<>> \/ (step' = "chain" /\ ipr'[Queue'[i]].id = p'.id)
    <3>1. i \in 1 .. Len(Queue) + 1
      BY <1>4
    <3>2. CASE i = 1
      BY <1>1, <1>2, <1>4, <3>1, <3>2
    <3>3. CASE i # 1
      <4>1. i - 1 \in DOMAIN Queue /\ Queue'[i] = Queue[i - 1]
        BY <1>3, <1>4, <3>1, <3>3
      <4>2. ipr[Queue[i - 1]].p # <<>>
        BY <1>1, <4>1 DEF BurstInv, Filled
      <4>. QED
        BY <1>1, <4>1, <4>2
    <3>. QED
      BY <3>2, <3>3
  <2>. QED
    BY <1>1, <2>1 DEF Filled
<1>6. Row'
  <2>. SUFFICES ASSUME burst # <<>> PROVE Row'
    BY <1>1 DEF Row
  <2>1. /\ InARow(burst) /\ Last(burst) = p /\ (Len(burst) > 1 => Held(Front(burst), p.id))
    BY <1>1 DEF BurstInv, Row
  <2>2. Len(burst) = 1
    <3>1. ~Held(Front(burst), p.id)
      BY <1>3 DEF Held, Own
    <3>2. Len(burst) \in Nat \ {0}
      BY <1>3, FrontIs
    <3>3. ~(Len(burst) > 1)
      BY <2>1, <3>1
    <3>. QED
      BY <3>2, <3>3
  <2>3. Front(burst) = <<>>
    <3>1. Front(burst) \in Seq(Fragments) /\ Len(Front(burst)) = Len(burst) - 1
      BY <1>3, FrontIs
    <3>2. Len(Front(burst)) = 0
      BY <2>2, <3>1
    <3>. QED
      BY <3>1, <3>2, EmptySeq
  <2>4. 1 \in DOMAIN Queue' /\ Queue'[1] = e
    BY <1>3, <1>4
  <2>5. Held(Front(burst), p.id)'
    BY <1>1, <1>2, <2>3, <2>4 DEF Held
  <2>. QED
    BY <1>1, <2>1, <2>5 DEF Row
<1>. QED
  BY <1>5, <1>6

\* Displacing a datagram frees a pbuf at least.
LEMMA MakeRoomFilled ==
    ASSUME BurstInv, SafeVictim, MakeRoom, step = "exhausted"
    PROVE  pbufs_freed' + Len(Queue') >= MEMP_NUM_REASSDATA
<1>1. /\ ListInv /\ Typed /\ pbufs_freed \in Nat /\ Len(Queue) \in Nat /\ MEMP_NUM_REASSDATA \in Nat
      /\ pbufs_freed + Len(Queue) >= MEMP_NUM_REASSDATA
  BY QueueType, ReassemblyAssumption DEF BurstInv, Filled, ListInv, IInv, Typed
<1>2. CASE Others(p.id) = {} /\ Queue' = Queue /\ pbufs_freed' = pbufs_freed
  BY <1>1, <1>2
<1>3. ASSUME NEW m \in Others(p.id), Oldest = Queue[m], Freed(Oldest) \in Nat,
             Len(Queue') = Len(Queue) - 1, pbufs_freed' = pbufs_freed + Freed(Oldest)
      PROVE  pbufs_freed' + Len(Queue') >= MEMP_NUM_REASSDATA
  <2>1. m \in DOMAIN Queue
    BY DEF Others
  <2>2. ipr[Queue[m]].p # <<>> /\ ipr[Queue[m]].p \in Seq(Fragments)
    BY <1>1, <2>1, QueueType DEF BurstInv, Filled, Typed, Datagrams
  <2>3. Freed(Oldest) >= 1
    BY <1>3, <2>2, PbufsType DEF Freed
  <2>. QED
    BY <1>1, <1>3, <2>3
<1>. QED
  BY <1>1, <1>2, <1>3, MakeRoomIs

\* The fragment of a burst goes behind those that its datagram holds.
LEMMA RowChained ==
    ASSUME BurstInv, step = "chain", Own = {Place}, burst # <<>>
    PROVE  /\ InARow(burst) /\ Last(burst) = p /\ ~ipr[Mine].last
           /\ ~Overlaps(ipr[Mine].p, p) /\ Joined = burst /\ Valid(Joined, Gap)
<1>1. InARow(burst) /\ Last(burst) = p /\ Held(Front(burst), p.id)
  BY DEF BurstInv, Row
<1>2. PICK n \in DOMAIN Queue :
         ipr[Queue[n]].id = p.id /\ ipr[Queue[n]].p = Front(burst) /\ ~ipr[Queue[n]].last
  BY <1>1 DEF Held
<1>3. n = Place
  <2>1. n \in Own
    BY <1>2 DEF Own
  <2>. QED
    BY <2>1
<1>4. ipr[Mine].p = Front(burst) /\ ~ipr[Mine].last
  BY <1>2, <1>3 DEF Mine
<1>5. Sorted(Front(burst)) /\ burst \in Seq(Fragments)
  <2>1. Mine \in Elements
    BY MineIs DEF BurstInv, ListInv
  <2>. QED
    BY <1>4, <2>1 DEF BurstInv, ListInv, IInv, Arranged, Typed
<1>6. /\ ~Overlaps(Front(burst), Last(burst)) /\ Before(Front(burst), Last(burst)) = Len(Front(burst))
      /\ Valid(burst, Len(Front(burst)))
  BY <1>1, <1>5, RowIs
<1>7. Gap = Len(Front(burst))
  BY <1>1, <1>4, <1>6 DEF Gap
<1>8. Joined = burst
  <2>1. InsertAt(Front(burst), Len(Front(burst)) + 1, Last(burst)) = burst
    BY <1>5, FrontIs
  <2>2. Joined = InsertAt(Front(burst), Len(Front(burst)) + 1, Last(burst))
    BY <1>1, <1>4, <1>7 DEF Joined
  <2>. QED
    BY <2>1, <2>2
<1>. QED
  BY <1>1, <1>4, <1>6, <1>7, <1>8

\* A fragment that goes on with a burst is not refused.
LEMMA BurstKept ==
    ASSUME BurstInv, Fits, SafeVictim, MakeRoom, burst # <<>>
    PROVE  step' # "receive"
<1>. SUFFICES ASSUME step' = "receive" PROVE FALSE
  OBVIOUS
<1>1. /\ step \in {"overflow", "exhausted"} /\ p \in Fragments /\ burst \in Seq(Fragments)
      /\ IP_REASS_MAX_PBUFS \in Nat /\ MEMP_NUM_REASSDATA \in Nat
      /\ ListInv /\ IInv /\ Typed
  BY ReassemblyAssumption DEF MakeRoom, BurstInv, ListInv, IInv, Typed
<1>2. ListInv' /\ Lists' /\ Counted' /\ Typed'
  BY <1>1, StepListInv DEF Next, ListInv, IInv
<1>3. ip_reass_pbufcount' \in Int /\ pbufs_freed' \in Nat
  BY <1>2 DEF Typed
<1>4. /\ \A i \in DOMAIN Queue' : ipr'[Queue'[i]].id = p.id
      /\ step = "overflow" => \/ pbufs_freed' = 0
                              \/ ~(ip_reass_pbufcount' + p.clen <= IP_REASS_MAX_PBUFS)
      /\ step = "exhausted" => ~(pbufs_freed' >= p.clen)
  BY <1>1, DroppedAlone
<1>5. /\ \A i \in DOMAIN Queue' : \E j \in DOMAIN Queue :
            Queue'[i] = Queue[j] /\ ipr'[Queue'[i]] = ipr[Queue[j]]
      /\ \A j \in Own : \E i \in DOMAIN Queue' :
            Queue'[i] = Queue[j] /\ ipr'[Queue'[i]] = ipr[Queue[j]]
      /\ ip_reass_pbufcount' + pbufs_freed' = ip_reass_pbufcount + pbufs_freed
  BY <1>1, Survivors
<1>6. p.clen \in Nat \ {0} /\ p.clen <= IP_REASS_MAX_PBUFS
  BY <1>1, FragmentType
<1>7. /\ InARow(burst) /\ Last(burst) = p
      /\ Len(burst) > 1 => Held(Front(burst), p.id)
      /\ Len(burst) = 1 => Own = {}
  BY <1>1 DEF BurstInv, Row
<1>8. /\ Len(burst) \in Nat \ {0} /\ Last(burst) = burst[Len(burst)]
      /\ Pbufs(burst) = Pbufs(Front(burst)) + p.clen /\ Front(burst) \in Seq(Fragments)
  BY <1>1, <1>7, FrontIs
<1>9. Queue' \in Seq(Elements) /\ DOMAIN Queue' = 1 .. Len(Queue') /\ Len(Queue') \in Nat
  BY <1>2 DEF Lists, Linked
<1>10. /\ Counts' \in Seq(Int) /\ Len(Counts') = Len(Queue')
       /\ \A n \in 1 .. Len(Queue') : Counts'[n] = Pbufs(ipr'[Queue'[n]].p)
  BY <1>2, CountsPrimed DEF CountsAre
<1>11. ip_reass_pbufcount' = Total(Counts')
  BY <1>2 DEF Counted
<1>12. step = "overflow" => ~(ip_reass_pbufcount' + p.clen <= IP_REASS_MAX_PBUFS)
  <2>. SUFFICES ASSUME step = "overflow", pbufs_freed' = 0,
                       ip_reass_pbufcount' + p.clen <= IP_REASS_MAX_PBUFS
                PROVE  FALSE
    BY <1>4
  <2>1. ip_reass_pbufcount + pbufs_freed + p.clen > IP_REASS_MAX_PBUFS
    BY DEF BurstInv, Filled
  <2>2. ip_reass_pbufcount + pbufs_freed = ip_reass_pbufcount'
    BY <1>3, <1>5
  <2>. QED
    BY <1>1, <1>3, <1>6, <2>1, <2>2
<1>13. CASE Len(burst) = 1
  <2>1. Len(Queue') = 0
    <3>1. ~(1 \in DOMAIN Queue')
      BY <1>4, <1>5, <1>7, <1>13 DEF Own
    <3>. QED
      BY <1>9, <3>1
  <2>2. ip_reass_pbufcount' = 0
    BY <1>10, <1>11, <2>1, SumsFacts DEF Total
  <2>3. step = "exhausted"
    BY <1>1, <1>6, <1>12, <2>2
  <2>4. p.clen <= MEMP_NUM_REASSDATA
    <3>1. p.start = 0
      BY <1>7, <1>8, <1>13 DEF InARow
    <3>. QED
      BY <1>1, <3>1 DEF Fits
  <2>5. pbufs_freed' + Len(Queue') >= MEMP_NUM_REASSDATA
    BY <1>1, <2>3, MakeRoomFilled
  <2>6. pbufs_freed' >= MEMP_NUM_REASSDATA
    BY <1>3, <2>1, <2>5
  <2>7. pbufs_freed' >= p.clen
    <3>1. \A a, b, c \in Int : a >= b /\ c <= b => a >= c
      OBVIOUS
    <3>2. pbufs_freed' \in Int /\ p.clen \in Int /\ MEMP_NUM_REASSDATA \in Int
      BY <1>1, <1>3, <1>6
    <3>. QED
      BY <2>4, <2>6, <3>1, <3>2, Zenon
  <2>. QED
    BY <1>4, <2>3, <2>7
<1>14. CASE Len(burst) > 1
  <2>1. PICK j \in DOMAIN Queue : ipr[Queue[j]].id = p.id /\ ipr[Queue[j]].p = Front(burst)
    BY <1>7, <1>14 DEF Held
  <2>2. j \in Own
    BY <2>1 DEF Own
  <2>3. step = "overflow"
    BY <1>1, <2>2 DEF ListInv, Making
  <2>4. PICK i \in DOMAIN Queue' : ipr'[Queue'[i]] = ipr[Queue[j]]
    BY <1>5, <2>2
  <2>5. \A n \in DOMAIN Queue' : n = i
    BY <1>2, <1>4, <2>4 DEF Lists
  <2>6. i = 1 /\ Len(Queue') = 1
    <3>1. 1 \in DOMAIN Queue' /\ Len(Queue') \in DOMAIN Queue'
      BY <1>9, <2>4
    <3>. QED
      BY <2>5, <3>1
  <2>7. Total(Counts') = Pbufs(Front(burst))
    <3>1. Sums(Counts')[0] = 0 /\ Sums(Counts')[1] = Sums(Counts')[1 - 1] + Counts'[1]
      BY <1>10, <2>6, SumsFacts
    <3>2. Counts'[1] = Pbufs(Front(burst)) /\ Len(Counts') = 1
      BY <1>10, <2>1, <2>4, <2>6
    <3>3. Pbufs(Front(burst)) \in Nat
      BY <1>8, PbufsType
    <3>. QED
      BY <3>1, <3>2, <3>3 DEF Total
  <2>8. Pbufs(burst) <= IP_REASS_MAX_PBUFS
    BY <1>1, <1>7 DEF Fits
  <2>. QED
    BY <1>8, <1>11, <1>12, <2>3, <2>7, <2>8
<1>15. Len(burst) = 1 \/ Len(burst) > 1
  <2>1. \A k \in Nat \ {0} : k = 1 \/ k > 1
    OBVIOUS
  <2>2. Len(burst) \in Nat \ {0}
    BY <1>8
  <2>. QED
    BY <2>1, <2>2, Zenon
<1>. QED
  BY <1>13, <1>14, <1>15, Zenon

LEMMA MakeRoomBurst ==
    ASSUME BurstInv, Fits, SafeVictim, MakeRoom
    PROVE  Filled' /\ Row'
<1>1. /\ step \in {"overflow", "exhausted"} /\ p \in Fragments /\ UNCHANGED <<delivered, burst>>
      /\ ListInv /\ IInv /\ burst \in Seq(Fragments)
  BY DEF MakeRoom, BurstInv, ListInv, IInv, Typed
<1>2. \/ step' = step /\ p' = p
      \/ step = "overflow" /\ step' = "find" /\ p' = p
      \/ step = "exhausted" /\ step' = "enqueue" /\ p' = p
      \/ step' = "receive"
  BY <1>1 DEF MakeRoom, Drop
<1>3. /\ \A i \in DOMAIN Queue' : \E j \in DOMAIN Queue :
            Queue'[i] = Queue[j] /\ ipr'[Queue'[i]] = ipr[Queue[j]]
      /\ \A j \in Own : \E i \in DOMAIN Queue' :
            Queue'[i] = Queue[j] /\ ipr'[Queue'[i]] = ipr[Queue[j]]
      /\ ip_reass_pbufcount' + pbufs_freed' = ip_reass_pbufcount + pbufs_freed
  BY <1>1, Survivors
<1>4. Filled'
  <2>1. \A i \in DOMAIN Queue' : ipr'[Queue'[i]].p # <<>>
    BY <1>1, <1>3 DEF BurstInv, Filled
  <2>2. step = "exhausted" => pbufs_freed' + Len(Queue') >= MEMP_NUM_REASSDATA
    BY <1>1, MakeRoomFilled
  <2>3. step = "overflow" => ip_reass_pbufcount' + pbufs_freed' + p.clen > IP_REASS_MAX_PBUFS
    BY <1>3 DEF BurstInv, Filled
  <2>. QED
    BY <1>1, <1>2, <2>1, <2>2, <2>3 DEF Filled
<1>5. Row'
  <2>. SUFFICES ASSUME burst # <<>> PROVE Row'
    BY <1>1 DEF Row
  <2>1. step' # "receive"
    BY BurstKept
  <2>2. /\ InARow(burst) /\ Last(burst) = p
        /\ Len(burst) > 1 => Held(Front(burst), p.id)
        /\ Len(burst) = 1 => Own = {}
    BY <1>1 DEF BurstInv, Row
  <2>3. p' = p /\ step' # "chain"
    BY <1>1, <1>2, <2>1
  <2>4. Held(Front(burst), p.id) => Held(Front(burst), p.id)'
    <3>. SUFFICES ASSUME Held(Front(burst), p.id) PROVE Held(Front(burst), p.id)'
      OBVIOUS
    <3>1. PICK j \in DOMAIN Queue :
             ipr[Queue[j]].id = p.id /\ ipr[Queue[j]].p = Front(burst) /\ ~ipr[Queue[j]].last
      BY DEF Held
    <3>2. j \in Own
      BY <3>1 DEF Own
    <3>3. PICK i \in DOMAIN Queue' : ipr'[Queue'[i]] = ipr[Queue[j]]
      BY <1>3, <3>2
    <3>. QED
      BY <1>1, <2>3, <3>1, <3>3 DEF Held
  <2>5. Own = {} => Own' = {}
    <3>. SUFFICES ASSUME NEW i \in Own' PROVE Own # {}
      OBVIOUS
    <3>1. i \in DOMAIN Queue' /\ ipr'[Queue'[i]].id = p.id
      BY <2>3 DEF Own
    <3>2. PICK j \in DOMAIN Queue : ipr[Queue[j]].id = p.id
      BY <1>3, <3>1
    <3>. QED
      BY <3>2 DEF Own
  <2>. QED
    BY <1>1, <2>1, <2>2, <2>3, <2>4, <2>5 DEF Row
<1>. QED
  BY <1>4, <1>5

LEMMA ChainBurst ==
    ASSUME BurstInv, Chain
    PROVE  Filled' /\ Row'
<1>1. /\ ListInv /\ IInv /\ Lists /\ Typed /\ Arranged /\ step = "chain" /\ step' = "receive"
      /\ UNCHANGED burst /\ burst \in Seq(Fragments)
  BY ChainIs DEF BurstInv, ListInv, IInv, Typed
<1>2. Typed' /\ Own = {Place}
  BY <1>1, ChainStep, ChainLists DEF IInv
<1>3. /\ Place \in DOMAIN Queue /\ Mine \in Elements /\ p \in Fragments
      /\ Marked.id = ipr[Mine].id /\ Marked.p = ipr[Mine].p
      /\ Marked.last = (ipr[Mine].last \/ ~p.more_fragments)
      /\ Mine = Queue[Place] /\ ipr[Mine].id = p.id /\ ipr[Mine].p \in Seq(Fragments)
      /\ Marked \in Datagrams
  BY <1>1, MineIs DEF Mine, Datagrams
<1>4. \A n \in DOMAIN Queue : n # Place => ipr[Queue[n]].p # <<>>
  BY <1>2 DEF BurstInv, Filled, Own
<1>5. ASSUME NEW d, d.id = ipr[Mine].id, d.p # <<>>,
             ipr' = [ipr EXCEPT ![Mine] = d],
             UNCHANGED <<next, reassdatagrams, memp_tab>>
      PROVE  Filled' /\ Place \in DOMAIN Queue' /\ ipr'[Queue'[Place]] = d
  <2>1. /\ Queue' = Queue /\ ipr'[Queue[Place]] = d
        /\ \A i \in DOMAIN Queue : i # Place => ipr'[Queue[i]] = ipr[Queue[i]]
    BY <1>1, <1>2, <1>3, <1>5, ReplaceLists
  <2>. QED
    BY <1>1, <1>3, <1>4, <1>5, <2>1 DEF Filled
<1>6. CASE /\ Overlaps(ipr[Mine].p, p)
           /\ ipr' = [ipr EXCEPT ![Mine] = Marked]
           /\ UNCHANGED <<next, reassdatagrams, memp_tab, delivered>>
  <2>1. ipr[Mine].p # <<>>
    <3>. SUFFICES ASSUME ipr[Mine].p = <<>> PROVE FALSE
      OBVIOUS
    <3>1. Before(ipr[Mine].p, p) \in 0 .. Len(ipr[Mine].p)
      BY <1>1, <1>3, BeforeIs DEF Arranged
    <3>2. Len(ipr[Mine].p) = 0 /\ DOMAIN ipr[Mine].p = {}
      OBVIOUS
    <3>3. ~(0 < Before(ipr[Mine].p, p))
      BY <3>1, <3>2
    <3>. QED
      BY <1>6, <3>2, <3>3 DEF Overlaps
  <2>2. Filled'
    BY <1>3, <1>5, <1>6, <2>1
  <2>3. burst = <<>>
    BY <1>1, <1>2, <1>6, RowChained
  <2>. QED
    BY <1>1, <2>2, <2>3 DEF Row
<1>7. CASE /\ ~Overlaps(ipr[Mine].p, p) /\ ~(Marked.last /\ Valid(Joined, Gap))
           /\ ipr' = [ipr EXCEPT ![Mine] = [Marked EXCEPT !.p = Joined]]
           /\ UNCHANGED <<next, reassdatagrams, memp_tab, delivered>>
  <2>. DEFINE d == [Marked EXCEPT !.p = Joined]
  <2>1. d.id = p.id /\ d.id = ipr[Mine].id /\ d.p = Joined /\ d.last = Marked.last
    BY <1>3 DEF Datagrams
  <2>2. Joined # <<>>
    BY <1>1, <1>7, JoinedIs
  <2>3. ipr' = [ipr EXCEPT ![Mine] = d]
    BY <1>7
  <2>. HIDE DEF d
  <2>4. Filled' /\ Place \in DOMAIN Queue' /\ ipr'[Queue'[Place]] = d
    BY <1>5, <1>7, <2>1, <2>2, <2>3
  <2>5. Row'
    <3>. SUFFICES ASSUME burst # <<>> PROVE Row'
      BY <1>1 DEF Row
    <3>1. /\ InARow(burst) /\ Last(burst) = p /\ Joined = burst /\ Valid(Joined, Gap)
          /\ ~ipr[Mine].last
      BY <1>1, <1>2, RowChained
    <3>2. ~Marked.last /\ p.more_fragments
      BY <1>3, <1>7, <3>1
    <3>3. Held(burst, Last(burst).id)'
      BY <1>1, <2>1, <2>4, <3>1, <3>2 DEF Held
    <3>. QED
      BY <1>1, <3>1, <3>2, <3>3 DEF Row
  <2>. QED
    BY <2>4, <2>5
<1>8. CASE /\ ~Overlaps(ipr[Mine].p, p) /\ Marked.last /\ Valid(Joined, Gap)
           /\ delivered' = [datagram_len |-> Marked.datagram_len, p |-> Joined]
           /\ Dequeue(Mine, IF Place = 1 THEN NULL ELSE Queue[Place - 1])
  <2>1. /\ \A i \in DOMAIN Queue' : Queue'[i] # Queue[Place] /\ ipr'[Queue'[i]] = ipr[Queue'[i]]
        /\ Range(Queue') = Range(Queue) \ {Queue[Place]}
    <3>. DEFINE prev == IF Place = 1 THEN NULL ELSE Queue[Place - 1]
    <3>1. Dequeue(Queue[Place], prev) /\ (Place # 1 => prev = Queue[Place - 1])
      BY <1>3, <1>8
    <3>. HIDE DEF prev
    <3>. QED
      BY <1>1, <1>3, <3>1, DequeueLists
  <2>2. \A i \in DOMAIN Queue' : ipr'[Queue'[i]].p # <<>>
    <3>. TAKE i \in DOMAIN Queue'
    <3>1. Queue'[i] \in Range(Queue')
      BY Zenon DEF Range
    <3>2. Queue'[i] \in Range(Queue)
      BY <2>1, <3>1
    <3>3. PICK j \in DOMAIN Queue : Queue'[i] = Queue[j]
      BY <3>2, Zenon DEF Range
    <3>. QED
      BY <1>4, <2>1, <3>3
  <2>3. Filled'
    BY <1>1, <2>2 DEF Filled
  <2>4. Row'
    <3>. SUFFICES ASSUME burst # <<>> PROVE Row'
      BY <1>1 DEF Row
    <3>1. InARow(burst) /\ Last(burst) = p /\ Joined = burst /\ ~ipr[Mine].last
      BY <1>1, <1>2, RowChained
    <3>2. ~p.more_fragments
      BY <1>3, <1>8, <3>1
    <3>3. delivered' # NULL /\ delivered'.p = burst
      <4>1. Marked.datagram_len \in Nat
        BY <1>3 DEF Datagrams
      <4>. QED
        BY <1>1, <1>8, <3>1, <4>1, NullIs
    <3>. QED
      BY <1>1, <3>1, <3>2, <3>3 DEF Row
  <2>. QED
    BY <2>3, <2>4
<1>. QED
  BY <1>1, <1>6, <1>7, <1>8, ChainIs

LEMMA StepBurstInv ==
    ASSUME Fits
    PROVE  BurstInv /\ SafeVictim /\ [Next]_vars => BurstInv'
<1>. SUFFICES ASSUME BurstInv, SafeVictim, [Next]_vars PROVE BurstInv'
  OBVIOUS
<1>1. ListInv'
  BY StepListInv DEF BurstInv
<1>2. CASE UNCHANGED vars
  <2>1. Queue' = Queue
    BY <1>2 DEF vars, lists, Queue
  <2>2. Filled' /\ Row'
    BY <1>2, <2>1 DEF vars, lists, BurstInv, Filled, Row, Held, Own
  <2>. QED
    BY <1>1, <2>2 DEF BurstInv
<1>3. CASE \E f \in Fragments : Receive(f)
  BY <1>1, <1>3, ReceiveBurst DEF BurstInv
<1>4. CASE MakeRoom
  BY <1>1, <1>4, MakeRoomBurst DEF BurstInv
<1>5. CASE Find
  BY <1>1, <1>5, FindBurst DEF BurstInv
<1>6. CASE EnqueueNewDatagram
  BY <1>1, <1>6, EnqueueBurst DEF BurstInv
<1>7. CASE Chain
  BY <1>1, <1>7, ChainBurst DEF BurstInv
<1>. QED
  BY <1>2, <1>3, <1>4, <1>5, <1>6, <1>7 DEF Next

\* As long as the victim of each overflow is at the end of the list, a datagram whose
\* fragments come in order and in a row is delivered with the last of them, whatever
\* clogs the reassembly, if the pbufs suffice for it (ip_reass).
THEOREM BurstsDelivered == ASSUME Fits PROVE Spec /\ []SafeVictim => []BurstDelivered
<1>1. Init => BurstInv
  <2>1. Init => Filled /\ Row
    <3>1. Init => ipr = [e \in Elements |-> NoDatagram] /\ step = "receive" /\ burst = <<>> /\ Queue = <<>>
      <4>. SUFFICES ASSUME Init PROVE Queue = <<>>
        BY DEF Init
      <4>1. Linked(next, reassdatagrams, <<>>)
        BY DEF Init, Linked, IsInjective
      <4>. QED
        BY <4>1, FromIs DEF Queue
    <3>. QED
      BY <3>1 DEF Filled, Row
  <2>. QED
    BY <2>1, InitListInv DEF BurstInv
<1>2. BurstInv /\ SafeVictim /\ [Next]_vars => BurstInv'
  BY StepBurstInv
<1>3. BurstInv => BurstDelivered
  BY DEF BurstInv, Row, BurstDelivered
<1>. QED
  BY <1>1, <1>2, <1>3, PTL DEF Spec
=============================================================================
