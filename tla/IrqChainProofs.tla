--------------------------- MODULE IrqChainProofs ---------------------------
(***************************************************************************)
(* Proofs about IrqChain, for every number of ports and irq_info objects.  *)
(* Ports that join and leave at the same time keep the list, the irq_info  *)
(* and the requested interrupt in agreement while a port stays up; and as  *)
(* long as the handler does not give up after PASS_LIMIT rounds it leaves  *)
(* no edge-triggered line up without a new edge.                           *)
(***************************************************************************)
EXTENDS IrqChain, FiniteSetTheorems, SequenceTheorems, TLAPS

PCs == {"down", "linking", "requesting", "up", "stopping", "freeing"}

(* The ports on the chain.                                                 *)
OnChain == {p \in Ports : pc[p] \in {"requesting", "up", "stopping", "freeing"}}

Types ==
  /\ pc \in [Ports -> PCs] /\ work \in [Ports -> 0 .. MaxWork]
  /\ info \in Infos \cup {None} /\ mine \in [Ports -> Infos \cup {None}]
  /\ irq \subseteq Infos /\ ring \in [Infos -> Seq(Ports)]
  /\ h \in [info : Infos \cup {None}, at : Nat, end : Nat, passes : Nat]
  /\ events \in Nat /\ latched \in BOOLEAN

(* A port that joins is the only one, or some port is up: what it looked   *)
(* up stays.                                                               *)
Anchor == \A p \in Joining : Up # {} \/ \A q \in Ports : q # p => pc[q] = "down"

(* hash_mutex: one port at a time gives the interrupt back.                *)
OneFrees == \A p, q \in Ports : pc[p] = "freeing" /\ pc[q] = "freeing" => p = q

(* Every port that is not down uses the irq_info in irq_lists.             *)
MineIsInfo ==
  \A p \in Ports : /\ pc[p] = "down" => mine[p] = None
                   /\ pc[p] # "down" => mine[p] = info /\ info # None

(* Its list holds the ports on the chain, once each; other lists are empty. *)
Lists ==
  /\ \A i \in Infos : IsInjective(ring[i]) /\ (ring[i] # <<>> => info = i)
  /\ info # None => ToSet(ring[info]) = OnChain

(* The interrupt is requested while a port is up; a port that requests it, *)
(* or that gives it back, is alone on the chain.                           *)
Requested ==
  /\ \A i \in irq : ring[i] # <<>>
  /\ \A p \in Ports :
       /\ pc[p] \in {"up", "stopping"} => info \in irq
       /\ pc[p] = "requesting" => irq = {} /\ Len(ring[info]) = 1
       /\ pc[p] = "freeing" /\ Len(ring[info]) = 1 => irq = {}

HandlerAt == h # Idle => h.info \in irq /\ h.at \in DOMAIN ring[h.info]

ChainInv ==
  Types /\ Anchor /\ OneFrees /\ MineIsInfo /\ Lists /\ Requested /\ HandlerAt /\ ~bug

(* The positions of the list that the handler has still to visit before it *)
(* stops: all when the last port it visited had work, and else those from  *)
(* where it is to the first one it found idle.                             *)
Ahead ==
  {j \in DOMAIN ring[h.info] :
     \/ h.end = 0
     \/ h.at <= j /\ j < h.end
     \/ h.end < h.at /\ (h.at <= j \/ j < h.end)}

(* A line that is up and has had no new edge is so for a port ahead.       *)
EdgeAhead ==
  h # Idle =>
    /\ h.end \in 0 .. Len(ring[h.info]) /\ h.end # h.at
    /\ edge /\ LineUp(work) /\ ~latched =>
         \E j \in Ahead : work[ring[h.info][j]] > 0

WorkUp == \A p \in Ports : work[p] > 0 => pc[p] = "up"

(* The causes not dealt with, and the round they bound: in each but the    *)
(* one under way the handler dealt with one.                               *)
Causes == {c \in Ports \X (1 .. MaxWork) : c[2] <= work[c[1]]}

Fresh == (h.end = 0 /\ h.at = 1) \/ h.end = 1 \/ h.at < h.end

Rounds ==
  /\ events <= MaxEvents
  /\ h.passes + Cardinality(Causes) <= events
  /\ h # Idle /\ h.passes + Cardinality(Causes) = events => Fresh

EdgeInv == ChainInv /\ EdgeNotLost /\ EdgeAhead /\ WorkUp /\ Rounds

-----------------------------------------------------------------------------
(* list_del takes one port off the list and keeps the order of the others. *)
LEMMA TakenOff ==
  ASSUME NEW s \in Seq(Ports), IsInjective(s), NEW p \in ToSet(s),
         NEW t, t = RemoveFirst(s, p)
  PROVE  /\ t \in Seq(Ports) /\ Len(t) = Len(s) - 1
         /\ IsInjective(t) /\ ToSet(t) = ToSet(s) \ {p}
<1>1. PICK k \in 1 .. Len(s) : s[k] = p
  BY DEF ToSet
<1>2. Len(s) \in Nat /\ DOMAIN s = 1 .. Len(s)
  BY LenProperties
<1>3. \A i \in 1 .. Len(s) : s[i] = p => i = k
  BY <1>1, <1>2 DEF IsInjective
<1>4. SelectInSeq(s, LAMBDA v : v = p) = k
  <2>1. {i \in 1 .. Len(s) : s[i] = p} = {k}
    BY <1>1, <1>3
  <2>2. Min({k}) = k
    BY DEF Min
  <2> QED BY <2>1, <2>2 DEF SelectInSeq
<1>5. t = SubSeq(s, 1, k - 1) \o SubSeq(s, k + 1, Len(s))
  BY <1>1, <1>4 DEF RemoveFirst, RemoveAt
<1> DEFINE u == SubSeq(s, 1, k - 1)
           v == SubSeq(s, k + 1, Len(s))
<1>6. u \in Seq(Ports) /\ Len(u) = k - 1 /\ \A i \in 1 .. k - 1 : u[i] = s[i]
  <2>1. 1 \in Int /\ k - 1 \in Int /\ \A i \in 1 .. k - 1 : s[i] \in Ports
    BY <1>2, ElementOfSeq
  <2>2. /\ u \in Seq(Ports) /\ Len(u) = IF 1 <= k - 1 THEN (k - 1) - 1 + 1 ELSE 0
        /\ \A i \in 1 .. (k - 1) - 1 + 1 : u[i] = s[1 + i - 1]
    BY <2>1, SubSeqProperties
  <2>3. k \in Nat /\ k >= 1
    BY <1>2
  <2> HIDE DEF u
  <2> QED BY <2>2, <2>3
<1>11. v \in Seq(Ports) /\ Len(v) = Len(s) - k /\ \A i \in 1 .. Len(s) - k : v[i] = s[k + i]
  <2>1. k + 1 \in Int /\ Len(s) \in Int /\ \A i \in k + 1 .. Len(s) : s[i] \in Ports
    BY <1>2, ElementOfSeq
  <2>2. /\ v \in Seq(Ports)
        /\ Len(v) = IF k + 1 <= Len(s) THEN Len(s) - (k + 1) + 1 ELSE 0
        /\ \A i \in 1 .. Len(s) - (k + 1) + 1 : v[i] = s[k + 1 + i - 1]
    BY <2>1, SubSeqProperties
  <2>3. k \in Nat /\ k >= 1 /\ k <= Len(s)
    BY <1>2
  <2> HIDE DEF v
  <2>4. Len(v) = Len(s) - k
    <3>1. CASE k + 1 <= Len(s)
      <4>1. Len(v) = Len(s) - (k + 1) + 1
        BY <2>2, <3>1
      <4> QED BY <1>2, <2>3, <4>1
    <3>2. CASE ~(k + 1 <= Len(s))
      <4>1. Len(v) = 0
        BY <2>2, <3>2
      <4> DEFINE n == Len(s)
      <4>3. n \in Nat /\ k \in Nat /\ k <= n /\ ~(k + 1 <= n)
        BY <1>2, <2>3, <3>2
      <4>2. n = k
        <5> HIDE DEF n
        <5> QED BY <4>3
      <4> QED BY <2>3, <4>1, <4>2
    <3> QED BY <3>1, <3>2
  <2>5. ASSUME NEW i \in 1 .. Len(s) - k PROVE v[i] = s[k + i]
    <3>1. i \in 1 .. Len(s) - (k + 1) + 1 /\ k + 1 + i - 1 = k + i
      BY <1>2, <2>3
    <3> QED BY <2>2, <3>1
  <2> QED BY <2>2, <2>4, <2>5
<1>12. t = u \o v
  BY <1>5
<1> HIDE DEF u, v
<1>7. /\ t \in Seq(Ports) /\ Len(t) = Len(s) - 1
      /\ \A i \in 1 .. Len(t) : t[i] = IF i < k THEN s[i] ELSE s[i + 1]
  <2>1. /\ t \in Seq(Ports) /\ Len(t) = Len(u) + Len(v)
        /\ \A i \in 1 .. Len(u) + Len(v) :
             t[i] = IF i <= Len(u) THEN u[i] ELSE v[i - Len(u)]
    BY <1>6, <1>11, <1>12, ConcatProperties
  <2>2. ASSUME NEW i \in 1 .. Len(t)
        PROVE  t[i] = IF i < k THEN s[i] ELSE s[i + 1]
    <3>1. CASE i < k
      BY <1>2, <1>6, <1>11, <2>1, <3>1
    <3>2. CASE ~(i < k)
      <4>1. i - (k - 1) \in 1 .. Len(s) - k /\ k + (i - (k - 1)) = i + 1
        BY <1>2, <1>6, <1>11, <2>1, <3>2
      <4>2. t[i] = v[i - (k - 1)]
        BY <1>2, <1>6, <1>11, <2>1, <3>2
      <4> QED BY <1>11, <3>2, <4>1, <4>2
    <3> QED BY <3>1, <3>2
  <2> QED BY <1>2, <1>6, <1>11, <2>1, <2>2
<1>8. DOMAIN t = 1 .. Len(t)
  BY <1>7, LenProperties
<1>9. IsInjective(t)
  <2> SUFFICES ASSUME NEW i \in 1 .. Len(t), NEW j \in 1 .. Len(t), t[i] = t[j]
               PROVE  i = j
    BY <1>8 DEF IsInjective
  <2> DEFINE n(x) == IF x < k THEN x ELSE x + 1
  <2>1. n(i) \in 1 .. Len(s) /\ n(j) \in 1 .. Len(s) /\ s[n(i)] = s[n(j)]
    BY <1>2, <1>7
  <2>2. n(i) = n(j)
    <3> HIDE DEF n
    <3> QED BY <1>2, <2>1 DEF IsInjective
  <2> QED BY <1>2, <1>7, <2>2
<1>10. ToSet(t) = ToSet(s) \ {p}
  <2>1. \A i \in 1 .. Len(t) : t[i] \in ToSet(s) /\ t[i] # p
    <3> SUFFICES ASSUME NEW i \in 1 .. Len(t) PROVE t[i] \in ToSet(s) /\ t[i] # p
      OBVIOUS
    <3>1. PICK j \in 1 .. Len(s) : t[i] = s[j] /\ j # k
      BY <1>2, <1>7
    <3> QED BY <1>2, <1>3, <3>1 DEF ToSet
  <2>2. \A i \in 1 .. Len(s) : i # k => s[i] \in ToSet(t)
    <3> SUFFICES ASSUME NEW i \in 1 .. Len(s), i # k PROVE s[i] \in ToSet(t)
      OBVIOUS
    <3>1. CASE i < k
      BY <1>2, <1>7, <1>8, <3>1 DEF ToSet
    <3>2. CASE i > k
      <4>1. i - 1 \in 1 .. Len(t) /\ t[i - 1] = s[i]
        BY <1>2, <1>7, <3>2
      <4> QED BY <1>8, <4>1 DEF ToSet
    <3> QED BY <3>1, <3>2
  <2>3. \A x \in ToSet(t) : x \in ToSet(s) /\ x # p
    BY <1>8, <2>1 DEF ToSet
  <2>4. \A x \in ToSet(s) : x # p => x \in ToSet(t)
    BY <1>1, <1>2, <2>2 DEF ToSet
  <2> QED BY <2>3, <2>4
<1> QED BY <1>7, <1>9, <1>10

(* list_add puts one more port on it.                                      *)
LEMMA PutOn ==
  ASSUME NEW s \in Seq(Ports), IsInjective(s), NEW p \in Ports, p \notin ToSet(s),
         NEW t, t = Linked(s, p)
  PROVE  /\ t \in Seq(Ports) /\ Len(t) = Len(s) + 1 /\ t # <<>>
         /\ IsInjective(t) /\ ToSet(t) = ToSet(s) \cup {p}
<1>1. Len(s) \in Nat /\ DOMAIN s = 1 .. Len(s)
  BY LenProperties
<1>2. CASE s = <<>>
  <2>1. t = <<p>>
    BY <1>2 DEF Linked
  <2>2. Len(t) = 1 /\ t[1] = p /\ DOMAIN t = 1 .. 1 /\ t \in Seq(Ports)
    BY <2>1
  <2>3. ToSet(s) = {}
    BY <1>2 DEF ToSet
  <2> QED BY <1>2, <2>2, <2>3 DEF IsInjective, ToSet
<1>3. CASE s # <<>>
  <2>1. t = <<s[1], p>> \o Tail(s) /\ Len(s) > 0
    BY <1>3, EmptySeq DEF Linked
  <2>2. /\ Tail(s) \in Seq(Ports) /\ Len(Tail(s)) = Len(s) - 1
        /\ \A i \in 1 .. Len(s) - 1 : Tail(s)[i] = s[i + 1]
    BY <1>3, <1>1, HeadTailProperties
  <2>3. s[1] \in Ports
    BY <1>1, <2>1, ElementOfSeq
  <2>4. /\ t \in Seq(Ports) /\ Len(t) = Len(s) + 1
        /\ t[1] = s[1] /\ t[2] = p
        /\ \A i \in 3 .. Len(s) + 1 : t[i] = s[i - 1]
    BY <1>1, <2>1, <2>2, <2>3, ConcatProperties
  <2>5. DOMAIN t = 1 .. Len(t)
    BY <2>4, LenProperties
  <2>6. \A i \in 1 .. Len(s) : s[i] # p
    BY <1>1 DEF ToSet
  <2>7. IsInjective(t)
    <3> SUFFICES ASSUME NEW i \in 1 .. Len(t), NEW j \in 1 .. Len(t), t[i] = t[j]
                 PROVE  i = j
      BY <2>5 DEF IsInjective
    <3>1. \A x, y \in 1 .. Len(s) : s[x] = s[y] => x = y
      BY <1>1 DEF IsInjective
    <3>2. \A x \in 1 .. Len(t) :
            x = 1 \/ x = 2 \/ (x \in 3 .. Len(s) + 1 /\ x - 1 \in 1 .. Len(s))
      BY <1>1, <2>4
    <3> QED BY <1>1, <2>1, <2>4, <2>6, <3>1, <3>2
  <2>8. ToSet(t) = ToSet(s) \cup {p}
    <3>1. \A i \in 1 .. Len(t) : t[i] \in ToSet(s) \cup {p}
      <4> SUFFICES ASSUME NEW i \in 1 .. Len(t) PROVE t[i] \in ToSet(s) \cup {p}
        OBVIOUS
      <4>1. t[i] = p \/ \E j \in 1 .. Len(s) : t[i] = s[j]
        <5>1. i = 1 \/ i = 2 \/ (i \in 3 .. Len(s) + 1 /\ i - 1 \in 1 .. Len(s))
          BY <1>1, <2>4
        <5>2. 1 \in 1 .. Len(s)
          BY <1>1, <2>1
        <5> QED BY <2>4, <5>1, <5>2
      <4> QED BY <1>1, <4>1 DEF ToSet
    <3>2. \A i \in 1 .. Len(s) : s[i] \in ToSet(t)
      <4> SUFFICES ASSUME NEW i \in 1 .. Len(s) PROVE s[i] \in ToSet(t)
        OBVIOUS
      <4>1. CASE i = 1
        <5>1. 1 \in DOMAIN t
          BY <1>1, <2>4, <2>5
        <5>2. s[i] = t[1]
          BY <2>4, <4>1
        <5> QED BY <5>1, <5>2 DEF ToSet
      <4>2. CASE i # 1
        <5>1. i + 1 \in 3 .. Len(s) + 1 /\ t[i + 1] = s[i]
          BY <1>1, <2>4, <4>2
        <5>2. i + 1 \in DOMAIN t
          BY <1>1, <2>4, <2>5, <5>1
        <5> QED BY <5>1, <5>2 DEF ToSet
      <4> QED BY <4>1, <4>2
    <3>3. p \in ToSet(t)
      BY <1>1, <2>1, <2>4, <2>5 DEF ToSet
    <3> QED BY <1>1, <2>5, <3>1, <3>2, <3>3 DEF ToSet
  <2> QED BY <1>1, <2>4, <2>7, <2>8, EmptySeq
<1> QED BY <1>2, <1>3

-----------------------------------------------------------------------------
(* What every step uses: a handler at work is on the list of the irq_info  *)
(* in irq_lists, and a port on the chain is on that list.                  *)
LEMMA ChainFacts ==
  ASSUME ChainInv
  PROVE  /\ info # None => info \in Infos
         /\ h # Idle => h.info = info /\ info # None /\ ring[info] # <<>>
         /\ irq \subseteq {info}
         /\ \A i \in Infos : i # info => ring[i] = <<>>
         /\ \A i \in Infos : ring[i] \in Seq(Ports) /\ Len(ring[i]) \in Nat
         /\ \A p \in OnChain : info # None /\ p \in ToSet(ring[info]) /\ Len(ring[info]) > 0
         /\ info # None /\ Len(ring[info]) = 1 => \A p, q \in OnChain : p = q
<1>1. /\ info # None => info \in Infos
      /\ \A i \in Infos : ring[i] \in Seq(Ports) /\ Len(ring[i]) \in Nat
      /\ \A i \in Infos : i # info => ring[i] = <<>>
  BY LenProperties DEF ChainInv, Types, Lists
<1>2. irq \subseteq {info}
  BY <1>1 DEF ChainInv, Types, Requested
<1>3. h # Idle => h.info = info /\ info # None /\ ring[info] # <<>>
  BY <1>1, <1>2, ChainAssumption DEF ChainInv, Types, Requested, HandlerAt
<1>4. ASSUME NEW p \in OnChain
      PROVE  info # None /\ p \in ToSet(ring[info]) /\ Len(ring[info]) > 0
  <2>1. info # None
    BY DEF ChainInv, MineIsInfo, OnChain
  <2>2. p \in ToSet(ring[info])
    BY <2>1 DEF ChainInv, Lists
  <2>3. ring[info] # <<>>
    BY <2>2 DEF ToSet
  <2> QED BY <1>1, <2>1, <2>2, <2>3, EmptySeq
<1>5. ASSUME info # None, Len(ring[info]) = 1 PROVE \A p, q \in OnChain : p = q
  <2>1. ToSet(ring[info]) = {ring[info][1]}
    BY <1>1, <1>5, LenProperties DEF ToSet
  <2> QED BY <1>5, <2>1 DEF ChainInv, Lists
<1> QED BY <1>1, <1>2, <1>3, <1>4, <1>5

(* A port looks the irq_info up, or is the first and allocates it.         *)
LEMMA FindStep ==
  ASSUME Anchored, ChainInv, NEW p \in Ports, LinkFind(p)
  PROVE  ChainInv'
<1> USE ChainAssumption
<1>1. /\ pc[p] = "down" /\ (Up # {} \/ Busy \subseteq {p}) /\ HashFree
      /\ pc' = [pc EXCEPT ![p] = "linking"]
      /\ UNCHANGED <<work, latched, ring, irq, h, events, bug>>
  BY DEF LinkFind, MayStart
<1>2. /\ pc' \in [Ports -> PCs] /\ pc'[p] = "linking"
      /\ \A q \in Ports : q # p => pc'[q] = pc[q]
  BY <1>1 DEF ChainInv, Types, PCs
<1>3. OnChain' = OnChain
  BY <1>1, <1>2 DEF OnChain
<1>4. Anchor' /\ OneFrees'
  <2>1. Up' = Up /\ Joining' = Joining \cup {p}
    BY <1>1, <1>2 DEF Up, Joining
  <2>2. Up = {} => \A q \in Ports : pc[q] = "down"
    BY <1>1 DEF Up, Busy
  <2>3. Anchor'
    BY <1>2, <2>1, <2>2 DEF Anchor, Joining
  <2>4. OneFrees'
    BY <1>2 DEF ChainInv, OneFrees
  <2> QED BY <2>3, <2>4
<1>5. CASE info # None
  <2>1. mine' = [mine EXCEPT ![p] = info] /\ info' = info
    BY <1>5 DEF LinkFind
  <2>2. /\ mine' \in [Ports -> Infos \cup {None}] /\ mine'[p] = info
        /\ \A q \in Ports : q # p => mine'[q] = mine[q]
    BY <1>5, <2>1 DEF ChainInv, Types
  <2>3. Types'
    BY <1>1, <1>2, <2>1, <2>2 DEF ChainInv, Types
  <2>4. MineIsInfo'
    BY <1>2, <1>5, <2>1, <2>2 DEF ChainInv, MineIsInfo
  <2>5. Lists' /\ HandlerAt' /\ ~bug'
    BY <1>1, <1>3, <2>1 DEF ChainInv, Lists, HandlerAt, Idle
  <2>6. Requested'
    BY <1>1, <1>2, <2>1 DEF ChainInv, Requested
  <2> QED BY <1>4, <2>3, <2>4, <2>5, <2>6 DEF ChainInv
<1>6. CASE info = None
  <2>1. PICK i \in Infos : info' = i /\ mine' = [mine EXCEPT ![p] = i]
    BY <1>6 DEF LinkFind
  <2>2. /\ mine' \in [Ports -> Infos \cup {None}] /\ mine'[p] = i
        /\ \A q \in Ports : q # p => mine'[q] = mine[q]
    BY <2>1 DEF ChainInv, Types
  <2>3. \A q \in Ports : pc[q] = "down"
    BY <1>6 DEF ChainInv, MineIsInfo
  <2>4. \A j \in Infos : ring[j] = <<>>
    BY <1>6 DEF ChainInv, Lists
  <2>5. irq = {}
    BY <2>4 DEF ChainInv, Requested, Types
  <2>6. Types'
    BY <1>1, <1>2, <2>1, <2>2 DEF ChainInv, Types
  <2>7. MineIsInfo'
    BY <1>2, <2>1, <2>2, <2>3 DEF ChainInv, MineIsInfo
  <2>8. OnChain = {} /\ ToSet(ring[i]) = {}
    BY <2>3, <2>4 DEF OnChain, ToSet
  <2>9. Lists'
    BY <1>1, <1>3, <2>1, <2>4, <2>8 DEF ChainInv, Lists
  <2>10. Requested' /\ HandlerAt' /\ ~bug'
    BY <1>1, <1>2, <2>3, <2>5 DEF ChainInv, Requested, HandlerAt, Idle
  <2> QED BY <1>4, <2>6, <2>7, <2>9, <2>10 DEF ChainInv
<1> QED BY <1>5, <1>6

(* A port joins the list; when others are on it one of them is up, so that *)
(* the interrupt is requested already.                                     *)
LEMMA AddStep ==
  ASSUME ChainInv, NEW p \in Ports, LinkAdd(p)
  PROVE  ChainInv'
<1> USE ChainAssumption
<1>1. /\ pc[p] = "linking" /\ mine[p] = info /\ info \in Infos /\ info # None
      /\ h = Idle
  BY ChainFacts DEF LinkAdd, Running, ChainInv, MineIsInfo
<1>2. /\ ring' = [ring EXCEPT ![info] = Linked(@, p)]
      /\ pc' = [pc EXCEPT ![p] = IF ring[info] = <<>> THEN "requesting" ELSE "up"]
      /\ ~bug'
      /\ UNCHANGED <<work, latched, info, mine, irq, h, events>>
  <2>1. ~(bug \/ info # mine[p])
    BY <1>1 DEF ChainInv
  <2> QED BY <1>1, <2>1 DEF LinkAdd
<1>3. p \notin ToSet(ring[info]) /\ ring[info] \in Seq(Ports) /\ IsInjective(ring[info])
  BY <1>1 DEF ChainInv, Types, Lists, OnChain
<1>4. /\ Linked(ring[info], p) \in Seq(Ports) /\ Linked(ring[info], p) # <<>>
      /\ Len(Linked(ring[info], p)) = Len(ring[info]) + 1
      /\ IsInjective(Linked(ring[info], p))
      /\ ToSet(Linked(ring[info], p)) = ToSet(ring[info]) \cup {p}
  BY <1>3, PutOn
<1>5. /\ ring' \in [Infos -> Seq(Ports)] /\ ring'[info] = Linked(ring[info], p)
      /\ \A i \in Infos : i # info => ring'[i] = ring[i]
  BY <1>1, <1>2, <1>4 DEF ChainInv, Types
<1>6. /\ pc' \in [Ports -> PCs]
      /\ pc'[p] = IF ring[info] = <<>> THEN "requesting" ELSE "up"
      /\ \A q \in Ports : q # p => pc'[q] = pc[q]
  BY <1>2 DEF ChainInv, Types, PCs
<1>7. Types'
  BY <1>2, <1>5, <1>6 DEF ChainInv, Types
<1>8. Up # {} \/ \A q \in Ports : q # p => pc[q] = "down"
  BY <1>1 DEF ChainInv, Anchor, Joining
<1>9. Anchor' /\ OneFrees'
  <2>1. Up \subseteq Up' /\ Joining' \subseteq Joining
    BY <1>1, <1>6 DEF Up, Joining
  <2>2. ASSUME NEW r \in Joining'
        PROVE  Up' # {} \/ \A q \in Ports : q # r => pc'[q] = "down"
    <3>1. CASE Up # {}
      BY <2>1, <3>1
    <3>2. CASE Up = {}
      <4>1. r = p
        BY <1>1, <1>8, <2>1, <3>2 DEF Joining
      <4> QED BY <1>6, <1>8, <3>2, <4>1
    <3> QED BY <3>1, <3>2
  <2>3. Anchor'
    BY <2>2 DEF Anchor
  <2>4. OneFrees'
    BY <1>6 DEF ChainInv, OneFrees
  <2> QED BY <2>3, <2>4
<1>10. MineIsInfo'
  BY <1>1, <1>2, <1>6 DEF ChainInv, MineIsInfo
<1>11. OnChain' = OnChain \cup {p}
  BY <1>6 DEF OnChain
<1>12. Lists'
  BY <1>1, <1>2, <1>4, <1>5, <1>11 DEF ChainInv, Lists
<1>13. \A i \in irq : ring'[i] # <<>>
  BY <1>4, <1>5 DEF ChainInv, Types, Requested
<1>14. CASE ring[info] = <<>>
  <2>1. irq = {}
    BY <1>14, ChainFacts DEF ChainInv, Requested
  <2>2. OnChain = {}
    BY <1>1, <1>14 DEF ChainInv, Lists, ToSet
  <2>3. Len(ring'[info]) = 1
    BY <1>4, <1>5, <1>14
  <2>4. \A q \in Ports : q # p => pc'[q] = "down"
    <3>1. Up = {}
      BY <2>2 DEF Up, OnChain
    <3> QED BY <1>6, <1>8, <3>1
  <2>5. Requested'
    BY <1>2, <1>6, <1>13, <1>14, <2>1, <2>3, <2>4 DEF Requested
  <2> QED BY <1>1, <1>2, <1>7, <1>9, <1>10, <1>12, <2>5 DEF ChainInv, HandlerAt, Idle
<1>15. CASE ring[info] # <<>>
  <2>1. PICK q \in OnChain : TRUE
    <3>1. ring[info][1] \in ToSet(ring[info])
      BY <1>3, <1>15, EmptySeq, LenProperties DEF ToSet
    <3> QED BY <1>1, <3>1 DEF ChainInv, Lists
  <2>2. PICK r \in Ports : pc[r] = "up"
    BY <1>1, <1>8, <2>1 DEF OnChain, Up
  <2>3. info \in irq
    BY <2>2 DEF ChainInv, Requested
  <2>4. \A s \in Ports : pc[s] # "requesting"
    BY <2>3 DEF ChainInv, Requested
  <2>5. ~(Len(ring'[info]) = 1)
    <3> DEFINE n == Len(ring[info])
    <3>1. n \in Nat /\ n # 0 /\ Len(ring'[info]) = n + 1
      BY <1>3, <1>4, <1>5, <1>15, EmptySeq, LenProperties
    <3> HIDE DEF n
    <3> QED BY <3>1
  <2>6. Requested'
    BY <1>2, <1>6, <1>13, <1>15, <2>3, <2>4, <2>5 DEF Requested
  <2> QED BY <1>1, <1>2, <1>7, <1>9, <1>10, <1>12, <2>6 DEF ChainInv, HandlerAt, Idle
<1> QED BY <1>14, <1>15

(* The first port gets its interrupt.                                      *)
LEMMA RequestStep ==
  ASSUME ChainInv, NEW p \in Ports, LinkRequest(p)
  PROVE  ChainInv'
<1>1. /\ pc[p] = "requesting" /\ mine[p] = info /\ info \in Infos
      /\ irq = {} /\ ring[info] # <<>> /\ h = Idle
  <2>1. pc[p] = "requesting"
    BY DEF LinkRequest
  <2>2. mine[p] = info /\ info # None /\ irq = {} /\ Len(ring[info]) = 1
    BY <2>1 DEF ChainInv, MineIsInfo, Requested
  <2>3. h = Idle
    BY <2>2 DEF ChainInv, HandlerAt
  <2>4. info \in Infos /\ ring[info] # <<>>
    <3>1. info \in Infos
      BY <2>2, ChainFacts
    <3>2. ring[info] \in Seq(Ports)
      BY <3>1, ChainFacts
    <3>3. ring[info] = <<>> => Len(ring[info]) = 0
      BY <3>2, EmptySeq
    <3> QED BY <2>2, <3>1, <3>3
  <2> QED BY <2>1, <2>2, <2>3, <2>4
<1>2. /\ irq' = {info} /\ pc' = [pc EXCEPT ![p] = "up"]
      /\ UNCHANGED <<work, latched, info, mine, ring, h, events, bug>>
  BY <1>1 DEF LinkRequest
<1>3. /\ pc' \in [Ports -> PCs] /\ pc'[p] = "up"
      /\ \A q \in Ports : q # p => pc'[q] = pc[q]
  BY <1>2 DEF ChainInv, Types, PCs
<1>4. Types'
  BY <1>1, <1>2, <1>3 DEF ChainInv, Types
<1>5. Anchor' /\ OneFrees' /\ MineIsInfo'
  <2>1. p \in Up'
    BY <1>3 DEF Up
  <2>2. OneFrees' /\ MineIsInfo'
    BY <1>1, <1>2, <1>3 DEF ChainInv, OneFrees, MineIsInfo
  <2> QED BY <2>1, <2>2 DEF Anchor
<1>6. OnChain' = OnChain
  BY <1>1, <1>3 DEF OnChain
<1>7. Lists'
  BY <1>2, <1>6 DEF ChainInv, Lists
<1>8. Requested'
  <2>1. Up = {}
    BY <1>1 DEF ChainInv, Requested, Up
  <2>2. \A q \in Ports : q # p => pc[q] = "down"
    BY <1>1, <2>1 DEF ChainInv, Anchor, Joining
  <2> QED BY <1>1, <1>2, <1>3, <2>2 DEF Requested
<1> QED BY <1>1, <1>2, <1>4, <1>5, <1>7, <1>8 DEF ChainInv, HandlerAt, Idle

(* A port that is on its way out is taken off: with the last one the       *)
(* irq_info goes, and then nobody uses it and its interrupt is not held.   *)
LEMMA LeaveStep ==
  ASSUME ChainInv, NEW p \in Ports, pc[p] \in {"requesting", "freeing"},
         ~Running(mine[p]), Unlinked(p),
         pc' = [pc EXCEPT ![p] = "down"], mine' = [mine EXCEPT ![p] = None],
         UNCHANGED <<work, latched, irq, h, events, bug>>
  PROVE  ChainInv'
<1> USE ChainAssumption
<1>1. mine[p] = info /\ info \in Infos /\ info # None /\ h = Idle /\ p \in OnChain
  BY ChainFacts DEF Running, ChainInv, MineIsInfo, OnChain
<1>2. p \in ToSet(ring[info]) /\ ring[info] \in Seq(Ports) /\ IsInjective(ring[info])
  BY <1>1 DEF ChainInv, Types, Lists
<1> DEFINE t == RemoveFirst(ring[info], p)
<1>3. /\ t \in Seq(Ports) /\ Len(t) = Len(ring[info]) - 1
      /\ IsInjective(t) /\ ToSet(t) = ToSet(ring[info]) \ {p}
  BY <1>2, TakenOff
<1>4. /\ ring' = [ring EXCEPT ![info] = t]
      /\ info' = IF ring'[info] = <<>> THEN None ELSE info
  BY <1>1 DEF Unlinked
<1> HIDE DEF t
<1>5. /\ ring' \in [Infos -> Seq(Ports)] /\ ring'[info] = t
      /\ \A i \in Infos : i # info => ring'[i] = ring[i]
  BY <1>1, <1>3, <1>4 DEF ChainInv, Types
<1>6. /\ pc' \in [Ports -> PCs] /\ pc'[p] = "down"
      /\ \A q \in Ports : q # p => pc'[q] = pc[q]
  BY DEF ChainInv, Types, PCs
<1>7. /\ mine' \in [Ports -> Infos \cup {None}] /\ mine'[p] = None
      /\ \A q \in Ports : q # p => mine'[q] = mine[q]
  BY DEF ChainInv, Types
<1>8. Types'
  BY <1>1, <1>4, <1>5, <1>6, <1>7 DEF ChainInv, Types
<1>9. \A q \in Ports : q # p => pc[q] \notin {"requesting", "freeing"}
  <2>1. CASE pc[p] = "freeing"
    <3>1. ASSUME NEW q \in Ports, q # p, pc[q] = "requesting" PROVE FALSE
      <4>1. Len(ring[info]) = 1 /\ q \in OnChain
        BY <3>1 DEF ChainInv, Requested, OnChain
      <4> QED BY <1>1, <3>1, <4>1, ChainFacts
    <3> QED BY <2>1, <3>1 DEF ChainInv, OneFrees
  <2>2. CASE pc[p] = "requesting"
    <3>1. Up = {}
      BY <2>2 DEF ChainInv, Requested, Up
    <3>2. \A q \in Ports : q # p => pc[q] = "down"
      BY <2>2, <3>1 DEF ChainInv, Anchor, Joining
    <3> QED BY <3>2
  <2> QED BY <2>1, <2>2
<1>10. Anchor' /\ OneFrees'
  <2>1. Up' = Up /\ Joining' \subseteq Joining
    BY <1>6 DEF Up, Joining
  <2>2. \A q \in Ports : pc[q] = "down" => pc'[q] = "down"
    BY <1>6
  <2>3. Anchor'
    BY <2>1, <2>2 DEF ChainInv, Anchor
  <2>4. OneFrees'
    BY <1>6 DEF ChainInv, OneFrees
  <2> QED BY <2>3, <2>4
<1>11. OnChain' = OnChain \ {p} /\ ToSet(t) = OnChain'
  BY <1>1, <1>3, <1>6 DEF ChainInv, Lists, OnChain
<1>12. HandlerAt' /\ ~bug'
  BY <1>1 DEF ChainInv, HandlerAt, Idle
<1>13. \A i \in Infos : i # info => ring[i] = <<>>
  BY ChainFacts
<1>14. CASE t = <<>>
  <2>1. info' = None /\ OnChain' = {}
    BY <1>4, <1>5, <1>11, <1>14 DEF ToSet
  <2>2. \A q \in Ports : pc'[q] = "down"
    <3>1. \A q \in Ports : pc'[q] \in {"down", "linking"}
      BY <1>6, <2>1 DEF OnChain, PCs
    <3>2. Up = {}
      BY <1>6, <3>1 DEF Up
    <3>3. \A q \in Ports : pc'[q] # "linking"
      BY <1>6, <3>2 DEF ChainInv, Anchor, Joining
    <3> QED BY <3>1, <3>3
  <2>3. MineIsInfo'
    BY <1>6, <1>7, <2>2 DEF ChainInv, MineIsInfo
  <2>4. Lists'
    BY <1>3, <1>5, <1>13, <1>14, <2>1 DEF ChainInv, Lists
  <2>5. irq = {}
    <3>1. Len(ring[info]) = 1
      BY <1>2, <1>3, <1>14, LenProperties
    <3> QED BY <3>1 DEF ChainInv, Requested
  <2>6. Requested'
    BY <2>2, <2>5 DEF Requested
  <2> QED BY <1>8, <1>10, <1>12, <2>3, <2>4, <2>6 DEF ChainInv
<1>15. CASE t # <<>>
  <2>1. info' = info
    BY <1>4, <1>5, <1>15
  <2>2. MineIsInfo'
    BY <1>6, <1>7, <2>1 DEF ChainInv, MineIsInfo
  <2>3. Lists'
    BY <1>3, <1>5, <1>11, <1>13, <2>1 DEF ChainInv, Lists
  <2>4. Requested'
    BY <1>5, <1>6, <1>9, <1>15, <2>1 DEF ChainInv, Types, Requested
  <2> QED BY <1>8, <1>10, <1>12, <2>2, <2>3, <2>4 DEF ChainInv
<1> QED BY <1>14, <1>15

(* A port's IER is cleared.                                                *)
LEMMA SilenceStep ==
  ASSUME Anchored, ChainInv, NEW p \in Ports, Silence(p)
  PROVE  ChainInv'
<1>1. /\ pc[p] = "up" /\ (Up # {p} \/ Joining \subseteq {p})
      /\ pc' = [pc EXCEPT ![p] = "stopping"] /\ work' = [work EXCEPT ![p] = 0]
      /\ UNCHANGED <<latched, info, mine, ring, irq, h, events, bug>>
  BY DEF Silence, MayStop
<1>2. /\ pc' \in [Ports -> PCs] /\ pc'[p] = "stopping"
      /\ \A q \in Ports : q # p => pc'[q] = pc[q]
  BY <1>1 DEF ChainInv, Types, PCs
<1>3. work' \in [Ports -> 0 .. MaxWork]
  BY <1>1, ChainAssumption DEF ChainInv, Types
<1>4. Types'
  BY <1>1, <1>2, <1>3 DEF ChainInv, Types
<1>5. Anchor' /\ OneFrees' /\ MineIsInfo'
  <2>1. p \in Up /\ p \notin Joining /\ Up' = Up \ {p} /\ Joining' = Joining
    BY <1>1, <1>2 DEF Up, Joining
  <2>2. Anchor'
    BY <1>1, <2>1 DEF Anchor
  <2> QED BY <1>1, <1>2, <2>2 DEF ChainInv, OneFrees, MineIsInfo
<1>6. OnChain' = OnChain
  BY <1>1, <1>2 DEF OnChain
<1>7. Lists' /\ HandlerAt' /\ ~bug'
  BY <1>1, <1>6 DEF ChainInv, Lists, HandlerAt, Idle
<1>8. Requested'
  BY <1>1, <1>2 DEF ChainInv, Requested
<1> QED BY <1>4, <1>5, <1>7, <1>8 DEF ChainInv

(* A port alone on the list gives the interrupt back.                      *)
LEMMA FreeStep ==
  ASSUME ChainInv, NEW p \in Ports, UnlinkFree(p)
  PROVE  ChainInv'
<1>1. /\ pc[p] = "stopping" /\ mine[p] = info /\ info \in Infos /\ info # None
      /\ p \in OnChain
  BY ChainFacts DEF UnlinkFree, ChainInv, MineIsInfo, OnChain
<1>2. ring[info] # <<>> /\ Len(ring[info]) \in Nat /\ Len(ring[info]) > 0
  <2>1. Len(ring[info]) \in Nat /\ Len(ring[info]) > 0
    BY <1>1, ChainFacts
  <2> QED BY <1>1, <2>1, EmptySeq DEF ChainInv, Types
<1>3. /\ pc' = [pc EXCEPT ![p] = "freeing"] /\ ~bug'
      /\ UNCHANGED <<work, latched, info, mine, ring, h, events>>
  <2>1. ~(bug \/ info # mine[p] \/ ring[mine[p]] = <<>>)
    BY <1>1, <1>2 DEF ChainInv
  <2> QED BY <1>1, <2>1 DEF UnlinkFree
<1>4. /\ pc' \in [Ports -> PCs] /\ pc'[p] = "freeing"
      /\ \A q \in Ports : q # p => pc'[q] = pc[q]
  BY <1>3 DEF ChainInv, Types, PCs
<1>5. \A q \in Ports : pc[q] # "freeing"
  BY DEF UnlinkFree, HashFree
<1>6. Anchor' /\ OneFrees' /\ MineIsInfo'
  <2>1. Up' = Up /\ Joining' = Joining
    BY <1>1, <1>4 DEF Up, Joining
  <2>2. \A q \in Ports : pc[q] = "down" => pc'[q] = "down"
    BY <1>1, <1>4
  <2>3. Anchor'
    BY <2>1, <2>2 DEF ChainInv, Anchor
  <2>4. OneFrees' /\ MineIsInfo'
    BY <1>1, <1>3, <1>4, <1>5 DEF ChainInv, OneFrees, MineIsInfo
  <2> QED BY <2>3, <2>4
<1>7. OnChain' = OnChain
  BY <1>1, <1>4 DEF OnChain
<1>8. Lists' /\ ~bug'
  BY <1>3, <1>7 DEF ChainInv, Lists
<1>9. CASE Len(ring[info]) > 1
  <2>1. irq' = irq
    BY <1>1, <1>9 DEF UnlinkFree
  <2>2. Types' /\ HandlerAt'
    BY <1>3, <1>4, <2>1 DEF ChainInv, Types, HandlerAt, Idle
  <2>3. info \in irq
    BY <1>1 DEF ChainInv, Requested
  <2>4. \A q \in Ports : pc'[q] \in {"up", "stopping"} => info' \in irq'
    BY <1>3, <2>1, <2>3
  <2>5. \A q \in Ports : pc'[q] # "requesting"
    BY <1>4, <2>3 DEF ChainInv, Requested
  <2>6. ~(Len(ring'[info']) = 1)
    <3>1. ring'[info'] = ring[info]
      BY <1>3
    <3> DEFINE n == Len(ring[info])
    <3>2. n \in Nat /\ n > 1
      BY <1>2, <1>9
    <3>3. n # 1
      <4> HIDE DEF n
      <4> QED BY <3>2
    <3> QED BY <3>1, <3>3
  <2>7. \A i \in irq' : ring'[i] # <<>>
    BY <1>3, <2>1 DEF ChainInv, Requested
  <2>8. Requested'
    BY <2>4, <2>5, <2>6, <2>7 DEF Requested
  <2> QED BY <1>6, <1>8, <2>2, <2>8 DEF ChainInv
<1>10. CASE ~(Len(ring[info]) > 1)
  <2>1. irq' = irq \ {info} /\ ~Running(info)
    BY <1>1, <1>10 DEF UnlinkFree
  <2>2. irq' = {} /\ h = Idle /\ Len(ring[info]) = 1
    <3>1. irq \subseteq {info} /\ (h # Idle => h.info = info)
      BY ChainFacts
    <3>2. Len(ring[info]) = 1
      <4> DEFINE n == Len(ring[info])
      <4>1. n \in Nat /\ n > 0 /\ ~(n > 1)
        BY <1>2, <1>10
      <4> HIDE DEF n
      <4>2. n = 1
        BY <4>1
      <4> QED BY <4>2 DEF n
    <3> QED BY <2>1, <3>1, <3>2 DEF Running
  <2>3. Types' /\ HandlerAt'
    BY <1>3, <1>4, <2>2 DEF ChainInv, Types, HandlerAt, Idle
  <2>4. \A q \in Ports : q # p => pc[q] \notin {"requesting", "up", "stopping"}
    <3>1. \A q \in OnChain : q = p
      BY <1>1, <2>2, ChainFacts
    <3> QED BY <3>1 DEF OnChain
  <2>5. Requested'
    BY <1>3, <1>4, <2>2, <2>4 DEF Requested
  <2> QED BY <1>6, <1>8, <2>3, <2>5 DEF ChainInv
<1> QED BY <1>9, <1>10

-----------------------------------------------------------------------------
(* The port the handler goes on to, and the mark it carries.               *)
LEMMA NextPort ==
  ASSUME h \in [info : Infos \cup {None}, at : Nat, end : Nat, passes : Nat],
         Len(ring[h.info]) \in Nat, h.at \in 1 .. Len(ring[h.info]),
         NEW handled \in BOOLEAN, NEW t, t = HandlerNext(h.at, h.end, handled)
  PROVE  LET next == IF h.at = Len(ring[h.info]) THEN 1 ELSE h.at + 1
             last == IF handled THEN 0 ELSE IF h.end = 0 THEN h.at ELSE h.end
         IN  /\ next = last => t = Idle
             /\ \/ t = Idle
                \/ /\ t \in [info : Infos \cup {None}, at : Nat, end : Nat, passes : Nat]
                   /\ t.info = h.info /\ t.at \in 1 .. Len(ring[h.info])
                   /\ t.at = next /\ t.end = last
                   /\ t.passes = IF next = 1 THEN h.passes + 1 ELSE h.passes
             /\ t = Idle => next = last \/ (next = 1 /\ h.passes > PassLimit)
<1> DEFINE n == Len(ring[h.info])
           next == IF h.at = n THEN 1 ELSE h.at + 1
           last == IF handled THEN 0 ELSE IF h.end = 0 THEN h.at ELSE h.end
           goes == [h EXCEPT !.at = next, !.end = last,
                             !.passes = IF next = 1 THEN @ + 1 ELSE @]
<1>1. t = IF next = last \/ (next = 1 /\ h.passes > PassLimit) THEN Idle ELSE goes
  BY DEF HandlerNext
<1>2. n \in Nat /\ h.at \in 1 .. n /\ h.end \in Nat /\ h.passes \in Nat
      /\ h.info \in Infos \cup {None}
  OBVIOUS
<1>3. next \in 1 .. n /\ last \in Nat
  <2> HIDE DEF n
  <2> QED BY <1>2
<1>4. /\ goes.info = h.info /\ goes.at = next /\ goes.end = last
      /\ goes.passes = IF next = 1 THEN h.passes + 1 ELSE h.passes
      /\ goes \in [info : Infos \cup {None}, at : Nat, end : Nat, passes : Nat]
  <2> HIDE DEF n, next, last
  <2>1. (IF next = 1 THEN h.passes + 1 ELSE h.passes) \in Nat
    BY <1>2
  <2> DEFINE pass == IF next = 1 THEN h.passes + 1 ELSE h.passes
  <2>2. goes = [info |-> h.info, at |-> next, end |-> last, passes |-> pass]
    <3>1. DOMAIN h = {"info", "at", "end", "passes"}
      OBVIOUS
    <3>2. goes = [f \in DOMAIN h |-> IF f = "at" THEN next ELSE IF f = "end" THEN last
                                     ELSE IF f = "passes" THEN pass ELSE h[f]]
      BY <3>1
    <3> QED BY <3>1, <3>2
  <2> HIDE DEF goes, pass
  <2>3. pass \in Nat
    BY <2>1 DEF pass
  <2>4. goes.info = h.info /\ goes.at = next /\ goes.end = last /\ goes.passes = pass
    BY <2>2
  <2>5. next \in Nat
    BY <1>2, <1>3 DEF n
  <2>6. goes \in [info : Infos \cup {None}, at : Nat, end : Nat, passes : Nat]
    BY <1>2, <1>3, <2>2, <2>3, <2>5
  <2> QED BY <2>4, <2>6 DEF pass
<1> HIDE DEF goes
<1>5. goes # Idle
  <2>1. Idle.at = 0
    BY DEF Idle
  <2> QED BY <1>3, <1>4, <2>1
<1> QED BY <1>1, <1>3, <1>4, <1>5

(* What a visit does to the port the handler is at.                        *)
LEMMA VisitFacts ==
  ASSUME ChainInv, HandlerVisit
  PROVE  /\ h # Idle /\ ring[h.info][h.at] \in Ports
         /\ work[ring[h.info][h.at]] \in Nat
         /\ h' = HandlerNext(h.at, h.end, work[ring[h.info][h.at]] > 0)
         /\ \/ work[ring[h.info][h.at]] = 0 /\ work' = work
            \/ /\ work[ring[h.info][h.at]] > 0
               /\ \E left \in 0 .. work[ring[h.info][h.at]] - 1 :
                    work' = [work EXCEPT ![ring[h.info][h.at]] = left]
<1> DEFINE p == ring[h.info][h.at]
<1>1. h # Idle
  BY DEF HandlerVisit
<1>2. h.info \in Infos /\ h.at \in DOMAIN ring[h.info] /\ ring[h.info] \in Seq(Ports)
  BY <1>1 DEF ChainInv, Types, HandlerAt
<1>3. p \in Ports
  BY <1>2, ElementOfSeq, LenProperties
<1>4. /\ \/ work[p] = 0 /\ UNCHANGED work
         \/ \E left \in 0 .. work[p] - 1 : work' = [work EXCEPT ![p] = left]
      /\ h' = HandlerNext(h.at, h.end, work[p] > 0)
  BY DEF HandlerVisit
<1> HIDE DEF p
<1>5. work[p] \in 0 .. MaxWork
  BY <1>3 DEF ChainInv, Types
<1>6. work[p] \in Nat /\ \A left \in 0 .. work[p] - 1 : work[p] > 0
  BY <1>5, ChainAssumption
<1>7. \/ work[p] = 0 /\ work' = work
      \/ work[p] > 0 /\ \E left \in 0 .. work[p] - 1 : work' = [work EXCEPT ![p] = left]
  BY <1>4, <1>6
<1> QED BY <1>1, <1>3, <1>4, <1>6, <1>7 DEF p

(* The handler goes from port to port, and leaves the chain as it is.      *)
LEMMA HandlerStep ==
  ASSUME ChainInv, Handler
  PROVE  ChainInv'
<1>1. UNCHANGED <<pc, info, mine, ring, irq, events, bug>>
  BY DEF Handler, HandlerEnter, HandlerVisit
<1>2. Anchor' /\ OneFrees' /\ MineIsInfo' /\ Lists' /\ Requested' /\ ~bug'
  BY <1>1 DEF ChainInv, Anchor, Joining, Up, OneFrees, MineIsInfo, Lists, OnChain, Requested
<1>3. CASE HandlerEnter
  <2>1. PICK i \in irq : ring[i] # <<>> /\ h' = [Idle EXCEPT !.info = i, !.at = 1]
    BY <1>3 DEF HandlerEnter
  <2>2. i \in Infos /\ work' = work /\ latched' = FALSE
    BY <1>3 DEF HandlerEnter, ChainInv, Types
  <2>3. h' = [info |-> i, at |-> 1, end |-> 0, passes |-> 0]
    BY <2>1 DEF Idle
  <2>4. 1 \in DOMAIN ring[i]
    BY <2>1, <2>2, LenProperties, EmptySeq DEF ChainInv, Types
  <2>5. Types'
    BY <1>1, <2>2, <2>3 DEF ChainInv, Types
  <2>6. HandlerAt'
    BY <1>1, <2>3, <2>4 DEF HandlerAt
  <2> QED BY <1>2, <2>5, <2>6 DEF ChainInv
<1>4. CASE HandlerVisit
  <2>1. /\ h # Idle /\ latched' = latched /\ work' \in [Ports -> 0 .. MaxWork]
        /\ h' = HandlerNext(h.at, h.end, work[ring[h.info][h.at]] > 0)
    <3>1. \/ work' = work
          \/ /\ work[ring[h.info][h.at]] > 0
             /\ \E left \in 0 .. work[ring[h.info][h.at]] - 1 :
                  work' = [work EXCEPT ![ring[h.info][h.at]] = left]
      BY <1>4, VisitFacts
    <3>2. work \in [Ports -> 0 .. MaxWork]
      BY DEF ChainInv, Types
    <3>3. work' \in [Ports -> 0 .. MaxWork]
      BY <3>1, <3>2, ChainAssumption, VisitFacts
    <3> QED BY <1>4, <3>3 DEF HandlerVisit
  <2>2. /\ h.info \in irq /\ h.info \in Infos
        /\ h.at \in 1 .. Len(ring[h.info]) /\ Len(ring[h.info]) \in Nat
    BY <2>1, LenProperties DEF ChainInv, Types, HandlerAt
  <2>3. /\ h \in [info : Infos \cup {None}, at : Nat, end : Nat, passes : Nat]
    BY DEF ChainInv, Types
  <2>4. \/ h' = Idle
        \/ /\ h' \in [info : Infos \cup {None}, at : Nat, end : Nat, passes : Nat]
           /\ h'.info = h.info /\ h'.at \in 1 .. Len(ring[h.info])
    <3> DEFINE handled == work[ring[h.info][h.at]] > 0
    <3>1. handled \in BOOLEAN
      OBVIOUS
    <3>2. h' = HandlerNext(h.at, h.end, handled)
      BY <2>1
    <3> HIDE DEF handled
    <3> QED BY <2>2, <2>3, <3>1, <3>2, NextPort
  <2>5. Idle \in [info : Infos \cup {None}, at : Nat, end : Nat, passes : Nat]
    BY DEF Idle
  <2>6. Types'
    BY <1>1, <2>1, <2>4, <2>5 DEF ChainInv, Types
  <2>7. HandlerAt'
    BY <1>1, <2>2, <2>4, LenProperties DEF HandlerAt, Idle, ChainInv, Types
  <2> QED BY <1>2, <2>6, <2>7 DEF ChainInv
<1> QED BY <1>3, <1>4 DEF Handler

(* Work arrives at a port that is up.                                      *)
LEMMA ArriveStep ==
  ASSUME ChainInv, NEW p \in Ports, Arrive(p)
  PROVE  ChainInv'
<1>1. /\ UNCHANGED <<pc, info, mine, ring, irq, h, bug>>
      /\ events' = events + 1 /\ latched' = Latch(work')
      /\ work' = [work EXCEPT ![p] = @ + 1] /\ work[p] < MaxWork
  BY DEF Arrive
<1>2. work' \in [Ports -> 0 .. MaxWork]
  BY <1>1, ChainAssumption DEF ChainInv, Types
<1>3. latched' \in BOOLEAN
  BY <1>1 DEF Latch, ChainInv, Types
<1>4. Types'
  BY <1>1, <1>2, <1>3 DEF ChainInv, Types
<1>5. Anchor' /\ OneFrees' /\ MineIsInfo' /\ Lists' /\ Requested' /\ HandlerAt' /\ ~bug'
  BY <1>1 DEF ChainInv, Anchor, Joining, Up, OneFrees, MineIsInfo, Lists, OnChain,
              Requested, HandlerAt, Idle
<1> QED BY <1>4, <1>5 DEF ChainInv

(* The chain starts empty.                                                 *)
LEMMA ChainInit ==
  ASSUME Init
  PROVE  ChainInv
<1> USE DEF Init
<1>1. Types
  <2>1. MaxWork \in Nat /\ 0 \in 0 .. MaxWork
    BY ChainAssumption
  <2>2. <<>> \in Seq(Ports)
    BY EmptySeq
  <2> QED BY <2>1, <2>2 DEF Types, PCs, Idle
<1>2. Anchor /\ OneFrees /\ MineIsInfo /\ Requested /\ HandlerAt /\ ~bug
  BY DEF Anchor, Joining, OneFrees, MineIsInfo, Requested, HandlerAt, Idle
<1>3. Lists
  BY DEF Lists, IsInjective
<1> QED BY <1>1, <1>2, <1>3 DEF ChainInv

(* Every step keeps the chain right when joins are anchored.               *)
LEMMA ChainStep ==
  ASSUME Anchored, ChainInv, [Next]_vars
  PROVE  ChainInv'
<1>1. CASE Handler
  BY <1>1, HandlerStep
<1>2. ASSUME NEW p \in Ports, Arrive(p) \/ Start(p) \/ Stop(p)
      PROVE  ChainInv'
  <2>1. CASE Arrive(p)
    BY <2>1, ArriveStep
  <2>2. CASE LinkFind(p)
    BY <2>2, FindStep
  <2>3. CASE LinkAdd(p)
    BY <2>3, AddStep
  <2>4. CASE LinkRequest(p)
    BY <2>4, RequestStep
  <2>5. CASE LinkRequestFails(p)
    BY <2>5, LeaveStep DEF LinkRequestFails
  <2>6. CASE Silence(p)
    BY <2>6, SilenceStep
  <2>7. CASE UnlinkFree(p)
    BY <2>7, FreeStep
  <2>8. CASE UnlinkDel(p)
    BY <2>8, LeaveStep DEF UnlinkDel
  <2> QED BY <1>2, <2>1, <2>2, <2>3, <2>4, <2>5, <2>6, <2>7, <2>8 DEF Start, Stop
<1>3. CASE UNCHANGED vars
  BY <1>3 DEF vars, ChainInv, Types, Anchor, Joining, Up, OneFrees, MineIsInfo, Lists,
              OnChain, Requested, HandlerAt, Idle
<1> QED BY <1>1, <1>2, <1>3 DEF Next

(* What the invariant says of the list, the irq_info and the interrupt.    *)
LEMMA ChainInvSound ==
  ASSUME ChainInv
  PROVE  ChainSound
<1>1. TypeOK
  BY DEF ChainInv, Types, PCs, Lists, TypeOK
<1>2. \A p \in Ports : pc[p] = "up" =>
        info # None /\ p \in ToSet(ring[info]) /\ info \in irq
  BY ChainFacts DEF ChainInv, Requested, OnChain
<1>3. ASSUME NEW i \in Infos, NEW p \in ToSet(ring[i])
      PROVE  pc[p] # "down"
  <2>1. ring[i] # <<>>
    BY <1>3 DEF ToSet
  <2>2. i = info /\ p \in OnChain
    BY <2>1, ChainAssumption DEF ChainInv, Lists
  <2> QED BY <2>2 DEF OnChain
<1>4. UpIsHeard
  BY <1>2, <1>3 DEF UpIsHeard
<1>5. NoBug /\ IrqHasPorts
  BY DEF ChainInv, NoBug, IrqHasPorts, Requested, HandlerAt
<1> QED BY <1>1, <1>4, <1>5 DEF ChainSound

(* serial_link_irq_chain and serial_unlink_irq_chain: however many ports   *)
(* leave at once, and join and leave at once while one stays up, the list, *)
(* the irq_info in irq_lists and the requested interrupt agree, no BUG_ON  *)
(* fires, and the handler finds its port on the list.  Without Anchored it *)
(* is false: a port that looked the irq_info up before its last user frees *)
(* it joins a chain that is gone.                                          *)
THEOREM ChainCorrect == ASSUME Anchored PROVE Spec => []ChainSound
<1>1. Init => ChainInv
  BY ChainInit
<1>2. ChainInv /\ [Next]_vars => ChainInv'
  BY ChainStep
<1>3. ChainInv => ChainSound
  BY ChainInvSound
<1> QED BY <1>1, <1>2, <1>3, PTL DEF Spec

-----------------------------------------------------------------------------
(* The causes not dealt with are finitely many.                            *)
LEMMA CausesFinite ==
  /\ IsFiniteSet(Causes) /\ Cardinality(Causes) \in Nat
  /\ IsFiniteSet(Causes)' /\ Cardinality(Causes)' \in Nat
<1>1. IsFiniteSet(Ports) /\ IsFiniteSet(1 .. MaxWork)
  BY ChainAssumption, FS_Interval
<1>2. IsFiniteSet(Ports \X (1 .. MaxWork))
  BY <1>1, FS_Product
<1>3. Causes \subseteq Ports \X (1 .. MaxWork) /\ Causes' \subseteq Ports \X (1 .. MaxWork)
  BY DEF Causes
<1>4. IsFiniteSet(Causes) /\ IsFiniteSet(Causes')
  BY <1>2, <1>3, FS_Subset
<1> QED BY <1>4, FS_CardinalityType

(* Dealing with causes makes them fewer.                                   *)
LEMMA CausesShrink ==
  ASSUME ChainInv, NEW p \in Ports, NEW left \in 0 .. work[p],
         work' = [work EXCEPT ![p] = left]
  PROVE  /\ Cardinality(Causes)' <= Cardinality(Causes)
         /\ left < work[p] => Cardinality(Causes)' < Cardinality(Causes)
<1>1. work \in [Ports -> 0 .. MaxWork] /\ work[p] \in 0 .. MaxWork /\ MaxWork \in Nat
  BY ChainAssumption DEF ChainInv, Types
<1>2. work'[p] = left /\ \A q \in Ports : q # p => work'[q] = work[q]
  BY <1>1
<1>3. Causes' \subseteq Causes
  <2> SUFFICES ASSUME NEW q \in Ports, NEW n \in 1 .. MaxWork, n <= work'[q]
               PROVE  n <= work[q]
    BY DEF Causes
  <2> QED BY <1>1, <1>2
<1>4. CASE left < work[p]
  <2>1. <<p, work[p]>> \in Causes
    BY <1>1, <1>4 DEF Causes
  <2>2. <<p, work[p]>> \notin Causes'
    BY <1>1, <1>2, <1>4 DEF Causes
  <2>3. Causes' # Causes
    BY <2>1, <2>2
  <2>4. Cardinality(Causes') < Cardinality(Causes)
    BY <1>3, <2>3, CausesFinite, FS_Subset
  <2> QED BY <2>4, CausesFinite
<1>5. Cardinality(Causes') <= Cardinality(Causes)
  BY <1>3, CausesFinite, FS_Subset
<1> QED BY <1>4, <1>5

(* One that arrives makes them one more.                                   *)
LEMMA CausesGrow ==
  ASSUME ChainInv, NEW p \in Ports, Arrive(p)
  PROVE  Cardinality(Causes)' <= Cardinality(Causes) + 1
<1>1. /\ work \in [Ports -> 0 .. MaxWork] /\ MaxWork \in Nat
      /\ work' = [work EXCEPT ![p] = work[p] + 1]
  BY ChainAssumption DEF ChainInv, Types, Arrive
<1>2. work'[p] = work[p] + 1 /\ \A q \in Ports : q # p => work'[q] = work[q]
  BY <1>1
<1> DEFINE more == Causes \cup {<<p, work[p] + 1>>}
<1>3. Causes' \subseteq more
  <2> SUFFICES ASSUME NEW q \in Ports, NEW n \in 1 .. MaxWork, n <= work'[q]
               PROVE  n <= work[q] \/ <<q, n>> = <<p, work[p] + 1>>
    BY DEF Causes
  <2> QED BY <1>1, <1>2
<1>4. IsFiniteSet(more) /\ Cardinality(more) <= Cardinality(Causes) + 1
  <2> DEFINE c == Cardinality(Causes)
  <2>1. IsFiniteSet(Causes) /\ c \in Nat
    BY CausesFinite
  <2>2. IsFiniteSet(more) /\ (Cardinality(more) = c \/ Cardinality(more) = c + 1)
    BY <2>1, FS_AddElement
  <2> HIDE DEF more, c
  <2>3. Cardinality(more) <= c + 1
    BY <2>1, <2>2
  <2> QED BY <2>2, <2>3 DEF c
<1>5. Cardinality(Causes') <= Cardinality(more) /\ Cardinality(more) \in Nat
  BY <1>3, <1>4, FS_Subset, FS_CardinalityType
<1> HIDE DEF more
<1> QED BY <1>4, <1>5, CausesFinite

(* A line that is up is so for a port on the list of the handler.          *)
LEMMA UpIsListed ==
  ASSUME ChainInv, WorkUp, LineUp(work), NEW i \in irq
  PROVE  \E j \in DOMAIN ring[i] : work[ring[i][j]] > 0
<1>1. PICK p \in Ports : work[p] > 0
  BY DEF LineUp
<1>2. p \in OnChain
  BY <1>1 DEF WorkUp, OnChain
<1>3. i = info /\ p \in ToSet(ring[info])
  BY <1>2, ChainFacts
<1> QED BY <1>1, <1>3 DEF ToSet

(* The same of the next state.                                             *)
LEMMA UpIsListedNext ==
  ASSUME ChainInv', WorkUp', LineUp(work)', NEW i \in irq'
  PROVE  \E j \in DOMAIN ring'[i] : work'[ring'[i][j]] > 0
<1>1. PICK p \in Ports : work'[p] > 0
  BY DEF LineUp
<1>2. p \in OnChain'
  BY <1>1 DEF WorkUp, OnChain
<1>3. i \in Infos /\ ring'[i] # <<>>
  BY DEF ChainInv, Types, Requested
<1>4. i = info'
  BY <1>3 DEF ChainInv, Lists
<1>5. p \in ToSet(ring'[i])
  BY <1>2, <1>3, <1>4, ChainAssumption DEF ChainInv, Lists
<1> QED BY <1>1, <1>5 DEF ToSet

(* Where the handler goes on to, there is work ahead if there was any.     *)
LEMMA AheadKept ==
  ASSUME NEW n \in Nat, NEW at \in 1 .. n, NEW end \in 0 .. n, end # at,
         NEW j \in 1 .. n, j # at,
         end = 0 \/ (at <= j /\ j < end) \/ (end < at /\ (at <= j \/ j < end)),
         NEW next, next = IF at = n THEN 1 ELSE at + 1,
         NEW last, last = IF end = 0 THEN at ELSE end
  PROVE  /\ next # last /\ last \in 0 .. n
         /\ (next <= j /\ j < last) \/ (last < next /\ (next <= j \/ j < last))
OBVIOUS

(* A visit that leaves the handler running with the line up leaves work    *)
(* ahead of it; when it ends, the line is down or there was a new edge.    *)
LEMMA VisitEdge ==
  ASSUME ChainInv, ChainInv', WorkUp, WorkUp', EdgeAhead, HandlerVisit,
         h.passes <= PassLimit
  PROVE  EdgeNotLost' /\ EdgeAhead'
<1> DEFINE p == ring[h.info][h.at]
           n == Len(ring[h.info])
           handled == work[p] > 0
           next == IF h.at = n THEN 1 ELSE h.at + 1
           last == IF handled THEN 0 ELSE IF h.end = 0 THEN h.at ELSE h.end
<1>1. /\ UNCHANGED <<edge, ring, irq, latched, info>> /\ h # Idle
      /\ h' = HandlerNext(h.at, h.end, handled)
  BY VisitFacts DEF HandlerVisit
<1>2. /\ h.info \in irq /\ h.info \in Infos /\ n \in Nat
      /\ h.at \in 1 .. n /\ DOMAIN ring[h.info] = 1 .. n
  BY <1>1, LenProperties DEF ChainInv, Types, HandlerAt
<1>3. /\ h.end \in 0 .. n /\ h.end # h.at
      /\ edge /\ LineUp(work) /\ ~latched =>
           \E j \in 1 .. n : /\ work[ring[h.info][j]] > 0
                             /\ \/ h.end = 0
                                \/ h.at <= j /\ j < h.end
                                \/ h.end < h.at /\ (h.at <= j \/ j < h.end)
  BY <1>1, <1>2 DEF EdgeAhead, Ahead
<1>4. /\ h \in [info : Infos \cup {None}, at : Nat, end : Nat, passes : Nat]
      /\ PassLimit \in Nat
  BY ChainAssumption DEF ChainInv, Types
<1>5. handled \in BOOLEAN
  OBVIOUS
<1>6. /\ next = last => h' = Idle
      /\ h' # Idle => h'.info = h.info /\ h'.at = next /\ h'.end = last
      /\ h' = Idle => next = last \/ (next = 1 /\ h.passes > PassLimit)
  <2> HIDE DEF handled
  <2> QED BY <1>1, <1>2, <1>4, <1>5, NextPort
<1>7. h' = Idle => next = last
  <2> HIDE DEF next, last
  <2> QED BY <1>4, <1>6
<1>8. next \in 1 .. n
  <2> HIDE DEF n
  <2> QED BY <1>2
<1>9. CASE handled
  <2>1. last = 0 /\ h' # Idle
    <3>1. last = 0
      BY <1>9
    <3> QED BY <1>7, <1>8, <3>1
  <2>2. h'.info = h.info /\ h'.at = next /\ h'.end = 0
    BY <1>6, <2>1
  <2>3. EdgeNotLost'
    BY <2>1 DEF EdgeNotLost
  <2>4. LineUp(work') => \E j \in DOMAIN ring'[h'.info] : work'[ring'[h'.info][j]] > 0
    <3>1. h'.info \in irq'
      BY <1>1, <1>2, <2>2
    <3>2. (LineUp(work) => \E j \in DOMAIN ring[h.info] : work[ring[h.info][j]] > 0)'
      <4>1. ASSUME LineUp(work)'
            PROVE  (\E j \in DOMAIN ring[h.info] : work[ring[h.info][j]] > 0)'
        BY <3>1, <4>1, UpIsListedNext
      <4> QED BY <4>1
    <3> QED BY <3>2 DEF LineUp
  <2>5. Ahead' = DOMAIN ring'[h'.info]
    BY <2>2 DEF Ahead
  <2>6. h'.end \in 0 .. Len(ring'[h'.info]) /\ h'.end # h'.at
    <3>1. Len(ring'[h'.info]) = n
      BY <1>1, <2>2
    <3> HIDE DEF n, next
    <3> QED BY <1>2, <1>8, <2>2, <3>1
  <2>7. EdgeAhead'
    BY <2>4, <2>5, <2>6 DEF EdgeAhead, LineUp
  <2> QED BY <2>3, <2>7
<1>10. CASE ~handled
  <2>1. last = (IF h.end = 0 THEN h.at ELSE h.end) /\ work' = work /\ ~(work[p] > 0)
    BY <1>10, VisitFacts
  <2>2. last \in 0 .. n
    <3> HIDE DEF n, last
    <3> QED BY <1>2, <1>3, <2>1
  <2>3. ASSUME edge, LineUp(work), ~latched
        PROVE  /\ next # last
               /\ \E j \in 1 .. n : /\ work[ring[h.info][j]] > 0
                                    /\ \/ next <= j /\ j < last
                                       \/ last < next /\ (next <= j \/ j < last)
    <3>1. PICK j \in 1 .. n : /\ work[ring[h.info][j]] > 0
                              /\ \/ h.end = 0
                                 \/ h.at <= j /\ j < h.end
                                 \/ h.end < h.at /\ (h.at <= j \/ j < h.end)
      BY <1>3, <2>3
    <3>2. j # h.at
      BY <2>1, <3>1
    <3>3. next = IF h.at = n THEN 1 ELSE h.at + 1
      OBVIOUS
    <3> HIDE DEF n, next, last, handled, p
    <3>4. /\ next # last
          /\ (next <= j /\ j < last) \/ (last < next /\ (next <= j \/ j < last))
      <4>1. h.end \in 0 .. n /\ h.end # h.at /\ n \in Nat /\ h.at \in 1 .. n
        BY <1>2, <1>3
      <4>2. last = IF h.end = 0 THEN h.at ELSE h.end
        BY <2>1
      <4>3. \/ h.end = 0
            \/ h.at <= j /\ j < h.end
            \/ h.end < h.at /\ (h.at <= j \/ j < h.end)
        BY <3>1
      <4> QED BY ONLY <3>2, <3>3, <4>1, <4>2, <4>3, AheadKept
    <3> QED BY <3>1, <3>4
  <2>4. EdgeNotLost'
    <3> HIDE DEF n, next, last, handled, p
    <3>1. edge' = edge /\ latched' = latched /\ (LineUp(work')<=> LineUp(work))
      BY <1>1, <2>1
    <3>2. ASSUME edge, h' = Idle, LineUp(work) PROVE latched
      BY <1>7, <2>3, <3>2
    <3> QED BY <3>1, <3>2 DEF EdgeNotLost, LineUp
  <2>5. ASSUME h' # Idle PROVE EdgeAhead'
    <3>1. h'.info = h.info /\ h'.at = next /\ h'.end = last /\ next # last
      BY <1>6, <2>5
    <3>2. /\ ring'[h'.info] = ring[h.info]
          /\ Len(ring'[h'.info]) = n /\ DOMAIN ring'[h'.info] = 1 .. n
      BY <1>1, <1>2, <3>1
    <3> HIDE DEF n, next, last, handled, p
    <3>3. h'.end \in 0 .. Len(ring'[h'.info]) /\ h'.end # h'.at
      BY <2>2, <3>1, <3>2
    <3>4. ASSUME edge', LineUp(work'), ~latched'
          PROVE  \E j \in Ahead' : work'[ring'[h'.info][j]] > 0
      <4>1. PICK j \in 1 .. n : /\ work[ring[h.info][j]] > 0
                                /\ \/ next <= j /\ j < last
                                   \/ last < next /\ (next <= j \/ j < last)
        BY <1>1, <2>1, <2>3, <3>4
      <4>2. j \in Ahead'
        BY <3>1, <3>2, <4>1 DEF Ahead
      <4> QED BY <2>1, <3>2, <4>1, <4>2
    <3> QED BY <3>3, <3>4 DEF EdgeAhead, LineUp
  <2>6. CASE h' = Idle
    BY <2>4, <2>6 DEF EdgeAhead
  <2> QED BY <2>4, <2>5, <2>6
<1> QED BY <1>9, <1>10

(* The number of rounds is within the number of causes there have been.    *)
LEMMA VisitRounds ==
  ASSUME ChainInv, EdgeAhead, Rounds, HandlerVisit
  PROVE  Rounds'
<1> DEFINE p == ring[h.info][h.at]
           n == Len(ring[h.info])
           handled == work[p] > 0
           next == IF h.at = n THEN 1 ELSE h.at + 1
           last == IF handled THEN 0 ELSE IF h.end = 0 THEN h.at ELSE h.end
           c == Cardinality(Causes)
           d == Cardinality(Causes)'
<1>1. events' = events /\ h # Idle /\ h' = HandlerNext(h.at, h.end, handled)
  BY VisitFacts DEF HandlerVisit
<1>2. h.info \in Infos /\ n \in Nat /\ h.at \in 1 .. n
  BY <1>1, LenProperties DEF ChainInv, Types, HandlerAt
<1>3. h.end \in 0 .. n /\ h.end # h.at
  BY <1>1 DEF EdgeAhead
<1>4. /\ h \in [info : Infos \cup {None}, at : Nat, end : Nat, passes : Nat]
      /\ h.passes \in Nat /\ events \in Nat
  BY DEF ChainInv, Types
<1>5. c \in Nat /\ d \in Nat
  BY CausesFinite
<1>6. handled \in BOOLEAN
  OBVIOUS
<1>7. \/ h' = Idle
      \/ /\ h'.at = next /\ h'.end = last /\ next # last
         /\ h'.passes = IF next = 1 THEN h.passes + 1 ELSE h.passes
  <2> HIDE DEF handled
  <2> QED BY <1>1, <1>2, <1>4, <1>6, NextPort
<1>8. h.passes + c <= events /\ (h.passes + c = events => Fresh) /\ events <= MaxEvents
  BY <1>1 DEF Rounds
<1>9. d <= c /\ (handled => d < c) 
  <2>1. p \in Ports /\ work[p] \in Nat
    BY VisitFacts
  <2>2. \/ ~handled /\ work' = work
        \/ handled /\ \E left \in 0 .. work[p] - 1 : work' = [work EXCEPT ![p] = left]
    BY VisitFacts
  <2>3. CASE ~handled /\ work' = work
    <3>1. Causes' = Causes
      BY <2>3 DEF Causes
    <3> QED BY <1>5, <2>3, <3>1
  <2>4. CASE handled /\ \E left \in 0 .. work[p] - 1 : work' = [work EXCEPT ![p] = left]
    <3> HIDE DEF p
    <3>1. PICK left \in 0 .. work[p] - 1 : work' = [work EXCEPT ![p] = left]
      BY <2>4
    <3>2. left \in 0 .. work[p] /\ left < work[p]
      BY <2>1
    <3>3. d < c
      BY <2>1, <3>1, <3>2, CausesShrink
    <3> HIDE DEF c, d
    <3> QED BY <1>5, <3>3
  <2> QED BY <2>2, <2>3, <2>4
<1>10. CASE h' = Idle
  <2>1. h'.passes = 0
    BY <1>10 DEF Idle
  <2>2. 0 + d <= events
    <3> HIDE DEF c, d
    <3> QED BY <1>4, <1>5, <1>8, <1>9
  <2> QED BY <1>1, <1>8, <1>10, <2>1, <2>2 DEF Rounds, Idle
<1>11. CASE h' # Idle
  <2>1. /\ h'.at = next /\ h'.end = last /\ next # last
        /\ h'.passes = IF next = 1 THEN h.passes + 1 ELSE h.passes
    BY <1>7, <1>11
  <2>2. /\ next = IF h.at = n THEN 1 ELSE h.at + 1
        /\ last = IF handled THEN 0 ELSE IF h.end = 0 THEN h.at ELSE h.end
    OBVIOUS
  <2> HIDE DEF n, next, last, handled, p, c, d
  <2>3. h'.passes + d <= events /\ (h'.passes + d = events => Fresh')
    BY <1>2, <1>3, <1>4, <1>5, <1>8, <1>9, <2>1, <2>2 DEF Fresh
  <2> QED BY <1>1, <1>8, <2>3 DEF Rounds, d
<1> QED BY <1>10, <1>11

(* A new cause raises the line or finds it up.                             *)
LEMMA ArriveEdge ==
  ASSUME EdgeInv, ChainInv', NEW p \in Ports, Arrive(p)
  PROVE  EdgeInv'
<1>1. /\ UNCHANGED <<edge, pc, info, mine, ring, irq, h, bug>> /\ pc[p] = "up"
      /\ events' = events + 1 /\ events < MaxEvents
      /\ latched' = Latch(work') /\ work' = [work EXCEPT ![p] = @ + 1]
  BY DEF Arrive
<1>2. /\ \A q \in Ports : work[q] \in Nat /\ work'[q] \in Nat
      /\ work'[p] = work[p] + 1 /\ \A q \in Ports : q # p => work'[q] = work[q]
  BY <1>1, ChainAssumption DEF EdgeInv, ChainInv, Types
<1>3. \A q \in Ports : work[q] > 0 => work'[q] > 0
  BY <1>2
<1>4. LineUp(work') /\ (~latched' => LineUp(work) /\ ~latched)
  <2>1. LineUp(work')
    BY <1>2 DEF LineUp
  <2> QED BY <1>1, <2>1 DEF Latch
<1>5. EdgeNotLost'
  BY <1>1, <1>4 DEF EdgeInv, EdgeNotLost, LineUp
<1>6. EdgeAhead'
  <2>1. Ahead' = Ahead
    BY <1>1 DEF Ahead
  <2>2. h # Idle => h.end \in 0 .. Len(ring[h.info]) /\ h.end # h.at
    BY DEF EdgeInv, EdgeAhead
  <2>3. ASSUME h # Idle, edge, ~latched'
        PROVE  \E j \in Ahead : work'[ring[h.info][j]] > 0
    <3>1. PICK j \in Ahead : work[ring[h.info][j]] > 0
      BY <1>4, <2>3 DEF EdgeInv, EdgeAhead
    <3>2. ring[h.info][j] \in Ports
      <4>1. h.info \in Infos /\ j \in DOMAIN ring[h.info] /\ ring[h.info] \in Seq(Ports)
        BY <2>3 DEF EdgeInv, ChainInv, Types, HandlerAt, Ahead
      <4> QED BY <4>1, ElementOfSeq, LenProperties
    <3> QED BY <1>3, <3>1, <3>2
  <2> QED BY <1>1, <2>1, <2>2, <2>3 DEF EdgeAhead
<1>7. WorkUp'
  BY <1>1, <1>2 DEF EdgeInv, WorkUp
<1>8. Rounds'
  <2> DEFINE c == Cardinality(Causes)
             d == Cardinality(Causes)'
  <2>1. c \in Nat /\ d \in Nat /\ d <= c + 1
    BY CausesFinite, CausesGrow DEF EdgeInv
  <2>2. h.passes \in Nat /\ events \in Nat /\ MaxEvents \in Nat
    BY ChainAssumption DEF EdgeInv, ChainInv, Types
  <2>3. h.passes + c <= events /\ (h # Idle /\ h.passes + c = events => Fresh)
    BY DEF EdgeInv, Rounds
  <2>4. Fresh' = Fresh /\ (h' # Idle <=> h # Idle) /\ h' = h
    BY <1>1 DEF Fresh, Idle
  <2> HIDE DEF c, d
  <2>5. events' <= MaxEvents /\ h.passes + d <= events'
        /\ (h.passes + d = events' => h.passes + c = events)
    BY <1>1, <2>1, <2>2, <2>3
  <2> QED BY <2>3, <2>4, <2>5 DEF Rounds, d, Idle
<1> QED BY <1>5, <1>6, <1>7, <1>8 DEF EdgeInv

(* The handler begins when an edge was latched, with every port ahead.     *)
LEMMA EnterEdge ==
  ASSUME EdgeInv, ChainInv', HandlerEnter
  PROVE  EdgeInv'
<1>1. /\ UNCHANGED <<edge, pc, work, info, mine, ring, irq, events, bug>> /\ h = Idle
  BY DEF HandlerEnter
<1>2. PICK i \in irq : ring[i] # <<>> /\ h' = [Idle EXCEPT !.info = i, !.at = 1]
  BY DEF HandlerEnter
<1>3. h' = [info |-> i, at |-> 1, end |-> 0, passes |-> 0]
  BY <1>2 DEF Idle
<1>4. i \in Infos /\ Len(ring[i]) \in Nat
  BY LenProperties DEF EdgeInv, ChainInv, Types
<1>5. EdgeNotLost'
  BY <1>3 DEF EdgeNotLost, Idle
<1>6. WorkUp'
  BY <1>1 DEF EdgeInv, WorkUp
<1>7. EdgeAhead'
  <2>1. h'.end \in 0 .. Len(ring'[h'.info]) /\ h'.end # h'.at
    BY <1>1, <1>3, <1>4
  <2>2. Ahead' = DOMAIN ring[i]
    BY <1>1, <1>3 DEF Ahead
  <2>3. LineUp(work) => \E j \in DOMAIN ring[i] : work[ring[i][j]] > 0
    BY UpIsListed DEF EdgeInv
  <2>4. LineUp(work') => \E j \in Ahead' : work'[ring'[h'.info][j]] > 0
    BY <1>1, <1>3, <2>2, <2>3
  <2> QED BY <2>1, <2>4 DEF EdgeAhead, LineUp
<1>8. Rounds'
  <2>1. h.passes = 0 /\ h'.passes = 0
    BY <1>1, <1>3 DEF Idle
  <2>2. Fresh' /\ Causes' = Causes
    BY <1>1, <1>3 DEF Fresh, Causes
  <2> QED BY <1>1, <2>1, <2>2 DEF EdgeInv, Rounds
<1> QED BY <1>5, <1>6, <1>7, <1>8 DEF EdgeInv

(* A port whose interrupt is up is not stopped on an edge-triggered line.  *)
LEMMA SilenceEdge ==
  ASSUME EdgeInv, ChainInv', ~BusyStop, NEW p \in Ports, Silence(p)
  PROVE  EdgeInv'
<1>1. /\ UNCHANGED <<edge, latched, info, mine, ring, irq, h, events, bug>>
      /\ pc' = [pc EXCEPT ![p] = "stopping"] /\ work' = [work EXCEPT ![p] = 0]
      /\ (edge => ~(work[p] > 0))
  BY DEF Silence
<1>2. /\ work \in [Ports -> 0 .. MaxWork] /\ MaxWork \in Nat /\ work[p] \in Nat
      /\ pc \in [Ports -> PCs]
  <2>1. /\ work \in [Ports -> 0 .. MaxWork] /\ MaxWork \in Nat /\ pc \in [Ports -> PCs]
    BY ChainAssumption DEF EdgeInv, ChainInv, Types
  <2>2. work[p] \in 0 .. MaxWork
    BY <2>1
  <2> QED BY <2>1, <2>2
<1>3. edge => work' = work
  <2>1. ASSUME edge PROVE work[p] = 0
    BY <1>1, <1>2, <2>1
  <2> QED BY <1>1, <1>2, <2>1
<1>4. WorkUp'
  BY <1>1, <1>2 DEF EdgeInv, WorkUp
<1>5. EdgeNotLost'
  BY <1>1, <1>3 DEF EdgeInv, EdgeNotLost
<1>6. EdgeAhead'
  <2>1. Ahead' = Ahead
    BY <1>1 DEF Ahead
  <2> QED BY <1>1, <1>3, <2>1 DEF EdgeInv, EdgeAhead, Idle
<1>7. Rounds'
  <2> DEFINE c == Cardinality(Causes)
             d == Cardinality(Causes)'
  <2>1. c \in Nat /\ d \in Nat /\ d <= c
    <3>1. 0 \in 0 .. work[p] /\ ChainInv
      BY <1>2 DEF EdgeInv
    <3> HIDE DEF c, d
    <3>2. Cardinality(Causes)' <= Cardinality(Causes)
      BY <1>1, <3>1, CausesShrink
    <3> QED BY <3>2, CausesFinite DEF c, d
  <2>2. h.passes \in Nat /\ events \in Nat
    BY DEF EdgeInv, ChainInv, Types
  <2>3. /\ h.passes + c <= events /\ (h # Idle /\ h.passes + c = events => Fresh)
        /\ events <= MaxEvents
    BY DEF EdgeInv, Rounds
  <2>4. Fresh' = Fresh /\ h' = h /\ events' = events
    BY <1>1 DEF Fresh
  <2> HIDE DEF c, d
  <2>5. h.passes + d <= events /\ (h.passes + d = events => h.passes + c = events)
    BY <2>1, <2>2, <2>3
  <2> QED BY <2>3, <2>4, <2>5 DEF Rounds, d, Idle
<1> QED BY <1>4, <1>5, <1>6, <1>7 DEF EdgeInv

(* Joining and leaving the list: the handler is not on it meanwhile.       *)
LEMMA ListEdge ==
  ASSUME EdgeInv, ChainInv', UNCHANGED <<edge, work, latched, h, events>>,
         h # Idle => UNCHANGED ring,
         \A q \in Ports : pc[q] = "up" => pc'[q] = "up"
  PROVE  EdgeInv'
<1>1. EdgeNotLost' /\ WorkUp'
  BY DEF EdgeInv, EdgeNotLost, WorkUp, LineUp, Idle
<1>2. EdgeAhead'
  <2>1. h # Idle => Ahead' = Ahead
    BY DEF Ahead
  <2> QED BY <2>1 DEF EdgeInv, EdgeAhead, LineUp, Idle
<1>3. Rounds'
  <2>1. Causes' = Causes /\ Fresh' = Fresh
    BY DEF Causes, Fresh
  <2> QED BY <2>1 DEF EdgeInv, Rounds, Idle
<1> QED BY <1>1, <1>2, <1>3 DEF EdgeInv

(* Every step keeps the edges.                                             *)
LEMMA EdgeStep ==
  ASSUME Anchored, ~BusyStop, MaxEvents <= PassLimit, EdgeInv, [Next]_vars
  PROVE  EdgeInv'
<1>1. ChainInv /\ ChainInv'
  BY ChainStep DEF EdgeInv
<1>2. CASE HandlerEnter
  BY <1>1, <1>2, EnterEdge
<1>3. CASE HandlerVisit
  <2>1. h.passes <= PassLimit
    <3>1. /\ h.passes \in Nat /\ events \in Nat /\ MaxEvents \in Nat /\ PassLimit \in Nat
          /\ Cardinality(Causes) \in Nat
      BY <1>1, CausesFinite, ChainAssumption DEF ChainInv, Types
    <3>2. h.passes + Cardinality(Causes) <= events /\ events <= MaxEvents
      BY DEF EdgeInv, Rounds
    <3> QED BY <3>1, <3>2
  <2>2. WorkUp'
    <3>1. /\ pc' = pc /\ ring[h.info][h.at] \in Ports
          /\ \/ work' = work
             \/ /\ work[ring[h.info][h.at]] > 0
                /\ \E left \in 0 .. work[ring[h.info][h.at]] - 1 :
                     work' = [work EXCEPT ![ring[h.info][h.at]] = left]
      BY <1>1, <1>3, VisitFacts DEF HandlerVisit
    <3> DEFINE p == ring[h.info][h.at]
    <3>2. work \in [Ports -> 0 .. MaxWork]
      BY <1>1 DEF ChainInv, Types
    <3> HIDE DEF p
    <3>3. \A q \in Ports : work'[q] > 0 => work[q] > 0
      BY <3>1, <3>2 DEF p
    <3> QED BY <3>1, <3>3 DEF EdgeInv, WorkUp
  <2>3. EdgeNotLost' /\ EdgeAhead'
    BY <1>1, <1>3, <2>1, <2>2, VisitEdge DEF EdgeInv
  <2>4. Rounds'
    BY <1>3, VisitRounds DEF EdgeInv
  <2> QED BY <1>1, <2>2, <2>3, <2>4 DEF EdgeInv
<1>4. ASSUME NEW p \in Ports, Arrive(p) PROVE EdgeInv'
  BY <1>1, <1>4, ArriveEdge
<1>5. ASSUME NEW p \in Ports, Silence(p) PROVE EdgeInv'
  BY <1>1, <1>5, SilenceEdge
<1>6. ASSUME NEW p \in Ports, LinkFind(p) \/ LinkRequest(p) \/ UnlinkFree(p)
      PROVE  EdgeInv'
  <2>1. /\ UNCHANGED <<edge, work, latched, h, events, ring>> /\ pc[p] # "up"
        /\ \E x \in PCs : pc' = [pc EXCEPT ![p] = x]
    BY <1>6 DEF LinkFind, LinkRequest, UnlinkFree, PCs
  <2>2. \A q \in Ports : pc[q] = "up" => pc'[q] = "up"
    BY <1>1, <2>1 DEF ChainInv, Types
  <2> QED BY <1>1, <2>1, <2>2, ListEdge
<1>7. ASSUME NEW p \in Ports, LinkAdd(p) \/ LinkRequestFails(p) \/ UnlinkDel(p)
      PROVE  EdgeInv'
  <2>1. /\ UNCHANGED <<edge, work, latched, h, events>> /\ ~Running(mine[p])
        /\ pc[p] \in {"linking", "requesting", "freeing"}
        /\ \E x \in PCs : pc' = [pc EXCEPT ![p] = x]
    BY <1>7 DEF LinkAdd, LinkRequestFails, UnlinkDel, PCs
  <2>2. \A q \in Ports : pc[q] = "up" => pc'[q] = "up"
    BY <1>1, <2>1 DEF ChainInv, Types
  <2>3. h = Idle
    <3>1. mine[p] = info /\ (h # Idle => h.info = info)
      BY <1>1, <2>1, ChainFacts DEF ChainInv, MineIsInfo
    <3> QED BY <2>1, <3>1 DEF Running
  <2> QED BY <1>1, <2>1, <2>2, <2>3, ListEdge
<1>8. CASE UNCHANGED vars
  <2>1. UNCHANGED <<edge, work, latched, h, events, ring, pc>>
    BY <1>8 DEF vars
  <2> QED BY <1>1, <2>1, ListEdge
<1> QED BY <1>2, <1>3, <1>4, <1>5, <1>6, <1>7, <1>8 DEF Next, Handler, Start, Stop

(* Nothing has happened at first.                                          *)
LEMMA EdgeInit ==
  ASSUME Init
  PROVE  EdgeInv
<1>1. /\ ChainInv /\ h = Idle /\ events = 0 /\ work = [p \in Ports |-> 0]
  BY ChainInit DEF Init
<1>2. EdgeNotLost /\ EdgeAhead /\ WorkUp
  BY <1>1 DEF EdgeNotLost, LineUp, EdgeAhead, WorkUp
<1>3. Causes = {}
  BY <1>1 DEF Causes
<1>4. h.passes + Cardinality(Causes) = 0 /\ 0 <= MaxEvents
  <2>1. Cardinality(Causes) = 0 /\ h.passes = 0 /\ MaxEvents \in Nat
    BY <1>1, <1>3, FS_EmptySet, ChainAssumption DEF Idle
  <2> QED BY <2>1
<1>5. Rounds
  BY <1>1, <1>4 DEF Rounds
<1> QED BY <1>1, <1>2, <1>5 DEF EdgeInv

(* serial8250_interrupt's walk: "we need to check that all ports have been *)
(* serviced".  On an edge-triggered line, when the handler has done its    *)
(* rounds, the line is down or a new edge will run it again.  It may give  *)
(* up after PASS_LIMIT rounds, and stopping a port that holds the line up  *)
(* lowers the line under it: with at most PASS_LIMIT causes and no such    *)
(* stop neither happens.                                                   *)
THEOREM EdgeCorrect ==
  ASSUME Anchored, ~BusyStop, MaxEvents <= PassLimit PROVE Spec => []EdgeNotLost
<1>1. Init => EdgeInv
  BY EdgeInit
<1>2. EdgeInv /\ [Next]_vars => EdgeInv'
  BY EdgeStep
<1>3. EdgeInv => EdgeNotLost
  BY DEF EdgeInv
<1> QED BY <1>1, <1>2, <1>3, PTL DEF Spec
=============================================================================
