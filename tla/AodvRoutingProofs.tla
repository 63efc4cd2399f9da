------------------------- MODULE AodvRoutingProofs --------------------------
(***************************************************************************)
(* Proofs about AodvRouting, for any nodes, links, flows, limits and       *)
(* faults, in three layers, each on top of the one before:                 *)
(*                                                                         *)
(* IInv: every table, message and queue has its type, a search always has  *)
(* a timer or a postponed request, a packet in a queue is always sought,   *)
(* and no sequence number gets ahead of its owner.  The tables and the     *)
(* messages carry each other, so the types are proved together with what   *)
(* entries and messages say: Leads, and the numbers their owners reached.  *)
(*                                                                         *)
(* Routes: no route leads back to its own node, and one of one hop leads   *)
(* straight to its destination; again tables and messages together.        *)
(*                                                                         *)
(* Places: the data of a packet is in one queue, loopback or frame, or has *)
(* arrived or been given up, and never in two of these places.             *)
(***************************************************************************)
EXTENDS AodvRouting, FiniteSetTheorems, TLAPS

-----------------------------------------------------------------------------
(* What Dequeue leaves.                                                    *)

LEMMA RankIsOneToOne ==
  ASSUME NEW S \in SUBSET Nat, IsFiniteSet(S)
  PROVE  /\ \A i \in S : Rank(i, S) \in 1..Cardinality(S)
         /\ \A i, j \in S : Rank(i, S) = Rank(j, S) => i = j
<1> DEFINE upTo(i) == {k \in S : k <= i}
<1>1. ASSUME NEW i \in S
      PROVE  /\ IsFiniteSet(upTo(i)) /\ Rank(i, S) = Cardinality(upTo(i))
             /\ Rank(i, S) \in 1..Cardinality(S)
  <2>1. IsFiniteSet(upTo(i)) /\ Cardinality(upTo(i)) <= Cardinality(S)
    BY FS_Subset
  <2>2. Cardinality(upTo(i)) \in Nat /\ Cardinality(S) \in Nat
    BY <2>1, FS_CardinalityType
  <2>3. i \in upTo(i)
    OBVIOUS
  <2>4. Cardinality(upTo(i)) # 0
    BY <2>1, <2>3, FS_EmptySet
  <2> QED
    BY <2>1, <2>2, <2>4 DEF Rank
<1>2. ASSUME NEW i \in S, NEW j \in S, Rank(i, S) = Rank(j, S), i < j PROVE FALSE
  <2>1. i \in Nat /\ j \in Nat /\ ~(j <= i) /\ \A k \in S : k <= i => k <= j
    <3>1. \A k \in S : k \in Nat
      OBVIOUS
    <3> QED
      BY <1>2, <3>1
  <2>2. upTo(i) \subseteq upTo(j) /\ j \notin upTo(i)
    BY <2>1
  <2>3. j \in upTo(j)
    BY <2>1
  <2>4. IsFiniteSet(upTo(j)) /\ Cardinality(upTo(i)) = Cardinality(upTo(j))
    BY <1>1, <1>2
  <2> QED
    BY <2>2, <2>3, <2>4, FS_Subset
<1>3. \A i, j \in S : i \in Nat /\ j \in Nat
  OBVIOUS
<1> HIDE DEF upTo
<1>4. \A i, j \in S : i < j \/ j < i \/ i = j
  BY <1>3
<1> QED
  BY <1>1, <1>2, <1>4

(* Dequeue leaves the packets of some positions of the queue, each once.    *)
LEMMA RestPositions ==
  ASSUME NEW P, NEW q \in Seq(P), NEW d
  PROVE  LET c == Cardinality(Kept(q, d)) IN
         /\ c \in Nat
         /\ \E at \in [1..c -> Kept(q, d)] :
               /\ Rest(q, d) = [j \in 1..c |-> q[at[j]]]
               /\ \A j, k \in 1..c : at[j] = at[k] => j = k
<1> DEFINE K == Kept(q, d)
           c == Cardinality(K)
           rank == [i \in K |-> Rank(i, K)]
           at == [j \in 1..c |-> CHOOSE i \in K : Rank(i, K) = j]
<1>1. K \in SUBSET Nat /\ K \subseteq 1..Len(q) /\ Len(q) \in Nat
  BY DEF Kept
<1>2. IsFiniteSet(K) /\ c \in Nat
  <2>1. IsFiniteSet(1..Len(q))
    BY <1>1, FS_Interval
  <2>2. IsFiniteSet(K)
    BY <1>1, <2>1, FS_Subset
  <2> QED
    BY <2>2, FS_CardinalityType
<1>3. rank \in Injection(K, 1..c)
  BY <1>1, <1>2, RankIsOneToOne DEF Injection, IsInjective
<1>4. IsFiniteSet(1..c) /\ Cardinality(1..c) = c
  BY <1>2, FS_Interval
<1>5. rank \in Surjection(K, 1..c)
  BY <1>3, <1>4, FS_Injection
<1>6. ASSUME NEW j \in 1..c PROVE at[j] \in K /\ Rank(at[j], K) = j
  <2>1. \E i \in K : Rank(i, K) = j
    BY <1>5 DEF Surjection
  <2> QED
    BY <2>1
<1>7. Rest(q, d) = [j \in 1..c |-> q[at[j]]]
  BY DEF Rest
<1>8. at = [j \in 1..c |-> at[j]]
  OBVIOUS
<1> HIDE DEF at
<1>9. at \in [1..c -> K] /\ \A j, k \in 1..c : at[j] = at[k] => j = k
  BY <1>6, <1>8
<1> QED
  BY <1>2, <1>7, <1>9

(* Only packets to others are left, all of them from the queue.            *)
LEMMA RestKeeps ==
  ASSUME NEW P, NEW q \in Seq(P), NEW d
  PROVE  /\ Rest(q, d) \in Seq(P)
         /\ PacketsOf(Rest(q, d)) \subseteq {p \in PacketsOf(q) : p.dst # d}
<1> DEFINE c == Cardinality(Kept(q, d))
<1>1. c \in Nat
  BY RestPositions
<1>2. PICK at \in [1..c -> Kept(q, d)] : Rest(q, d) = [j \in 1..c |-> q[at[j]]]
  BY RestPositions
<1>3. \A i \in Kept(q, d) : q[i] \in P /\ q[i] \in PacketsOf(q) /\ q[i].dst # d
  BY DEF Kept, PacketsOf
<1> HIDE DEF c
<1>4. \A j \in 1..c : q[at[j]] \in P /\ q[at[j]] \in PacketsOf(q) /\ q[at[j]].dst # d
  BY <1>2, <1>3
<1>5. Rest(q, d) \in Seq(P) /\ Len(Rest(q, d)) = c
  BY <1>1, <1>2, <1>4
<1>6. \A j \in 1..c : Rest(q, d)[j] \in {p \in PacketsOf(q) : p.dst # d}
  BY <1>2, <1>4
<1>7. PacketsOf(Rest(q, d)) = {Rest(q, d)[j] : j \in 1..c}
  BY <1>5 DEF PacketsOf
<1> QED
  BY <1>5, <1>6, <1>7

-----------------------------------------------------------------------------
(* Entries and tables; k and s stand for what the owners of the numbers    *)
(* have reached.                                                           *)

(* A valid or broken route leads to a neighbour, as does any entry that    *)
(* UpdateRouteToNeighbor would leave alone.                                *)
Leads(e) ==
  /\ e.flag # "NONE" => e.hops # 0
  /\ e.flag = "NONE" => e.validSeqNo = FALSE
  /\ e.flag \in {"VALID", "INVALID"} => e.nextHop # None
  /\ e.flag # "NONE" /\ e.validSeqNo = TRUE /\ e.hops = 1 => e.nextHop # None

GoodEntry(e, k) == e \in Entry /\ Leads(e) /\ (e.validSeqNo = TRUE => e.seqNo <= k)

GoodTable(t, s) == t \in [Nodes -> Entry] /\ \A d \in Nodes : GoodEntry(t[d], s[d])

(* No search begins. *)
NoNewSearch(t, u) == \A d \in Nodes : InSearch(u, d) => InSearch(t, d)

LEMMA NoEntryGood == ASSUME NEW k \in Nat PROVE GoodEntry(NoEntry, k)
BY DEF GoodEntry, Leads, NoEntry, Entry

LEMMA NewEntryGood ==
  ASSUME NEW k \in Nat, NEW q \in Nat, NEW h \in Nat \ {0}, NEW p \in Nodes
  PROVE  /\ GoodEntry(NewEntry(FALSE, q, h, p), k)
         /\ q <= k => GoodEntry(NewEntry(TRUE, q, h, p), k)
         /\ \A v : NewEntry(v, q, h, p).flag = "VALID" /\ NewEntry(v, q, h, p).nextHop = p
<1>1. p # None
  BY AddressAssumption
<1>2. ASSUME NEW v \in BOOLEAN PROVE NewEntry(v, q, h, p) \in Entry /\ Leads(NewEntry(v, q, h, p))
  BY <1>1 DEF NewEntry, Entry, Leads
<1> QED
  BY <1>2 DEF GoodEntry, NewEntry

LEMMA PrecursorsGood ==
  ASSUME NEW k, NEW e, GoodEntry(e, k), NEW ps \in SUBSET Nodes
  PROVE  /\ GoodEntry([e EXCEPT !.precursors = ps], k)
         /\ [e EXCEPT !.precursors = ps].flag = e.flag
BY DEF GoodEntry, Entry, Leads

LEMMA TableWith ==
  ASSUME NEW s, NEW t, GoodTable(t, s), NEW d \in Nodes, NEW e, GoodEntry(e, s[d])
  PROVE  /\ GoodTable([t EXCEPT ![d] = e], s)
         /\ [t EXCEPT ![d] = e][d] = e
         /\ \A x \in Nodes \ {d} : [t EXCEPT ![d] = e][x] = t[x]
         /\ e.flag # "IN_SEARCH" \/ InSearch(t, d) => NoNewSearch(t, [t EXCEPT ![d] = e])
BY DEF GoodTable, GoodEntry, NoNewSearch, InSearch

LEMMA TableGrows ==
  ASSUME NEW s \in [Nodes -> Nat], NEW u \in [Nodes -> Nat], \A d \in Nodes : s[d] <= u[d],
         NEW t, GoodTable(t, s)
  PROVE  GoodTable(t, u)
BY DEF GoodTable, GoodEntry, Entry

(* RecvAodv: there is a route to the neighbour, whichever way.             *)
LEMMA NeighborGood ==
  ASSUME NEW s \in [Nodes -> Nat], NEW t, GoodTable(t, s), NEW src \in Nodes
  PROVE  /\ GoodTable(UpdateRouteToNeighbor(t, src), s)
         /\ NoNewSearch(t, UpdateRouteToNeighbor(t, src))
         /\ UpdateRouteToNeighbor(t, src)[src].flag # "NONE"
         /\ UpdateRouteToNeighbor(t, src)[src].nextHop # None
<1> DEFINE e == NewEntry(FALSE, 0, 1, src)
<1>1. GoodEntry(e, s[src]) /\ e.flag = "VALID" /\ e.nextHop = src
  <2>1. src # None
    BY AddressAssumption
  <2>2. e \in Entry /\ Leads(e) /\ e.validSeqNo = FALSE
    BY <2>1 DEF NewEntry, Entry, Leads
  <2> QED
    BY <2>2 DEF GoodEntry, NewEntry
<1>2. CASE t[src].validSeqNo /\ t[src].hops = 1 /\ Has(t, src)
  <2>1. UpdateRouteToNeighbor(t, src) = t
    BY <1>2 DEF UpdateRouteToNeighbor
  <2>2. GoodEntry(t[src], s[src]) /\ t[src].flag # "NONE"
    BY <1>2 DEF GoodTable, Has
  <2>3. t[src].validSeqNo = TRUE
    BY <1>2, <2>2 DEF GoodEntry, Entry
  <2> QED
    BY <1>2, <2>1, <2>2, <2>3 DEF NoNewSearch, GoodEntry, Leads
<1>3. CASE ~(t[src].validSeqNo /\ t[src].hops = 1 /\ Has(t, src))
  <2>1. UpdateRouteToNeighbor(t, src) = [t EXCEPT ![src] = e]
    BY <1>3 DEF UpdateRouteToNeighbor
  <2>2. src # None
    BY AddressAssumption
  <2> HIDE DEF e
  <2>3. GoodTable([t EXCEPT ![src] = e], s) /\ [t EXCEPT ![src] = e][src] = e
    BY <1>1, TableWith
  <2>4. NoNewSearch(t, [t EXCEPT ![src] = e])
    BY <1>1, TableWith
  <2> QED
    BY <1>1, <2>1, <2>2, <2>3, <2>4
<1> QED
  BY <1>2, <1>3
(* The route to the sender of a request and the reverse route.             *)
LEMMA ReverseRouteLeads ==
  ASSUME NEW e \in Entry, NEW src, NEW r
  PROVE  /\ ReverseRoute(e, r, src).nextHop = src
         /\ ReverseRoute(e, r, src).validSeqNo = TRUE
         /\ ReverseRoute(e, r, src).flag = "IN_SEARCH" => e.flag = "IN_SEARCH"
BY DEF ReverseRoute, NewEntry, Entry

LEMMA ReverseRouteGood ==
  ASSUME NEW s \in [Nodes -> Nat], NEW o \in Nodes, NEW e, GoodEntry(e, s[o]),
         NEW src \in Nodes, NEW r,
         r.originSeqno \in Nat, r.originSeqno <= s[o], r.hops \in Nat
  PROVE  GoodEntry(ReverseRoute(e, r, src), s[o])
<1>1. src # None
  BY AddressAssumption
<1>2. r.hops + 1 \in Nat \ {0}
  OBVIOUS
<1> DEFINE q == IF e.validSeqNo /\ e.seqNo >= r.originSeqno THEN e.seqNo ELSE r.originSeqno
           turned == [e EXCEPT !.seqNo = q, !.validSeqNo = TRUE, !.nextHop = src,
                               !.hops = r.hops + 1]
<1>3. e \in Entry /\ e.seqNo \in Nat /\ e.validSeqNo \in BOOLEAN
  BY DEF GoodEntry, Entry
<1>4. q \in Nat /\ q <= s[o]
  <2>1. s[o] \in Nat
    OBVIOUS
  <2> QED
    BY <1>3, <2>1 DEF GoodEntry
<1>5. CASE e.flag = "NONE"
  <2>1. ReverseRoute(e, r, src) = NewEntry(TRUE, r.originSeqno, r.hops + 1, src)
    BY <1>5 DEF ReverseRoute
  <2> QED
    BY <1>1, <1>2, <2>1 DEF NewEntry, GoodEntry, Leads, Entry
<1>6. CASE e.flag # "NONE"
  <2>1. ReverseRoute(e, r, src) = turned
    BY <1>6 DEF ReverseRoute
  <2> HIDE DEF q
  <2>2. turned \in Entry /\ turned.nextHop = src /\ turned.hops = r.hops + 1
        /\ turned.flag = e.flag /\ turned.validSeqNo = TRUE /\ turned.seqNo = q
    BY <1>2, <1>3, <1>4 DEF Entry
  <2> QED
    BY <1>1, <1>2, <1>4, <1>6, <2>1, <2>2 DEF GoodEntry, Leads
<1> QED
  BY <1>5, <1>6

LEMMA RouteToSenderGood ==
  ASSUME NEW k \in Nat, NEW e, GoodEntry(e, k), NEW src \in Nodes,
         NEW r, r.originSeqno \in Nat
  PROVE  /\ GoodEntry(RouteToSender(e, r, src), k)
         /\ RouteToSender(e, r, src).nextHop = src
         /\ RouteToSender(e, r, src).flag = "VALID"
         /\ RouteToSender(e, r, src).seqNo = r.originSeqno
<1>1. src # None
  BY AddressAssumption
<1> DEFINE base == NewEntry(FALSE, r.originSeqno, 1, src)
           new == RouteToSender(e, r, src)
<1>2. e.precursors \in SUBSET Nodes
  BY DEF GoodEntry, Entry
<1>3. /\ base \in Entry /\ base.validSeqNo = FALSE /\ base.flag = "VALID" /\ base.hops = 1
      /\ base.nextHop = src /\ base.seqNo = r.originSeqno
  BY DEF NewEntry, Entry
<1>4. new = [base EXCEPT !.precursors = e.precursors]
  BY DEF RouteToSender
<1> HIDE DEF base, new
<1>5. /\ new \in Entry /\ new.validSeqNo = base.validSeqNo /\ new.flag = base.flag
      /\ new.hops = base.hops /\ new.nextHop = base.nextHop /\ new.seqNo = base.seqNo
  BY <1>2, <1>3, <1>4 DEF Entry
<1>6. GoodEntry(new, k)
  BY <1>1, <1>3, <1>5 DEF GoodEntry, Leads
<1> QED
  BY <1>3, <1>5, <1>6 DEF new

(* A request leaves a route to its originator through the sender.          *)
LEMMA RequestGood ==
  ASSUME NEW s \in [Nodes -> Nat], NEW t, GoodTable(t, s), NEW src \in Nodes,
         NEW r, r.origin \in Nodes, r.originSeqno \in Nat, r.originSeqno <= s[r.origin],
         r.hops \in Nat
  PROVE  /\ GoodTable(AfterRequest(t, r, src), s)
         /\ NoNewSearch(t, AfterRequest(t, r, src))
         /\ AfterRequest(t, r, src)[r.origin].nextHop = src
         /\ AfterRequest(t, r, src)[r.origin].seqNo <= s[r.origin]
<1> DEFINE o == r.origin
           a == ReverseRoute(t[o], r, src)
           t1 == [t EXCEPT ![o] = a]
           b == RouteToSender(t1[src], r, src)
           t2 == [t1 EXCEPT ![src] = b]
<1>1. AfterRequest(t, r, src) = t2
  BY DEF AfterRequest, GoodTable
<1>2. GoodEntry(t[o], s[o]) /\ s[o] \in Nat /\ s[src] \in Nat
  BY DEF GoodTable
<1>3. /\ GoodEntry(a, s[o]) /\ a.nextHop = src /\ a.validSeqNo = TRUE
      /\ a.flag = "IN_SEARCH" => InSearch(t, o)
  <2>1. r.originSeqno <= s[o]
    OBVIOUS
  <2>2. o \in Nodes
    OBVIOUS
  <2> HIDE DEF o
  <2>3. \A e : GoodEntry(e, s[o]) => GoodEntry(ReverseRoute(e, r, src), s[o])
    BY <2>1, <2>2, ReverseRouteGood
  <2>4. t[o] \in Entry
    BY <1>2 DEF GoodEntry
  <2>5. a.nextHop = src /\ a.validSeqNo = TRUE
    BY <2>4, ReverseRouteLeads
  <2>6. a.flag = "IN_SEARCH" => t[o].flag = "IN_SEARCH"
    BY <2>4, ReverseRouteLeads
  <2> QED
    BY <1>2, <2>3, <2>5, <2>6 DEF InSearch
<1> HIDE DEF a
<1>4. /\ GoodTable(t1, s) /\ t1[o] = a /\ NoNewSearch(t, t1)
  BY <1>3, TableWith
<1>5. GoodEntry(t1[src], s[src])
  BY <1>4 DEF GoodTable
<1> HIDE DEF t1
<1>6. /\ GoodEntry(b, s[src]) /\ b.nextHop = src /\ b.flag = "VALID"
      /\ b.seqNo = r.originSeqno
  BY <1>2, <1>5, RouteToSenderGood
<1> HIDE DEF b
<1>7. /\ GoodTable(t2, s) /\ t2[src] = b /\ NoNewSearch(t1, t2)
      /\ \A x \in Nodes \ {src} : t2[x] = t1[x]
  BY <1>4, <1>6, TableWith
<1>8. NoNewSearch(t, t2)
  BY <1>4, <1>7 DEF NoNewSearch
<1>9. a.seqNo <= s[o]
  BY <1>3 DEF GoodEntry
<1>10. CASE o = src
  BY <1>1, <1>6, <1>7, <1>8, <1>10
<1>11. CASE o # src
  BY <1>1, <1>3, <1>4, <1>7, <1>8, <1>9, <1>11
<1> QED
  BY <1>10, <1>11

LEMMA ReplyGood ==
  ASSUME NEW s \in [Nodes -> Nat], NEW t, GoodTable(t, s), NEW src \in Nodes,
         NEW r, r.dst \in Nodes, r.dstSeqno \in Nat, r.dstSeqno <= s[r.dst], r.hops \in Nat
  PROVE  /\ GoodEntry(RouteOf(r, src), s[r.dst]) /\ RouteOf(r, src).flag = "VALID"
         /\ GoodTable(AfterReply(t, r, src), s)
         /\ NoNewSearch(t, AfterReply(t, r, src))
<1>1. src # None
  BY AddressAssumption
<1>2. r.hops + 1 \in Nat \ {0}
  OBVIOUS
<1>3. GoodEntry(RouteOf(r, src), s[r.dst]) /\ RouteOf(r, src).flag = "VALID"
  BY <1>1, <1>2 DEF RouteOf, NewEntry, GoodEntry, Leads, Entry
<1>4. CASE Has(t, r.dst) /\ ~Fresher(t[r.dst], r)
  BY <1>3, <1>4 DEF AfterReply, NoNewSearch
<1>5. CASE ~(Has(t, r.dst) /\ ~Fresher(t[r.dst], r))
  <2>1. AfterReply(t, r, src) = [t EXCEPT ![r.dst] = RouteOf(r, src)]
    BY <1>5 DEF AfterReply
  <2> DEFINE e == RouteOf(r, src)
  <2>2. GoodEntry(e, s[r.dst]) /\ e.flag # "IN_SEARCH"
    BY <1>3
  <2> HIDE DEF e
  <2>3. GoodTable([t EXCEPT ![r.dst] = e], s) /\ NoNewSearch(t, [t EXCEPT ![r.dst] = e])
    BY <2>2, TableWith
  <2> QED
    BY <1>3, <2>1, <2>3 DEF e
<1> QED
  BY <1>4, <1>5

LEMMA PrecursorGood ==
  ASSUME NEW s, NEW t, GoodTable(t, s), NEW d, NEW p \in Nodes
  PROVE  /\ GoodTable(WithPrecursor(t, d, p), s)
         /\ NoNewSearch(t, WithPrecursor(t, d, p))
         /\ \A x \in Nodes : WithPrecursor(t, d, p)[x].flag = t[x].flag
                             /\ WithPrecursor(t, d, p)[x].nextHop = t[x].nextHop
<1> DEFINE u == WithPrecursor(t, d, p)
<1>1. ASSUME NEW x \in Nodes
      PROVE  GoodEntry(u[x], s[x]) /\ u[x].flag = t[x].flag /\ u[x].nextHop = t[x].nextHop
  <2>1. GoodEntry(t[x], s[x])
    BY DEF GoodTable
  <2>2. CASE x = d /\ Has(t, x)
    <3>1. t[x].precursors \cup {p} \in SUBSET Nodes
      BY <2>1 DEF GoodEntry, Entry
    <3>2. u[x] = [t[x] EXCEPT !.precursors = t[x].precursors \cup {p}]
      BY <2>2 DEF WithPrecursor
    <3>3. t[x] \in Entry
      BY <2>1 DEF GoodEntry
    <3>4. GoodEntry(u[x], s[x])
      BY <2>1, <3>1, <3>2, PrecursorsGood
    <3>5. u[x].flag = t[x].flag /\ u[x].nextHop = t[x].nextHop
      BY <3>2, <3>3 DEF Entry
    <3> QED
      BY <3>4, <3>5
  <2>3. CASE ~(x = d /\ Has(t, x))
    BY <2>1, <2>3 DEF WithPrecursor
  <2> QED
    BY <2>2, <2>3
<1>2. u \in [Nodes -> Entry]
  <2>1. u = [x \in Nodes |-> u[x]]
    BY DEF WithPrecursor
  <2>2. \A x \in Nodes : u[x] \in Entry
    BY <1>1 DEF GoodEntry
  <2> HIDE DEF u
  <2> QED
    BY <2>1, <2>2
<1> HIDE DEF u
<1>3. GoodTable(u, s) /\ NoNewSearch(t, u)
  BY <1>1, <1>2 DEF GoodTable, NoNewSearch, InSearch
<1> QED
  BY <1>1, <1>3 DEF u

LEMMA InvalidateGood ==
  ASSUME NEW s, NEW t, GoodTable(t, s), NEW ds
  PROVE  GoodTable(Invalidate(t, ds), s) /\ NoNewSearch(t, Invalidate(t, ds))
<1> DEFINE u == Invalidate(t, ds)
<1>1. ASSUME NEW x \in Nodes
      PROVE  GoodEntry(u[x], s[x]) /\ (u[x].flag = t[x].flag \/ u[x].flag = "INVALID")
  <2>1. GoodEntry(t[x], s[x]) /\ t[x] \in Entry
    BY DEF GoodTable, GoodEntry
  <2>2. CASE x \in ds /\ Valid(t, x)
    <3>1. u[x] = [t[x] EXCEPT !.flag = "INVALID", !.reqCount = 0]
      BY <2>2 DEF Invalidate
    <3>2. /\ u[x] \in Entry /\ u[x].flag = "INVALID" /\ u[x].seqNo = t[x].seqNo
          /\ u[x].hops = t[x].hops /\ u[x].nextHop = t[x].nextHop
          /\ u[x].validSeqNo = t[x].validSeqNo
      <4> DEFINE e == t[x]
                 v == [e EXCEPT !.flag = "INVALID", !.reqCount = 0]
      <4>1. e \in Entry /\ u[x] = v
        BY <2>1, <3>1
      <4> HIDE DEF e, u
      <4>2. /\ v \in Entry /\ v.flag = "INVALID" /\ v.seqNo = e.seqNo
            /\ v.hops = e.hops /\ v.nextHop = e.nextHop /\ v.validSeqNo = e.validSeqNo
        BY <4>1 DEF Entry
      <4> QED
        BY <4>1, <4>2 DEF e
    <3>3. t[x].flag = "VALID" /\ t[x].hops # 0 /\ t[x].nextHop # None
      BY <2>1, <2>2 DEF Valid, GoodEntry, Leads
    <3> HIDE DEF u
    <3> QED
      BY <2>1, <3>2, <3>3 DEF GoodEntry, Leads
  <2>3. CASE ~(x \in ds /\ Valid(t, x))
    BY <2>1, <2>3 DEF Invalidate
  <2> QED
    BY <2>2, <2>3
<1>2. u \in [Nodes -> Entry]
  <2>1. u = [x \in Nodes |-> u[x]]
    BY DEF Invalidate
  <2>2. \A x \in Nodes : u[x] \in Entry
    BY <1>1 DEF GoodEntry
  <2> HIDE DEF u
  <2> QED
    BY <2>1, <2>2
<1> HIDE DEF u
<1>3. GoodTable(u, s) /\ NoNewSearch(t, u)
  BY <1>1, <1>2 DEF GoodTable, NoNewSearch, InSearch
<1> QED
  BY <1>3 DEF u

LEMMA PurgeGood ==
  ASSUME NEW s \in [Nodes -> Nat], NEW t, GoodTable(t, s), NEW d \in Nodes
  PROVE  GoodTable(Purge(t, d), s) /\ NoNewSearch(t, Purge(t, d))
<1>1. CASE Valid(t, d)
  <2>1. Purge(t, d) = Invalidate(t, {d})
    BY <1>1 DEF Purge, Valid
  <2> QED
    BY <2>1, InvalidateGood
<1>2. CASE t[d].flag = "INVALID"
  <2>1. Purge(t, d) = [t EXCEPT ![d] = NoEntry]
    BY <1>2 DEF Purge, Valid
  <2>2. GoodEntry(NoEntry, s[d]) /\ NoEntry.flag # "IN_SEARCH"
    BY NoEntryGood DEF NoEntry
  <2>3. GoodTable([t EXCEPT ![d] = NoEntry], s) /\ NoNewSearch(t, [t EXCEPT ![d] = NoEntry])
    BY <2>2, TableWith
  <2> QED
    BY <2>1, <2>3
<1>3. CASE ~Valid(t, d) /\ t[d].flag # "INVALID"
  BY <1>3 DEF Purge, NoNewSearch
<1> QED
  BY <1>1, <1>2, <1>3

LEMMA RelayGood ==
  ASSUME NEW s \in [Nodes -> Nat], NEW t, GoodTable(t, s), NEW d \in Nodes, NEW o \in Nodes,
         t[o].flag \notin {"NONE", "IN_SEARCH"}
  PROVE  GoodTable(AfterRelay(t, d, o), s) /\ NoNewSearch(t, AfterRelay(t, d, o))
<1> DEFINE toOrigin == t[o]
           hop == t[d].nextHop
           t1 == WithPrecursor(t, d, toOrigin.nextHop)
           t2 == IF hop \in Nodes THEN WithPrecursor(t1, hop, toOrigin.nextHop) ELSE t1
           t2o == [t2 EXCEPT ![o] = toOrigin]
           t3 == WithPrecursor(t2o, o, hop)
           t4 == WithPrecursor(t3, toOrigin.nextHop, hop)
<1>1. GoodEntry(t[o], s[o]) /\ t[o].flag \in {"VALID", "INVALID"} /\ GoodEntry(t[d], s[d])
  BY DEF GoodTable, GoodEntry, Entry
<1>2. toOrigin.nextHop \in Nodes
  BY <1>1 DEF GoodEntry, Leads, Entry
<1>3. CASE Valid(t, d)
  <2>1. hop \in Nodes
    BY <1>1, <1>3 DEF GoodEntry, Leads, Entry, Valid
  <2>2. AfterRelay(t, d, o) = t4
    BY <1>3 DEF AfterRelay
  <2> HIDE DEF hop
  <2>3. GoodTable(t1, s) /\ NoNewSearch(t, t1)
    BY <1>2, PrecursorGood
  <2> HIDE DEF t1
  <2>4. GoodTable(t2, s) /\ NoNewSearch(t1, t2)
    BY <1>2, <2>3, PrecursorGood DEF NoNewSearch
  <2> HIDE DEF t2
  <2>5. GoodTable(t2o, s) /\ NoNewSearch(t2, t2o)
    <3>1. toOrigin.flag # "IN_SEARCH"
      BY <1>1
    <3> QED
      BY <1>1, <2>4, <3>1, TableWith
  <2> HIDE DEF t2o
  <2>6. GoodTable(t3, s) /\ NoNewSearch(t2o, t3)
    BY <2>1, <2>5, PrecursorGood
  <2> HIDE DEF t3
  <2>7. GoodTable(t4, s) /\ NoNewSearch(t3, t4)
    BY <2>1, <2>6, PrecursorGood
  <2> QED
    BY <2>2, <2>3, <2>4, <2>5, <2>6, <2>7 DEF NoNewSearch
<1>4. CASE ~Valid(t, d)
  BY <1>4 DEF AfterRelay, NoNewSearch
<1> QED
  BY <1>3, <1>4
(* A request: the TTL grows from one attempt to the next.                  *)
LEMMA SearchedGood ==
  ASSUME NEW k, NEW e, GoodEntry(e, k)
  PROVE  GoodEntry(Searched(e), k) /\ NextTtl(e) \in Nat
<1> DEFINE ttl == NextTtl(e)
           count == IF ttl = NetDiameter THEN e.reqCount + 1 ELSE e.reqCount
           u == [e EXCEPT !.flag = "IN_SEARCH", !.hops = ttl, !.reqCount = count]
<1>1. e \in Entry /\ e.hops \in Nat /\ e.reqCount \in Nat
  BY DEF GoodEntry, Entry
<1>2. /\ {TtlStart, TtlIncrement, TtlThreshold, NetDiameter} \subseteq Nat \ {0}
      /\ TtlThreshold < NetDiameter
  BY TtlAssumption
<1>3. /\ ttl \in Nat \ {0}
      /\ e.flag # "NONE" /\ e.hops # 0 => ttl # 1
  BY <1>1, <1>2 DEF NextTtl
<1>4. Searched(e) = u
  BY DEF Searched
<1> HIDE DEF ttl
<1>5. count \in Nat
  BY <1>1
<1> HIDE DEF count
<1>6. /\ u \in Entry /\ u.flag = "IN_SEARCH" /\ u.hops = ttl /\ u.seqNo = e.seqNo
      /\ u.nextHop = e.nextHop /\ u.validSeqNo = e.validSeqNo
  BY <1>1, <1>3, <1>5 DEF Entry
<1> HIDE DEF u
<1>7. Leads(u)
  BY <1>3, <1>6 DEF GoodEntry, Leads
<1> QED
  BY <1>3, <1>4, <1>6, <1>7 DEF GoodEntry, ttl

-----------------------------------------------------------------------------
(* Messages.                                                               *)

SaysKnown(b, s) ==
  /\ b.kind = "RREQ" => b.originSeqno <= s[b.origin] /\ b.dstSeqno <= s[b.dst]
  /\ b.kind = "RREP" => b.dstSeqno <= s[b.dst]

GoodBody(b, s) == b \in Body /\ SaysKnown(b, s)

Unicasts(s) == {p \in Unicast : SaysKnown(p.body, s)}
Frames(s) == {f \in [to: Nodes, ip: IPPacket] : SaysKnown(f.ip.body, s)}

LEMMA BodyFields ==
  ASSUME NEW b \in Body
  PROVE  /\ b.kind = "DATA" => b.id \in Nat
         /\ b.kind = "RREQ" => b \in [kind: {"RREQ"}, origin: Nodes, id: Nat,
                originSeqno: Nat, dst: Nodes, dstSeqno: Nat \cup {Unknown}, hops: Nat]
         /\ b.kind = "RREP" => b \in [kind: {"RREP"}, dst: Nodes, dstSeqno: Nat, hops: Nat,
                origin: Nodes, ackRequired: BOOLEAN]
         /\ b.kind = "RERR" => b.unreachable \in SUBSET Nodes
BY DEF Body

LEMMA BodyGrows ==
  ASSUME NEW s \in [Nodes -> Nat], NEW u \in [Nodes -> Nat], \A d \in Nodes : s[d] <= u[d],
         NEW b \in Body, SaysKnown(b, s)
  PROVE  SaysKnown(b, u)
<1>1. CASE b.kind = "RREQ"
  <2>1. /\ b.origin \in Nodes /\ b.dst \in Nodes
        /\ b.originSeqno \in Nat /\ b.dstSeqno \in Nat \cup {-1}
    BY <1>1, BodyFields DEF Unknown
  <2>2. b.originSeqno <= s[b.origin] /\ b.dstSeqno <= s[b.dst]
    BY <1>1 DEF SaysKnown
  <2> QED
    BY <1>1, <2>1, <2>2 DEF SaysKnown
<1>2. CASE b.kind = "RREP"
  <2>1. b.dst \in Nodes /\ b.dstSeqno \in Nat
    BY <1>2, BodyFields
  <2>2. b.dstSeqno <= s[b.dst]
    BY <1>2 DEF SaysKnown
  <2> QED
    BY <1>2, <2>1, <2>2 DEF SaysKnown
<1>3. CASE b.kind # "RREQ" /\ b.kind # "RREP"
  BY <1>3 DEF SaysKnown
<1> QED
  BY <1>1, <1>2, <1>3

LEMMA MailGrows ==
  ASSUME NEW s \in [Nodes -> Nat], NEW u \in [Nodes -> Nat], \A d \in Nodes : s[d] <= u[d]
  PROVE  Unicasts(s) \subseteq Unicasts(u) /\ Frames(s) \subseteq Frames(u)
<1>1. ASSUME NEW p \in Unicasts(s) PROVE p \in Unicasts(u)
  <2>1. p \in Unicast /\ p.body \in Body /\ SaysKnown(p.body, s)
    BY DEF Unicasts, Unicast
  <2> QED
    BY <2>1, BodyGrows DEF Unicasts
<1>2. ASSUME NEW f \in Frames(s) PROVE f \in Frames(u)
  <2>1. f \in [to: Nodes, ip: IPPacket] /\ f.ip.body \in Body /\ SaysKnown(f.ip.body, s)
    BY DEF Frames, IPPacket
  <2> QED
    BY <2>1, BodyGrows DEF Frames
<1> QED
  BY <1>1, <1>2

LEMMA PacketGood ==
  ASSUME NEW s, NEW b, GoodBody(b, s), NEW src \in Nodes, NEW dst \in Nodes, NEW ttl \in Nat
  PROVE  Packet(src, dst, ttl, b) \in Unicasts(s)
BY DEF Packet, Unicasts, Unicast, GoodBody

LEMMA FloodGood ==
  ASSUME NEW s, NEW b, GoodBody(b, s), NEW n \in Nodes, NEW ttl \in Nat
  PROVE  Flood(n, ttl, b) \subseteq Frames(s)
<1>1. \A m \in Links[n] : m \in Nodes
  BY LinksAssumption
<1> QED
  BY <1>1 DEF Flood, Packet, Frames, IPPacket, GoodBody

LEMMA FrameGood ==
  ASSUME NEW s, NEW p \in Unicasts(s), NEW n \in Nodes, NEW hop
  PROVE  Frame(n, hop, p) \subseteq Frames(s)
<1>1. \A m \in Links[n] : m \in Nodes
  BY LinksAssumption
<1>2. p \in IPPacket /\ SaysKnown(p.body, s)
  BY DEF Unicasts, Unicast, IPPacket
<1> QED
  BY <1>1, <1>2 DEF Frame, Frames

LEMMA RoutedGood ==
  ASSUME NEW s, NEW ps \in SUBSET Unicasts(s), NEW n \in Nodes, NEW t
  PROVE  Routed(n, t, ps) \subseteq Frames(s) /\ Unrouted(t, ps) \subseteq Unicasts(s)
<1>1. ASSUME NEW p \in ps PROVE Frame(n, t[p.dst].nextHop, p) \subseteq Frames(s)
  BY FrameGood
<1> QED
  BY <1>1 DEF Routed, Unrouted

(* The packets of a queue, one by one.                                     *)
LEMMA QueuePackets ==
  ASSUME NEW P, NEW q \in Seq(P)
  PROVE  /\ PacketsOf(q) \subseteq P
         /\ q # <<>> => Head(q) \in PacketsOf(q) /\ Tail(q) \in Seq(P)
                        /\ PacketsOf(Tail(q)) \subseteq PacketsOf(q)
BY DEF PacketsOf

LEMMA EnqueueGood ==
  ASSUME NEW P, NEW q \in Seq(P), NEW p \in P
  PROVE  /\ Enqueue(q, p) \in Seq(P) /\ PacketsOf(Enqueue(q, p)) \subseteq PacketsOf(q) \cup {p}
         /\ Pushed(q) \subseteq P
<1>1. MaxQueueLen \in Nat \ {0}
  BY LimitsAssumption
<1>2. CASE Len(q) = MaxQueueLen
  <2>1. q # <<>> /\ Tail(q) \in Seq(P) /\ Head(q) \in P
    BY <1>1, <1>2
  <2>2. Len(Append(Tail(q), p)) = Len(q) /\ Append(Tail(q), p) \in Seq(P)
        /\ \A i \in 1..Len(q) : Append(Tail(q), p)[i] = IF i = Len(q) THEN p ELSE q[i + 1]
    BY <2>1
  <2> QED
    BY <1>2, <2>1, <2>2 DEF Enqueue, PacketsOf, Pushed
<1>3. CASE Len(q) # MaxQueueLen
  <2>1. Len(Append(q, p)) = Len(q) + 1 /\ Append(q, p) \in Seq(P)
        /\ \A i \in 1..Len(q) + 1 : Append(q, p)[i] = IF i = Len(q) + 1 THEN p ELSE q[i]
    OBVIOUS
  <2> QED
    BY <1>3, <2>1 DEF Enqueue, PacketsOf, Pushed
<1> QED
  BY <1>2, <1>3

LEMMA DataGood ==
  ASSUME NEW ps, \A p \in ps : p.body \in Body
  PROVE  DataOf(ps) \subseteq Nat
BY BodyFields DEF DataOf
-----------------------------------------------------------------------------
(* The inductive invariant.                                                *)

Counts ==
  /\ m_addressReqTimer \in [Nodes -> SUBSET Nodes]
  /\ delayed \in [Nodes -> [Nodes -> Nat]]
  /\ m_rreqCount \in [Nodes -> Nat] /\ m_seqNo \in [Nodes -> Nat]
  /\ m_requestId \in [Nodes -> Nat]
  /\ m_rreqIdCache \in [Nodes -> SUBSET (Nodes \X Nat)]
  /\ m_nb \in [Nodes -> SUBSET Nodes]
  /\ sent \in Nat /\ delivered \in SUBSET Nat /\ dropped \in SUBSET Nat
  /\ faults \in Nat

(* Every entry leads somewhere and no number is ahead of its owner.        *)
Tables ==
  /\ m_routingTable \in [Nodes -> [Nodes -> Entry]]
  /\ \A n \in Nodes : GoodTable(m_routingTable[n], m_seqNo)

(* Nor in any message, wherever it waits.                                  *)
Mail ==
  /\ air \subseteq Frames(m_seqNo)
  /\ loopback \in [Nodes -> SUBSET Unicasts(m_seqNo)]
  /\ toSend \in [Nodes -> SUBSET Unicasts(m_seqNo)]
  /\ m_queue \in [Nodes -> Seq(Unicasts(m_seqNo))]

IInv == Counts /\ Tables /\ Mail /\ SearchHasTimer /\ QueuedIsSought

Grows == m_seqNo' \in [Nodes -> Nat] /\ \A d \in Nodes : m_seqNo[d] <= m_seqNo'[d]

LEMMA UnchangedGrows == ASSUME Counts, UNCHANGED m_seqNo PROVE Grows
BY DEF Counts, Grows

LEMMA MailStays ==
  ASSUME Counts, Mail, Grows
  PROVE  /\ air \subseteq Frames(m_seqNo')
         /\ loopback \in [Nodes -> SUBSET Unicasts(m_seqNo')]
         /\ toSend \in [Nodes -> SUBSET Unicasts(m_seqNo')]
         /\ m_queue \in [Nodes -> Seq(Unicasts(m_seqNo'))]
<1> DEFINE A == Unicasts(m_seqNo)
           B == Unicasts(m_seqNo')
<1>1. A \subseteq B /\ Frames(m_seqNo) \subseteq Frames(m_seqNo')
  BY MailGrows DEF Counts, Grows
<1>2. air \subseteq Frames(m_seqNo) /\ loopback \in [Nodes -> SUBSET A]
      /\ toSend \in [Nodes -> SUBSET A] /\ m_queue \in [Nodes -> Seq(A)]
  BY DEF Mail
<1> HIDE DEF A, B
<1>3. ASSUME NEW q \in Seq(A) PROVE q \in Seq(B)
  BY <1>1
<1>4. m_queue \in [Nodes -> Seq(B)]
  BY <1>2, <1>3
<1> QED
  BY <1>1, <1>2, <1>4 DEF B

LEMMA TablesStay ==
  ASSUME Counts, Tables, Grows
  PROVE  \A n \in Nodes : GoodTable(m_routingTable[n], m_seqNo')
BY TableGrows DEF Counts, Tables, Grows

(* One table is replaced.                                                  *)
LEMMA SetTableGood ==
  ASSUME Counts, Tables, Grows, NEW n \in Nodes, NEW t, GoodTable(t, m_seqNo'), SetTable(n, t)
  PROVE  Tables'
<1>1. \A m \in Nodes : GoodTable(m_routingTable[m], m_seqNo')
  BY TablesStay
<1>2. m_routingTable \in [Nodes -> [Nodes -> Entry]] /\ t \in [Nodes -> Entry]
  BY DEF Tables, GoodTable
<1>3. m_routingTable' = [m_routingTable EXCEPT ![n] = t]
  BY DEF SetTable
<1>4. \A m \in Nodes : GoodTable(m_routingTable'[m], m_seqNo')
  BY <1>1, <1>2, <1>3
<1> QED
  BY <1>2, <1>3, <1>4 DEF Tables

LEMMA SearchGoesOn ==
  ASSUME Tables, SearchHasTimer, NEW n \in Nodes, NEW t, SetTable(n, t),
         NoNewSearch(m_routingTable[n], t), UNCHANGED search
  PROVE  SearchHasTimer'
<1>1. ASSUME NEW m \in Nodes, NEW d \in Nodes, InSearch(m_routingTable'[m], d)
      PROVE  InSearch(m_routingTable[m], d)
  BY <1>1 DEF Tables, SetTable, NoNewSearch
<1> QED
  BY <1>1 DEF SearchHasTimer, search

LEMMA QueuesStay ==
  ASSUME QueuedIsSought, UNCHANGED <<m_queue, search>> PROVE QueuedIsSought'
BY DEF QueuedIsSought, search

LEMMA FrameFacts ==
  ASSUME Mail, NEW f \in air
  PROVE  /\ f.to \in Nodes /\ f.ip.src \in Nodes /\ f.ip.ttl \in Nat
         /\ f.ip.dst \in Nodes \cup {Broadcast} /\ f.ip \in IPPacket
         /\ f.ip.body \in Body /\ SaysKnown(f.ip.body, m_seqNo)
BY DEF Mail, Frames, IPPacket

LEMMA HandledGood ==
  ASSUME Counts, Tables, Mail, Grows, NEW f \in air, NEW t, NEW ps, NEW fs,
         Handled(f, t, ps, fs), GoodTable(t, m_seqNo'),
         ps \subseteq Unicasts(m_seqNo'), fs \subseteq Frames(m_seqNo')
  PROVE  /\ Tables' /\ air' \subseteq Frames(m_seqNo')
         /\ loopback' \in [Nodes -> SUBSET Unicasts(m_seqNo')]
<1>1. f.to \in Nodes
  BY FrameFacts
<1>2. Tables'
  BY <1>1, SetTableGood DEF Handled
<1>3. Routed(f.to, t, ps) \subseteq Frames(m_seqNo') /\ Unrouted(t, ps) \subseteq Unicasts(m_seqNo')
  BY <1>1, RoutedGood
<1>4. air \subseteq Frames(m_seqNo') /\ loopback \in [Nodes -> SUBSET Unicasts(m_seqNo')]
  BY MailStays
<1>5. air' \subseteq Frames(m_seqNo')
  BY <1>3, <1>4 DEF Handled
<1>6. loopback' \in [Nodes -> SUBSET Unicasts(m_seqNo')]
  BY <1>3, <1>4 DEF Handled
<1> QED
  BY <1>2, <1>5, <1>6

(* A handler that touches neither queue nor search.                        *)
LEMMA ReceiveKeeps ==
  ASSUME IInv, Counts', Grows, NEW f \in air, NEW t, NEW ps, NEW fs,
         Handled(f, t, ps, fs), GoodTable(t, m_seqNo'),
         NoNewSearch(m_routingTable[f.to], t),
         ps \subseteq Unicasts(m_seqNo'), fs \subseteq Frames(m_seqNo'),
         UNCHANGED <<m_queue, search>>,
         toSend' \in [Nodes -> SUBSET Unicasts(m_seqNo')]
  PROVE  IInv'
<1>1. /\ Tables' /\ air' \subseteq Frames(m_seqNo')
      /\ loopback' \in [Nodes -> SUBSET Unicasts(m_seqNo')]
  BY HandledGood DEF IInv
<1>2. m_queue' \in [Nodes -> Seq(Unicasts(m_seqNo'))]
  BY MailStays DEF IInv
<1>3. Mail'
  BY <1>1, <1>2 DEF Mail
<1>4. SearchHasTimer'
  <2>1. f.to \in Nodes
    BY FrameFacts DEF IInv
  <2> QED
    BY <2>1, SearchGoesOn DEF IInv, Handled
<1>5. QueuedIsSought'
  BY QueuesStay DEF IInv
<1> QED
  BY <1>1, <1>3, <1>4, <1>5 DEF IInv

LEMMA HeardGood ==
  ASSUME Tables, NEW n \in Nodes, NEW p, p.src \in Nodes
  PROVE  Heard(n, p) \subseteq Nodes
<1>1. GoodEntry(m_routingTable[n][p.src], m_seqNo[p.src])
  BY DEF Tables, GoodTable
<1> QED
  BY <1>1 DEF Heard, Valid, GoodEntry, Leads, Entry

LEMMA NeighboredGood ==
  ASSUME Counts, Tables, Mail, NEW f \in air
  PROVE  /\ GoodTable(Neighbored(f), m_seqNo)
         /\ NoNewSearch(m_routingTable[f.to], Neighbored(f))
         /\ Neighbored(f)[f.ip.src].flag # "NONE"
         /\ Neighbored(f)[f.ip.src].nextHop # None
<1>1. f.to \in Nodes /\ f.ip.src \in Nodes
  BY FrameFacts
<1>2. GoodTable(m_routingTable[f.to], m_seqNo)
  BY <1>1 DEF Tables
<1> QED
  BY <1>1, <1>2, NeighborGood DEF Counts, Neighbored
-----------------------------------------------------------------------------
(* The handlers of a frame.                                                *)

LEMMA DuplicateRequestKeeps ==
  ASSUME IInv, NEW f \in air, DuplicateRequest(f) PROVE IInv'
<1> DEFINE t == Neighbored(f)
<1>1. GoodTable(t, m_seqNo) /\ NoNewSearch(m_routingTable[f.to], t)
  BY NeighboredGood DEF IInv
<1>2. Handled(f, t, {}, {}) /\ UNCHANGED <<m_queue, search>> /\ UNCHANGED m_seqNo
      /\ UNCHANGED toSend
  BY DEF DuplicateRequest, numbers, Neighbored
<1>3. Counts'
  BY DEF IInv, Counts, DuplicateRequest, search, numbers, fates
<1>4. Grows /\ toSend \in [Nodes -> SUBSET Unicasts(m_seqNo')]
  BY <1>2, UnchangedGrows, MailStays DEF IInv
<1> HIDE DEF t
<1>5. GoodTable(t, m_seqNo')
  BY <1>1, <1>2
<1> QED
  BY <1>1, <1>2, <1>3, <1>4, <1>5, ReceiveKeeps

LEMMA FirstRequestGood ==
  ASSUME IInv, NEW f \in air, FirstRequest(f)
  PROVE  /\ f.ip.body \in [kind: {"RREQ"}, origin: Nodes, id: Nat, originSeqno: Nat,
                dst: Nodes, dstSeqno: Nat \cup {Unknown}, hops: Nat]
         /\ GoodTable(TableAfter(f), m_seqNo)
         /\ NoNewSearch(m_routingTable[f.to], TableAfter(f))
         /\ TableAfter(f)[f.ip.body.origin].nextHop = f.ip.src
         /\ TableAfter(f)[f.ip.body.origin].seqNo <= m_seqNo[f.ip.body.origin]
         /\ f.ip.body.originSeqno <= m_seqNo[f.ip.body.origin]
         /\ f.ip.body.dstSeqno <= m_seqNo[f.ip.body.dst]
         /\ m_seqNo' \in [Nodes -> Nat] => Counts'
         /\ UNCHANGED <<m_queue, search>> /\ UNCHANGED toSend
<1> DEFINE r == f.ip.body
<1>1. /\ f.to \in Nodes /\ f.ip.src \in Nodes /\ r \in Body /\ SaysKnown(r, m_seqNo)
      /\ r.kind = "RREQ"
  BY FrameFacts DEF IInv, FirstRequest, Arrives
<1>2. r \in [kind: {"RREQ"}, origin: Nodes, id: Nat, originSeqno: Nat,
             dst: Nodes, dstSeqno: Nat \cup {Unknown}, hops: Nat]
  BY <1>1, BodyFields
<1>3. r.originSeqno <= m_seqNo[r.origin] /\ r.dstSeqno <= m_seqNo[r.dst]
  BY <1>1 DEF SaysKnown
<1>4. /\ GoodTable(Neighbored(f), m_seqNo)
      /\ NoNewSearch(m_routingTable[f.to], Neighbored(f))
  BY NeighboredGood DEF IInv
<1>5. r.origin \in Nodes /\ r.originSeqno \in Nat /\ r.hops \in Nat /\ r.id \in Nat
  BY <1>2
<1> DEFINE t == AfterRequest(Neighbored(f), r, f.ip.src)
<1>6. TableAfter(f) = t
  BY DEF TableAfter, Neighbored
<1>7. m_seqNo \in [Nodes -> Nat]
  BY DEF IInv, Counts
<1>8. /\ GoodTable(t, m_seqNo) /\ NoNewSearch(Neighbored(f), t)
      /\ t[r.origin].nextHop = f.ip.src /\ t[r.origin].seqNo <= m_seqNo[r.origin]
  BY <1>1, <1>3, <1>4, <1>5, <1>7, RequestGood
<1>9. NoNewSearch(m_routingTable[f.to], t)
  BY <1>4, <1>8 DEF NoNewSearch
<1>10. ASSUME m_seqNo' \in [Nodes -> Nat] PROVE Counts'
  <2>1. m_nb' \in [Nodes -> SUBSET Nodes]
    BY <1>1 DEF IInv, Counts, FirstRequest
  <2>2. m_rreqIdCache' \in [Nodes -> SUBSET (Nodes \X Nat)]
    BY <1>1, <1>5 DEF IInv, Counts, FirstRequest
  <2> QED
    BY <1>10, <2>1, <2>2 DEF IInv, Counts, FirstRequest, search, fates
<1> HIDE DEF t
<1> QED
  BY <1>2, <1>3, <1>6, <1>8, <1>9, <1>10 DEF FirstRequest

LEMMA SendReplyKeeps ==
  ASSUME IInv, NEW f \in air, SendReply(f) PROVE IInv'
<1> DEFINE n == f.to
           r == f.ip.body
           t == TableAfter(f)
           seqNo == IF r.dstSeqno = m_seqNo[n] + 1 THEN m_seqNo[n] + 1 ELSE m_seqNo[n]
           b == Reply(n, seqNo, 0, r.origin, FALSE)
           p == Packet(n, t[r.origin].nextHop, t[r.origin].hops, b)
<1>1. FirstRequest(f) /\ m_seqNo' = [m_seqNo EXCEPT ![n] = seqNo]
      /\ Handled(f, t, {p}, {})
  BY DEF SendReply
<1>2. n \in Nodes /\ f.ip.src \in Nodes /\ m_seqNo \in [Nodes -> Nat]
  BY FrameFacts DEF IInv, Counts
<1>3. seqNo \in Nat /\ m_seqNo[n] <= seqNo
  BY <1>2
<1>4. Grows /\ m_seqNo'[n] = seqNo
  BY <1>1, <1>2, <1>3 DEF Grows
<1>5. /\ GoodTable(t, m_seqNo) /\ NoNewSearch(m_routingTable[n], t)
      /\ t[r.origin].nextHop = f.ip.src /\ r.origin \in Nodes
      /\ m_seqNo' \in [Nodes -> Nat] => Counts'
      /\ UNCHANGED <<m_queue, search>> /\ UNCHANGED toSend
  BY <1>1, FirstRequestGood
<1> HIDE DEF t, seqNo
<1>6. GoodTable(t, m_seqNo')
  BY <1>2, <1>4, <1>5, TableGrows DEF Grows
<1>7. Counts'
  BY <1>4, <1>5 DEF Grows
<1>8. GoodBody(b, m_seqNo')
  <2>1. b \in Body
    BY <1>2, <1>3, <1>5 DEF Reply, Body
  <2>2. b.kind = "RREP" /\ b.dstSeqno = seqNo /\ b.dst = n
    BY DEF Reply
  <2>3. seqNo <= m_seqNo'[n]
    BY <1>3, <1>4
  <2> HIDE DEF b
  <2> QED
    BY <2>1, <2>2, <2>3 DEF GoodBody, SaysKnown
<1>9. t[r.origin].hops \in Nat
  BY <1>5 DEF GoodTable, Entry
<1> HIDE DEF b
<1>10. {p} \subseteq Unicasts(m_seqNo')
  BY <1>2, <1>5, <1>8, <1>9, PacketGood
<1>11. toSend \in [Nodes -> SUBSET Unicasts(m_seqNo')]
  BY <1>4, MailStays DEF IInv
<1> DEFINE ps == {p}
<1>12. Handled(f, t, ps, {}) /\ ps \subseteq Unicasts(m_seqNo') /\ {} \subseteq Frames(m_seqNo')
  BY <1>1, <1>10
<1>13. toSend' \in [Nodes -> SUBSET Unicasts(m_seqNo')]
  BY <1>5, <1>11
<1> HIDE DEF ps
<1>14. NoNewSearch(m_routingTable[f.to], t) /\ UNCHANGED <<m_queue, search>>
  BY <1>5
<1> QED
  BY <1>4, <1>6, <1>7, <1>12, <1>13, <1>14, ReceiveKeeps

LEMMA SendReplyByIntermediateNodeKeeps ==
  ASSUME IInv, NEW f \in air, SendReplyByIntermediateNode(f) PROVE IInv'
<1> DEFINE n == f.to
           r == f.ip.body
           t == TableAfter(f)
           o == t[r.origin]
           e == t[r.dst]
           a == Reply(r.dst, e.seqNo, e.hops, r.origin, e.hops = 1)
           answer == Packet(n, o.nextHop, o.hops, a)
           g == Reply(r.origin, o.seqNo, o.hops, r.dst, FALSE)
           gratuitous == Packet(n, e.nextHop, e.hops, g)
           ps == {answer} \cup (IF GratuitousReply THEN {gratuitous} ELSE {})
           t1 == WithPrecursor(t, r.dst, o.nextHop)
           t2 == WithPrecursor(t1, r.origin, e.nextHop)
<1>1. FirstRequest(f) /\ UNCHANGED m_seqNo /\ Handled(f, t2, ps, {}) /\ Answers(e, r)
  BY DEF SendReplyByIntermediateNode
<1>2. n \in Nodes /\ f.ip.src \in Nodes /\ m_seqNo \in [Nodes -> Nat]
  BY FrameFacts DEF IInv, Counts
<1>3. Grows
  BY <1>1, UnchangedGrows DEF IInv
<1>4. /\ GoodTable(t, m_seqNo) /\ NoNewSearch(m_routingTable[n], t)
      /\ o.nextHop = f.ip.src /\ o.seqNo <= m_seqNo[r.origin]
      /\ r.origin \in Nodes /\ r.dst \in Nodes
      /\ m_seqNo' \in [Nodes -> Nat] => Counts'
      /\ UNCHANGED <<m_queue, search>> /\ UNCHANGED toSend
  BY <1>1, FirstRequestGood
<1>5. GoodEntry(o, m_seqNo[r.origin]) /\ GoodEntry(e, m_seqNo[r.dst])
  BY <1>4 DEF GoodTable
<1> HIDE DEF t, o, e
<1>6. e.flag = "VALID" /\ e.validSeqNo = TRUE
  BY <1>1, <1>5 DEF Answers, KnowsBetter, GoodEntry, Entry
<1>7. /\ o.nextHop \in Nodes /\ e.nextHop \in Nodes /\ o.hops \in Nat /\ e.hops \in Nat
      /\ o.seqNo \in Nat /\ e.seqNo \in Nat /\ e.seqNo <= m_seqNo[r.dst]
  BY <1>2, <1>4, <1>5, <1>6 DEF GoodEntry, Leads, Entry
<1>8. GoodBody(a, m_seqNo)
  <2>1. a \in Body
    BY <1>4, <1>7 DEF Reply, Body
  <2>2. a.kind = "RREP" /\ a.dstSeqno = e.seqNo /\ a.dst = r.dst
    BY DEF Reply
  <2> HIDE DEF a
  <2> QED
    BY <1>7, <2>1, <2>2 DEF GoodBody, SaysKnown
<1>9. GoodBody(g, m_seqNo)
  <2>1. g \in Body
    BY <1>4, <1>7 DEF Reply, Body
  <2>2. g.kind = "RREP" /\ g.dstSeqno = o.seqNo /\ g.dst = r.origin
    BY DEF Reply
  <2> HIDE DEF g
  <2> QED
    BY <1>4, <2>1, <2>2 DEF GoodBody, SaysKnown
<1> HIDE DEF a, g
<1>10. ps \subseteq Unicasts(m_seqNo')
  <2>1. answer \in Unicasts(m_seqNo) /\ gratuitous \in Unicasts(m_seqNo)
    BY <1>2, <1>7, <1>8, <1>9, PacketGood
  <2> QED
    BY <1>1, <2>1
<1>11. GoodTable(t1, m_seqNo) /\ NoNewSearch(t, t1)
  BY <1>4, <1>7, PrecursorGood
<1> HIDE DEF t1
<1>12. GoodTable(t2, m_seqNo) /\ NoNewSearch(t1, t2)
  BY <1>7, <1>11, PrecursorGood
<1> HIDE DEF t2
<1>13. GoodTable(t2, m_seqNo') /\ NoNewSearch(m_routingTable[f.to], t2)
  BY <1>1, <1>4, <1>11, <1>12 DEF NoNewSearch
<1>14. toSend \in [Nodes -> SUBSET Unicasts(m_seqNo')] /\ Counts'
  BY <1>3, <1>4, MailStays DEF IInv, Grows
<1> HIDE DEF ps
<1> QED
  BY <1>1, <1>3, <1>4, <1>10, <1>13, <1>14, ReceiveKeeps

LEMMA NextHopRequest ==
  ASSUME NEW r \in [kind: {"RREQ"}, origin: Nodes, id: Nat, originSeqno: Nat,
                    dst: Nodes, dstSeqno: Nat \cup {Unknown}, hops: Nat],
         NEW known \in Nat \cup {Unknown}
  PROVE  LET next == [r EXCEPT !.hops = r.hops + 1, !.dstSeqno = known]
         IN /\ next \in [kind: {"RREQ"}, origin: Nodes, id: Nat, originSeqno: Nat,
                          dst: Nodes, dstSeqno: Nat \cup {Unknown}, hops: Nat]
            /\ next.kind = "RREQ" /\ next.originSeqno = r.originSeqno
            /\ next.origin = r.origin /\ next.dstSeqno = known /\ next.dst = r.dst
            /\ next.hops = r.hops + 1
<1> DEFINE hops == r.hops + 1
           R == [kind: {"RREQ"}, origin: Nodes, id: Nat, originSeqno: Nat,
                 dst: Nodes, dstSeqno: Nat \cup {Unknown}, hops: Nat]
           known1 == [r EXCEPT !.hops = hops]
           next == [known1 EXCEPT !.dstSeqno = known]
<1>1. hops \in Nat
  OBVIOUS
<1> HIDE DEF hops
<1>2. known1 \in R /\ known1.originSeqno = r.originSeqno /\ known1.origin = r.origin
      /\ known1.dst = r.dst /\ known1.hops = hops
  BY <1>1
<1> HIDE DEF known1
<1>3. next \in R /\ next.originSeqno = known1.originSeqno /\ next.origin = known1.origin
      /\ next.dst = known1.dst /\ next.dstSeqno = known /\ next.kind = "RREQ"
      /\ next.hops = known1.hops
  BY <1>2
<1> QED
  BY <1>2, <1>3 DEF hops, known1

LEMMA ForwardRequestKeeps ==
  ASSUME IInv, NEW f \in air, ForwardRequest(f) PROVE IInv'
<1> DEFINE n == f.to
           r == f.ip.body
           t == TableAfter(f)
           e == t[r.dst]
           known == IF KnowsBetter(e, r) THEN e.seqNo ELSE r.dstSeqno
           next == [r EXCEPT !.hops = r.hops + 1, !.dstSeqno = known]
           fs == IF ~WouldLoop(e, f.ip.src) /\ f.ip.ttl > 1
                 THEN Flood(n, f.ip.ttl - 1, next) ELSE {}
<1>1. FirstRequest(f) /\ UNCHANGED m_seqNo /\ Handled(f, t, {}, fs)
  BY DEF ForwardRequest
<1>2. n \in Nodes /\ f.ip.ttl \in Nat /\ m_seqNo \in [Nodes -> Nat]
  BY FrameFacts DEF IInv, Counts
<1>3. Grows
  BY <1>1, UnchangedGrows DEF IInv
<1>4. /\ r \in [kind: {"RREQ"}, origin: Nodes, id: Nat, originSeqno: Nat,
                dst: Nodes, dstSeqno: Nat \cup {Unknown}, hops: Nat]
      /\ GoodTable(t, m_seqNo) /\ NoNewSearch(m_routingTable[n], t)
      /\ r.originSeqno <= m_seqNo[r.origin] /\ r.dstSeqno <= m_seqNo[r.dst]
      /\ m_seqNo' \in [Nodes -> Nat] => Counts'
      /\ UNCHANGED <<m_queue, search>> /\ UNCHANGED toSend
  BY <1>1, FirstRequestGood
<1>5. GoodEntry(e, m_seqNo[r.dst])
  BY <1>4 DEF GoodTable
<1> HIDE DEF t, e
<1>6. known \in Nat \cup {Unknown} /\ known <= m_seqNo[r.dst]
  <2>1. CASE KnowsBetter(e, r)
    BY <1>5, <2>1 DEF KnowsBetter, GoodEntry, Entry
  <2>2. CASE ~KnowsBetter(e, r)
    BY <1>4, <2>2
  <2> QED
    BY <2>1, <2>2
<1> HIDE DEF known
<1>7. GoodBody(next, m_seqNo)
  <2>1. /\ next \in [kind: {"RREQ"}, origin: Nodes, id: Nat, originSeqno: Nat,
                     dst: Nodes, dstSeqno: Nat \cup {Unknown}, hops: Nat]
        /\ next.kind = "RREQ" /\ next.originSeqno = r.originSeqno /\ next.origin = r.origin
        /\ next.dstSeqno = known /\ next.dst = r.dst
    BY <1>4, <1>6, NextHopRequest
  <2> HIDE DEF next
  <2>2. next \in Body
    BY <2>1 DEF Body
  <2> QED
    BY <1>4, <1>6, <2>1, <2>2 DEF GoodBody, SaysKnown
<1> HIDE DEF next
<1>8. fs \subseteq Frames(m_seqNo')
  <2>1. CASE ~WouldLoop(e, f.ip.src) /\ f.ip.ttl > 1
    <3>1. f.ip.ttl - 1 \in Nat
      BY <1>2, <2>1
    <3>2. Flood(n, f.ip.ttl - 1, next) \subseteq Frames(m_seqNo)
      BY <1>2, <1>7, <3>1, FloodGood
    <3> QED
      BY <1>1, <2>1, <3>2
  <2>2. CASE ~(~WouldLoop(e, f.ip.src) /\ f.ip.ttl > 1)
    BY <2>2
  <2> QED
    BY <2>1, <2>2
<1>9. toSend \in [Nodes -> SUBSET Unicasts(m_seqNo')] /\ Counts' /\ GoodTable(t, m_seqNo')
  BY <1>1, <1>3, <1>4, MailStays DEF IInv, Grows
<1> HIDE DEF fs
<1> QED
  BY <1>1, <1>3, <1>4, <1>8, <1>9, ReceiveKeeps
LEMMA ReceiveKeepsHere ==
  ASSUME IInv, Counts', UNCHANGED m_seqNo, NEW f \in air, NEW t, NEW ps, NEW fs,
         Handled(f, t, ps, fs), GoodTable(t, m_seqNo),
         NoNewSearch(m_routingTable[f.to], t),
         ps \subseteq Unicasts(m_seqNo), fs \subseteq Frames(m_seqNo),
         UNCHANGED <<m_queue, search>>,
         toSend' \in [Nodes -> SUBSET Unicasts(m_seqNo)]
  PROVE  IInv'
<1>1. Grows
  BY UnchangedGrows DEF IInv
<1>2. /\ GoodTable(t, m_seqNo') /\ ps \subseteq Unicasts(m_seqNo')
      /\ fs \subseteq Frames(m_seqNo') /\ toSend' \in [Nodes -> SUBSET Unicasts(m_seqNo')]
  OBVIOUS
<1> QED
  BY <1>1, <1>2, ReceiveKeeps

(* A reply, and what the handlers of replies share.                        *)
LEMMA RepliedGood ==
  ASSUME IInv, NEW f \in air, f.ip.body.kind = "RREP"
  PROVE  /\ f.ip.body \in [kind: {"RREP"}, dst: Nodes, dstSeqno: Nat, hops: Nat,
                           origin: Nodes, ackRequired: BOOLEAN]
         /\ f.ip.body.dstSeqno <= m_seqNo[f.ip.body.dst]
         /\ GoodTable(Replied(f), m_seqNo)
         /\ NoNewSearch(m_routingTable[f.to], Replied(f))
         /\ GoodEntry(RouteOf(f.ip.body, f.ip.src), m_seqNo[f.ip.body.dst])
         /\ RouteOf(f.ip.body, f.ip.src).flag = "VALID"
         /\ Ack(f) \subseteq Unicasts(m_seqNo)
<1> DEFINE r == f.ip.body
           b == [kind |-> "RREP_ACK"]
<1>1. /\ f.to \in Nodes /\ f.ip.src \in Nodes /\ r \in Body /\ SaysKnown(r, m_seqNo)
  BY FrameFacts DEF IInv
<1>2. /\ r \in [kind: {"RREP"}, dst: Nodes, dstSeqno: Nat, hops: Nat,
                origin: Nodes, ackRequired: BOOLEAN]
      /\ r.dstSeqno <= m_seqNo[r.dst]
  BY <1>1, BodyFields DEF SaysKnown
<1>3. GoodTable(Neighbored(f), m_seqNo) /\ NoNewSearch(m_routingTable[f.to], Neighbored(f))
  BY NeighboredGood DEF IInv
<1>4. r.dst \in Nodes /\ r.dstSeqno \in Nat /\ r.hops \in Nat /\ m_seqNo \in [Nodes -> Nat]
  BY <1>2 DEF IInv, Counts
<1>5. /\ GoodEntry(RouteOf(r, f.ip.src), m_seqNo[r.dst])
      /\ RouteOf(r, f.ip.src).flag = "VALID"
      /\ GoodTable(AfterReply(Neighbored(f), r, f.ip.src), m_seqNo)
      /\ NoNewSearch(Neighbored(f), AfterReply(Neighbored(f), r, f.ip.src))
  BY <1>1, <1>2, <1>3, <1>4, ReplyGood
<1>6. GoodBody(b, m_seqNo)
  <2>1. b \in Body
    BY DEF Body
  <2>2. b.kind = "RREP_ACK"
    OBVIOUS
  <2> QED
    BY <2>1, <2>2 DEF GoodBody, SaysKnown
<1> HIDE DEF b
<1>7. Packet(f.to, f.ip.src, 1, b) \in Unicasts(m_seqNo)
  BY <1>1, <1>6, PacketGood
<1>8. Ack(f) \subseteq Unicasts(m_seqNo)
  BY <1>7 DEF Ack, b
<1> QED
  BY <1>2, <1>3, <1>5, <1>8 DEF Replied, NoNewSearch

LEMMA ProcessHelloKeeps ==
  ASSUME IInv, NEW f \in air, ProcessHello(f) PROVE IInv'
<1> DEFINE r == f.ip.body
           u == Neighbored(f)
           base == NewEntry(TRUE, r.dstSeqno, 1, r.dst)
           hello == [base EXCEPT !.precursors = u[r.dst].precursors]
           t == [u EXCEPT ![r.dst] = hello]
<1>1. /\ r.kind = "RREP" /\ Handled(f, t, {}, {}) /\ UNCHANGED <<m_queue, search>>
      /\ UNCHANGED m_seqNo /\ UNCHANGED toSend
      /\ m_nb' = [m_nb EXCEPT ![f.to] = @ \cup {r.dst}]
  BY DEF ProcessHello, Arrives, numbers
<1>2. r.dst \in Nodes /\ r.dstSeqno \in Nat /\ r.dstSeqno <= m_seqNo[r.dst]
  BY <1>1, RepliedGood
<1>3. GoodTable(u, m_seqNo) /\ NoNewSearch(m_routingTable[f.to], u)
  BY NeighboredGood DEF IInv
<1>4. GoodEntry(base, m_seqNo[r.dst]) /\ base.flag = "VALID"
  <2>1. r.dst # None
    BY <1>2, AddressAssumption
  <2> QED
    BY <1>2, <2>1 DEF NewEntry, GoodEntry, Leads, Entry
<1> HIDE DEF base
<1>5. u[r.dst].precursors \in SUBSET Nodes
  BY <1>2, <1>3 DEF GoodTable, Entry
<1>6. GoodEntry(hello, m_seqNo[r.dst]) /\ hello.flag # "IN_SEARCH"
  BY <1>4, <1>5, PrecursorsGood
<1> HIDE DEF u, hello
<1>7. GoodTable(t, m_seqNo) /\ NoNewSearch(u, t)
  BY <1>2, <1>3, <1>6, TableWith
<1>8. NoNewSearch(m_routingTable[f.to], t)
  BY <1>3, <1>7 DEF NoNewSearch
<1>9. Counts'
  <2>1. f.to \in Nodes
    BY FrameFacts DEF IInv
  <2>2. m_nb' \in [Nodes -> SUBSET Nodes]
    BY <1>1, <1>2, <2>1 DEF IInv, Counts
  <2> QED
    BY <2>2 DEF IInv, Counts, ProcessHello, search, numbers, fates
<1>10. toSend' \in [Nodes -> SUBSET Unicasts(m_seqNo)]
  BY <1>1 DEF IInv, Mail
<1> HIDE DEF t
<1> QED
  BY <1>1, <1>7, <1>8, <1>9, <1>10, ReceiveKeepsHere

LEMMA NextHopReply ==
  ASSUME NEW r \in [kind: {"RREP"}, dst: Nodes, dstSeqno: Nat, hops: Nat,
                    origin: Nodes, ackRequired: BOOLEAN]
  PROVE  LET next == [r EXCEPT !.hops = r.hops + 1, !.ackRequired = FALSE]
         IN /\ next \in [kind: {"RREP"}, dst: Nodes, dstSeqno: Nat, hops: Nat,
                         origin: Nodes, ackRequired: BOOLEAN]
            /\ next.kind = "RREP" /\ next.dstSeqno = r.dstSeqno /\ next.dst = r.dst
            /\ next.origin = r.origin /\ next.hops = r.hops + 1
<1> DEFINE hops == r.hops + 1
           R == [kind: {"RREP"}, dst: Nodes, dstSeqno: Nat, hops: Nat,
                 origin: Nodes, ackRequired: BOOLEAN]
           r1 == [r EXCEPT !.hops = hops]
           next == [r1 EXCEPT !.ackRequired = FALSE]
<1>1. hops \in Nat
  OBVIOUS
<1> HIDE DEF hops
<1>2. r1 \in R /\ r1.dstSeqno = r.dstSeqno /\ r1.dst = r.dst
      /\ r1.origin = r.origin /\ r1.hops = hops
  BY <1>1
<1> HIDE DEF r1
<1>3. next \in R /\ next.dstSeqno = r1.dstSeqno /\ next.dst = r1.dst /\ next.kind = "RREP"
      /\ next.origin = r1.origin /\ next.hops = r1.hops
  BY <1>2
<1> QED
  BY <1>2, <1>3 DEF hops, r1

LEMMA RelayReplyKeeps ==
  ASSUME IInv, NEW f \in air, RelayReply(f) PROVE IInv'
<1> DEFINE n == f.to
           r == f.ip.body
           t == Replied(f)
           o == t[r.origin]
           next == [r EXCEPT !.hops = r.hops + 1, !.ackRequired = FALSE]
           forwarded == IF f.ip.ttl > 1 THEN {Packet(n, o.nextHop, f.ip.ttl - 1, next)} ELSE {}
           u == AfterRelay(t, r.dst, r.origin)
           ps == Ack(f) \cup forwarded
<1>1. /\ r.kind = "RREP" /\ UNCHANGED <<m_queue, search>>
      /\ UNCHANGED m_seqNo /\ UNCHANGED toSend
      /\ m_nb' = [m_nb EXCEPT ![n] = @ \cup Heard(n, f.ip)]
      /\ IF NoReverseRoute(f) THEN Handled(f, t, Ack(f), {}) ELSE Handled(f, u, ps, {})
  BY DEF RelayReply, Arrives, numbers
<1>2. /\ r \in [kind: {"RREP"}, dst: Nodes, dstSeqno: Nat, hops: Nat,
                origin: Nodes, ackRequired: BOOLEAN]
      /\ r.dstSeqno <= m_seqNo[r.dst]
      /\ GoodTable(t, m_seqNo) /\ NoNewSearch(m_routingTable[n], t)
      /\ Ack(f) \subseteq Unicasts(m_seqNo)
  BY <1>1, RepliedGood
<1>3. n \in Nodes /\ f.ip.src \in Nodes /\ f.ip.ttl \in Nat /\ m_seqNo \in [Nodes -> Nat]
  BY FrameFacts DEF IInv, Counts
<1>4. Counts'
  <2>1. Heard(n, f.ip) \subseteq Nodes
    BY <1>3, HeardGood DEF IInv
  <2>2. m_nb' \in [Nodes -> SUBSET Nodes]
    BY <1>1, <1>3, <2>1 DEF IInv, Counts
  <2> QED
    BY <2>2 DEF IInv, Counts, RelayReply, search, numbers, fates
<1>5. toSend' \in [Nodes -> SUBSET Unicasts(m_seqNo)]
  BY <1>1 DEF IInv, Mail
<1>6. CASE NoReverseRoute(f)
  <2>1. Handled(f, t, Ack(f), {}) /\ {} \subseteq Frames(m_seqNo)
    BY <1>1, <1>6
  <2> HIDE DEF t
  <2> QED
    BY <1>1, <1>2, <1>4, <1>5, <2>1, ReceiveKeepsHere
<1>7. CASE ~NoReverseRoute(f)
  <2>1. o.flag \notin {"NONE", "IN_SEARCH"}
    BY <1>7 DEF NoReverseRoute
  <2>2. r.origin \in Nodes /\ r.dst \in Nodes
    BY <1>2
  <2>3. GoodEntry(o, m_seqNo[r.origin])
    BY <1>2, <2>2 DEF GoodTable
  <2> HIDE DEF t
  <2>4. GoodTable(u, m_seqNo) /\ NoNewSearch(t, u)
    BY <1>2, <1>3, <2>1, <2>2, RelayGood
  <2>5. NoNewSearch(m_routingTable[n], u)
    BY <1>2, <2>4 DEF NoNewSearch
  <2> HIDE DEF u
  <2>6. o.nextHop \in Nodes
    BY <2>1, <2>3 DEF GoodEntry, Leads, Entry
  <2>7. GoodBody(next, m_seqNo)
    <3>1. /\ next \in [kind: {"RREP"}, dst: Nodes, dstSeqno: Nat, hops: Nat,
                       origin: Nodes, ackRequired: BOOLEAN]
          /\ next.kind = "RREP" /\ next.dstSeqno = r.dstSeqno /\ next.dst = r.dst
      BY <1>2, NextHopReply
    <3> HIDE DEF next
    <3>2. next \in Body
      BY <3>1 DEF Body
    <3> QED
      BY <1>2, <3>1, <3>2 DEF GoodBody, SaysKnown
  <2> HIDE DEF o, next
  <2>8. forwarded \subseteq Unicasts(m_seqNo)
    <3>1. CASE f.ip.ttl > 1
      <4>1. f.ip.ttl - 1 \in Nat
        BY <1>3, <3>1
      <4>2. Packet(n, o.nextHop, f.ip.ttl - 1, next) \in Unicasts(m_seqNo)
        BY <1>3, <2>6, <2>7, <4>1, PacketGood
      <4> QED
        BY <3>1, <4>2
    <3>2. CASE ~(f.ip.ttl > 1)
      BY <3>2
    <3> QED
      BY <3>1, <3>2
  <2> HIDE DEF forwarded
  <2>9. Handled(f, u, ps, {}) /\ ps \subseteq Unicasts(m_seqNo) /\ {} \subseteq Frames(m_seqNo)
    BY <1>1, <1>2, <1>7, <2>8
  <2> HIDE DEF ps
  <2> QED
    BY <1>1, <1>4, <1>5, <2>4, <2>5, <2>9, ReceiveKeepsHere
<1> QED
  BY <1>6, <1>7

LEMMA RecvReplyAckKeeps ==
  ASSUME IInv, NEW f \in air, RecvReplyAck(f) PROVE IInv'
<1> DEFINE src == f.ip.src
           u == Neighbored(f)
           e == u[src]
           e1 == [e EXCEPT !.flag = "VALID", !.reqCount = 0]
           t == [u EXCEPT ![src] = e1]
<1>1. f.to \in Nodes /\ src \in Nodes /\ m_seqNo \in [Nodes -> Nat]
  BY FrameFacts DEF IInv, Counts
<1>2. /\ GoodTable(u, m_seqNo) /\ NoNewSearch(m_routingTable[f.to], u)
      /\ e.flag # "NONE" /\ e.nextHop # None
  BY NeighboredGood DEF IInv
<1>3. GoodEntry(e, m_seqNo[src]) /\ u \in [Nodes -> Entry]
  BY <1>1, <1>2 DEF GoodTable
<1>4. /\ UNCHANGED <<m_queue, search>> /\ UNCHANGED m_seqNo /\ UNCHANGED toSend
      /\ m_nb' = [m_nb EXCEPT ![f.to] = @ \cup Heard(f.to, f.ip)]
      /\ Handled(f, [u EXCEPT ![src].flag = "VALID", ![src].reqCount = 0], {}, {})
  BY DEF RecvReplyAck, numbers
<1> HIDE DEF u
<1>5. [u EXCEPT ![src].flag = "VALID", ![src].reqCount = 0] = t
  BY <1>1, <1>3
<1> HIDE DEF e
<1>6. /\ e1 \in Entry /\ e1.flag = "VALID" /\ e1.hops = e.hops /\ e1.nextHop = e.nextHop
      /\ e1.seqNo = e.seqNo /\ e1.validSeqNo = e.validSeqNo
  BY <1>3 DEF GoodEntry, Entry
<1> HIDE DEF e1
<1>7. GoodEntry(e1, m_seqNo[src]) /\ e1.flag # "IN_SEARCH"
  BY <1>2, <1>3, <1>6 DEF GoodEntry, Leads
<1>8. GoodTable(t, m_seqNo) /\ NoNewSearch(u, t)
  BY <1>1, <1>2, <1>7, TableWith
<1>9. NoNewSearch(m_routingTable[f.to], t)
  BY <1>2, <1>8 DEF NoNewSearch
<1>10. Handled(f, t, {}, {})
  BY <1>4, <1>5
<1>11. Counts'
  <2>1. Heard(f.to, f.ip) \subseteq Nodes
    BY <1>1, HeardGood DEF IInv
  <2>2. m_nb' \in [Nodes -> SUBSET Nodes]
    BY <1>1, <1>4, <2>1 DEF IInv, Counts
  <2> QED
    BY <2>2 DEF IInv, Counts, RecvReplyAck, search, numbers, fates
<1>12. toSend' \in [Nodes -> SUBSET Unicasts(m_seqNo)]
  BY <1>4 DEF IInv, Mail
<1> HIDE DEF t
<1> QED
  BY <1>4, <1>8, <1>9, <1>10, <1>11, <1>12, ReceiveKeepsHere
(* What leaves a queue.                                                    *)
LEMMA FlushedGood ==
  ASSUME Mail, NEW n \in Nodes, NEW d, NEW hop
  PROVE  Flushed(n, d, hop) \subseteq Frames(m_seqNo)
<1>1. m_queue[n] \in Seq(Unicasts(m_seqNo))
  BY DEF Mail
<1>2. PacketsOf(m_queue[n]) \subseteq Unicasts(m_seqNo)
  BY <1>1, QueuePackets
<1>3. ASSUME NEW p \in Waiting(m_queue[n], d) PROVE Frame(n, hop, p) \subseteq Frames(m_seqNo)
  BY <1>2, FrameGood DEF Waiting
<1> QED
  BY <1>3 DEF Flushed

(* A queue without what waits for d.                                       *)
LEMMA RestGood ==
  ASSUME Mail, NEW n \in Nodes, NEW d, m_queue' = [m_queue EXCEPT ![n] = Rest(@, d)]
  PROVE  /\ m_queue' \in [Nodes -> Seq(Unicasts(m_seqNo))]
         /\ \A m \in Nodes \ {n} : m_queue'[m] = m_queue[m]
         /\ PacketsOf(m_queue'[n]) \subseteq {p \in PacketsOf(m_queue[n]) : p.dst # d}
<1> DEFINE P == Unicasts(m_seqNo)
           q == m_queue[n]
<1>1. m_queue \in [Nodes -> Seq(P)]
  BY DEF Mail
<1> HIDE DEF P
<1>2. q \in Seq(P)
  BY <1>1
<1>3. Rest(q, d) \in Seq(P) /\ PacketsOf(Rest(q, d)) \subseteq {p \in PacketsOf(q) : p.dst # d}
  BY <1>2, RestKeeps
<1>4. m_queue' = [m_queue EXCEPT ![n] = Rest(q, d)]
  OBVIOUS
<1>5. m_queue' \in [Nodes -> Seq(P)] /\ m_queue'[n] = Rest(q, d)
      /\ \A m \in Nodes \ {n} : m_queue'[m] = m_queue[m]
  BY <1>1, <1>3, <1>4
<1> QED
  BY <1>3, <1>5 DEF P

LEMMA RecvReplyKeeps ==
  ASSUME IInv, NEW f \in air, RecvReply(f) PROVE IInv'
<1> DEFINE n == f.to
           r == f.ip.body
           found == InSearch(Neighbored(f), r.dst)
           e == RouteOf(r, f.ip.src)
           u == Replied(f)
           t == IF found THEN [u EXCEPT ![r.dst] = e] ELSE u
           fs == Flushed(n, r.dst, t[r.dst].nextHop)
<1>1. /\ r.kind = "RREP" /\ UNCHANGED m_seqNo /\ UNCHANGED toSend /\ UNCHANGED delayed
      /\ Handled(f, t, Ack(f), fs)
      /\ m_addressReqTimer' = [m_addressReqTimer EXCEPT ![n] = IF found THEN @ \ {r.dst} ELSE @]
      /\ m_queue' = [m_queue EXCEPT ![n] = Rest(@, r.dst)]
      /\ m_nb' = [m_nb EXCEPT ![n] = @ \cup Heard(n, f.ip)]
  BY DEF RecvReply, Arrives, numbers
<1>2. /\ r.dst \in Nodes
      /\ GoodTable(u, m_seqNo) /\ NoNewSearch(m_routingTable[n], u)
      /\ GoodEntry(e, m_seqNo[r.dst]) /\ e.flag = "VALID"
      /\ Ack(f) \subseteq Unicasts(m_seqNo)
  BY <1>1, RepliedGood
<1>3. n \in Nodes /\ f.ip.src \in Nodes /\ Grows
  BY <1>1, FrameFacts, UnchangedGrows DEF IInv
<1> HIDE DEF e, u
<1>4. /\ GoodTable(t, m_seqNo) /\ NoNewSearch(m_routingTable[n], t)
      /\ found => t[r.dst].flag = "VALID"
  <2>1. CASE found
    <3>1. t = [u EXCEPT ![r.dst] = e]
      BY <2>1
    <3>2. GoodTable([u EXCEPT ![r.dst] = e], m_seqNo) /\ NoNewSearch(u, [u EXCEPT ![r.dst] = e])
          /\ [u EXCEPT ![r.dst] = e][r.dst] = e
      <4>1. e.flag # "IN_SEARCH"
        BY <1>2
      <4> QED
        BY <1>2, <4>1, TableWith
    <3> QED
      BY <1>2, <3>1, <3>2 DEF NoNewSearch
  <2>2. CASE ~found
    BY <1>2, <2>2
  <2> QED
    BY <2>1, <2>2
<1> HIDE DEF t
<1>5. fs \subseteq Frames(m_seqNo)
  BY <1>3, FlushedGood DEF IInv
<1> HIDE DEF fs
<1>6. GoodTable(t, m_seqNo') /\ Ack(f) \subseteq Unicasts(m_seqNo') /\ fs \subseteq Frames(m_seqNo')
  BY <1>1, <1>2, <1>4, <1>5
<1>7. /\ Tables' /\ air' \subseteq Frames(m_seqNo')
      /\ loopback' \in [Nodes -> SUBSET Unicasts(m_seqNo')]
  BY <1>1, <1>3, <1>6, HandledGood DEF IInv
<1>8. /\ m_queue' \in [Nodes -> Seq(Unicasts(m_seqNo))]
      /\ \A m \in Nodes \ {n} : m_queue'[m] = m_queue[m]
      /\ PacketsOf(m_queue'[n]) \subseteq {p \in PacketsOf(m_queue[n]) : p.dst # r.dst}
  BY <1>1, <1>3, RestGood DEF IInv
<1>9. Mail'
  BY <1>1, <1>7, <1>8 DEF IInv, Mail
<1>10. Counts'
  <2>1. Heard(n, f.ip) \subseteq Nodes
    BY <1>3, HeardGood DEF IInv
  <2>2. m_nb' \in [Nodes -> SUBSET Nodes] /\ m_addressReqTimer' \in [Nodes -> SUBSET Nodes]
    BY <1>1, <1>3, <2>1 DEF IInv, Counts
  <2> QED
    BY <2>2 DEF IInv, Counts, RecvReply, search, numbers, fates
<1>11. \A m, d \in Nodes : d \in m_addressReqTimer[m] =>
          d \in m_addressReqTimer'[m] \/ (m = n /\ d = r.dst /\ found)
  BY <1>1, <1>3 DEF IInv, Counts
<1>12. SearchHasTimer'
  <2>1. \A m \in Nodes : \A d \in Nodes :
           InSearch(m_routingTable'[m], d) =>
             InSearch(m_routingTable[m], d) /\ ~(m = n /\ d = r.dst /\ found)
    <3>1. m_routingTable' = [m_routingTable EXCEPT ![n] = t]
      BY <1>1 DEF Handled, SetTable
    <3>2. m_routingTable'[n] = t /\ \A m \in Nodes \ {n} : m_routingTable'[m] = m_routingTable[m]
      BY <1>3, <3>1 DEF IInv, Tables
    <3>3. \A d \in Nodes : InSearch(t, d) =>
             InSearch(m_routingTable[n], d) /\ ~(d = r.dst /\ found)
      BY <1>4 DEF NoNewSearch, InSearch
    <3> QED
      BY <3>2, <3>3
  <2> QED
    BY <1>1, <1>11, <2>1 DEF IInv, SearchHasTimer
<1>13. QueuedIsSought'
  <2>1. ASSUME NEW m \in Nodes, NEW p \in PacketsOf(m_queue'[m])
        PROVE  p.dst \in Nodes /\ p \in PacketsOf(m_queue[m]) /\ ~(m = n /\ p.dst = r.dst)
    <3>1. p \in PacketsOf(m_queue[m]) /\ ~(m = n /\ p.dst = r.dst)
      BY <1>8
    <3>2. m_queue[m] \in Seq(Unicasts(m_seqNo))
      BY DEF IInv, Mail
    <3>3. p \in Unicasts(m_seqNo)
      BY <3>1, <3>2, QueuePackets
    <3> QED
      BY <3>1, <3>3 DEF Unicasts, Unicast
  <2>2. ASSUME NEW m \in Nodes, NEW p \in PacketsOf(m_queue'[m])
        PROVE  p.dst \in m_addressReqTimer'[m] \/ delayed'[m][p.dst] > 0
    <3>1. p.dst \in Nodes /\ p \in PacketsOf(m_queue[m]) /\ ~(m = n /\ p.dst = r.dst)
      BY <2>1
    <3>2. p.dst \in m_addressReqTimer[m] \/ delayed[m][p.dst] > 0
      BY <3>1 DEF IInv, QueuedIsSought
    <3> QED
      BY <1>1, <1>11, <3>1, <3>2
  <2> QED
    BY <2>2 DEF QueuedIsSought
<1> QED
  BY <1>7, <1>9, <1>10, <1>12, <1>13 DEF IInv

-----------------------------------------------------------------------------
(* Errors.                                                                 *)

LEMMA ErrorGood ==
  ASSUME NEW s, NEW un \in SUBSET Nodes PROVE GoodBody(Error(un), s)
<1>1. Error(un) \in Body
  BY DEF Error, Body
<1>2. Error(un).kind = "RERR"
  BY DEF Error
<1> QED
  BY <1>1, <1>2 DEF GoodBody, SaysKnown

LEMMA ErrorsGood ==
  ASSUME NEW s, NEW n \in Nodes, NEW t, NEW un \in SUBSET Nodes, NEW to \in SUBSET Nodes
  PROVE  /\ ErrorUnicast(n, t, un, to) \subseteq Unicasts(s)
         /\ ErrorBroadcast(n, t, un, to) \subseteq Frames(s)
<1> DEFINE b == Error(un)
<1>1. GoodBody(b, s) /\ 1 \in Nat
  BY ErrorGood
<1> HIDE DEF b
<1>2. \A p \in Nodes : Packet(n, p, 1, b) \in Unicasts(s)
  BY <1>1, PacketGood
<1>3. Flood(n, 1, b) \subseteq Frames(s)
  BY <1>1, FloodGood
<1> QED
  BY <1>2, <1>3 DEF ErrorUnicast, ErrorBroadcast, b

LEMMA PrecursorsOf ==
  ASSUME NEW s, NEW t, GoodTable(t, s), NEW ds \in SUBSET Nodes
  PROVE  Precursors(t, ds) \in SUBSET Nodes
<1>1. ASSUME NEW d \in ds PROVE t[d].precursors \in SUBSET Nodes
  BY DEF GoodTable, Entry
<1> QED
  BY <1>1 DEF Precursors

LEMMA RecvErrorKeeps ==
  ASSUME IInv, NEW f \in air, RecvError(f) PROVE IInv'
<1> DEFINE n == f.to
           t == Neighbored(f)
           un == f.ip.body.unreachable \cap WithNextHop(t, f.ip.src)
           to == Precursors(t, un)
           u == Invalidate(t, un)
           fs == ErrorBroadcast(n, t, un, to)
           ps == ErrorUnicast(n, t, un, to)
<1>1. /\ Handled(f, u, {}, fs) /\ UNCHANGED m_seqNo /\ UNCHANGED <<m_queue, search>>
      /\ toSend' = [toSend EXCEPT ![n] = @ \cup ps]
      /\ m_nb' = [m_nb EXCEPT ![n] = @ \cup Heard(n, f.ip)]
  BY DEF RecvError, numbers
<1>2. n \in Nodes /\ f.ip.src \in Nodes
  BY FrameFacts DEF IInv
<1>3. GoodTable(t, m_seqNo) /\ NoNewSearch(m_routingTable[n], t)
  BY NeighboredGood DEF IInv
<1>4. un \in SUBSET Nodes
  BY DEF WithNextHop
<1> HIDE DEF t, un
<1>5. to \in SUBSET Nodes
  BY <1>3, <1>4, PrecursorsOf
<1> HIDE DEF to
<1>6. fs \subseteq Frames(m_seqNo) /\ ps \subseteq Unicasts(m_seqNo)
  BY <1>2, <1>4, <1>5, ErrorsGood
<1>7. GoodTable(u, m_seqNo) /\ NoNewSearch(t, u)
  BY <1>3, InvalidateGood
<1> HIDE DEF u, fs, ps
<1>8. NoNewSearch(m_routingTable[f.to], u)
  BY <1>3, <1>7 DEF NoNewSearch
<1>9. toSend' \in [Nodes -> SUBSET Unicasts(m_seqNo)]
  BY <1>1, <1>2, <1>6 DEF IInv, Mail
<1>10. Counts'
  <2>1. Heard(n, f.ip) \subseteq Nodes
    BY <1>2, HeardGood DEF IInv
  <2>2. m_nb' \in [Nodes -> SUBSET Nodes]
    BY <1>1, <1>2, <2>1 DEF IInv, Counts
  <2> QED
    BY <2>2 DEF IInv, Counts, RecvError, search, numbers, fates
<1> QED
  BY <1>1, <1>6, <1>7, <1>8, <1>9, <1>10, ReceiveKeepsHere

-----------------------------------------------------------------------------
(* A step that leaves tables, queues, searches and numbers alone.          *)
LEMMA MailKeeps ==
  ASSUME IInv, Counts', UNCHANGED <<m_routingTable, m_queue, search>>, UNCHANGED m_seqNo,
         air' \subseteq Frames(m_seqNo),
         loopback' \in [Nodes -> SUBSET Unicasts(m_seqNo)],
         toSend' \in [Nodes -> SUBSET Unicasts(m_seqNo)]
  PROVE  IInv'
<1>1. Tables'
  BY DEF IInv, Tables
<1>2. Mail'
  BY DEF IInv, Mail
<1>3. SearchHasTimer' /\ QueuedIsSought'
  BY DEF IInv, SearchHasTimer, QueuedIsSought, search
<1> QED
  BY <1>1, <1>2, <1>3 DEF IInv

LEMMA DataOfFrame ==
  ASSUME Mail, NEW f \in air PROVE DataOf({f.ip}) \subseteq Nat
<1>1. \A p \in {f.ip} : p.body \in Body
  BY FrameFacts
<1> QED
  BY <1>1, DataGood

LEMMA ReceiveDataKeeps ==
  ASSUME IInv, NEW f \in air, ReceiveData(f) PROVE IInv'
<1>1. f.to \in Nodes /\ f.ip.src \in Nodes /\ DataOf({f.ip}) \subseteq Nat
  BY FrameFacts, DataOfFrame DEF IInv
<1>2. Heard(f.to, f.ip) \subseteq Nodes
  BY <1>1, HeardGood DEF IInv
<1>3. m_nb' \in [Nodes -> SUBSET Nodes] /\ delivered' \in SUBSET Nat
  BY <1>1, <1>2 DEF IInv, Counts, ReceiveData
<1>4. Counts'
  BY <1>3 DEF IInv, Counts, ReceiveData, search, numbers
<1> QED
  BY <1>4, MailKeeps DEF IInv, Mail, ReceiveData, search, numbers

LEMMA ForwardingKeeps ==
  ASSUME IInv, NEW f \in air, Forwarding(f) PROVE IInv'
<1> DEFINE n == f.to
           p == f.ip
           t == m_routingTable[n]
           on == [p EXCEPT !.ttl = @ - 1]
           fs == IF p.ttl > 1 THEN Frame(n, t[p.dst].nextHop, on) ELSE {}
           lost == IF p.ttl > 1 THEN {} ELSE DataOf({p})
<1>1. /\ Strange(f) /\ Valid(t, p.dst) /\ air' = (air \ {f}) \cup fs
      /\ dropped' = dropped \cup lost
      /\ m_nb' = [m_nb EXCEPT ![n] = (@ \cup {t[p.dst].nextHop, t[p.src].nextHop}) \cap Nodes]
  BY DEF Forwarding
<1>2. /\ n \in Nodes /\ p.src \in Nodes /\ p.ttl \in Nat /\ p \in IPPacket
      /\ p.dst \in Nodes \cup {Broadcast} /\ SaysKnown(p.body, m_seqNo)
      /\ DataOf({p}) \subseteq Nat
  BY FrameFacts, DataOfFrame DEF IInv
<1>3. p.dst \in Nodes
  BY <1>1, <1>2 DEF Strange
<1>4. fs \subseteq Frames(m_seqNo)
  <2>1. CASE p.ttl > 1
    <3> DEFINE ttl == p.ttl - 1
    <3>1. ttl \in Nat
      BY <1>2, <2>1
    <3>2. on = [p EXCEPT !.ttl = ttl]
      OBVIOUS
    <3> HIDE DEF ttl, on
    <3>3. p \in Unicast
      BY <1>2, <1>3 DEF IPPacket, Unicast
    <3> HIDE DEF p
    <3>4. on \in Unicast /\ on.body = p.body
      BY <3>1, <3>2, <3>3 DEF Unicast
    <3>5. on \in Unicasts(m_seqNo)
      BY <1>2, <3>4 DEF Unicasts
    <3> QED
      BY <1>2, <2>1, <3>5, FrameGood
  <2>2. CASE ~(p.ttl > 1)
    BY <2>2
  <2> QED
    BY <2>1, <2>2
<1> HIDE DEF fs
<1>5. m_nb' \in [Nodes -> SUBSET Nodes] /\ dropped' \in SUBSET Nat
  <2>1. m_nb' \in [Nodes -> SUBSET Nodes]
    BY <1>1, <1>2 DEF IInv, Counts
  <2>2. lost \subseteq Nat
    BY <1>2
  <2> HIDE DEF lost
  <2> QED
    BY <1>1, <2>1, <2>2 DEF IInv, Counts
<1>6. Counts'
  BY <1>5 DEF IInv, Counts, Forwarding, search, numbers
<1>7. air' \subseteq Frames(m_seqNo)
  BY <1>1, <1>4 DEF IInv, Mail
<1> QED
  BY <1>6, <1>7, MailKeeps DEF IInv, Mail, Forwarding, search, numbers

LEMMA DiscardKeeps ==
  ASSUME IInv, NEW f \in air, Discard(f) PROVE IInv'
<1> DEFINE n == f.to
           t == m_routingTable[n]
           own == f.ip.src = n
           b == Error({f.ip.dst})
           ps == IF own THEN {} ELSE ErrorToSource(n, t, f.ip)
           fs == IF own THEN {} ELSE ErrorToAll(n, t, f.ip)
<1>1. /\ Strange(f) /\ Handled(f, t, ps, fs)
      /\ dropped' = dropped \cup DataOf({f.ip})
      /\ UNCHANGED m_seqNo /\ UNCHANGED <<m_queue, search>> /\ UNCHANGED toSend
  BY DEF Discard, numbers
<1>2. n \in Nodes /\ f.ip.src \in Nodes /\ f.ip.dst \in Nodes /\ DataOf({f.ip}) \subseteq Nat
  BY <1>1, FrameFacts, DataOfFrame DEF IInv, Strange
<1>3. GoodTable(t, m_seqNo) /\ NoNewSearch(t, t)
  BY <1>2 DEF IInv, Tables, NoNewSearch
<1>4. GoodBody(b, m_seqNo) /\ 1 \in Nat
  BY <1>2, ErrorGood
<1>5. ps \subseteq Unicasts(m_seqNo)
  <2>1. CASE ~own /\ Valid(t, f.ip.src)
    <3>1. GoodEntry(t[f.ip.src], m_seqNo[f.ip.src])
      BY <1>2, <1>3 DEF GoodTable
    <3>2. t[f.ip.src].nextHop \in Nodes
      BY <2>1, <3>1 DEF Valid, GoodEntry, Leads, Entry
    <3> HIDE DEF b, t
    <3>3. Packet(n, t[f.ip.src].nextHop, 1, b) \in Unicasts(m_seqNo)
      BY <1>2, <1>4, <3>2, PacketGood
    <3> QED
      BY <2>1, <3>3 DEF ErrorToSource, b
  <2>2. CASE own \/ ~Valid(t, f.ip.src)
    BY <2>2 DEF ErrorToSource
  <2> QED
    BY <2>1, <2>2
<1>6. fs \subseteq Frames(m_seqNo)
  <2> HIDE DEF b
  <2>1. Flood(n, 1, b) \subseteq Frames(m_seqNo)
    BY <1>2, <1>4, FloodGood
  <2> QED
    BY <2>1 DEF ErrorToAll, b
<1>7. Counts'
  <2>1. dropped' \in SUBSET Nat
    BY <1>1, <1>2 DEF IInv, Counts
  <2> QED
    BY <2>1 DEF IInv, Counts, Discard, search, numbers
<1>8. toSend' \in [Nodes -> SUBSET Unicasts(m_seqNo)]
  BY <1>1 DEF IInv, Mail
<1> HIDE DEF ps, fs
<1> QED
  BY <1>1, <1>3, <1>5, <1>6, <1>7, <1>8, ReceiveKeepsHere
-----------------------------------------------------------------------------
(* Route requests.                                                         *)

Sought(n, d) == d \in m_addressReqTimer[n] \/ delayed[n][d] > 0

(* The types a request may disturb.                                        *)
SearchTypes ==
  /\ m_addressReqTimer \in [Nodes -> SUBSET Nodes]
  /\ delayed \in [Nodes -> [Nodes -> Nat]]
  /\ m_rreqCount \in [Nodes -> Nat] /\ m_seqNo \in [Nodes -> Nat]
  /\ m_requestId \in [Nodes -> Nat]
  /\ m_rreqIdCache \in [Nodes -> SUBSET (Nodes \X Nat)]

LEMMA OriginateGood ==
  ASSUME IInv, NEW n \in Nodes, NEW d \in Nodes, Originate(n, d)
  PROVE  /\ Grows /\ Tables' /\ air' \subseteq Frames(m_seqNo')
         /\ m_addressReqTimer' = [m_addressReqTimer EXCEPT ![n] = @ \cup {d}]
         /\ m_rreqCount' \in [Nodes -> Nat] /\ m_requestId' \in [Nodes -> Nat]
         /\ m_rreqIdCache' \in [Nodes -> SUBSET (Nodes \X Nat)]
         /\ \A m, x \in Nodes : InSearch(m_routingTable'[m], x) =>
               InSearch(m_routingTable[m], x) \/ (m = n /\ x = d)
<1> DEFINE e == m_routingTable[n][d]
           b == Request(n, d)
           t == [m_routingTable[n] EXCEPT ![d] = Searched(e)]
           number == m_seqNo[n] + 1
           known == IF e.validSeqNo THEN e.seqNo ELSE Unknown
<1>1. /\ SetTable(n, t) /\ m_seqNo' = [m_seqNo EXCEPT ![n] = number]
      /\ air' = air \cup Flood(n, NextTtl(e), b)
  <2>1. SetTable(n, [m_routingTable[n] EXCEPT ![d] = Searched(@)])
    BY DEF Originate
  <2>2. [m_routingTable[n] EXCEPT ![d] = Searched(@)] = t
    BY DEF IInv, Tables
  <2> QED
    BY <2>1, <2>2 DEF Originate
<1>2. m_seqNo \in [Nodes -> Nat] /\ m_requestId \in [Nodes -> Nat]
      /\ m_rreqCount \in [Nodes -> Nat] /\ m_rreqIdCache \in [Nodes -> SUBSET (Nodes \X Nat)]
  BY DEF IInv, Counts
<1>3. Grows /\ m_seqNo'[n] = number /\ number \in Nat
  BY <1>1, <1>2 DEF Grows
<1>4. GoodTable(m_routingTable[n], m_seqNo')
  BY <1>3, TablesStay DEF IInv
<1>5. GoodEntry(e, m_seqNo'[d]) /\ e \in Entry
  BY <1>4 DEF GoodTable, GoodEntry
<1>6. GoodEntry(Searched(e), m_seqNo'[d]) /\ NextTtl(e) \in Nat
  BY <1>5, SearchedGood
<1>7. GoodTable(t, m_seqNo')
  BY <1>4, <1>6, TableWith
<1>8. Tables'
  BY <1>1, <1>3, <1>7, SetTableGood DEF IInv
<1>9. known \in Nat \cup {-1} /\ known <= m_seqNo'[d]
  <2>1. CASE e.validSeqNo = TRUE
    BY <1>5, <2>1 DEF GoodEntry, Entry
  <2>2. CASE e.validSeqNo = FALSE
    <3>1. m_seqNo'[d] \in Nat
      BY <1>3 DEF Grows
    <3> QED
      BY <2>2, <3>1 DEF Unknown
  <2> QED
    BY <1>5, <2>1, <2>2 DEF Entry
<1>10. GoodBody(b, m_seqNo')
  <2> DEFINE id == m_requestId[n] + 1
  <2>1. id \in Nat
    BY <1>2
  <2>2. b = [kind |-> "RREQ", origin |-> n, id |-> id, originSeqno |-> number, dst |-> d,
             dstSeqno |-> known, hops |-> 0]
    BY DEF Request
  <2> HIDE DEF b, id, number, known
  <2>3. b \in Body
    BY <1>3, <1>9, <2>1, <2>2 DEF Body, Unknown
  <2>4. b.kind = "RREQ" /\ b.originSeqno = number /\ b.origin = n /\ b.dstSeqno = known
        /\ b.dst = d
    BY <2>2
  <2>5. number <= m_seqNo'[n]
    BY <1>3
  <2> QED
    BY <1>9, <2>3, <2>4, <2>5 DEF GoodBody, SaysKnown
<1> HIDE DEF b, known
<1>11. air' \subseteq Frames(m_seqNo')
  <2>1. Flood(n, NextTtl(e), b) \subseteq Frames(m_seqNo')
    BY <1>6, <1>10, FloodGood
  <2>2. air \subseteq Frames(m_seqNo')
    BY <1>3, MailStays DEF IInv
  <2> QED
    BY <1>1, <2>1, <2>2
<1>12. ASSUME NEW m \in Nodes, NEW x \in Nodes, InSearch(m_routingTable'[m], x)
       PROVE  InSearch(m_routingTable[m], x) \/ (m = n /\ x = d)
  BY <1>1, <1>12 DEF IInv, Tables, SetTable, InSearch
<1>13. m_rreqCount' \in [Nodes -> Nat] /\ m_requestId' \in [Nodes -> Nat]
  BY <1>2 DEF Originate
<1>14. m_rreqIdCache' \in [Nodes -> SUBSET (Nodes \X Nat)]
  <2> DEFINE pair == <<n, m_requestId[n] + 1>>
  <2>1. pair \in Nodes \X Nat
    BY <1>2
  <2>2. m_rreqIdCache' = [m_rreqIdCache EXCEPT ![n] = @ \cup {pair}]
    BY DEF Originate
  <2> HIDE DEF pair
  <2> QED
    BY <1>2, <2>1, <2>2
<1> QED
  BY <1>3, <1>8, <1>11, <1>12, <1>13, <1>14 DEF Originate

(* Whatever was sought is sought still, and so is d, unless the request    *)
(* timer of d went off and the request was postponed.                      *)
LEMMA SendRequestGood ==
  ASSUME IInv, NEW n \in Nodes, NEW d \in Nodes, NEW timers \in SUBSET Nodes,
         m_addressReqTimer[n] \ {d} \subseteq timers, SendRequest(n, d, timers)
  PROVE  /\ Grows /\ Tables' /\ SearchTypes' /\ air' \subseteq Frames(m_seqNo')
         /\ Sought(n, d)' /\ \A m, x \in Nodes : Sought(m, x) => Sought(m, x)'
         /\ \A m, x \in Nodes : InSearch(m_routingTable'[m], x) =>
               InSearch(m_routingTable[m], x) \/ (m = n /\ x = d)
<1>1. /\ m_addressReqTimer \in [Nodes -> SUBSET Nodes] /\ delayed \in [Nodes -> [Nodes -> Nat]]
  BY DEF IInv, Counts
<1>2. CASE Originate(n, d) /\ UNCHANGED delayed
  <2>1. /\ Grows /\ Tables' /\ air' \subseteq Frames(m_seqNo')
        /\ m_addressReqTimer' = [m_addressReqTimer EXCEPT ![n] = @ \cup {d}]
        /\ m_rreqCount' \in [Nodes -> Nat] /\ m_requestId' \in [Nodes -> Nat]
        /\ m_rreqIdCache' \in [Nodes -> SUBSET (Nodes \X Nat)]
        /\ \A m, x \in Nodes : InSearch(m_routingTable'[m], x) =>
              InSearch(m_routingTable[m], x) \/ (m = n /\ x = d)
    BY <1>2, OriginateGood
  <2>2. m_addressReqTimer' \in [Nodes -> SUBSET Nodes] /\ d \in m_addressReqTimer'[n]
        /\ \A m \in Nodes : m_addressReqTimer[m] \subseteq m_addressReqTimer'[m]
    BY <1>1, <2>1
  <2>3. SearchTypes'
    BY <1>1, <1>2, <2>1, <2>2 DEF SearchTypes, Grows
  <2>4. Sought(n, d)' /\ \A m, x \in Nodes : Sought(m, x) => Sought(m, x)'
    BY <1>2, <2>2 DEF Sought
  <2> QED
    BY <2>1, <2>3, <2>4
<1>3. CASE Postpone(n, d, timers)
  <2>1. /\ delayed' = [delayed EXCEPT ![n][d] = @ + 1]
        /\ m_addressReqTimer' = [m_addressReqTimer EXCEPT ![n] = timers]
        /\ UNCHANGED <<m_routingTable, m_rreqCount, m_requestId, m_rreqIdCache, air>>
        /\ UNCHANGED m_seqNo
    BY <1>3 DEF Postpone, numbers
  <2>2. /\ delayed' \in [Nodes -> [Nodes -> Nat]] /\ delayed'[n][d] > 0
        /\ \A m, x \in Nodes : delayed[m][x] > 0 => delayed'[m][x] > 0
    <3> DEFINE more == delayed[n][d] + 1
    <3>1. more \in Nat /\ more > 0
      BY <1>1
    <3>2. delayed' = [delayed EXCEPT ![n] = [delayed[n] EXCEPT ![d] = more]]
      BY <1>1, <2>1
    <3> HIDE DEF more
    <3> QED
      BY <1>1, <3>1, <3>2
  <2>3. /\ m_addressReqTimer' \in [Nodes -> SUBSET Nodes]
        /\ \A m, x \in Nodes : x \in m_addressReqTimer[m] =>
              x \in m_addressReqTimer'[m] \/ (m = n /\ x = d)
    BY <1>1, <2>1
  <2>4. SearchTypes'
    BY <2>1, <2>2, <2>3 DEF IInv, Counts, SearchTypes
  <2>5. Sought(n, d)' /\ \A m, x \in Nodes : Sought(m, x) => Sought(m, x)'
    BY <2>2, <2>3 DEF Sought
  <2>6. Grows /\ Tables' /\ air' \subseteq Frames(m_seqNo')
    BY <2>1, UnchangedGrows DEF IInv, Tables, Mail
  <2> QED
    BY <2>1, <2>4, <2>5, <2>6
<1> QED
  BY <1>2, <1>3 DEF SendRequest

(* Sought, in the words of the invariants.                                 *)
LEMMA SoughtInvariants ==
  /\ SearchHasTimer <=> \A n, d \in Nodes : InSearch(m_routingTable[n], d) => Sought(n, d)
  /\ QueuedIsSought <=> \A n \in Nodes : \A p \in PacketsOf(m_queue[n]) : Sought(n, p.dst)
BY DEF SearchHasTimer, QueuedIsSought, Sought

(* What is queued is addressed to a node.                                  *)
LEMMA QueuedToNodes ==
  ASSUME Mail, NEW n \in Nodes, NEW p \in PacketsOf(m_queue[n])
  PROVE  p.dst \in Nodes /\ p.body \in Body
<1>1. m_queue[n] \in Seq(Unicasts(m_seqNo))
  BY DEF Mail
<1>2. p \in Unicasts(m_seqNo)
  BY <1>1, QueuePackets
<1> QED
  BY <1>2 DEF Unicasts, Unicast
(* The invariant after a step that asks for d or finds it asked for.       *)
LEMMA RequestKeeps ==
  ASSUME IInv, NEW n \in Nodes, NEW d \in Nodes, Grows, Tables', SearchTypes',
         UNCHANGED <<m_nb, toSend, faults, sent, delivered>>, dropped' \in SUBSET Nat,
         air' \subseteq Frames(m_seqNo'),
         loopback' \in [Nodes -> SUBSET Unicasts(m_seqNo)],
         m_queue' \in [Nodes -> Seq(Unicasts(m_seqNo))],
         \A m \in Nodes : \A p \in PacketsOf(m_queue'[m]) :
            p \in PacketsOf(m_queue[m]) \/ (m = n /\ p.dst = d),
         Sought(n, d)', \A m, x \in Nodes : Sought(m, x) => Sought(m, x)',
         \A m, x \in Nodes : InSearch(m_routingTable'[m], x) =>
               InSearch(m_routingTable[m], x) \/ (m = n /\ x = d)
  PROVE  IInv'
<1>1. Counts'
  BY DEF IInv, Counts, SearchTypes
<1>2. Mail'
  <2> DEFINE A == Unicasts(m_seqNo)
             B == Unicasts(m_seqNo')
  <2>1. A \subseteq B
    BY MailGrows DEF IInv, Counts, Grows
  <2>2. toSend' \in [Nodes -> SUBSET A] /\ loopback' \in [Nodes -> SUBSET A]
        /\ m_queue' \in [Nodes -> Seq(A)]
    BY DEF IInv, Mail
  <2> HIDE DEF A, B
  <2>3. ASSUME NEW q \in Seq(A) PROVE q \in Seq(B)
    BY <2>1
  <2>4. m_queue' \in [Nodes -> Seq(B)]
    BY <2>2, <2>3
  <2>5. toSend' \in [Nodes -> SUBSET B] /\ loopback' \in [Nodes -> SUBSET B]
    BY <2>1, <2>2
  <2> QED
    BY <2>4, <2>5 DEF Mail, B
<1>3. SearchHasTimer'
  <2>1. ASSUME NEW m \in Nodes, NEW x \in Nodes, InSearch(m_routingTable'[m], x)
        PROVE  Sought(m, x)'
    BY <2>1, SoughtInvariants DEF IInv
  <2> QED
    BY <2>1 DEF SearchHasTimer, Sought
<1>4. QueuedIsSought'
  <2>1. ASSUME NEW m \in Nodes, NEW p \in PacketsOf(m_queue'[m]) PROVE Sought(m, p.dst)'
    <3>1. CASE p \in PacketsOf(m_queue[m])
      <4>1. p.dst \in Nodes
        BY <3>1, QueuedToNodes DEF IInv
      <4>2. Sought(m, p.dst)
        BY <3>1, SoughtInvariants DEF IInv
      <4> QED
        BY <4>1, <4>2
    <3>2. CASE m = n /\ p.dst = d
      BY <3>2
    <3> QED
      BY <3>1, <3>2
  <2> QED
    BY <2>1 DEF QueuedIsSought, Sought
<1> QED
  BY <1>1, <1>2, <1>3, <1>4 DEF IInv

LEMMA DeferredRouteOutputKeeps ==
  ASSUME IInv, NEW n \in Nodes, NEW p \in loopback[n], DeferredRouteOutput(n, p)
  PROVE  IInv'
<1> DEFINE d == p.dst
           P == Unicasts(m_seqNo)
           q == m_queue[n]
<1>1. loopback \in [Nodes -> SUBSET P] /\ m_queue \in [Nodes -> Seq(P)]
      /\ m_addressReqTimer \in [Nodes -> SUBSET Nodes] /\ dropped \in SUBSET Nat
  BY DEF IInv, Mail, Counts
<1>2. p \in P /\ q \in Seq(P)
  BY <1>1
<1>3. d \in Nodes
  BY <1>2 DEF Unicasts, Unicast
<1>4. /\ loopback' = [loopback EXCEPT ![n] = @ \ {p}]
      /\ m_queue' = [m_queue EXCEPT ![n] = Enqueue(q, p)]
      /\ dropped' = dropped \cup DataOf(Pushed(q))
      /\ UNCHANGED <<m_nb, toSend, faults, sent, delivered>>
  BY DEF DeferredRouteOutput
<1>5. Pushed(q) \subseteq P /\ Enqueue(q, p) \in Seq(P)
      /\ PacketsOf(Enqueue(q, p)) \subseteq PacketsOf(q) \cup {p}
  <2> HIDE DEF P, q
  <2> QED
    BY <1>2, EnqueueGood
<1>6. dropped' \in SUBSET Nat
  <2>1. \A x \in Pushed(q) : x.body \in Body
    BY <1>5 DEF Unicasts, Unicast
  <2>2. DataOf(Pushed(q)) \subseteq Nat
    BY <2>1, DataGood
  <2> QED
    BY <1>1, <1>4, <2>2
<1> HIDE DEF P
<1>7. loopback' \in [Nodes -> SUBSET P] /\ m_queue' \in [Nodes -> Seq(P)]
  BY <1>1, <1>4, <1>5
<1>8. \A m \in Nodes : \A x \in PacketsOf(m_queue'[m]) :
         x \in PacketsOf(m_queue[m]) \/ (m = n /\ x.dst = d)
  <2>1. m_queue'[n] = Enqueue(q, p) /\ \A m \in Nodes \ {n} : m_queue'[m] = m_queue[m]
    BY <1>1, <1>4
  <2> QED
    BY <1>5, <2>1
<1>9. /\ Grows /\ Tables' /\ SearchTypes' /\ air' \subseteq Frames(m_seqNo')
      /\ Sought(n, d)' /\ \A m, x \in Nodes : Sought(m, x) => Sought(m, x)'
      /\ \A m, x \in Nodes : InSearch(m_routingTable'[m], x) =>
            InSearch(m_routingTable[m], x) \/ (m = n /\ x = d)
  <2>1. CASE InSearch(m_routingTable[n], d)
    <3>1. UNCHANGED <<m_routingTable, m_rreqIdCache, air, m_addressReqTimer, delayed,
                      m_rreqCount, m_requestId>> /\ UNCHANGED m_seqNo
      BY <2>1 DEF DeferredRouteOutput, search, numbers
    <3>2. Sought(n, d)
      BY <1>3, <2>1, SoughtInvariants DEF IInv
    <3>3. SearchTypes'
      BY <3>1 DEF IInv, Counts, SearchTypes
    <3>4. Grows /\ Tables' /\ air' \subseteq Frames(m_seqNo')
      BY <3>1, UnchangedGrows DEF IInv, Tables, Mail
    <3>5. Sought(n, d)' /\ \A m, x \in Nodes : Sought(m, x) => Sought(m, x)'
      BY <3>1, <3>2 DEF Sought
    <3> QED
      BY <3>1, <3>3, <3>4, <3>5
  <2>2. CASE ~InSearch(m_routingTable[n], d)
    <3>1. SendRequest(n, d, m_addressReqTimer[n])
      BY <2>2 DEF DeferredRouteOutput
    <3>2. m_addressReqTimer[n] \in SUBSET Nodes
          /\ m_addressReqTimer[n] \ {d} \subseteq m_addressReqTimer[n]
      BY <1>1
    <3> HIDE DEF d
    <3> QED
      BY <1>3, <3>1, <3>2, SendRequestGood
  <2> QED
    BY <2>1, <2>2
<1> HIDE DEF d
<1> QED
  BY <1>3, <1>4, <1>6, <1>7, <1>8, <1>9, RequestKeeps DEF P

LEMMA DelayedRequestKeeps ==
  ASSUME IInv, NEW n \in Nodes, NEW d \in Nodes, DelayedRequest(n, d) PROVE IInv'
<1>1. /\ Originate(n, d) /\ delayed' = [delayed EXCEPT ![n][d] = @ - 1]
      /\ delayed[n][d] > 0
      /\ UNCHANGED <<m_queue, m_nb, loopback, toSend, faults, sent, delivered>>
      /\ UNCHANGED dropped
  BY DEF DelayedRequest, fates
<1>2. /\ m_addressReqTimer \in [Nodes -> SUBSET Nodes] /\ delayed \in [Nodes -> [Nodes -> Nat]]
      /\ dropped \in SUBSET Nat /\ loopback \in [Nodes -> SUBSET Unicasts(m_seqNo)]
      /\ m_queue \in [Nodes -> Seq(Unicasts(m_seqNo))]
  BY DEF IInv, Counts, Mail
<1>3. /\ Grows /\ Tables' /\ air' \subseteq Frames(m_seqNo')
      /\ m_addressReqTimer' = [m_addressReqTimer EXCEPT ![n] = @ \cup {d}]
      /\ m_rreqCount' \in [Nodes -> Nat] /\ m_requestId' \in [Nodes -> Nat]
      /\ m_rreqIdCache' \in [Nodes -> SUBSET (Nodes \X Nat)]
      /\ \A m, x \in Nodes : InSearch(m_routingTable'[m], x) =>
            InSearch(m_routingTable[m], x) \/ (m = n /\ x = d)
  BY <1>1, OriginateGood
<1>4. m_addressReqTimer' \in [Nodes -> SUBSET Nodes] /\ d \in m_addressReqTimer'[n]
      /\ \A m \in Nodes : m_addressReqTimer[m] \subseteq m_addressReqTimer'[m]
  BY <1>2, <1>3
<1>5. /\ delayed' \in [Nodes -> [Nodes -> Nat]]
      /\ \A m, x \in Nodes : m # n \/ x # d => delayed'[m][x] = delayed[m][x]
  <2> DEFINE fewer == delayed[n][d] - 1
  <2>1. fewer \in Nat
    BY <1>1, <1>2
  <2>2. delayed' = [delayed EXCEPT ![n] = [delayed[n] EXCEPT ![d] = fewer]]
    BY <1>1, <1>2
  <2> HIDE DEF fewer
  <2> QED
    BY <1>2, <2>1, <2>2
<1>6. SearchTypes'
  BY <1>3, <1>4, <1>5 DEF SearchTypes, Grows
<1>7. Sought(n, d)' /\ \A m, x \in Nodes : Sought(m, x) => Sought(m, x)'
  BY <1>4, <1>5 DEF Sought
<1>8. \A m \in Nodes : \A p \in PacketsOf(m_queue'[m]) :
         p \in PacketsOf(m_queue[m]) \/ (m = n /\ p.dst = d)
  BY <1>1
<1>9. /\ dropped' \in SUBSET Nat /\ loopback' \in [Nodes -> SUBSET Unicasts(m_seqNo)]
      /\ m_queue' \in [Nodes -> Seq(Unicasts(m_seqNo))]
      /\ UNCHANGED <<m_nb, toSend, faults, sent, delivered>>
  BY <1>1, <1>2
<1> QED
  BY <1>3, <1>6, <1>7, <1>8, <1>9, RequestKeeps

LEMMA RreqRateLimitTimerExpireKeeps ==
  ASSUME IInv, NEW n \in Nodes, RreqRateLimitTimerExpire(n) PROVE IInv'
<1>1. Counts'
  BY DEF IInv, Counts, RreqRateLimitTimerExpire, numbers, fates
<1>2. Tables' /\ Mail' /\ SearchHasTimer' /\ QueuedIsSought'
  BY DEF IInv, Tables, Mail, SearchHasTimer, QueuedIsSought, RreqRateLimitTimerExpire, numbers
<1> QED
  BY <1>1, <1>2 DEF IInv

(* The request timer of d has gone off and what waited for d has left.     *)
LEMMA TimerGone ==
  ASSUME IInv, NEW n \in Nodes, NEW d \in Nodes, UNCHANGED m_seqNo, Tables',
         m_addressReqTimer' = [m_addressReqTimer EXCEPT ![n] = m_addressReqTimer[n] \ {d}],
         m_queue' = [m_queue EXCEPT ![n] = Rest(@, d)],
         UNCHANGED <<delayed, m_rreqCount, numbers, m_rreqIdCache,
                     m_nb, loopback, toSend, faults, sent, delivered>>,
         dropped' \in SUBSET Nat, air' \subseteq Frames(m_seqNo),
         \A m, x \in Nodes : InSearch(m_routingTable'[m], x) =>
               InSearch(m_routingTable[m], x) /\ (m # n \/ x # d)
  PROVE  IInv'
<1>1. m_addressReqTimer \in [Nodes -> SUBSET Nodes]
  BY DEF IInv, Counts
<1>2. /\ m_addressReqTimer' \in [Nodes -> SUBSET Nodes]
      /\ \A m, x \in Nodes : x \in m_addressReqTimer[m] =>
            x \in m_addressReqTimer'[m] \/ (m = n /\ x = d)
  BY <1>1
<1>3. Counts'
  BY <1>2 DEF IInv, Counts, numbers
<1>4. /\ m_queue' \in [Nodes -> Seq(Unicasts(m_seqNo))]
      /\ \A m \in Nodes \ {n} : m_queue'[m] = m_queue[m]
      /\ PacketsOf(m_queue'[n]) \subseteq {p \in PacketsOf(m_queue[n]) : p.dst # d}
  BY RestGood DEF IInv
<1>5. Mail'
  BY <1>4 DEF IInv, Mail
<1>6. \A m, x \in Nodes : Sought(m, x) => Sought(m, x)' \/ (m = n /\ x = d)
  BY <1>2 DEF Sought
<1>7. SearchHasTimer'
  <2>1. ASSUME NEW m \in Nodes, NEW x \in Nodes, InSearch(m_routingTable'[m], x)
        PROVE  Sought(m, x)'
    BY <1>6, <2>1, SoughtInvariants DEF IInv
  <2> QED
    BY <2>1 DEF SearchHasTimer, Sought
<1>8. QueuedIsSought'
  <2>1. ASSUME NEW m \in Nodes, NEW p \in PacketsOf(m_queue'[m]) PROVE Sought(m, p.dst)'
    <3>1. p \in PacketsOf(m_queue[m]) /\ ~(m = n /\ p.dst = d)
      BY <1>4
    <3>2. p.dst \in Nodes
      BY <3>1, QueuedToNodes DEF IInv
    <3>3. Sought(m, p.dst)
      BY <3>1, SoughtInvariants DEF IInv
    <3> QED
      BY <1>6, <3>1, <3>2, <3>3
  <2> QED
    BY <2>1 DEF QueuedIsSought, Sought
<1> QED
  BY <1>3, <1>5, <1>7, <1>8 DEF IInv

LEMMA RouteRequestTimerExpireKeeps ==
  ASSUME IInv, NEW n \in Nodes, NEW d \in Nodes, RouteRequestTimerExpire(n, d) PROVE IInv'
<1> DEFINE e == m_routingTable[n][d]
           timers == m_addressReqTimer[n] \ {d}
<1>1. UNCHANGED <<m_nb, loopback, toSend, faults, sent, delivered>>
  BY DEF RouteRequestTimerExpire
<1>2. /\ m_addressReqTimer \in [Nodes -> SUBSET Nodes] /\ dropped \in SUBSET Nat
      /\ air \subseteq Frames(m_seqNo) /\ m_queue \in [Nodes -> Seq(Unicasts(m_seqNo))]
      /\ loopback \in [Nodes -> SUBSET Unicasts(m_seqNo)]
  BY DEF IInv, Counts, Mail
<1>3. GoodTable(m_routingTable[n], m_seqNo) /\ m_routingTable \in [Nodes -> [Nodes -> Entry]]
  BY DEF IInv, Tables
<1>4. CASE /\ e.flag = "VALID"
           /\ air' = air \cup Flushed(n, d, e.nextHop)
           /\ m_queue' = [m_queue EXCEPT ![n] = Rest(@, d)]
           /\ m_addressReqTimer' = [m_addressReqTimer EXCEPT ![n] = timers]
           /\ UNCHANGED <<m_routingTable, delayed, m_rreqCount, numbers, m_rreqIdCache,
                          dropped>>
  <2>1. Flushed(n, d, e.nextHop) \subseteq Frames(m_seqNo)
    BY FlushedGood DEF IInv
  <2>2. air' \subseteq Frames(m_seqNo)
    BY <1>2, <1>4, <2>1
  <2>3. UNCHANGED m_seqNo /\ Tables' /\ dropped' \in SUBSET Nat
    BY <1>2, <1>4 DEF IInv, Tables, numbers
  <2>4. \A m, x \in Nodes : InSearch(m_routingTable'[m], x) =>
           InSearch(m_routingTable[m], x) /\ (m # n \/ x # d)
    BY <1>4 DEF InSearch
  <2>5. UNCHANGED <<delayed, m_rreqCount, numbers, m_rreqIdCache,
                    m_nb, loopback, toSend, faults, sent, delivered>>
    BY <1>1, <1>4
  <2>6. /\ m_addressReqTimer' = [m_addressReqTimer EXCEPT ![n] = timers]
        /\ m_queue' = [m_queue EXCEPT ![n] = Rest(@, d)]
    BY <1>4
  <2> QED
    BY <2>2, <2>3, <2>4, <2>5, <2>6, TimerGone
<1>5. CASE SendRequest(n, d, timers) /\ UNCHANGED <<m_queue, dropped>>
  <2>1. timers \in SUBSET Nodes /\ m_addressReqTimer[n] \ {d} \subseteq timers
    BY <1>2
  <2> HIDE DEF timers
  <2>2. /\ Grows /\ Tables' /\ SearchTypes' /\ air' \subseteq Frames(m_seqNo')
        /\ Sought(n, d)' /\ \A m, x \in Nodes : Sought(m, x) => Sought(m, x)'
        /\ \A m, x \in Nodes : InSearch(m_routingTable'[m], x) =>
              InSearch(m_routingTable[m], x) \/ (m = n /\ x = d)
    BY <1>5, <2>1, SendRequestGood
  <2>3. \A m \in Nodes : \A p \in PacketsOf(m_queue'[m]) :
           p \in PacketsOf(m_queue[m]) \/ (m = n /\ p.dst = d)
    BY <1>5
  <2>4. /\ dropped' \in SUBSET Nat /\ loopback' \in [Nodes -> SUBSET Unicasts(m_seqNo)]
        /\ m_queue' \in [Nodes -> Seq(Unicasts(m_seqNo))]
    BY <1>1, <1>2, <1>5
  <2> QED
    BY <1>1, <2>2, <2>3, <2>4, RequestKeeps
<1>6. CASE /\ SetTable(n, [m_routingTable[n] EXCEPT ![d] = NoEntry])
           /\ m_queue' = [m_queue EXCEPT ![n] = Rest(@, d)]
           /\ dropped' = dropped \cup DataOf(Waiting(m_queue[n], d))
           /\ m_addressReqTimer' = [m_addressReqTimer EXCEPT ![n] = timers]
           /\ UNCHANGED <<delayed, m_rreqCount, numbers, m_rreqIdCache, air>>
  <2> DEFINE t == [m_routingTable[n] EXCEPT ![d] = NoEntry]
  <2>1. UNCHANGED m_seqNo /\ Grows
    BY <1>6, UnchangedGrows DEF IInv, numbers
  <2>2. GoodEntry(NoEntry, m_seqNo[d])
    <3>1. m_seqNo[d] \in Nat
      BY DEF IInv, Counts
    <3> QED
      BY <3>1, NoEntryGood
  <2>3. GoodTable(t, m_seqNo)
    BY <1>3, <2>2, TableWith
  <2>4. GoodTable(t, m_seqNo')
    BY <2>1, <2>3
  <2>5. Tables'
    <3> HIDE DEF t
    <3>1. SetTable(n, t)
      BY <1>6 DEF t
    <3> QED
      BY <2>1, <2>4, <3>1, SetTableGood DEF IInv
  <2>6. \A m, x \in Nodes : InSearch(m_routingTable'[m], x) =>
           InSearch(m_routingTable[m], x) /\ (m # n \/ x # d)
    BY <1>3, <1>6 DEF SetTable, InSearch, NoEntry
  <2>7. dropped' \in SUBSET Nat
    <3>1. \A p \in Waiting(m_queue[n], d) : p.body \in Body
      BY QueuedToNodes DEF IInv, Waiting
    <3>2. DataOf(Waiting(m_queue[n], d)) \subseteq Nat
      BY <3>1, DataGood
    <3> QED
      BY <1>2, <1>6, <3>2
  <2>8. air' \subseteq Frames(m_seqNo)
        /\ UNCHANGED <<delayed, m_rreqCount, numbers, m_rreqIdCache,
                       m_nb, loopback, toSend, faults, sent, delivered>>
    BY <1>1, <1>2, <1>6
  <2> QED
    BY <1>6, <2>1, <2>5, <2>6, <2>7, <2>8, TimerGone
<1> QED
  BY <1>4, <1>5, <1>6 DEF RouteRequestTimerExpire
-----------------------------------------------------------------------------
(* The surroundings of a node.                                             *)

LEMMA RoutedKeeps ==
  ASSUME IInv, Counts', NEW n \in Nodes, NEW p \in Unicasts(m_seqNo),
         UNCHANGED <<m_routingTable, m_queue, search>>, UNCHANGED m_seqNo,
         air' = air \cup Routed(n, m_routingTable[n], {p}),
         loopback' = [loopback EXCEPT ![n] = @ \cup Unrouted(m_routingTable[n], {p})],
         toSend' \in [Nodes -> SUBSET Unicasts(m_seqNo)]
  PROVE  IInv'
<1> DEFINE ps == {p}
           t == m_routingTable[n]
<1>1. ps \in SUBSET Unicasts(m_seqNo)
  OBVIOUS
<1> HIDE DEF ps, t
<1>2. Routed(n, t, ps) \subseteq Frames(m_seqNo) /\ Unrouted(t, ps) \subseteq Unicasts(m_seqNo)
  BY <1>1, RoutedGood
<1>3. air' \subseteq Frames(m_seqNo) /\ loopback' \in [Nodes -> SUBSET Unicasts(m_seqNo)]
  BY <1>2 DEF IInv, Mail, ps, t
<1> QED
  BY <1>3, MailKeeps

LEMMA RouteOutputKeeps ==
  ASSUME IInv, NEW n \in Nodes, NEW d \in Nodes, RouteOutput(n, d) PROVE IInv'
<1> DEFINE b == [kind |-> "DATA", id |-> sent + 1]
           p == Packet(n, d, DataTtl, b)
<1>1. /\ sent' = sent + 1
      /\ air' = air \cup Routed(n, m_routingTable[n], {p})
      /\ loopback' = [loopback EXCEPT ![n] = @ \cup Unrouted(m_routingTable[n], {p})]
  BY DEF RouteOutput
<1>2. sent + 1 \in Nat
  BY DEF IInv, Counts
<1>3. GoodBody(b, m_seqNo)
  <2>1. b \in Body
    BY <1>2 DEF Body
  <2>2. b.kind = "DATA"
    OBVIOUS
  <2> HIDE DEF b
  <2> QED
    BY <2>1, <2>2 DEF GoodBody, SaysKnown
<1>4. DataTtl \in Nat
  BY TtlAssumption
<1> HIDE DEF b
<1>5. p \in Unicasts(m_seqNo)
  BY <1>3, <1>4, PacketGood
<1>6. Counts'
  BY <1>1, <1>2 DEF IInv, Counts, RouteOutput, search, numbers
<1>7. toSend' \in [Nodes -> SUBSET Unicasts(m_seqNo)]
      /\ UNCHANGED <<m_routingTable, m_queue, search>> /\ UNCHANGED m_seqNo
  BY DEF IInv, Mail, RouteOutput, numbers
<1> HIDE DEF p
<1> QED
  BY <1>1, <1>5, <1>6, <1>7, RoutedKeeps

LEMMA SendToKeeps ==
  ASSUME IInv, NEW n \in Nodes, NEW p \in toSend[n], SendTo(n, p) PROVE IInv'
<1>1. toSend \in [Nodes -> SUBSET Unicasts(m_seqNo)] /\ p \in Unicasts(m_seqNo)
  BY DEF IInv, Mail
<1>2. Counts'
  BY DEF IInv, Counts, SendTo, search, numbers, fates
<1>3. /\ toSend' = [toSend EXCEPT ![n] = @ \ {p}]
      /\ UNCHANGED <<m_routingTable, m_queue, search>> /\ UNCHANGED m_seqNo
      /\ air' = air \cup Routed(n, m_routingTable[n], {p})
      /\ loopback' = [loopback EXCEPT ![n] = @ \cup Unrouted(m_routingTable[n], {p})]
  BY DEF SendTo, numbers
<1>4. toSend' \in [Nodes -> SUBSET Unicasts(m_seqNo)]
  BY <1>1, <1>3
<1> QED
  BY <1>1, <1>2, <1>3, <1>4, RoutedKeeps

LEMMA SendHelloKeeps ==
  ASSUME IInv, NEW n \in Nodes, SendHello(n) PROVE IInv'
<1> DEFINE number == m_seqNo[n]
           b == Reply(n, number, 0, n, FALSE)
<1>1. number \in Nat
  BY DEF IInv, Counts
<1>2. GoodBody(b, m_seqNo)
  <2>1. b \in Body
    BY <1>1 DEF Reply, Body
  <2>2. b.kind = "RREP" /\ b.dstSeqno = m_seqNo[n] /\ b.dst = n
    BY DEF Reply
  <2> HIDE DEF b
  <2>3. b.dstSeqno <= m_seqNo[b.dst]
    BY <1>1, <2>2
  <2> QED
    BY <2>1, <2>2, <2>3 DEF GoodBody, SaysKnown
<1>3. air' = air \cup Flood(n, 1, b)
  BY DEF SendHello
<1> HIDE DEF b
<1>4. Flood(n, 1, b) \subseteq Frames(m_seqNo)
  <2>1. 1 \in Nat
    OBVIOUS
  <2> QED
    BY <1>2, <2>1, FloodGood
<1>5. air' \subseteq Frames(m_seqNo)
  BY <1>3, <1>4 DEF IInv, Mail
<1>6. Counts'
  BY DEF IInv, Counts, SendHello, search, numbers, fates
<1>7. /\ loopback' \in [Nodes -> SUBSET Unicasts(m_seqNo)]
      /\ toSend' \in [Nodes -> SUBSET Unicasts(m_seqNo)]
      /\ UNCHANGED <<m_routingTable, m_queue, search>> /\ UNCHANGED m_seqNo
  BY DEF IInv, Mail, SendHello, numbers
<1> QED
  BY <1>5, <1>6, <1>7, MailKeeps

LEMMA TableKeeps ==
  ASSUME IInv, Counts', NEW n \in Nodes, NEW t, SetTable(n, t), GoodTable(t, m_seqNo),
         NoNewSearch(m_routingTable[n], t),
         UNCHANGED <<m_queue, loopback, search>>, UNCHANGED m_seqNo,
         air' \subseteq Frames(m_seqNo), toSend' \in [Nodes -> SUBSET Unicasts(m_seqNo)]
  PROVE  IInv'
<1>1. Grows /\ GoodTable(t, m_seqNo')
  BY UnchangedGrows DEF IInv
<1>2. Tables'
  BY <1>1, SetTableGood DEF IInv
<1>3. Mail'
  BY DEF IInv, Mail
<1>4. SearchHasTimer'
  BY SearchGoesOn DEF IInv
<1>5. QueuedIsSought'
  BY QueuesStay DEF IInv
<1> QED
  BY <1>2, <1>3, <1>4, <1>5 DEF IInv

LEMMA RouteExpiresKeeps ==
  ASSUME IInv, NEW n \in Nodes, NEW d \in Nodes, RouteExpires(n, d) PROVE IInv'
<1> DEFINE t == Purge(m_routingTable[n], d)
<1>1. GoodTable(t, m_seqNo) /\ NoNewSearch(m_routingTable[n], t)
  BY PurgeGood DEF IInv, Counts, Tables
<1>2. SetTable(n, t)
  BY DEF RouteExpires
<1> HIDE DEF t
<1>3. Counts'
  BY DEF IInv, Counts, RouteExpires, search, numbers, fates
<1>4. /\ UNCHANGED <<m_queue, loopback, search>> /\ UNCHANGED m_seqNo
      /\ air' \subseteq Frames(m_seqNo) /\ toSend' \in [Nodes -> SUBSET Unicasts(m_seqNo)]
  BY DEF IInv, Mail, RouteExpires, numbers
<1> QED
  BY <1>1, <1>2, <1>3, <1>4, TableKeeps

LEMMA BreaksLinkKeeps ==
  ASSUME IInv, NEW n \in Nodes, NEW h \in Nodes, SendRerrWhenBreaksLinkToNextHop(n, h)
  PROVE  IInv'
<1> DEFINE t == m_routingTable[n]
           un == {h} \cup WithNextHop(t, h)
           to == Precursors(t, un)
           u == Invalidate(t, un)
           fs == ErrorBroadcast(n, t, un, to)
           ps == ErrorUnicast(n, t, un, to)
<1>1. /\ UNCHANGED <<m_queue, loopback, search>> /\ UNCHANGED m_seqNo
      /\ \/ UNCHANGED <<m_routingTable, air, toSend>>
         \/ /\ SetTable(n, u) /\ air' = air \cup fs
            /\ toSend' = [toSend EXCEPT ![n] = @ \cup ps]
  BY DEF SendRerrWhenBreaksLinkToNextHop, numbers
<1>2. Counts'
  BY DEF IInv, Counts, SendRerrWhenBreaksLinkToNextHop, search, numbers, fates
<1>3. air \subseteq Frames(m_seqNo) /\ toSend \in [Nodes -> SUBSET Unicasts(m_seqNo)]
      /\ loopback \in [Nodes -> SUBSET Unicasts(m_seqNo)]
  BY DEF IInv, Mail
<1>4. CASE UNCHANGED <<m_routingTable, air, toSend>>
  BY <1>1, <1>2, <1>3, <1>4, MailKeeps
<1>5. CASE /\ SetTable(n, u) /\ air' = air \cup fs
           /\ toSend' = [toSend EXCEPT ![n] = @ \cup ps]
  <2>1. GoodTable(t, m_seqNo)
    BY DEF IInv, Tables
  <2>2. un \in SUBSET Nodes
    BY DEF WithNextHop
  <2> HIDE DEF un
  <2>3. to \in SUBSET Nodes
    BY <2>1, <2>2, PrecursorsOf
  <2> HIDE DEF to
  <2>4. fs \subseteq Frames(m_seqNo) /\ ps \subseteq Unicasts(m_seqNo)
    BY <2>2, <2>3, ErrorsGood
  <2>5. GoodTable(u, m_seqNo) /\ NoNewSearch(t, u)
    BY <2>1, InvalidateGood
  <2> HIDE DEF u, fs, ps
  <2>6. air' \subseteq Frames(m_seqNo) /\ toSend' \in [Nodes -> SUBSET Unicasts(m_seqNo)]
    BY <1>3, <1>5, <2>4
  <2> QED
    BY <1>1, <1>2, <1>5, <2>5, <2>6, TableKeeps
<1> QED
  BY <1>1, <1>4, <1>5

LEMMA PacketExpiresKeeps ==
  ASSUME IInv, NEW n \in Nodes, PacketExpires(n) PROVE IInv'
<1> DEFINE P == Unicasts(m_seqNo)
           q == m_queue[n]
<1>1. m_queue \in [Nodes -> Seq(P)] /\ q # <<>> /\ m_queue' = [m_queue EXCEPT ![n] = Tail(q)]
      /\ dropped' = dropped \cup DataOf({Head(q)})
  BY DEF IInv, Mail, PacketExpires
<1>2. UNCHANGED <<m_routingTable, search, loopback, toSend, air>> /\ UNCHANGED m_seqNo
  BY DEF PacketExpires, numbers
<1> HIDE DEF P
<1>3. q \in Seq(P)
  BY <1>1
<1>4. Head(q) \in PacketsOf(q) /\ Tail(q) \in Seq(P) /\ PacketsOf(Tail(q)) \subseteq PacketsOf(q)
  BY <1>1, <1>3, QueuePackets
<1>5. /\ m_queue' \in [Nodes -> Seq(P)]
      /\ \A m \in Nodes : PacketsOf(m_queue'[m]) \subseteq PacketsOf(m_queue[m])
  BY <1>1, <1>4
<1>6. dropped' \in SUBSET Nat
  <2>1. \A p \in {Head(q)} : p.body \in Body
    BY <1>4, QueuedToNodes DEF IInv
  <2>2. DataOf({Head(q)}) \subseteq Nat
    BY <2>1, DataGood
  <2> QED
    BY <1>1, <2>2 DEF IInv, Counts
<1>7. Counts'
  <2>1. faults' \in Nat
    BY DEF IInv, Counts, PacketExpires
  <2>2. UNCHANGED <<m_rreqIdCache, m_nb, m_addressReqTimer, delayed, m_rreqCount, m_seqNo,
                    m_requestId, sent, delivered>>
    BY DEF PacketExpires, search, numbers
  <2> QED
    BY <1>6, <2>1, <2>2 DEF IInv, Counts
<1>8. Mail'
  BY <1>2, <1>5 DEF IInv, Mail, P
<1>9. Tables' /\ SearchHasTimer'
  BY <1>2 DEF IInv, Tables, SearchHasTimer, search
<1>10. QueuedIsSought'
  BY <1>2, <1>5 DEF IInv, QueuedIsSought, search
<1> QED
  BY <1>7, <1>8, <1>9, <1>10 DEF IInv

-----------------------------------------------------------------------------
LEMMA InitHolds == Init => IInv
<1> SUFFICES ASSUME Init PROVE IInv
  OBVIOUS
<1> DEFINE none == [d \in Nodes |-> NoEntry]
<1>1. Counts
  BY DEF Init, Counts
<1>2. \A d \in Nodes : GoodEntry(NoEntry, m_seqNo[d])
  <2>1. \A d \in Nodes : m_seqNo[d] \in Nat
    BY DEF Init
  <2> QED
    BY <2>1, NoEntryGood
<1>3. GoodTable(none, m_seqNo)
  BY <1>2 DEF GoodTable, GoodEntry
<1>4. Tables
  <2>1. m_routingTable = [n \in Nodes |-> none]
    BY DEF Init
  <2> HIDE DEF none
  <2>2. none \in [Nodes -> Entry]
    BY <1>3 DEF GoodTable
  <2> QED
    BY <1>3, <2>1, <2>2 DEF Tables
<1>5. Mail
  BY DEF Init, Mail
<1>6. SearchHasTimer
  BY DEF Init, SearchHasTimer, InSearch, NoEntry
<1>7. QueuedIsSought
  BY DEF Init, QueuedIsSought, PacketsOf
<1> QED
  BY <1>1, <1>4, <1>5, <1>6, <1>7 DEF IInv

LEMMA StepKeeps == IInv /\ [Next]_vars => IInv'
<1> SUFFICES ASSUME IInv, [Next]_vars PROVE IInv'
  OBVIOUS
<1>1. ASSUME NEW f \in air, Receive(f) PROVE IInv'
  BY <1>1, DuplicateRequestKeeps, SendReplyKeeps, SendReplyByIntermediateNodeKeeps,
     ForwardRequestKeeps, ProcessHelloKeeps, RecvReplyKeeps, RelayReplyKeeps,
     RecvReplyAckKeeps, RecvErrorKeeps, ReceiveDataKeeps, ForwardingKeeps, DiscardKeeps
     DEF Receive
<1>2. ASSUME NEW n \in Nodes, Internal(n) PROVE IInv'
  BY <1>2, DeferredRouteOutputKeeps, SendToKeeps, RouteRequestTimerExpireKeeps,
     DelayedRequestKeeps, RreqRateLimitTimerExpireKeeps DEF Internal
<1>3. ASSUME NEW n \in Nodes, External(n) PROVE IInv'
  BY <1>3, RouteOutputKeeps, BreaksLinkKeeps, SendHelloKeeps, RouteExpiresKeeps,
     PacketExpiresKeeps DEF External
<1>4. CASE UNCHANGED vars
  <2>1. UNCHANGED <<m_routingTable, m_queue, search, m_nb, loopback, toSend, air, faults>>
        /\ UNCHANGED <<m_seqNo, m_requestId, m_rreqIdCache, sent, delivered, dropped>>
        /\ UNCHANGED m_seqNo
    BY <1>4 DEF vars, numbers, fates
  <2>2. Counts'
    BY <2>1 DEF IInv, Counts, search
  <2> QED
    BY <2>1, <2>2, MailKeeps DEF IInv, Mail
<1> QED
  BY <1>1, <1>2, <1>3, <1>4 DEF Next

(* At all times the tables, the messages and the searches are sound.       *)
THEOREM Invariance == Spec => []IInv
BY InitHolds, StepKeeps, PTL DEF Spec

(* Every variable has its type: in particular every next hop a packet is   *)
(* sent to is a node, never the empty address.                             *)
THEOREM TypeCorrect == Spec => []TypeOK
<1>1. IInv => TypeOK
  <2> SUFFICES ASSUME IInv PROVE TypeOK
    OBVIOUS
  <2>1. Unicasts(m_seqNo) \subseteq Unicast /\ Frames(m_seqNo) \subseteq [to: Nodes, ip: IPPacket]
    BY DEF Unicasts, Frames
  <2> DEFINE A == Unicasts(m_seqNo)
  <2>2. /\ loopback \in [Nodes -> SUBSET A] /\ toSend \in [Nodes -> SUBSET A]
        /\ m_queue \in [Nodes -> Seq(A)] /\ A \subseteq Unicast
    BY <2>1 DEF IInv, Mail
  <2> HIDE DEF A
  <2>3. ASSUME NEW q \in Seq(A) PROVE q \in Seq(Unicast)
    BY <2>2
  <2>4. m_queue \in [Nodes -> Seq(Unicast)]
    BY <2>2, <2>3
  <2>5. {loopback, toSend} \subseteq [Nodes -> SUBSET Unicast]
    BY <2>2
  <2>6. air \subseteq [to: Nodes, ip: IPPacket]
    BY <2>1 DEF IInv, Mail
  <2> QED
    BY <2>4, <2>5, <2>6 DEF IInv, Counts, Tables, TypeOK
<1> QED
  BY <1>1, Invariance, PTL

(* No search is without a timer or a postponed request.                    *)
THEOREM SearchCorrect == Spec => []SearchHasTimer
<1>1. IInv => SearchHasTimer
  BY DEF IInv
<1> QED
  BY <1>1, Invariance, PTL

(* No packet waits in a queue that nothing will empty.                     *)
THEOREM QueueCorrect == Spec => []QueuedIsSought
<1>1. IInv => QueuedIsSought
  BY DEF IInv
<1> QED
  BY <1>1, Invariance, PTL

(* No number is ahead of its owner, in no table and in no message.         *)
THEOREM SeqNosCorrect == Spec => []KnownSeqNos
<1>1. IInv => KnownSeqNos
  <2> SUFFICES ASSUME IInv PROVE KnownSeqNos
    OBVIOUS
  <2>1. ASSUME NEW n \in Nodes, NEW d \in Nodes, m_routingTable[n][d].validSeqNo
        PROVE  m_routingTable[n][d].seqNo <= m_seqNo[d]
    <3> DEFINE e == m_routingTable[n][d]
    <3>1. GoodEntry(e, m_seqNo[d])
      BY DEF IInv, Tables, GoodTable
    <3> HIDE DEF e
    <3>2. e.validSeqNo = TRUE
      BY <2>1, <3>1 DEF GoodEntry, Entry, e
    <3> QED
      BY <3>1, <3>2 DEF GoodEntry, e
  <2>2. ASSUME NEW f \in air PROVE SaysKnown(f.ip.body, m_seqNo)
    BY FrameFacts DEF IInv
  <2> QED
    BY <2>1, <2>2 DEF KnownSeqNos, SaysKnown
<1> QED
  BY <1>1, Invariance, PTL

-----------------------------------------------------------------------------
(* Where routes lead: tables and messages carry each other here as well,   *)
(* so that an entry of one hop names its destination because a message     *)
(* that has come no hop was sent by the node it speaks for.                *)

OneHop(e, d) ==
  (e.flag \in {"VALID", "INVALID"} \/ e.validSeqNo = TRUE) /\ e.hops = 1 => e.nextHop = d

(* An entry of node n for d: neither its next hop nor a precursor is n.    *)
Outward(e, n, d) == e.nextHop # n /\ n \notin e.precursors /\ OneHop(e, d)
OutwardTable(t, n) == \A d \in Nodes : Outward(t[d], n, d)

Says(p) ==
  /\ p.body.kind = "RREQ" => /\ p.body.origin # p.body.dst
                             /\ p.body.hops = 0 => p.src = p.body.origin
  /\ p.body.kind = "RREP" =>
       (p.body.dst = p.body.origin \/ p.body.hops = 0 => p.src = p.body.dst)

ToOthers(ps, n) == \A p \in ps : p.dst # n /\ Says(p)
Said(fs) == \A f \in fs : Says(f.ip)

OutwardTables == \A n \in Nodes : OutwardTable(m_routingTable[n], n)
OthersSought == \A n \in Nodes : n \notin m_addressReqTimer[n] /\ delayed[n][n] = 0
MailOutward ==
  /\ \A n \in Nodes : /\ ToOthers(loopback[n], n) /\ ToOthers(toSend[n], n)
                      /\ ToOthers(PacketsOf(m_queue[n]), n)
  /\ Said(air)

Routes == OutwardTables /\ OthersSought /\ MailOutward

-----------------------------------------------------------------------------
(* Tables.                                                                 *)

LEMMA OutwardWith ==
  ASSUME NEW n, NEW t \in [Nodes -> Entry], OutwardTable(t, n),
         NEW d \in Nodes, NEW e, Outward(e, n, d)
  PROVE  OutwardTable([t EXCEPT ![d] = e], n)
BY DEF OutwardTable

LEMMA OutwardNew ==
  ASSUME NEW n, NEW d, NEW v, NEW q, NEW h, NEW p, p # n, h = 1 => p = d
  PROVE  Outward(NewEntry(v, q, h, p), n, d)
BY DEF Outward, OneHop, NewEntry

LEMMA NoEntryOutward ==
  ASSUME NEW n \in Nodes, NEW d PROVE Outward(NoEntry, n, d)
BY AddressAssumption DEF Outward, OneHop, NoEntry

LEMMA PrecursorsOutward ==
  ASSUME NEW n, NEW d, NEW e \in Entry, Outward(e, n, d), NEW ps, n \notin ps
  PROVE  Outward([e EXCEPT !.precursors = ps], n, d)
BY DEF Outward, OneHop, Entry

LEMMA PrecursorOutward ==
  ASSUME NEW s, NEW n, NEW t, GoodTable(t, s), OutwardTable(t, n), NEW d, NEW p, p # n
  PROVE  OutwardTable(WithPrecursor(t, d, p), n)
<1>1. ASSUME NEW x \in Nodes PROVE Outward(WithPrecursor(t, d, p)[x], n, x)
  <2>1. t[x] \in Entry /\ Outward(t[x], n, x)
    BY DEF GoodTable, OutwardTable
  <2> DEFINE e == t[x]
             more == e.precursors \cup {p}
  <2>2. n \notin more
    BY <2>1 DEF Outward
  <2>3. WithPrecursor(t, d, p)[x] = IF x = d /\ Has(t, x) THEN [e EXCEPT !.precursors = more] ELSE e
    BY DEF WithPrecursor
  <2> HIDE DEF e, more
  <2>4. Outward([e EXCEPT !.precursors = more], n, x)
    BY <2>1, <2>2, PrecursorsOutward DEF e
  <2> QED
    BY <2>1, <2>3, <2>4 DEF e
<1> QED
  BY <1>1 DEF OutwardTable

LEMMA NeighborOutward ==
  ASSUME NEW n, NEW t \in [Nodes -> Entry], OutwardTable(t, n), NEW src \in Nodes, src # n
  PROVE  /\ OutwardTable(UpdateRouteToNeighbor(t, src), n)
         /\ LET e == UpdateRouteToNeighbor(t, src)[src] IN e.hops = 1 /\ e.nextHop = src
<1>1. CASE t[src].validSeqNo /\ t[src].hops = 1 /\ Has(t, src)
  <2>1. t[src].validSeqNo = TRUE /\ UpdateRouteToNeighbor(t, src) = t
    BY <1>1 DEF Entry, UpdateRouteToNeighbor
  <2>2. t[src].hops = 1 /\ OneHop(t[src], src)
    BY <1>1 DEF OutwardTable, Outward
  <2>3. t[src].nextHop = src
    BY <2>1, <2>2 DEF OneHop
  <2> QED
    BY <2>1, <2>2, <2>3
<1>2. CASE ~(t[src].validSeqNo /\ t[src].hops = 1 /\ Has(t, src))
  <2> DEFINE e == NewEntry(FALSE, 0, 1, src)
  <2>1. UpdateRouteToNeighbor(t, src) = [t EXCEPT ![src] = e]
    BY <1>2 DEF UpdateRouteToNeighbor
  <2>2. e.hops = 1 /\ e.nextHop = src
    BY DEF NewEntry
  <2>3. Outward(e, n, src)
    BY OutwardNew
  <2> HIDE DEF e
  <2>4. OutwardTable([t EXCEPT ![src] = e], n)
    BY <2>3, OutwardWith
  <2>5. [t EXCEPT ![src] = e][src] = e
    OBVIOUS
  <2> QED
    BY <2>1, <2>2, <2>4, <2>5
<1> QED
  BY <1>1, <1>2

LEMMA InvalidateOutward ==
  ASSUME NEW n, NEW t \in [Nodes -> Entry], OutwardTable(t, n), NEW ds
  PROVE  OutwardTable(Invalidate(t, ds), n)
<1>1. ASSUME NEW d \in Nodes PROVE Outward(Invalidate(t, ds)[d], n, d)
  <2> DEFINE e == t[d]
             e1 == [e EXCEPT !.flag = "INVALID"]
             e2 == [e1 EXCEPT !.reqCount = 0]
  <2>1. e \in Entry /\ Outward(e, n, d)
    BY DEF OutwardTable
  <2>2. Invalidate(t, ds)[d] = IF d \in ds /\ e.flag = "VALID" THEN e2 ELSE e
    BY DEF Invalidate, Valid
  <2> HIDE DEF e
  <2>3. e1 \in Entry /\ (e.flag = "VALID" => Outward(e1, n, d))
    BY <2>1 DEF Outward, OneHop, Entry
  <2> HIDE DEF e1
  <2>4. Outward(e1, n, d) => Outward(e2, n, d)
    BY <2>3 DEF Outward, OneHop, Entry
  <2> HIDE DEF e2
  <2> QED
    BY <2>1, <2>2, <2>3, <2>4
<1> QED
  BY <1>1 DEF OutwardTable

LEMMA PurgeOutward ==
  ASSUME NEW n \in Nodes, NEW t \in [Nodes -> Entry], OutwardTable(t, n), NEW d \in Nodes
  PROVE  OutwardTable(Purge(t, d), n)
<1>1. CASE Valid(t, d)
  <2>1. Purge(t, d) = Invalidate(t, {d})
    BY <1>1 DEF Purge, Valid
  <2> QED
    BY <2>1, InvalidateOutward
<1>2. CASE t[d].flag = "INVALID"
  <2>1. Outward(NoEntry, n, d)
    BY NoEntryOutward
  <2>2. OutwardTable([t EXCEPT ![d] = NoEntry], n)
    BY <2>1, OutwardWith
  <2>3. Purge(t, d) = [t EXCEPT ![d] = NoEntry]
    BY <1>2 DEF Purge, Valid
  <2> QED
    BY <2>2, <2>3
<1>3. CASE ~Valid(t, d) /\ t[d].flag # "INVALID"
  BY <1>3 DEF Purge
<1> QED
  BY <1>1, <1>2, <1>3

(* A search counts in hops what is its TTL; it is 1 only for an entry that *)
(* did not exist.                                                          *)
LEMMA SearchedOutward ==
  ASSUME NEW n, NEW d, NEW e \in Entry, Leads(e), Outward(e, n, d)
  PROVE  Outward(Searched(e), n, d)
<1> DEFINE ttl == NextTtl(e)
           count == IF ttl = NetDiameter THEN e.reqCount + 1 ELSE e.reqCount
           e1 == [e EXCEPT !.flag = "IN_SEARCH"]
           e2 == [e1 EXCEPT !.hops = ttl]
           e3 == [e2 EXCEPT !.reqCount = count]
<1>1. Searched(e) = e3
  BY DEF Searched, Entry
<1>2. e.validSeqNo = TRUE => ttl # 1
  <2>1. e.validSeqNo = TRUE => e.flag # "NONE" /\ e.hops # 0 /\ e.hops \in Nat
    BY DEF Leads, Entry
  <2>2. TtlIncrement \in Nat \ {0} /\ NetDiameter \in Nat /\ NetDiameter > 1
    BY TtlAssumption
  <2> QED
    BY <2>1, <2>2 DEF NextTtl
<1> HIDE DEF ttl, count
<1>3. /\ e1.validSeqNo = e.validSeqNo /\ e1.nextHop = e.nextHop
      /\ e1.precursors = e.precursors /\ e1.flag = "IN_SEARCH"
      /\ DOMAIN e1 = DOMAIN e
  BY DEF Entry
<1>4. /\ e2.validSeqNo = e.validSeqNo /\ e2.nextHop = e.nextHop
      /\ e2.precursors = e.precursors /\ e2.flag = "IN_SEARCH" /\ e2.hops = ttl
  BY DEF Entry
<1>5. /\ e3.validSeqNo = e.validSeqNo /\ e3.nextHop = e.nextHop
      /\ e3.precursors = e.precursors /\ e3.flag = "IN_SEARCH" /\ e3.hops = ttl
  BY <1>4 DEF Entry
<1> HIDE DEF e3
<1>6. Outward(e3, n, d)
  BY <1>2, <1>5 DEF Outward, OneHop
<1> QED
  BY <1>1, <1>6

LEMMA ReverseRouteOutward ==
  ASSUME NEW n, NEW o, NEW e \in Entry, Outward(e, n, o), NEW src \in Nodes, src # n,
         NEW r, r.hops \in Nat, r.hops = 0 => src = o
  PROVE  Outward(ReverseRoute(e, r, src), n, o)
<1> DEFINE hops == r.hops + 1
<1>1. hops = 1 => src = o
  OBVIOUS
<1>2. CASE e.flag = "NONE"
  <2> HIDE DEF hops
  <2>1. Outward(NewEntry(TRUE, r.originSeqno, hops, src), n, o)
    BY <1>1, OutwardNew
  <2> QED
    BY <1>2, <2>1 DEF ReverseRoute, hops
<1>3. CASE e.flag # "NONE"
  <2> DEFINE q == IF e.validSeqNo /\ e.seqNo >= r.originSeqno THEN e.seqNo ELSE r.originSeqno
             e1 == [e EXCEPT !.seqNo = q, !.validSeqNo = TRUE, !.nextHop = src, !.hops = hops]
  <2>1. ReverseRoute(e, r, src) = e1
    BY <1>3 DEF ReverseRoute
  <2> HIDE DEF q, hops
  <2>2. e1.nextHop = src /\ e1.hops = hops /\ e1.precursors = e.precursors
    BY DEF Entry
  <2> HIDE DEF e1
  <2>3. Outward(e1, n, o)
    BY <1>1, <2>2 DEF Outward, OneHop
  <2> QED
    BY <2>1, <2>3
<1> QED
  BY <1>2, <1>3

LEMMA RouteToSenderOutward ==
  ASSUME NEW n, NEW e, n \notin e.precursors, NEW r, NEW src, src # n
  PROVE  Outward(RouteToSender(e, r, src), n, src)
<1> DEFINE base == NewEntry(FALSE, r.originSeqno, 1, src)
           new == [base EXCEPT !.precursors = e.precursors]
<1>1. base.hops = 1 /\ base.nextHop = src /\ base.flag = "VALID" /\ base.validSeqNo = FALSE
  BY DEF NewEntry
<1>2. new.hops = 1 /\ new.nextHop = src /\ new.precursors = e.precursors
  BY DEF NewEntry
<1>3. RouteToSender(e, r, src) = new
  BY DEF RouteToSender
<1> HIDE DEF new
<1> QED
  BY <1>2, <1>3 DEF Outward, OneHop

(* A request: the node it comes from is its originator if it has come no   *)
(* hop.                                                                    *)
LEMMA RequestOutward ==
  ASSUME NEW n, NEW t \in [Nodes -> Entry], OutwardTable(t, n), NEW src \in Nodes, src # n,
         NEW r, r.origin \in Nodes, r.hops \in Nat, r.originSeqno \in Nat,
         r.hops = 0 => src = r.origin
  PROVE  /\ OutwardTable(AfterRequest(t, r, src), n)
         /\ AfterRequest(t, r, src)[r.origin].flag # "NONE"
<1> DEFINE o == r.origin
           a == ReverseRoute(t[o], r, src)
           t1 == [t EXCEPT ![o] = a]
           b == RouteToSender(t1[src], r, src)
           t2 == [t1 EXCEPT ![src] = b]
<1>1. AfterRequest(t, r, src) = t2
  BY DEF AfterRequest
<1>2. Outward(a, n, o)
  BY ReverseRouteOutward DEF OutwardTable
<1>3. a \in Entry /\ a.flag # "NONE"
  <2> HIDE DEF o
  <2>1. \A e \in Entry : ReverseRoute(e, r, src) \in Entry /\ ReverseRoute(e, r, src).flag # "NONE"
    <3> TAKE e \in Entry
    <3> DEFINE q == IF e.validSeqNo /\ e.seqNo >= r.originSeqno THEN e.seqNo ELSE r.originSeqno
               hops == r.hops + 1
    <3>1. q \in Nat /\ hops \in Nat
      BY DEF Entry
    <3>2. ReverseRoute(e, r, src) =
            IF e.flag = "NONE" THEN NewEntry(TRUE, r.originSeqno, hops, src)
            ELSE [e EXCEPT !.seqNo = q, !.validSeqNo = TRUE, !.nextHop = src, !.hops = hops]
      BY DEF ReverseRoute
    <3> HIDE DEF q, hops
    <3>3. CASE e.flag = "NONE"
      BY <3>1, <3>2, <3>3 DEF Entry, NewEntry
    <3>4. CASE e.flag # "NONE"
      <4> DEFINE turned == [e EXCEPT !.seqNo = q, !.validSeqNo = TRUE, !.nextHop = src,
                                     !.hops = hops]
      <4>1. turned \in Entry /\ turned.flag = e.flag
        BY <3>1 DEF Entry
      <4> HIDE DEF turned
      <4> QED
        BY <3>2, <3>4, <4>1 DEF turned
    <3> QED
      BY <3>3, <3>4
  <2>2. t[o] \in Entry
    BY DEF o
  <2> QED
    BY <2>1, <2>2
<1> HIDE DEF a
<1>4. t1 \in [Nodes -> Entry] /\ OutwardTable(t1, n) /\ t1[o] = a
  BY <1>2, <1>3, OutwardWith
<1> HIDE DEF t1
<1>5. Outward(b, n, src) /\ b.flag = "VALID"
  <2>1. n \notin t1[src].precursors
    BY <1>4 DEF OutwardTable, Outward
  <2>2. b.flag = "VALID"
    BY DEF RouteToSender, NewEntry
  <2> QED
    BY <2>1, <2>2, RouteToSenderOutward
<1> HIDE DEF b
<1>6. OutwardTable(t2, n)
  BY <1>4, <1>5, OutwardWith
<1>7. t2[o].flag # "NONE"
  BY <1>3, <1>4, <1>5
<1> QED
  BY <1>1, <1>6, <1>7

LEMMA ReplyOutward ==
  ASSUME NEW n, NEW t \in [Nodes -> Entry], OutwardTable(t, n), NEW src, src # n,
         NEW r, r.dst \in Nodes, r.hops \in Nat, r.hops = 0 => src = r.dst
  PROVE  /\ Outward(RouteOf(r, src), n, r.dst)
         /\ OutwardTable(AfterReply(t, r, src), n)
<1> DEFINE e == RouteOf(r, src)
<1>1. Outward(e, n, r.dst)
  <2> DEFINE hops == r.hops + 1
  <2>1. hops = 1 => src = r.dst
    OBVIOUS
  <2> HIDE DEF hops
  <2>2. Outward(NewEntry(TRUE, r.dstSeqno, hops, src), n, r.dst)
    BY <2>1, OutwardNew
  <2> QED
    BY <2>2 DEF RouteOf, hops
<1>2. AfterReply(t, r, src) = t \/ AfterReply(t, r, src) = [t EXCEPT ![r.dst] = e]
  BY DEF AfterReply
<1> HIDE DEF e
<1>3. OutwardTable([t EXCEPT ![r.dst] = e], n)
  <2> DEFINE d == r.dst
  <2>1. d \in Nodes /\ Outward(e, n, d)
    BY <1>1
  <2> HIDE DEF d
  <2>2. OutwardTable([t EXCEPT ![d] = e], n)
    BY <2>1, OutwardWith
  <2> QED
    BY <2>2 DEF d
<1> QED
  BY <1>1, <1>2, <1>3 DEF e

LEMMA RelayOutward ==
  ASSUME NEW s \in [Nodes -> Nat], NEW n, NEW t, GoodTable(t, s), OutwardTable(t, n),
         NEW d \in Nodes, NEW o \in Nodes, t[o].flag \notin {"NONE", "IN_SEARCH"}
  PROVE  OutwardTable(AfterRelay(t, d, o), n)
<1> DEFINE toOrigin == t[o]
           hop == t[d].nextHop
           t1 == WithPrecursor(t, d, toOrigin.nextHop)
           t2 == IF hop \in Nodes THEN WithPrecursor(t1, hop, toOrigin.nextHop) ELSE t1
           t2o == [t2 EXCEPT ![o] = toOrigin]
           t3 == WithPrecursor(t2o, o, hop)
           t4 == WithPrecursor(t3, toOrigin.nextHop, hop)
<1>1. GoodEntry(t[o], s[o]) /\ t[o].flag \in {"VALID", "INVALID"} /\ GoodEntry(t[d], s[d])
  BY DEF GoodTable, GoodEntry, Entry
<1>2. toOrigin.nextHop \in Nodes /\ toOrigin.nextHop # n /\ Outward(toOrigin, n, o)
  BY <1>1 DEF GoodEntry, Leads, Entry, OutwardTable, Outward
<1>3. CASE Valid(t, d)
  <2>1. hop \in Nodes /\ hop # n
    BY <1>1, <1>3 DEF GoodEntry, Leads, Entry, Valid, OutwardTable, Outward
  <2>2. AfterRelay(t, d, o) = t4
    BY <1>3 DEF AfterRelay
  <2> HIDE DEF hop
  <2>3. GoodTable(t1, s) /\ OutwardTable(t1, n)
    BY <1>2, PrecursorGood, PrecursorOutward
  <2> HIDE DEF t1
  <2>4. GoodTable(t2, s) /\ OutwardTable(t2, n)
    BY <1>2, <2>3, PrecursorGood, PrecursorOutward
  <2> HIDE DEF t2
  <2>5. GoodTable(t2o, s) /\ OutwardTable(t2o, n)
    <3>1. t2 \in [Nodes -> Entry]
      BY <2>4 DEF GoodTable
    <3>2. GoodTable(t2o, s)
      BY <1>1, <2>4, TableWith
    <3>3. OutwardTable(t2o, n)
      BY <1>2, <2>4, <3>1, OutwardWith
    <3> QED
      BY <3>2, <3>3
  <2> HIDE DEF t2o
  <2>6. GoodTable(t3, s) /\ OutwardTable(t3, n)
    BY <2>1, <2>5, PrecursorGood, PrecursorOutward
  <2> HIDE DEF t3
  <2>7. OutwardTable(t4, n)
    BY <2>1, <2>6, PrecursorOutward
  <2> QED
    BY <2>2, <2>7
<1>4. CASE ~Valid(t, d)
  BY <1>4 DEF AfterRelay
<1> QED
  BY <1>3, <1>4

-----------------------------------------------------------------------------
(* Messages.                                                               *)

LEMMA FloodSays ==
  ASSUME NEW n, NEW ttl, NEW b, Says(Packet(n, Broadcast, ttl, b))
  PROVE  Said(Flood(n, ttl, b))
BY DEF Said, Flood

LEMMA RoutedSays ==
  ASSUME NEW n, NEW t, NEW ps, ToOthers(ps, n)
  PROVE  Said(Routed(n, t, ps)) /\ ToOthers(Unrouted(t, ps), n)
<1>1. ASSUME NEW f \in Routed(n, t, ps) PROVE f.ip \in ps
  BY DEF Routed, Frame
<1> QED
  BY <1>1 DEF Said, ToOthers, Unrouted

(* What a message says does not depend on where it is sent.                *)
LEMMA PacketSays ==
  ASSUME NEW n, NEW to, NEW dst, NEW ttl, NEW b
  PROVE  /\ Says(Packet(n, to, ttl, b)) <=> Says(Packet(n, dst, 1, b))
         /\ b.kind \notin {"RREQ", "RREP"} => Says(Packet(n, to, ttl, b))
         /\ b.kind = "RREP" /\ b.dst = n => Says(Packet(n, to, ttl, b))
         /\ b.kind = "RREP" /\ b.dst # b.origin /\ b.hops # 0 => Says(Packet(n, to, ttl, b))
         /\ b.kind = "RREQ" /\ b.origin # b.dst /\ b.hops # 0 => Says(Packet(n, to, ttl, b))
         /\ b.kind = "RREQ" /\ b.origin # b.dst /\ b.origin = n => Says(Packet(n, to, ttl, b))
         /\ Packet(n, to, ttl, b).dst = to
BY DEF Says, Packet

(* One node's handler of a frame.                                          *)
LEMMA HandledRoutes ==
  ASSUME IInv, Routes, NEW f \in air, NEW t, NEW ps, NEW fs, Handled(f, t, ps, fs),
         OutwardTable(t, f.to), ToOthers(ps, f.to), Said(fs), OthersSought',
         \A n \in Nodes : ToOthers(toSend'[n], n) /\ ToOthers(PacketsOf(m_queue'[n]), n)
  PROVE  Routes'
<1>1. f.to \in Nodes
  BY FrameFacts DEF IInv
<1>2. Said(Routed(f.to, t, ps)) /\ ToOthers(Unrouted(t, ps), f.to)
  BY RoutedSays
<1>3. OutwardTables'
  BY <1>1 DEF IInv, Tables, Routes, OutwardTables, Handled, SetTable
<1>4. Said(air')
  BY <1>2 DEF Routes, MailOutward, Said, Handled
<1>5. \A n \in Nodes : ToOthers(loopback'[n], n)
  BY <1>1, <1>2 DEF IInv, Mail, Routes, MailOutward, ToOthers, Handled
<1> QED
  BY <1>3, <1>4, <1>5 DEF Routes, MailOutward

(* One that touches neither queue nor search nor what is to be sent.       *)
LEMMA ReceiveRoutes ==
  ASSUME IInv, Routes, NEW f \in air, NEW t, NEW ps, NEW fs, Handled(f, t, ps, fs),
         OutwardTable(t, f.to), ToOthers(ps, f.to), Said(fs),
         UNCHANGED <<m_queue, search>>, UNCHANGED toSend
  PROVE  Routes'
<1>1. OthersSought'
  BY DEF Routes, OthersSought, search
<1>2. \A n \in Nodes : ToOthers(toSend'[n], n) /\ ToOthers(PacketsOf(m_queue'[n]), n)
  BY DEF Routes, MailOutward
<1> QED
  BY <1>1, <1>2, HandledRoutes

(* A frame for its receiver is from another node and means what it says.   *)
LEMMA ArrivesFacts ==
  ASSUME IInv, Routes, NEW f \in air, NEW kind, Arrives(f, kind)
  PROVE  /\ f.to \in Nodes /\ f.ip.src \in Nodes /\ f.ip.src # f.to
         /\ f.ip.body.kind = kind /\ Says(f.ip)
         /\ m_routingTable[f.to] \in [Nodes -> Entry]
         /\ OutwardTable(m_routingTable[f.to], f.to)
         /\ Neighbored(f) \in [Nodes -> Entry] /\ OutwardTable(Neighbored(f), f.to)
         /\ Neighbored(f)[f.ip.src].hops = 1 /\ Neighbored(f)[f.ip.src].nextHop = f.ip.src
<1>1. f.to \in Nodes /\ f.ip.src \in Nodes
  BY FrameFacts DEF IInv
<1>2. f.ip.src # f.to /\ f.ip.body.kind = kind
  BY DEF Arrives
<1>3. Says(f.ip)
  BY DEF Routes, MailOutward, Said
<1>4. /\ m_routingTable[f.to] \in [Nodes -> Entry]
      /\ OutwardTable(m_routingTable[f.to], f.to)
  BY <1>1 DEF IInv, Tables, Routes, OutwardTables
<1>5. Neighbored(f) \in [Nodes -> Entry]
  BY NeighboredGood DEF IInv, GoodTable
<1>6. /\ OutwardTable(Neighbored(f), f.to)
      /\ Neighbored(f)[f.ip.src].hops = 1 /\ Neighbored(f)[f.ip.src].nextHop = f.ip.src
  BY <1>1, <1>2, <1>4, NeighborOutward DEF Neighbored
<1> QED
  BY <1>1, <1>2, <1>3, <1>4, <1>5, <1>6

LEMMA DuplicateRequestRoutes ==
  ASSUME IInv, Routes, NEW f \in air, DuplicateRequest(f) PROVE Routes'
<1>1. Arrives(f, "RREQ") /\ Handled(f, Neighbored(f), {}, {})
      /\ UNCHANGED <<m_queue, search>> /\ UNCHANGED toSend
  BY DEF DuplicateRequest, Neighbored
<1>2. OutwardTable(Neighbored(f), f.to)
  BY <1>1, ArrivesFacts
<1>3. ToOthers({}, f.to) /\ Said({})
  BY DEF ToOthers, Said
<1> QED
  BY <1>1, <1>2, <1>3, ReceiveRoutes

(* What the first copy of a request leaves, on top of FirstRequestGood.    *)
LEMMA FirstRequestRoutes ==
  ASSUME IInv, Routes, NEW f \in air, FirstRequest(f)
  PROVE  /\ f.to \in Nodes /\ f.ip.src \in Nodes /\ f.ip.src # f.to
         /\ f.ip.body.origin \in Nodes /\ f.ip.body.dst \in Nodes
         /\ f.ip.body.origin # f.ip.body.dst
         /\ OutwardTable(TableAfter(f), f.to)
         /\ GoodTable(TableAfter(f), m_seqNo)
         /\ TableAfter(f)[f.ip.body.origin].nextHop = f.ip.src
         /\ TableAfter(f)[f.ip.body.origin].hops # 0
         /\ UNCHANGED <<m_queue, search>> /\ UNCHANGED toSend
<1> DEFINE r == f.ip.body
           src == f.ip.src
           t == Neighbored(f)
<1>1. Arrives(f, "RREQ")
  BY DEF FirstRequest
<1>2. /\ f.to \in Nodes /\ src \in Nodes /\ src # f.to
      /\ r.kind = "RREQ" /\ Says(f.ip)
      /\ t \in [Nodes -> Entry] /\ OutwardTable(t, f.to)
  BY <1>1, ArrivesFacts
<1>3. /\ r.origin \in Nodes /\ r.dst \in Nodes /\ r.hops \in Nat /\ r.originSeqno \in Nat
      /\ GoodTable(TableAfter(f), m_seqNo) /\ TableAfter(f)[r.origin].nextHop = src
      /\ UNCHANGED <<m_queue, search>> /\ UNCHANGED toSend
  BY FirstRequestGood
<1>4. r.origin # r.dst /\ (r.hops = 0 => src = r.origin)
  BY <1>2 DEF Says
<1>5. TableAfter(f) = AfterRequest(t, r, src)
  BY DEF TableAfter, Neighbored
<1> HIDE DEF t, r, src
<1>6. OutwardTable(AfterRequest(t, r, src), f.to) /\ AfterRequest(t, r, src)[r.origin].flag # "NONE"
  BY <1>2, <1>3, <1>4, RequestOutward
<1>7. TableAfter(f)[r.origin].hops # 0
  BY <1>3, <1>5, <1>6 DEF GoodTable, GoodEntry, Leads
<1> QED
  BY <1>2, <1>3, <1>4, <1>5, <1>6, <1>7 DEF r, src

LEMMA SendReplyRoutes ==
  ASSUME IInv, Routes, NEW f \in air, SendReply(f) PROVE Routes'
<1> DEFINE n == f.to
           r == f.ip.body
           t == TableAfter(f)
           o == t[r.origin]
           seqNo == IF r.dstSeqno = m_seqNo[n] + 1 THEN m_seqNo[n] + 1 ELSE m_seqNo[n]
           b == Reply(n, seqNo, 0, r.origin, FALSE)
           ps == {Packet(n, o.nextHop, o.hops, b)}
<1>1. FirstRequest(f) /\ Handled(f, t, ps, {})
  BY DEF SendReply
<1>2. /\ OutwardTable(t, n) /\ o.nextHop = f.ip.src /\ f.ip.src # n
      /\ UNCHANGED <<m_queue, search>> /\ UNCHANGED toSend
  BY <1>1, FirstRequestRoutes
<1>3. b.kind = "RREP" /\ b.dst = n
  BY DEF Reply
<1> HIDE DEF t, o, b
<1>4. ToOthers(ps, n) /\ Said({})
  BY <1>2, <1>3, PacketSays DEF ToOthers, Said
<1> HIDE DEF ps
<1> QED
  BY <1>1, <1>2, <1>4, ReceiveRoutes

LEMMA SendReplyByIntermediateNodeRoutes ==
  ASSUME IInv, Routes, NEW f \in air, SendReplyByIntermediateNode(f) PROVE Routes'
<1> DEFINE n == f.to
           r == f.ip.body
           t == TableAfter(f)
           o == t[r.origin]
           e == t[r.dst]
           a == Reply(r.dst, e.seqNo, e.hops, r.origin, e.hops = 1)
           answer == Packet(n, o.nextHop, o.hops, a)
           g == Reply(r.origin, o.seqNo, o.hops, r.dst, FALSE)
           gratuitous == Packet(n, e.nextHop, e.hops, g)
           ps == {answer} \cup (IF GratuitousReply THEN {gratuitous} ELSE {})
           t1 == WithPrecursor(t, r.dst, o.nextHop)
           t2 == WithPrecursor(t1, r.origin, e.nextHop)
<1>1. FirstRequest(f) /\ Handled(f, t2, ps, {}) /\ Answers(e, r)
  BY DEF SendReplyByIntermediateNode
<1>2. /\ OutwardTable(t, n) /\ GoodTable(t, m_seqNo)
      /\ o.nextHop = f.ip.src /\ f.ip.src # n /\ o.hops # 0 /\ f.ip.src \in Nodes
      /\ r.origin \in Nodes /\ r.dst \in Nodes /\ r.origin # r.dst
      /\ UNCHANGED <<m_queue, search>> /\ UNCHANGED toSend
  BY <1>1, FirstRequestRoutes
<1>3. e.nextHop # n /\ e.nextHop \in Nodes /\ e.hops # 0
  BY <1>1, <1>2 DEF Answers, OutwardTable, Outward, GoodTable, GoodEntry, Leads, Entry
<1>4. /\ a.kind = "RREP" /\ a.dst = r.dst /\ a.origin = r.origin /\ a.hops = e.hops
      /\ g.kind = "RREP" /\ g.dst = r.origin /\ g.origin = r.dst /\ g.hops = o.hops
  BY DEF Reply
<1> HIDE DEF t, o, e, a, g
<1>5. GoodTable(t1, m_seqNo) /\ OutwardTable(t1, n)
  BY <1>2, PrecursorGood, PrecursorOutward
<1> HIDE DEF t1
<1>6. OutwardTable(t2, n)
  BY <1>3, <1>5, PrecursorOutward
<1>7. answer.dst # n /\ Says(answer)
  BY <1>2, <1>3, <1>4, PacketSays
<1>8. gratuitous.dst # n /\ Says(gratuitous)
  <2>1. g.kind = "RREP" /\ g.dst # g.origin /\ g.hops # 0
    BY <1>2, <1>4
  <2> QED
    BY <1>3, <2>1, PacketSays
<1> HIDE DEF t2, answer, gratuitous
<1>9. ToOthers(ps, n) /\ Said({})
  BY <1>7, <1>8 DEF ToOthers, Said
<1> HIDE DEF ps
<1> QED
  BY <1>1, <1>2, <1>6, <1>9, ReceiveRoutes

LEMMA ForwardRequestRoutes ==
  ASSUME IInv, Routes, NEW f \in air, ForwardRequest(f) PROVE Routes'
<1> DEFINE n == f.to
           r == f.ip.body
           t == TableAfter(f)
           e == t[r.dst]
           known == IF KnowsBetter(e, r) THEN e.seqNo ELSE r.dstSeqno
           next == [r EXCEPT !.hops = r.hops + 1, !.dstSeqno = known]
           fs == IF ~WouldLoop(e, f.ip.src) /\ f.ip.ttl > 1
                 THEN Flood(n, f.ip.ttl - 1, next) ELSE {}
<1>1. FirstRequest(f) /\ Handled(f, t, {}, fs)
  BY DEF ForwardRequest
<1>2. /\ OutwardTable(t, n) /\ GoodTable(t, m_seqNo)
      /\ r.dst \in Nodes /\ r.origin # r.dst
      /\ UNCHANGED <<m_queue, search>> /\ UNCHANGED toSend
  BY <1>1, FirstRequestRoutes
<1>3. r \in [kind: {"RREQ"}, origin: Nodes, id: Nat, originSeqno: Nat,
             dst: Nodes, dstSeqno: Nat \cup {Unknown}, hops: Nat]
  BY <1>1, FirstRequestGood
<1>4. known \in Nat \cup {Unknown}
  BY <1>2, <1>3 DEF GoodTable, Entry
<1> HIDE DEF t, e, known
<1>5. next.kind = "RREQ" /\ next.origin = r.origin /\ next.dst = r.dst /\ next.hops = r.hops + 1
  BY <1>3, <1>4, NextHopRequest
<1>6. next.hops # 0 /\ next.origin # next.dst
  BY <1>2, <1>3, <1>5
<1> HIDE DEF next
<1>7. Said(Flood(n, f.ip.ttl - 1, next))
  <2>1. Says(Packet(n, Broadcast, f.ip.ttl - 1, next))
    BY <1>5, <1>6, PacketSays
  <2> QED
    BY <2>1, FloodSays
<1>8. Said(fs) /\ ToOthers({}, n)
  BY <1>7 DEF Said, ToOthers
<1> HIDE DEF fs
<1> QED
  BY <1>1, <1>2, <1>8, ReceiveRoutes

(* A reply, on top of RepliedGood.                                         *)
LEMMA RepliedRoutes ==
  ASSUME IInv, Routes, NEW f \in air, Arrives(f, "RREP")
  PROVE  /\ f.to \in Nodes /\ f.ip.src \in Nodes /\ f.ip.src # f.to /\ Says(f.ip)
         /\ f.ip.body \in [kind: {"RREP"}, dst: Nodes, dstSeqno: Nat, hops: Nat,
                           origin: Nodes, ackRequired: BOOLEAN]
         /\ GoodTable(Replied(f), m_seqNo) /\ OutwardTable(Replied(f), f.to)
         /\ Outward(RouteOf(f.ip.body, f.ip.src), f.to, f.ip.body.dst)
         /\ GoodEntry(RouteOf(f.ip.body, f.ip.src), m_seqNo[f.ip.body.dst])
         /\ ToOthers(Ack(f), f.to)
<1> DEFINE r == f.ip.body
           src == f.ip.src
           t == Neighbored(f)
<1>1. /\ f.to \in Nodes /\ src \in Nodes /\ src # f.to
      /\ r.kind = "RREP" /\ Says(f.ip)
      /\ t \in [Nodes -> Entry] /\ OutwardTable(t, f.to)
  BY ArrivesFacts
<1>2. /\ r \in [kind: {"RREP"}, dst: Nodes, dstSeqno: Nat, hops: Nat,
                origin: Nodes, ackRequired: BOOLEAN]
      /\ GoodTable(Replied(f), m_seqNo)
      /\ GoodEntry(RouteOf(r, src), m_seqNo[r.dst])
  BY <1>1, RepliedGood
<1>3. r.hops = 0 => src = r.dst
  BY <1>1 DEF Says
<1>4. r.dst \in Nodes /\ r.hops \in Nat
  BY <1>2
<1>5. ToOthers(Ack(f), f.to)
  <2> DEFINE b == [kind |-> "RREP_ACK"]
  <2>1. b.kind = "RREP_ACK"
    OBVIOUS
  <2>2. Ack(f) \subseteq {Packet(f.to, src, 1, b)}
    BY DEF Ack
  <2> HIDE DEF b
  <2>3. Says(Packet(f.to, src, 1, b)) /\ Packet(f.to, src, 1, b).dst = src
    BY <2>1, PacketSays
  <2> QED
    BY <1>1, <2>2, <2>3 DEF ToOthers
<1>6. Replied(f) = AfterReply(t, r, src)
  BY DEF Replied
<1> HIDE DEF t, r, src
<1>7. OutwardTable(AfterReply(t, r, src), f.to) /\ Outward(RouteOf(r, src), f.to, r.dst)
  BY <1>1, <1>3, <1>4, ReplyOutward
<1> QED
  BY <1>1, <1>2, <1>5, <1>6, <1>7 DEF r, src

LEMMA ProcessHelloRoutes ==
  ASSUME IInv, Routes, NEW f \in air, ProcessHello(f) PROVE Routes'
<1> DEFINE n == f.to
           r == f.ip.body
           u == Neighbored(f)
           base == NewEntry(TRUE, r.dstSeqno, 1, r.dst)
           hello == [base EXCEPT !.precursors = u[r.dst].precursors]
           t == [u EXCEPT ![r.dst] = hello]
<1>1. /\ Arrives(f, "RREP") /\ IsHello(r) /\ Handled(f, t, {}, {})
      /\ UNCHANGED <<m_queue, search>> /\ UNCHANGED toSend
  BY DEF ProcessHello
<1>2. r.dst \in Nodes /\ r.dst # n
  <2>1. Says(f.ip) /\ f.ip.src # n /\ f.ip.body.kind = "RREP"
    BY <1>1, ArrivesFacts
  <2>2. r.dst \in Nodes
    BY <1>1, RepliedRoutes
  <2> QED
    BY <1>1, <2>1, <2>2 DEF IsHello, Says
<1>3. u \in [Nodes -> Entry] /\ OutwardTable(u, n)
  BY <1>1, ArrivesFacts
<1>4. Outward(hello, n, r.dst)
  <2>1. base.hops = 1 /\ base.nextHop = r.dst
    BY DEF NewEntry
  <2>2. n \notin u[r.dst].precursors
    BY <1>2, <1>3 DEF OutwardTable, Outward
  <2>3. hello.hops = 1 /\ hello.nextHop = r.dst /\ hello.precursors = u[r.dst].precursors
    BY <2>1 DEF NewEntry
  <2> HIDE DEF hello
  <2> QED
    BY <1>2, <2>2, <2>3 DEF Outward, OneHop
<1> HIDE DEF u, hello
<1>5. OutwardTable(t, n)
  <2> DEFINE d == r.dst
  <2>1. d \in Nodes /\ Outward(hello, n, d)
    BY <1>2, <1>4
  <2> HIDE DEF d
  <2>2. OutwardTable([u EXCEPT ![d] = hello], n)
    BY <1>3, <2>1, OutwardWith
  <2> QED
    BY <2>2 DEF d
<1> HIDE DEF t
<1>6. ToOthers({}, n) /\ Said({})
  BY DEF ToOthers, Said
<1> QED
  BY <1>1, <1>5, <1>6, ReceiveRoutes

LEMMA RelayReplyRoutes ==
  ASSUME IInv, Routes, NEW f \in air, RelayReply(f) PROVE Routes'
<1> DEFINE n == f.to
           r == f.ip.body
           t == Replied(f)
           o == t[r.origin]
           next == [r EXCEPT !.hops = r.hops + 1, !.ackRequired = FALSE]
           forwarded == IF f.ip.ttl > 1 THEN {Packet(n, o.nextHop, f.ip.ttl - 1, next)} ELSE {}
           u == AfterRelay(t, r.dst, r.origin)
           ps == Ack(f) \cup forwarded
<1>1. /\ Arrives(f, "RREP") /\ ~IsHello(r)
      /\ UNCHANGED <<m_queue, search>> /\ UNCHANGED toSend
      /\ IF NoReverseRoute(f) THEN Handled(f, t, Ack(f), {}) ELSE Handled(f, u, ps, {})
  BY DEF RelayReply
<1>2. /\ r \in [kind: {"RREP"}, dst: Nodes, dstSeqno: Nat, hops: Nat,
                origin: Nodes, ackRequired: BOOLEAN]
      /\ GoodTable(t, m_seqNo) /\ OutwardTable(t, n) /\ ToOthers(Ack(f), n)
  BY <1>1, RepliedRoutes
<1>3. Said({})
  BY DEF Said
<1>4. CASE NoReverseRoute(f)
  <2> HIDE DEF t
  <2> QED
    BY <1>1, <1>2, <1>3, <1>4, ReceiveRoutes
<1>5. CASE ~NoReverseRoute(f)
  <2>1. o.flag \notin {"NONE", "IN_SEARCH"}
    BY <1>5 DEF NoReverseRoute
  <2>2. r.origin \in Nodes /\ r.dst \in Nodes /\ m_seqNo \in [Nodes -> Nat]
    BY <1>2 DEF IInv, Counts
  <2>3. o.nextHop # n
    BY <1>2, <2>2 DEF OutwardTable, Outward
  <2> HIDE DEF t
  <2>4. OutwardTable(u, n)
    BY <1>2, <2>1, <2>2, RelayOutward
  <2> HIDE DEF u
  <2>5. next.kind = "RREP" /\ next.dst = r.dst /\ next.origin = r.origin /\ next.hops = r.hops + 1
    BY <1>2, NextHopReply
  <2>6. next.hops # 0 /\ next.dst # next.origin
    BY <1>1, <1>2, <2>5 DEF IsHello
  <2> HIDE DEF next, o
  <2>7. ToOthers(ps, n)
    <3> DEFINE p == Packet(n, o.nextHop, f.ip.ttl - 1, next)
    <3>1. p.dst # n /\ Says(p)
      BY <2>3, <2>5, <2>6, PacketSays
    <3> HIDE DEF p
    <3> QED
      BY <1>2, <3>1 DEF ToOthers, p
  <2> HIDE DEF ps
  <2> QED
    BY <1>1, <1>3, <1>5, <2>4, <2>7, ReceiveRoutes
<1> QED
  BY <1>4, <1>5

LEMMA RecvReplyAckRoutes ==
  ASSUME IInv, Routes, NEW f \in air, RecvReplyAck(f) PROVE Routes'
<1> DEFINE src == f.ip.src
           u == Neighbored(f)
           e == u[src]
           e1 == [e EXCEPT !.flag = "VALID", !.reqCount = 0]
           t == [u EXCEPT ![src] = e1]
<1>1. /\ Arrives(f, "RREP_ACK") /\ UNCHANGED <<m_queue, search>> /\ UNCHANGED toSend
      /\ Handled(f, [u EXCEPT ![src].flag = "VALID", ![src].reqCount = 0], {}, {})
  BY DEF RecvReplyAck
<1>2. /\ src \in Nodes /\ u \in [Nodes -> Entry] /\ OutwardTable(u, f.to)
      /\ e.hops = 1 /\ e.nextHop = src
  BY <1>1, ArrivesFacts
<1>3. e \in Entry /\ Outward(e, f.to, src)
  BY <1>2 DEF OutwardTable
<1> HIDE DEF u
<1>4. [u EXCEPT ![src].flag = "VALID", ![src].reqCount = 0] = t
  BY <1>2, <1>3
<1> HIDE DEF e
<1>5. e1.nextHop = e.nextHop /\ e1.precursors = e.precursors /\ e1.hops = e.hops
  BY <1>3 DEF Entry
<1> HIDE DEF e1
<1>6. Outward(e1, f.to, src)
  BY <1>2, <1>3, <1>5 DEF Outward, OneHop
<1>7. OutwardTable(t, f.to)
  BY <1>2, <1>6, OutwardWith
<1>8. Handled(f, t, {}, {}) /\ ToOthers({}, f.to) /\ Said({})
  BY <1>1, <1>4 DEF ToOthers, Said
<1> HIDE DEF t
<1> QED
  BY <1>1, <1>7, <1>8, ReceiveRoutes

(* A queue that has only lost packets.                                     *)
LEMMA QueuesOutward ==
  ASSUME Routes, \A n \in Nodes : PacketsOf(m_queue'[n]) \subseteq PacketsOf(m_queue[n])
  PROVE  \A n \in Nodes : ToOthers(PacketsOf(m_queue'[n]), n)
BY DEF Routes, MailOutward, ToOthers

LEMMA FlushedSays ==
  ASSUME Routes, NEW n \in Nodes, NEW d, NEW hop PROVE Said(Flushed(n, d, hop))
<1>1. ASSUME NEW f \in Flushed(n, d, hop) PROVE f.ip \in PacketsOf(m_queue[n])
  BY DEF Flushed, Frame, Waiting
<1> QED
  BY <1>1 DEF Said, Routes, MailOutward, ToOthers

LEMMA RecvReplyRoutes ==
  ASSUME IInv, Routes, NEW f \in air, RecvReply(f) PROVE Routes'
<1> DEFINE n == f.to
           r == f.ip.body
           found == InSearch(Neighbored(f), r.dst)
           e == RouteOf(r, f.ip.src)
           u == Replied(f)
           t == IF found THEN [u EXCEPT ![r.dst] = e] ELSE u
           fs == Flushed(n, r.dst, t[r.dst].nextHop)
<1>1. /\ Arrives(f, "RREP") /\ UNCHANGED toSend /\ UNCHANGED delayed
      /\ Handled(f, t, Ack(f), fs)
      /\ m_addressReqTimer' = [m_addressReqTimer EXCEPT ![n] = IF found THEN @ \ {r.dst} ELSE @]
      /\ m_queue' = [m_queue EXCEPT ![n] = Rest(@, r.dst)]
  BY DEF RecvReply
<1>2. /\ n \in Nodes /\ r.dst \in Nodes /\ GoodTable(u, m_seqNo) /\ OutwardTable(u, n)
      /\ Outward(e, n, r.dst) /\ ToOthers(Ack(f), n)
  BY <1>1, RepliedRoutes
<1> HIDE DEF e, u
<1>3. OutwardTable(t, n)
  <2> DEFINE d == r.dst
  <2>1. d \in Nodes /\ Outward(e, n, d) /\ u \in [Nodes -> Entry]
    BY <1>2 DEF GoodTable
  <2> HIDE DEF d
  <2>2. OutwardTable([u EXCEPT ![d] = e], n)
    BY <1>2, <2>1, OutwardWith
  <2> QED
    BY <1>2, <2>2 DEF d
<1> HIDE DEF t
<1>4. Said(fs)
  BY <1>2, FlushedSays
<1> HIDE DEF fs
<1>5. OthersSought'
  <2>1. \A m \in Nodes : m_addressReqTimer'[m] \subseteq m_addressReqTimer[m]
    BY <1>1 DEF IInv, Counts
  <2> QED
    BY <1>1, <2>1 DEF Routes, OthersSought
<1>6. \A m \in Nodes : ToOthers(PacketsOf(m_queue'[m]), m)
  <2>1. /\ \A m \in Nodes \ {n} : m_queue'[m] = m_queue[m]
        /\ PacketsOf(m_queue'[n]) \subseteq {p \in PacketsOf(m_queue[n]) : p.dst # r.dst}
    BY <1>1, <1>2, RestGood DEF IInv
  <2>2. \A m \in Nodes : PacketsOf(m_queue'[m]) \subseteq PacketsOf(m_queue[m])
    BY <2>1
  <2> QED
    BY <2>2, QueuesOutward
<1>7. \A m \in Nodes : ToOthers(toSend'[m], m)
  BY <1>1 DEF Routes, MailOutward
<1> QED
  BY <1>1, <1>2, <1>3, <1>4, <1>5, <1>6, <1>7, HandledRoutes

LEMMA ErrorsOutward ==
  ASSUME NEW n, NEW t, NEW un, NEW to, n \notin to
  PROVE  ToOthers(ErrorUnicast(n, t, un, to), n) /\ Said(ErrorBroadcast(n, t, un, to))
<1> DEFINE b == Error(un)
<1>1. b.kind \notin {"RREQ", "RREP"}
  BY DEF Error
<1> HIDE DEF b
<1>2. \A p, ttl : Says(Packet(n, p, ttl, b)) /\ Packet(n, p, ttl, b).dst = p
  BY <1>1, PacketSays
<1>3. Said(Flood(n, 1, b))
  BY <1>2, FloodSays
<1>4. ToOthers(ErrorUnicast(n, t, un, to), n)
  BY <1>2 DEF ToOthers, ErrorUnicast, b
<1>5. Said(ErrorBroadcast(n, t, un, to))
  BY <1>3 DEF Said, ErrorBroadcast, b
<1> QED
  BY <1>4, <1>5

LEMMA NoOwnPrecursor ==
  ASSUME NEW n, NEW t, OutwardTable(t, n), NEW ds \in SUBSET Nodes
  PROVE  n \notin Precursors(t, ds)
BY DEF Precursors, OutwardTable, Outward

LEMMA RecvErrorRoutes ==
  ASSUME IInv, Routes, NEW f \in air, RecvError(f) PROVE Routes'
<1> DEFINE n == f.to
           t == Neighbored(f)
           un == f.ip.body.unreachable \cap WithNextHop(t, f.ip.src)
           to == Precursors(t, un)
           u == Invalidate(t, un)
           fs == ErrorBroadcast(n, t, un, to)
           ps == ErrorUnicast(n, t, un, to)
<1>1. /\ Arrives(f, "RERR") /\ Handled(f, u, {}, fs) /\ UNCHANGED <<m_queue, search>>
      /\ toSend' = [toSend EXCEPT ![n] = @ \cup ps]
  BY DEF RecvError
<1>2. n \in Nodes /\ t \in [Nodes -> Entry] /\ OutwardTable(t, n)
  BY <1>1, ArrivesFacts
<1>3. un \in SUBSET Nodes
  BY DEF WithNextHop
<1> HIDE DEF t, un
<1>4. n \notin to
  BY <1>2, <1>3, NoOwnPrecursor
<1> HIDE DEF to
<1>5. ToOthers(ps, n) /\ Said(fs)
  BY <1>4, ErrorsOutward
<1>6. OutwardTable(u, n)
  BY <1>2, InvalidateOutward
<1> HIDE DEF u, fs, ps
<1>7. OthersSought'
  BY <1>1 DEF Routes, OthersSought, search
<1>8. \A m \in Nodes : ToOthers(toSend'[m], m)
  BY <1>1, <1>2, <1>5 DEF IInv, Mail, Routes, MailOutward, ToOthers
<1>9. \A m \in Nodes : ToOthers(PacketsOf(m_queue'[m]), m)
  BY <1>1 DEF Routes, MailOutward
<1>10. ToOthers({}, n)
  BY DEF ToOthers
<1> QED
  BY <1>1, <1>5, <1>6, <1>7, <1>8, <1>9, <1>10, HandledRoutes

(* A step that leaves tables, queues and searches alone.                   *)
LEMMA MailRoutes ==
  ASSUME Routes, UNCHANGED <<m_routingTable, m_queue, search>>, Said(air'),
         \A n \in Nodes : ToOthers(loopback'[n], n) /\ ToOthers(toSend'[n], n)
  PROVE  Routes'
<1>1. OutwardTables' /\ OthersSought'
  BY DEF Routes, OutwardTables, OthersSought, search
<1>2. \A n \in Nodes : ToOthers(PacketsOf(m_queue'[n]), n)
  BY DEF Routes, MailOutward
<1> QED
  BY <1>1, <1>2 DEF Routes, MailOutward

LEMMA ReceiveDataRoutes ==
  ASSUME IInv, Routes, NEW f \in air, ReceiveData(f) PROVE Routes'
<1>1. UNCHANGED <<m_routingTable, m_queue, search>> /\ air' = air \ {f}
      /\ UNCHANGED <<loopback, toSend>>
  BY DEF ReceiveData
<1>2. Said(air') /\ \A n \in Nodes : ToOthers(loopback'[n], n) /\ ToOthers(toSend'[n], n)
  BY <1>1 DEF Routes, MailOutward, Said
<1> QED
  BY <1>1, <1>2, MailRoutes

LEMMA ForwardingRoutes ==
  ASSUME IInv, Routes, NEW f \in air, Forwarding(f) PROVE Routes'
<1> DEFINE n == f.to
           p == f.ip
           hop == m_routingTable[n][p.dst].nextHop
           on == [p EXCEPT !.ttl = p.ttl - 1]
           fs == IF p.ttl > 1 THEN Frame(n, hop, on) ELSE {}
<1>1. /\ UNCHANGED <<m_routingTable, m_queue, search>> /\ UNCHANGED <<loopback, toSend>>
      /\ air' = (air \ {f}) \cup fs
  BY DEF Forwarding
<1>2. Says(p)
  BY DEF Routes, MailOutward, Said
<1>3. on.src = p.src /\ on.body = p.body
  <2> DEFINE ttl == p.ttl - 1
  <2>1. p \in IPPacket
    BY FrameFacts DEF IInv
  <2> HIDE DEF ttl, p
  <2> QED
    BY <2>1 DEF IPPacket
<1> HIDE DEF on
<1>4. Says(on)
  BY <1>2, <1>3 DEF Says
<1>5. Said(fs)
  BY <1>4 DEF Said, Frame
<1> HIDE DEF fs
<1>6. Said(air') /\ \A m \in Nodes : ToOthers(loopback'[m], m) /\ ToOthers(toSend'[m], m)
  BY <1>1, <1>5 DEF Routes, MailOutward, Said
<1> QED
  BY <1>1, <1>6, MailRoutes

LEMMA DiscardRoutes ==
  ASSUME IInv, Routes, NEW f \in air, Discard(f) PROVE Routes'
<1> DEFINE n == f.to
           t == m_routingTable[n]
           own == f.ip.src = n
           b == Error({f.ip.dst})
           ps == IF own THEN {} ELSE ErrorToSource(n, t, f.ip)
           fs == IF own THEN {} ELSE ErrorToAll(n, t, f.ip)
<1>1. Handled(f, t, ps, fs) /\ UNCHANGED <<m_queue, search>> /\ UNCHANGED toSend
  BY DEF Discard
<1>2. n \in Nodes /\ f.ip.src \in Nodes
  BY FrameFacts DEF IInv
<1>3. OutwardTable(t, n) /\ t[f.ip.src].nextHop # n
  BY <1>2 DEF Routes, OutwardTables, OutwardTable, Outward
<1>4. b.kind \notin {"RREQ", "RREP"}
  BY DEF Error
<1> HIDE DEF b, t
<1>5. \A to, ttl : Says(Packet(n, to, ttl, b)) /\ Packet(n, to, ttl, b).dst = to
  BY <1>4, PacketSays
<1>6. ToOthers(ps, n)
  BY <1>3, <1>5 DEF ToOthers, ErrorToSource, b
<1>7. Said(fs)
  <2>1. Said(Flood(n, 1, b))
    BY <1>5, FloodSays
  <2> QED
    BY <2>1 DEF Said, ErrorToAll, b
<1> HIDE DEF ps, fs
<1> QED
  BY <1>1, <1>3, <1>6, <1>7, ReceiveRoutes

-----------------------------------------------------------------------------
(* Requests.                                                               *)

LEMMA OriginateRoutes ==
  ASSUME IInv, Routes, NEW n \in Nodes, NEW d \in Nodes, d # n, Originate(n, d)
  PROVE  /\ OutwardTables' /\ Said(air')
         /\ \A m \in Nodes : m \notin m_addressReqTimer'[m]
<1> DEFINE e == m_routingTable[n][d]
           b == Request(n, d)
           t == [m_routingTable[n] EXCEPT ![d] = Searched(e)]
<1>1. SetTable(n, t) /\ air' = air \cup Flood(n, NextTtl(e), b)
      /\ m_addressReqTimer' = [m_addressReqTimer EXCEPT ![n] = @ \cup {d}]
  <2>1. SetTable(n, [m_routingTable[n] EXCEPT ![d] = Searched(@)])
    BY DEF Originate
  <2>2. [m_routingTable[n] EXCEPT ![d] = Searched(@)] = t
    BY DEF IInv, Tables
  <2> QED
    BY <2>1, <2>2 DEF Originate
<1>2. m_routingTable \in [Nodes -> [Nodes -> Entry]] /\ e \in Entry /\ Leads(e)
      /\ OutwardTable(m_routingTable[n], n) /\ Outward(e, n, d)
  BY DEF IInv, Tables, GoodTable, GoodEntry, Routes, OutwardTables, OutwardTable
<1>3. Outward(Searched(e), n, d)
  BY <1>2, SearchedOutward
<1>4. OutwardTable(t, n)
  BY <1>2, <1>3, OutwardWith
<1> HIDE DEF t
<1>5. OutwardTables'
  BY <1>1, <1>2, <1>4 DEF Routes, OutwardTables, SetTable
<1>6. Said(air')
  <2>1. b.kind = "RREQ" /\ b.origin = n /\ b.dst = d
    BY DEF Request
  <2> HIDE DEF b
  <2>2. Says(Packet(n, Broadcast, NextTtl(e), b))
    BY <2>1, PacketSays
  <2>3. Said(Flood(n, NextTtl(e), b))
    BY <2>2, FloodSays
  <2> QED
    BY <1>1, <2>3 DEF Routes, MailOutward, Said
<1>7. \A m \in Nodes : m \notin m_addressReqTimer'[m]
  BY <1>1 DEF IInv, Counts, Routes, OthersSought
<1> QED
  BY <1>5, <1>6, <1>7

LEMMA SendRequestRoutes ==
  ASSUME IInv, Routes, NEW n \in Nodes, NEW d \in Nodes, d # n,
         NEW timers \in SUBSET m_addressReqTimer[n], SendRequest(n, d, timers)
  PROVE  OutwardTables' /\ Said(air') /\ OthersSought'
<1>1. CASE Originate(n, d) /\ UNCHANGED delayed
  <2>1. OutwardTables' /\ Said(air') /\ \A m \in Nodes : m \notin m_addressReqTimer'[m]
    BY <1>1, OriginateRoutes
  <2> QED
    BY <1>1, <2>1 DEF Routes, OthersSought
<1>2. CASE Postpone(n, d, timers)
  <2>1. /\ delayed' = [delayed EXCEPT ![n][d] = @ + 1]
        /\ m_addressReqTimer' = [m_addressReqTimer EXCEPT ![n] = timers]
        /\ UNCHANGED <<m_routingTable, air>>
    BY <1>2 DEF Postpone
  <2>2. \A m \in Nodes : delayed'[m][m] = delayed[m][m]
    BY <2>1 DEF IInv, Counts
  <2>3. \A m \in Nodes : m_addressReqTimer'[m] \subseteq m_addressReqTimer[m]
    BY <2>1 DEF IInv, Counts
  <2>4. OthersSought'
    BY <2>2, <2>3 DEF Routes, OthersSought
  <2>5. OutwardTables' /\ Said(air')
    BY <2>1 DEF Routes, OutwardTables, MailOutward
  <2> QED
    BY <2>4, <2>5
<1> QED
  BY <1>1, <1>2 DEF SendRequest

LEMMA DeferredRouteOutputRoutes ==
  ASSUME IInv, Routes, NEW n \in Nodes, NEW p \in loopback[n], DeferredRouteOutput(n, p)
  PROVE  Routes'
<1> DEFINE P == Unicasts(m_seqNo)
           q == m_queue[n]
<1>1. loopback \in [Nodes -> SUBSET P] /\ m_queue \in [Nodes -> Seq(P)] /\ p.dst \in Nodes
  BY DEF IInv, Mail, Unicasts, Unicast
<1>2. p.dst # n /\ Says(p)
  BY DEF Routes, MailOutward, ToOthers
<1>3. /\ loopback' = [loopback EXCEPT ![n] = @ \ {p}]
      /\ m_queue' = [m_queue EXCEPT ![n] = Enqueue(q, p)]
      /\ UNCHANGED toSend
  BY DEF DeferredRouteOutput
<1> HIDE DEF P
<1>4. PacketsOf(Enqueue(q, p)) \subseteq PacketsOf(q) \cup {p}
  <2>1. q \in Seq(P) /\ p \in P
    BY <1>1
  <2> HIDE DEF q
  <2> QED
    BY <2>1, EnqueueGood
<1>5. \A m \in Nodes : ToOthers(loopback'[m], m)
  BY <1>1, <1>3 DEF Routes, MailOutward, ToOthers
<1>6. \A m \in Nodes : ToOthers(PacketsOf(m_queue'[m]), m)
  <2>1. m_queue'[n] = Enqueue(q, p) /\ \A m \in Nodes \ {n} : m_queue'[m] = m_queue[m]
    BY <1>1, <1>3
  <2> QED
    BY <1>2, <1>4, <2>1 DEF Routes, MailOutward, ToOthers
<1>7. OutwardTables' /\ Said(air') /\ OthersSought'
  <2>1. CASE InSearch(m_routingTable[n], p.dst)
    BY <2>1 DEF DeferredRouteOutput, search, Routes, OutwardTables, MailOutward, OthersSought
  <2>2. CASE ~InSearch(m_routingTable[n], p.dst)
    <3>1. SendRequest(n, p.dst, m_addressReqTimer[n])
      BY <2>2 DEF DeferredRouteOutput
    <3> QED
      BY <1>1, <1>2, <3>1, SendRequestRoutes
  <2> QED
    BY <2>1, <2>2
<1> QED
  BY <1>3, <1>5, <1>6, <1>7 DEF Routes, MailOutward

LEMMA DelayedRequestRoutes ==
  ASSUME IInv, Routes, NEW n \in Nodes, NEW d \in Nodes, DelayedRequest(n, d) PROVE Routes'
<1>1. /\ Originate(n, d) /\ delayed' = [delayed EXCEPT ![n][d] = @ - 1] /\ delayed[n][d] > 0
      /\ UNCHANGED <<m_queue, loopback, toSend>>
  BY DEF DelayedRequest
<1>2. d # n
  BY <1>1 DEF Routes, OthersSought
<1>3. OutwardTables' /\ Said(air') /\ \A m \in Nodes : m \notin m_addressReqTimer'[m]
  BY <1>1, <1>2, OriginateRoutes
<1>4. \A m \in Nodes : delayed'[m][m] = delayed[m][m]
  BY <1>1, <1>2 DEF IInv, Counts
<1> QED
  BY <1>1, <1>3, <1>4 DEF Routes, OthersSought, MailOutward

LEMMA RouteRequestTimerExpireRoutes ==
  ASSUME IInv, Routes, NEW n \in Nodes, NEW d \in Nodes, RouteRequestTimerExpire(n, d)
  PROVE  Routes'
<1> DEFINE e == m_routingTable[n][d]
           timers == m_addressReqTimer[n] \ {d}
<1>1. d # n /\ UNCHANGED <<loopback, toSend>>
  BY DEF RouteRequestTimerExpire, Routes, OthersSought
<1>2. \A m \in Nodes : ToOthers(loopback'[m], m) /\ ToOthers(toSend'[m], m)
  BY <1>1 DEF Routes, MailOutward
<1>3. ASSUME m_queue' = [m_queue EXCEPT ![n] = Rest(@, d)]
      PROVE  \A m \in Nodes : ToOthers(PacketsOf(m_queue'[m]), m)
  <2>1. /\ \A m \in Nodes \ {n} : m_queue'[m] = m_queue[m]
        /\ PacketsOf(m_queue'[n]) \subseteq {p \in PacketsOf(m_queue[n]) : p.dst # d}
    BY <1>3, RestGood DEF IInv
  <2>2. \A m \in Nodes : PacketsOf(m_queue'[m]) \subseteq PacketsOf(m_queue[m])
    BY <2>1
  <2> QED
    BY <2>2, QueuesOutward
<1>4. ASSUME m_addressReqTimer' = [m_addressReqTimer EXCEPT ![n] = timers], UNCHANGED delayed
      PROVE  OthersSought'
  <2>1. \A m \in Nodes : m_addressReqTimer'[m] \subseteq m_addressReqTimer[m]
    BY <1>4 DEF IInv, Counts
  <2> QED
    BY <1>4, <2>1 DEF Routes, OthersSought
<1>5. CASE /\ air' = air \cup Flushed(n, d, e.nextHop)
           /\ m_queue' = [m_queue EXCEPT ![n] = Rest(@, d)]
           /\ m_addressReqTimer' = [m_addressReqTimer EXCEPT ![n] = timers]
           /\ UNCHANGED <<m_routingTable, delayed>>
  <2>1. Said(air')
    BY <1>5, FlushedSays DEF Routes, MailOutward, Said
  <2>2. OutwardTables'
    BY <1>5 DEF Routes, OutwardTables
  <2> QED
    BY <1>2, <1>3, <1>4, <1>5, <2>1, <2>2 DEF Routes, MailOutward
<1>6. CASE SendRequest(n, d, timers) /\ UNCHANGED m_queue
  <2>1. timers \in SUBSET m_addressReqTimer[n]
    OBVIOUS
  <2>2. OutwardTables' /\ Said(air') /\ OthersSought'
    BY <1>1, <1>6, <2>1, SendRequestRoutes
  <2> QED
    BY <1>2, <1>6, <2>2 DEF Routes, MailOutward
<1>7. CASE /\ SetTable(n, [m_routingTable[n] EXCEPT ![d] = NoEntry])
           /\ m_queue' = [m_queue EXCEPT ![n] = Rest(@, d)]
           /\ m_addressReqTimer' = [m_addressReqTimer EXCEPT ![n] = timers]
           /\ UNCHANGED <<delayed, air>>
  <2> DEFINE t == [m_routingTable[n] EXCEPT ![d] = NoEntry]
  <2>1. m_routingTable \in [Nodes -> [Nodes -> Entry]] /\ OutwardTable(m_routingTable[n], n)
        /\ Outward(NoEntry, n, d)
    BY NoEntryOutward DEF IInv, Tables, Routes, OutwardTables
  <2>2. OutwardTable(t, n)
    BY <2>1, OutwardWith
  <2> HIDE DEF t
  <2>3. SetTable(n, t)
    BY <1>7 DEF t
  <2>4. OutwardTables'
    BY <2>1, <2>2, <2>3 DEF Routes, OutwardTables, SetTable
  <2>5. Said(air')
    BY <1>7 DEF Routes, MailOutward
  <2> QED
    BY <1>2, <1>3, <1>4, <1>7, <2>4, <2>5 DEF Routes, MailOutward
<1> QED
  BY <1>5, <1>6, <1>7 DEF RouteRequestTimerExpire

LEMMA RreqRateLimitTimerExpireRoutes ==
  ASSUME Routes, NEW n \in Nodes, RreqRateLimitTimerExpire(n) PROVE Routes'
BY DEF RreqRateLimitTimerExpire, Routes, OutwardTables, OthersSought, MailOutward

-----------------------------------------------------------------------------
(* The surroundings of a node.                                             *)

LEMMA RoutedRoutes ==
  ASSUME IInv, Routes, NEW n \in Nodes, NEW p, p.dst # n, Says(p),
         UNCHANGED <<m_routingTable, m_queue, search>>,
         air' = air \cup Routed(n, m_routingTable[n], {p}),
         loopback' = [loopback EXCEPT ![n] = @ \cup Unrouted(m_routingTable[n], {p})],
         \A m \in Nodes : ToOthers(toSend'[m], m)
  PROVE  Routes'
<1>1. ToOthers({p}, n)
  BY DEF ToOthers
<1>2. /\ Said(Routed(n, m_routingTable[n], {p}))
      /\ ToOthers(Unrouted(m_routingTable[n], {p}), n)
  BY <1>1, RoutedSays
<1>3. Said(air')
  BY <1>2 DEF Routes, MailOutward, Said
<1>4. \A m \in Nodes : ToOthers(loopback'[m], m)
  BY <1>2 DEF IInv, Mail, Routes, MailOutward, ToOthers
<1> QED
  BY <1>3, <1>4, MailRoutes

LEMMA RouteOutputRoutes ==
  ASSUME IInv, Routes, NEW n \in Nodes, NEW d \in Nodes, RouteOutput(n, d) PROVE Routes'
<1> DEFINE b == [kind |-> "DATA", id |-> sent + 1]
           p == Packet(n, d, DataTtl, b)
<1>1. /\ air' = air \cup Routed(n, m_routingTable[n], {p})
      /\ loopback' = [loopback EXCEPT ![n] = @ \cup Unrouted(m_routingTable[n], {p})]
      /\ UNCHANGED <<m_routingTable, m_queue, search>> /\ UNCHANGED toSend
  BY DEF RouteOutput
<1>2. <<n, d>> \in Flows
  BY DEF RouteOutput
<1>3. d # n
  BY <1>2, FlowsAssumption
<1>4. p.dst # n /\ Says(p)
  <2>1. b.kind = "DATA"
    OBVIOUS
  <2> HIDE DEF b
  <2> QED
    BY <1>3, <2>1, PacketSays
<1>5. \A m \in Nodes : ToOthers(toSend'[m], m)
  BY <1>1 DEF Routes, MailOutward
<1> HIDE DEF p
<1> QED
  BY <1>1, <1>4, <1>5, RoutedRoutes

LEMMA SendToRoutes ==
  ASSUME IInv, Routes, NEW n \in Nodes, NEW p \in toSend[n], SendTo(n, p) PROVE Routes'
<1>1. /\ toSend' = [toSend EXCEPT ![n] = @ \ {p}]
      /\ UNCHANGED <<m_routingTable, m_queue, search>>
      /\ air' = air \cup Routed(n, m_routingTable[n], {p})
      /\ loopback' = [loopback EXCEPT ![n] = @ \cup Unrouted(m_routingTable[n], {p})]
  BY DEF SendTo
<1>2. p.dst # n /\ Says(p)
  BY DEF Routes, MailOutward, ToOthers
<1>3. \A m \in Nodes : ToOthers(toSend'[m], m)
  BY <1>1 DEF IInv, Mail, Routes, MailOutward, ToOthers
<1> QED
  BY <1>1, <1>2, <1>3, RoutedRoutes

LEMMA SendHelloRoutes ==
  ASSUME IInv, Routes, NEW n \in Nodes, SendHello(n) PROVE Routes'
<1> DEFINE b == Reply(n, m_seqNo[n], 0, n, FALSE)
<1>1. /\ air' = air \cup Flood(n, 1, b)
      /\ UNCHANGED <<m_routingTable, m_queue, search>> /\ UNCHANGED <<loopback, toSend>>
  BY DEF SendHello
<1>2. Said(Flood(n, 1, b))
  <2>1. b.kind = "RREP" /\ b.dst = n
    BY DEF Reply
  <2> HIDE DEF b
  <2>2. Says(Packet(n, Broadcast, 1, b))
    BY <2>1, PacketSays
  <2> QED
    BY <2>2, FloodSays
<1> HIDE DEF b
<1>3. Said(air') /\ \A m \in Nodes : ToOthers(loopback'[m], m) /\ ToOthers(toSend'[m], m)
  BY <1>1, <1>2 DEF Routes, MailOutward, Said
<1> QED
  BY <1>1, <1>3, MailRoutes

LEMMA TableRoutes ==
  ASSUME IInv, Routes, NEW n \in Nodes, NEW t, SetTable(n, t), OutwardTable(t, n),
         UNCHANGED <<m_queue, loopback, search>>, Said(air'),
         \A m \in Nodes : ToOthers(toSend'[m], m)
  PROVE  Routes'
<1>1. OutwardTables'
  BY DEF IInv, Tables, Routes, OutwardTables, SetTable
<1>2. OthersSought'
  BY DEF Routes, OthersSought, search
<1>3. \A m \in Nodes : ToOthers(PacketsOf(m_queue'[m]), m) /\ ToOthers(loopback'[m], m)
  BY DEF Routes, MailOutward
<1> QED
  BY <1>1, <1>2, <1>3 DEF Routes, MailOutward

LEMMA RouteExpiresRoutes ==
  ASSUME IInv, Routes, NEW n \in Nodes, NEW d \in Nodes, RouteExpires(n, d) PROVE Routes'
<1> DEFINE t == Purge(m_routingTable[n], d)
<1>1. OutwardTable(t, n)
  BY PurgeOutward DEF IInv, Tables, Routes, OutwardTables
<1>2. SetTable(n, t) /\ UNCHANGED <<m_queue, loopback, search>> /\ UNCHANGED <<air, toSend>>
  BY DEF RouteExpires
<1> HIDE DEF t
<1>3. Said(air') /\ \A m \in Nodes : ToOthers(toSend'[m], m)
  BY <1>2 DEF Routes, MailOutward
<1> QED
  BY <1>1, <1>2, <1>3, TableRoutes

LEMMA BreaksLinkRoutes ==
  ASSUME IInv, Routes, NEW n \in Nodes, NEW h \in Nodes, SendRerrWhenBreaksLinkToNextHop(n, h)
  PROVE  Routes'
<1> DEFINE t == m_routingTable[n]
           un == {h} \cup WithNextHop(t, h)
           to == Precursors(t, un)
           u == Invalidate(t, un)
           fs == ErrorBroadcast(n, t, un, to)
           ps == ErrorUnicast(n, t, un, to)
<1>1. /\ UNCHANGED <<m_queue, loopback, search>>
      /\ \/ UNCHANGED <<m_routingTable, air, toSend>>
         \/ /\ SetTable(n, u) /\ air' = air \cup fs
            /\ toSend' = [toSend EXCEPT ![n] = @ \cup ps]
  BY DEF SendRerrWhenBreaksLinkToNextHop
<1>2. CASE UNCHANGED <<m_routingTable, air, toSend>>
  BY <1>1, <1>2, MailRoutes DEF Routes, MailOutward
<1>3. CASE /\ SetTable(n, u) /\ air' = air \cup fs
           /\ toSend' = [toSend EXCEPT ![n] = @ \cup ps]
  <2>1. t \in [Nodes -> Entry] /\ OutwardTable(t, n)
    BY DEF IInv, Tables, Routes, OutwardTables
  <2>2. un \in SUBSET Nodes
    BY DEF WithNextHop
  <2> HIDE DEF t, un
  <2>3. n \notin to
    BY <2>1, <2>2, NoOwnPrecursor
  <2> HIDE DEF to
  <2>4. ToOthers(ps, n) /\ Said(fs)
    BY <2>3, ErrorsOutward
  <2>5. OutwardTable(u, n)
    BY <2>1, InvalidateOutward
  <2> HIDE DEF u, fs, ps
  <2>6. Said(air') /\ \A m \in Nodes : ToOthers(toSend'[m], m)
    BY <1>3, <2>4 DEF IInv, Mail, Routes, MailOutward, ToOthers, Said
  <2> QED
    BY <1>1, <1>3, <2>5, <2>6, TableRoutes
<1> QED
  BY <1>1, <1>2, <1>3

LEMMA PacketExpiresRoutes ==
  ASSUME IInv, Routes, NEW n \in Nodes, PacketExpires(n) PROVE Routes'
<1> DEFINE P == Unicasts(m_seqNo)
           q == m_queue[n]
<1>1. m_queue \in [Nodes -> Seq(P)] /\ q # <<>> /\ m_queue' = [m_queue EXCEPT ![n] = Tail(q)]
      /\ UNCHANGED <<m_routingTable, loopback, toSend, air, search>>
  BY DEF IInv, Mail, PacketExpires
<1> HIDE DEF P
<1>2. PacketsOf(Tail(q)) \subseteq PacketsOf(q)
  BY <1>1, QueuePackets
<1>3. \A m \in Nodes : PacketsOf(m_queue'[m]) \subseteq PacketsOf(m_queue[m])
  BY <1>1, <1>2
<1>4. \A m \in Nodes : ToOthers(PacketsOf(m_queue'[m]), m)
  BY <1>3, QueuesOutward
<1> QED
  BY <1>1, <1>4 DEF Routes, OutwardTables, OthersSought, MailOutward, search

-----------------------------------------------------------------------------
LEMMA RoutesInit == Init => Routes
<1> SUFFICES ASSUME Init PROVE Routes
  OBVIOUS
<1>1. \A n, d \in Nodes : m_routingTable[n][d] = NoEntry
  BY DEF Init
<1>2. OutwardTables
  BY <1>1, NoEntryOutward DEF OutwardTables, OutwardTable
<1>3. OthersSought
  BY DEF Init, OthersSought
<1>4. MailOutward
  BY DEF Init, MailOutward, ToOthers, Said, PacketsOf
<1> QED
  BY <1>2, <1>3, <1>4 DEF Routes

LEMMA RoutesStep == IInv /\ Routes /\ [Next]_vars => Routes'
<1> SUFFICES ASSUME IInv, Routes, [Next]_vars PROVE Routes'
  OBVIOUS
<1>1. ASSUME NEW f \in air, Receive(f) PROVE Routes'
  BY <1>1, DuplicateRequestRoutes, SendReplyRoutes, SendReplyByIntermediateNodeRoutes,
     ForwardRequestRoutes, ProcessHelloRoutes, RecvReplyRoutes, RelayReplyRoutes,
     RecvReplyAckRoutes, RecvErrorRoutes, ReceiveDataRoutes, ForwardingRoutes, DiscardRoutes
     DEF Receive
<1>2. ASSUME NEW n \in Nodes, Internal(n) PROVE Routes'
  BY <1>2, DeferredRouteOutputRoutes, SendToRoutes, RouteRequestTimerExpireRoutes,
     DelayedRequestRoutes, RreqRateLimitTimerExpireRoutes DEF Internal
<1>3. ASSUME NEW n \in Nodes, External(n) PROVE Routes'
  BY <1>3, RouteOutputRoutes, BreaksLinkRoutes, SendHelloRoutes, RouteExpiresRoutes,
     PacketExpiresRoutes DEF External
<1>4. CASE UNCHANGED vars
  BY <1>4 DEF vars, search, Routes, OutwardTables, OthersSought, MailOutward
<1> QED
  BY <1>1, <1>2, <1>3, <1>4 DEF Next

(* No node is ever its own next hop, precursor or destination, and what    *)
(* has come no hop is from the node it speaks for.                         *)
THEOREM RoutesInvariance == Spec => [](IInv /\ Routes)
<1>1. Init => IInv /\ Routes
  BY InitHolds, RoutesInit
<1>2. IInv /\ Routes /\ [Next]_vars => (IInv /\ Routes)'
  BY StepKeeps, RoutesStep
<1> QED
  BY <1>1, <1>2, PTL DEF Spec

(* Every route that is not being searched leads to another node, and one   *)
(* of one hop straight to its destination.                                 *)
THEOREM RoutesCorrect == Spec => []RoutesLead
<1>1. IInv /\ Routes => RoutesLead
  <2> SUFFICES ASSUME IInv, Routes, NEW n \in Nodes, NEW d \in Nodes,
                      m_routingTable[n][d].flag \in {"VALID", "INVALID"}
               PROVE  /\ m_routingTable[n][d].nextHop \notin {None, n}
                      /\ m_routingTable[n][d].hops = 1 => m_routingTable[n][d].nextHop = d
    BY DEF RoutesLead
  <2>1. GoodEntry(m_routingTable[n][d], m_seqNo[d]) /\ Outward(m_routingTable[n][d], n, d)
    BY DEF IInv, Tables, GoodTable, Routes, OutwardTables, OutwardTable
  <2> QED
    BY <2>1 DEF GoodEntry, Leads, Outward, OneHop
<1> QED
  BY <1>1, RoutesInvariance, PTL

-----------------------------------------------------------------------------
(* Where data packets are.                                                 *)

IsData(p) == p.body.kind = "DATA"
SameData(p, q) == IsData(p) /\ IsData(q) /\ p.body.id = q.body.id

(* No two of the packets carry the same data.                              *)
Once(ps) == \A p, q \in ps : SameData(p, q) => p = q
OnceQueued(q) == \A i, j \in 1..Len(q) : SameData(q[i], q[j]) => i = j
OnceFlying(fs) == \A f, g \in fs : SameData(f.ip, g.ip) => f = g

Queued == [n \in Nodes |-> DataOf(PacketsOf(m_queue[n]))]
Looping == [n \in Nodes |-> DataOf(loopback[n])]
Flying == DataOf({f.ip : f \in air})

Disjoint(q, l, a, v, d) ==
  q \cap l = {} /\ (q \cup l) \cap (a \cup v \cup d) = {} /\ a \cap (v \cup d) = {} /\ v \cap d = {}

Apart(Q, L, A, V, D) ==
  /\ Disjoint({}, {}, A, V, D)
  /\ \A n \in Nodes : Disjoint(Q[n], L[n], A, V, D)
  /\ \A n, m \in Nodes : n # m => (Q[n] \cup L[n]) \cap (Q[m] \cup L[m]) = {}

Numbered(Q, L, A, V, D, k) ==
  /\ \A n \in Nodes : Q[n] \cup L[n] \subseteq 1..k
  /\ A \cup V \cup D \subseteq 1..k

Places ==
  /\ Numbered(Queued, Looping, Flying, delivered, dropped, sent)
  /\ Apart(Queued, Looping, Flying, delivered, dropped)
  /\ \A n \in Nodes : /\ OnceQueued(m_queue[n]) /\ Once(loopback[n])
                      /\ \A p \in toSend[n] : ~IsData(p)
  /\ OnceFlying(air)

LEMMA DataOfIs ==
  ASSUME NEW ps, NEW i
  PROVE  i \in DataOf(ps) <=> \E p \in ps : IsData(p) /\ p.body.id = i
BY DEF DataOf, IsData

LEMMA FlyingIs ==
  ASSUME NEW i
  PROVE  i \in Flying <=> \E f \in air : IsData(f.ip) /\ f.ip.body.id = i
BY DataOfIs DEF Flying

(* Of a queue.                                                             *)
LEMMA RestOnce ==
  ASSUME NEW P, NEW q \in Seq(P), NEW d, OnceQueued(q)
  PROVE  /\ OnceQueued(Rest(q, d))
         /\ DataOf(PacketsOf(Rest(q, d))) \subseteq DataOf(PacketsOf(q)) \ DataOf(Waiting(q, d))
<1> DEFINE c == Cardinality(Kept(q, d))
<1>1. c \in Nat
  BY RestPositions
<1>2. PICK at \in [1..c -> Kept(q, d)] : /\ Rest(q, d) = [j \in 1..c |-> q[at[j]]]
                                         /\ \A j, k \in 1..c : at[j] = at[k] => j = k
  BY RestPositions
<1>3. \A i \in Kept(q, d) : i \in 1..Len(q) /\ q[i] \in P /\ q[i].dst # d
  BY DEF Kept
<1> HIDE DEF c
<1>4. \A j \in 1..c : at[j] \in 1..Len(q) /\ q[at[j]].dst # d /\ q[at[j]] \in P
  BY <1>2, <1>3
<1>5. Len(Rest(q, d)) = c /\ \A j \in 1..c : Rest(q, d)[j] = q[at[j]]
  BY <1>1, <1>2, <1>4
<1>6. OnceQueued(Rest(q, d))
  <2>1. ASSUME NEW j \in 1..c, NEW k \in 1..c, SameData(q[at[j]], q[at[k]]) PROVE j = k
    <3>1. at[j] = at[k]
      BY <1>4, <2>1 DEF OnceQueued
    <3> QED
      BY <1>2, <3>1
  <2> QED
    BY <1>5, <2>1 DEF OnceQueued
<1>7. ASSUME NEW i \in DataOf(PacketsOf(Rest(q, d)))
      PROVE  i \in DataOf(PacketsOf(q)) /\ i \notin DataOf(Waiting(q, d))
  <2>1. PICK p \in PacketsOf(Rest(q, d)) : IsData(p) /\ p.body.id = i
    BY <1>7, DataOfIs
  <2>2. PICK j \in 1..c : p = q[at[j]]
    BY <1>5, <2>1 DEF PacketsOf
  <2>3. at[j] \in 1..Len(q) /\ p.dst # d
    BY <1>4, <2>2
  <2>4. i \in DataOf(PacketsOf(q))
    BY <2>1, <2>2, <2>3, DataOfIs DEF PacketsOf
  <2>5. ASSUME NEW r \in Waiting(q, d), IsData(r), r.body.id = i PROVE FALSE
    <3>1. PICK k \in 1..Len(q) : r = q[k] /\ r.dst = d
      BY DEF Waiting, PacketsOf
    <3>2. k = at[j]
      BY <2>1, <2>2, <2>3, <2>5, <3>1 DEF OnceQueued, SameData
    <3> QED
      BY <2>2, <2>3, <3>1, <3>2
  <2> QED
    BY <2>4, <2>5, DataOfIs
<1> QED
  BY <1>6, <1>7

(* Appending what is not in it, after dropping the oldest if it is full.   *)
LEMMA EnqueueOnce ==
  ASSUME NEW P, NEW q \in Seq(P), NEW p \in P, OnceQueued(q),
         \A r \in PacketsOf(q) : ~SameData(r, p)
  PROVE  /\ OnceQueued(Enqueue(q, p))
         /\ DataOf(PacketsOf(Enqueue(q, p)))
              \subseteq (DataOf(PacketsOf(q)) \ DataOf(Pushed(q))) \cup DataOf({p})
         /\ DataOf(Pushed(q)) \subseteq DataOf(PacketsOf(q))
<1>1. MaxQueueLen \in Nat \ {0}
  BY LimitsAssumption
<1>2. \A i \in 1..Len(q) : ~SameData(q[i], p) /\ ~SameData(p, q[i])
  BY DEF PacketsOf, SameData
<1>3. CASE Len(q) = MaxQueueLen
  <2>1. q # <<>> /\ Len(q) \in Nat \ {0} /\ Head(q) = q[1]
    BY <1>1, <1>3
  <2> DEFINE e == Append(Tail(q), p)
  <2>2. Len(e) = Len(q) /\ \A i \in 1..Len(q) : e[i] = IF i = Len(q) THEN p ELSE q[i + 1]
    BY <2>1
  <2>3. Enqueue(q, p) = e /\ Pushed(q) = {q[1]}
    BY <1>3, <2>1 DEF Enqueue, Pushed
  <2> HIDE DEF e
  <2>4. OnceQueued(e)
    <3>1. ASSUME NEW i \in 1..Len(q), NEW j \in 1..Len(q), SameData(e[i], e[j]) PROVE i = j
      <4>1. CASE i = Len(q)
        BY <1>2, <2>1, <2>2, <3>1, <4>1
      <4>2. CASE j = Len(q)
        BY <1>2, <2>1, <2>2, <3>1, <4>2
      <4>3. CASE i # Len(q) /\ j # Len(q)
        <5>1. i + 1 \in 1..Len(q) /\ j + 1 \in 1..Len(q) /\ SameData(q[i + 1], q[j + 1])
          BY <2>1, <2>2, <3>1, <4>3
        <5>2. i + 1 = j + 1
          BY <5>1 DEF OnceQueued
        <5> QED
          BY <5>2
      <4> QED
        BY <4>1, <4>2, <4>3
    <3> QED
      BY <2>2, <3>1 DEF OnceQueued
  <2>5. ASSUME NEW x \in DataOf(PacketsOf(e))
        PROVE  x \in DataOf({p}) \/ (x \in DataOf(PacketsOf(q)) /\ x \notin DataOf({q[1]}))
    <3>1. PICK i \in 1..Len(q) : IsData(e[i]) /\ e[i].body.id = x
      BY <2>2, <2>5, DataOfIs DEF PacketsOf
    <3>2. CASE i = Len(q)
      BY <2>2, <3>1, <3>2, DataOfIs
    <3>3. CASE i # Len(q)
      <4>1. i + 1 \in 1..Len(q) /\ e[i] = q[i + 1] /\ 1 \in 1..Len(q) /\ i + 1 # 1
        BY <2>1, <2>2, <3>3
      <4>2. x \in DataOf(PacketsOf(q))
        BY <3>1, <4>1, DataOfIs DEF PacketsOf
      <4>3. ~(IsData(q[1]) /\ q[1].body.id = x)
        BY <3>1, <4>1 DEF OnceQueued, SameData
      <4> QED
        BY <4>2, <4>3, DataOfIs
    <3> QED
      BY <3>2, <3>3
  <2>6. DataOf({q[1]}) \subseteq DataOf(PacketsOf(q))
    <3>1. q[1] \in PacketsOf(q)
      BY <2>1 DEF PacketsOf
    <3> QED
      BY <3>1, DataOfIs
  <2> QED
    BY <2>3, <2>4, <2>5, <2>6
<1>4. CASE Len(q) # MaxQueueLen
  <2> DEFINE e == Append(q, p)
  <2>1. Len(e) = Len(q) + 1 /\ Len(q) \in Nat
        /\ \A i \in 1..Len(q) + 1 : e[i] = IF i = Len(q) + 1 THEN p ELSE q[i]
    OBVIOUS
  <2>2. Enqueue(q, p) = e /\ Pushed(q) = {}
    BY <1>4 DEF Enqueue, Pushed
  <2> HIDE DEF e
  <2>3. OnceQueued(e)
    <3>1. ASSUME NEW i \in 1..Len(q) + 1, NEW j \in 1..Len(q) + 1, SameData(e[i], e[j])
          PROVE  i = j
      BY <1>2, <2>1, <3>1 DEF OnceQueued
    <3> QED
      BY <2>1, <3>1 DEF OnceQueued
  <2>4. ASSUME NEW x \in DataOf(PacketsOf(e))
        PROVE  x \in DataOf({p}) \/ x \in DataOf(PacketsOf(q))
    <3>1. PICK i \in 1..Len(q) + 1 : IsData(e[i]) /\ e[i].body.id = x
      BY <2>1, <2>4, DataOfIs DEF PacketsOf
    <3>2. CASE i = Len(q) + 1
      BY <2>1, <3>1, <3>2, DataOfIs
    <3>3. CASE i # Len(q) + 1
      BY <2>1, <3>1, <3>3, DataOfIs DEF PacketsOf
    <3> QED
      BY <3>2, <3>3
  <2>5. DataOf({}) = {}
    BY DataOfIs
  <2> QED
    BY <2>2, <2>3, <2>4, <2>5
<1> QED
  BY <1>3, <1>4

-----------------------------------------------------------------------------
(* What a step of node n does to the places: its own packets, those in the *)
(* air and those done with may change places, others only disappear.       *)
LEMMA StaysApart ==
  ASSUME NEW Q, NEW L, NEW A, NEW V, NEW D, NEW k \in Nat,
         NEW Q1, NEW L1, NEW A1, NEW V1, NEW D1, NEW k1 \in Nat, k <= k1,
         NEW n \in Nodes,
         Apart(Q, L, A, V, D), Numbered(Q, L, A, V, D, k),
         \A m \in Nodes \ {n} : Q1[m] \subseteq Q[m] /\ L1[m] \subseteq L[m],
         Disjoint(Q1[n], L1[n], A1, V1, D1),
         Q1[n] \cup L1[n] \cup A1 \cup V1 \cup D1
           \subseteq Q[n] \cup L[n] \cup A \cup V \cup D \cup ((k + 1)..k1)
  PROVE  Apart(Q1, L1, A1, V1, D1) /\ Numbered(Q1, L1, A1, V1, D1, k1)
<1> DEFINE here == Q[n] \cup L[n] \cup A \cup V \cup D
           here1 == Q1[n] \cup L1[n] \cup A1 \cup V1 \cup D1
<1>1. 1..k \subseteq 1..k1 /\ (k + 1)..k1 \subseteq 1..k1 /\ 1..k \cap (k + 1)..k1 = {}
  OBVIOUS
<1>2. here1 \subseteq 1..k1
  BY <1>1 DEF Numbered
<1>3. ASSUME NEW m \in Nodes, m # n
      PROVE  /\ (Q[m] \cup L[m]) \cap here = {}
             /\ Q[m] \cup L[m] \subseteq 1..k
             /\ Q1[m] \subseteq Q[m] /\ L1[m] \subseteq L[m]
  BY <1>3 DEF Apart, Disjoint, Numbered
<1>4. ASSUME NEW m \in Nodes, m # n
      PROVE  (Q1[m] \cup L1[m]) \cap here1 = {} /\ Q1[m] \cup L1[m] \subseteq 1..k1
  BY <1>1, <1>3, <1>4
<1>5. ASSUME NEW m \in Nodes PROVE Disjoint(Q1[m], L1[m], A1, V1, D1)
  <2>1. CASE m = n
    BY <2>1
  <2>2. CASE m # n
    <3>1. Q1[m] \cap L1[m] = {}
      BY <1>3, <2>2 DEF Apart, Disjoint
    <3> QED
      BY <1>4, <2>2, <3>1 DEF Disjoint
  <2> QED
    BY <2>1, <2>2
<1>6. ASSUME NEW m \in Nodes, NEW o \in Nodes, m # o
      PROVE  (Q1[m] \cup L1[m]) \cap (Q1[o] \cup L1[o]) = {}
  <2>1. CASE m = n
    BY <1>4, <1>6, <2>1
  <2>2. CASE o = n
    BY <1>4, <1>6, <2>2
  <2>3. CASE m # n /\ o # n
    BY <1>3, <1>6, <2>3 DEF Apart
  <2> QED
    BY <2>1, <2>2, <2>3
<1>7. Disjoint({}, {}, A1, V1, D1)
  BY DEF Disjoint
<1> QED
  BY <1>2, <1>4, <1>5, <1>6, <1>7 DEF Apart, Numbered

LEMMA StaysInPlace ==
  ASSUME Places, NEW n \in Nodes, sent \in Nat, sent' \in Nat, sent <= sent',
         \A m \in Nodes \ {n} : m_queue'[m] = m_queue[m] /\ loopback'[m] = loopback[m],
         \A m \in Nodes : \A p \in toSend'[m] : ~IsData(p),
         OnceQueued(m_queue'[n]), Once(loopback'[n]), OnceFlying(air'),
         Disjoint(Queued'[n], Looping'[n], Flying', delivered', dropped'),
         Queued'[n] \cup Looping'[n] \cup Flying' \cup delivered' \cup dropped'
           \subseteq Queued[n] \cup Looping[n] \cup Flying \cup delivered \cup dropped
                      \cup ((sent + 1)..sent')
  PROVE  Places'
<1>1. \A m \in Nodes \ {n} : Queued'[m] = Queued[m] /\ Looping'[m] = Looping[m]
  BY DEF Queued, Looping
<1>2. /\ Apart(Queued', Looping', Flying', delivered', dropped')
      /\ Numbered(Queued', Looping', Flying', delivered', dropped', sent')
  <2>1. /\ Apart(Queued, Looping, Flying, delivered, dropped)
        /\ Numbered(Queued, Looping, Flying, delivered, dropped, sent)
    BY DEF Places
  <2> QED
    BY <1>1, <2>1, StaysApart
<1>3. \A m \in Nodes : OnceQueued(m_queue'[m]) /\ Once(loopback'[m])
  <2>1. ASSUME NEW m \in Nodes \ {n} PROVE OnceQueued(m_queue'[m]) /\ Once(loopback'[m])
    BY DEF Places, OnceQueued, Once
  <2> QED
    BY <2>1
<1>4. Apart(Queued, Looping, Flying, delivered, dropped)'
  BY <1>2 DEF Apart
<1>5. Numbered(Queued, Looping, Flying, delivered, dropped, sent)'
  BY <1>2 DEF Numbered
<1>6. /\ \A m \in Nodes : OnceQueued(m_queue[m])' /\ Once(loopback[m])'
      /\ OnceFlying(air)'
  BY <1>3 DEF OnceQueued, Once, OnceFlying
<1> QED
  BY <1>4, <1>5, <1>6 DEF Places

(* A step that moves no data packet; some may be lost.                     *)
LEMMA QuietKeeps ==
  ASSUME Places, UNCHANGED <<m_queue, fates>>,
         \A n \in Nodes : /\ \A p \in loopback'[n] : IsData(p) => p \in loopback[n]
                          /\ \A p \in toSend'[n] : ~IsData(p),
         \A f \in air' : IsData(f.ip) => f \in air
  PROVE  Places'
<1>1. m_queue' = m_queue /\ sent' = sent /\ delivered' = delivered /\ dropped' = dropped
  BY DEF fates
<1>2. ASSUME NEW n \in Nodes PROVE Queued'[n] = Queued[n] /\ Looping'[n] \subseteq Looping[n]
  <2>1. DataOf(loopback'[n]) \subseteq DataOf(loopback[n])
    BY DataOfIs
  <2>2. Queued'[n] = Queued[n]
    BY <1>1 DEF Queued
  <2> QED
    BY <2>1, <2>2 DEF Looping
<1>3. Flying' \subseteq Flying
  <2>1. DataOf({f.ip : f \in air'}) \subseteq DataOf({f.ip : f \in air})
    BY DataOfIs
  <2> QED
    BY <2>1 DEF Flying
<1>4. Apart(Queued, Looping, Flying, delivered, dropped)'
  BY <1>1, <1>2, <1>3 DEF Places, Apart, Disjoint
<1>5. Numbered(Queued, Looping, Flying, delivered, dropped, sent)'
  BY <1>1, <1>2, <1>3 DEF Places, Numbered
<1>6. ASSUME NEW n \in Nodes PROVE OnceQueued(m_queue[n])' /\ Once(loopback[n])'
  BY <1>1 DEF Places, OnceQueued, Once, SameData
<1>7. OnceFlying(air)'
  BY DEF Places, OnceFlying, SameData
<1> QED
  BY <1>4, <1>5, <1>6, <1>7 DEF Places

-----------------------------------------------------------------------------
(* Handlers of AODV's own messages.                                        *)

NoData(ps) == \A p \in ps : ~IsData(p)
FreeOfData(fs) == \A f \in fs : ~IsData(f.ip)

LEMMA PacketIs ==
  ASSUME NEW n, NEW to, NEW ttl, NEW b
  PROVE  /\ IsData(Packet(n, to, ttl, b)) <=> b.kind = "DATA"
         /\ Packet(n, to, ttl, b).body = b
BY DEF Packet, IsData

LEMMA FloodFree ==
  ASSUME NEW n, NEW ttl, NEW b, b.kind # "DATA" PROVE FreeOfData(Flood(n, ttl, b))
BY PacketIs DEF FreeOfData, Flood

LEMMA RoutedFree ==
  ASSUME NEW n, NEW t, NEW ps, NoData(ps)
  PROVE  FreeOfData(Routed(n, t, ps)) /\ NoData(Unrouted(t, ps))
<1>1. \A p \in ps : \A g \in Frame(n, t[p.dst].nextHop, p) : g.ip = p
  BY DEF Frame
<1> QED
  BY <1>1 DEF NoData, FreeOfData, Routed, Unrouted

LEMMA HandledQuiet ==
  ASSUME IInv, Places, NEW f \in air, NEW t, NEW ps, NEW fs, Handled(f, t, ps, fs),
         NoData(ps), FreeOfData(fs), UNCHANGED <<m_queue, fates>>,
         \A n \in Nodes : NoData(toSend'[n])
  PROVE  Places'
<1>1. f.to \in Nodes
  BY FrameFacts DEF IInv
<1>2. FreeOfData(Routed(f.to, t, ps)) /\ NoData(Unrouted(t, ps))
  BY RoutedFree
<1>3. \A g \in air' : IsData(g.ip) => g \in air
  BY <1>2 DEF Handled, FreeOfData
<1>4. \A n \in Nodes : \A p \in loopback'[n] : IsData(p) => p \in loopback[n]
  BY <1>1, <1>2 DEF IInv, Mail, Handled, NoData
<1> QED
  BY <1>3, <1>4, QuietKeeps DEF NoData

LEMMA ReceiveQuiet ==
  ASSUME IInv, Places, NEW f \in air, NEW t, NEW ps, NEW fs, Handled(f, t, ps, fs),
         NoData(ps), FreeOfData(fs), UNCHANGED <<m_queue, fates>>, UNCHANGED toSend
  PROVE  Places'
<1>1. \A n \in Nodes : NoData(toSend'[n])
  BY DEF Places, NoData
<1> QED
  BY <1>1, HandledQuiet

LEMMA DuplicateRequestPlaces ==
  ASSUME IInv, Places, NEW f \in air, DuplicateRequest(f) PROVE Places'
<1>1. NoData({}) /\ FreeOfData({})
  BY DEF NoData, FreeOfData
<1> QED
  BY <1>1, ReceiveQuiet DEF DuplicateRequest

LEMMA SendReplyPlaces ==
  ASSUME IInv, Places, NEW f \in air, SendReply(f) PROVE Places'
<1> DEFINE n == f.to
           r == f.ip.body
           o == TableAfter(f)[r.origin]
           seqNo == IF r.dstSeqno = m_seqNo[n] + 1 THEN m_seqNo[n] + 1 ELSE m_seqNo[n]
           b == Reply(n, seqNo, 0, r.origin, FALSE)
           ps == {Packet(n, o.nextHop, o.hops, b)}
<1>1. Handled(f, TableAfter(f), ps, {}) /\ UNCHANGED <<m_queue, fates>> /\ UNCHANGED toSend
  BY DEF SendReply, FirstRequest
<1>2. b.kind # "DATA"
  BY DEF Reply
<1> HIDE DEF o, b
<1>3. NoData(ps) /\ FreeOfData({})
  BY <1>2, PacketIs DEF NoData, FreeOfData
<1> QED
  BY <1>1, <1>3, ReceiveQuiet

LEMMA SendReplyByIntermediateNodePlaces ==
  ASSUME IInv, Places, NEW f \in air, SendReplyByIntermediateNode(f) PROVE Places'
<1> DEFINE n == f.to
           r == f.ip.body
           t == TableAfter(f)
           o == t[r.origin]
           e == t[r.dst]
           a == Reply(r.dst, e.seqNo, e.hops, r.origin, e.hops = 1)
           answer == Packet(n, o.nextHop, o.hops, a)
           g == Reply(r.origin, o.seqNo, o.hops, r.dst, FALSE)
           gratuitous == Packet(n, e.nextHop, e.hops, g)
           ps == {answer} \cup (IF GratuitousReply THEN {gratuitous} ELSE {})
           u == WithPrecursor(WithPrecursor(t, r.dst, o.nextHop), r.origin, e.nextHop)
<1>1. Handled(f, u, ps, {}) /\ UNCHANGED <<m_queue, fates>> /\ UNCHANGED toSend
  BY DEF SendReplyByIntermediateNode, FirstRequest
<1>2. a.kind # "DATA" /\ g.kind # "DATA"
  BY DEF Reply
<1> HIDE DEF o, e, a, g, u
<1>3. NoData(ps) /\ FreeOfData({})
  BY <1>2, PacketIs DEF NoData, FreeOfData
<1> QED
  BY <1>1, <1>3, ReceiveQuiet

LEMMA ForwardRequestPlaces ==
  ASSUME IInv, Places, NEW f \in air, ForwardRequest(f) PROVE Places'
<1> DEFINE n == f.to
           r == f.ip.body
           t == TableAfter(f)
           e == t[r.dst]
           known == IF KnowsBetter(e, r) THEN e.seqNo ELSE r.dstSeqno
           next == [r EXCEPT !.hops = r.hops + 1, !.dstSeqno = known]
           fs == IF ~WouldLoop(e, f.ip.src) /\ f.ip.ttl > 1
                 THEN Flood(n, f.ip.ttl - 1, next) ELSE {}
<1>1. /\ FirstRequest(f) /\ Handled(f, t, {}, fs)
      /\ UNCHANGED <<m_queue, fates>> /\ UNCHANGED toSend
  BY DEF ForwardRequest, FirstRequest
<1>2. r \in [kind: {"RREQ"}, origin: Nodes, id: Nat, originSeqno: Nat,
             dst: Nodes, dstSeqno: Nat \cup {Unknown}, hops: Nat]
  BY <1>1, FirstRequestGood
<1> HIDE DEF t, e, known
<1>3. next.kind # "DATA"
  BY <1>2
<1> HIDE DEF next
<1>4. FreeOfData(fs) /\ NoData({})
  BY <1>3, FloodFree DEF FreeOfData, NoData
<1> QED
  BY <1>1, <1>4, ReceiveQuiet

LEMMA ProcessHelloPlaces ==
  ASSUME IInv, Places, NEW f \in air, ProcessHello(f) PROVE Places'
<1>1. NoData({}) /\ FreeOfData({})
  BY DEF NoData, FreeOfData
<1> QED
  BY <1>1, ReceiveQuiet DEF ProcessHello

LEMMA AckIs == ASSUME NEW f PROVE NoData(Ack(f))
<1>1. [kind |-> "RREP_ACK"].kind # "DATA"
  OBVIOUS
<1> QED
  BY <1>1, PacketIs DEF Ack, NoData

LEMMA RelayReplyPlaces ==
  ASSUME IInv, Places, NEW f \in air, RelayReply(f) PROVE Places'
<1> DEFINE n == f.to
           r == f.ip.body
           t == Replied(f)
           o == t[r.origin]
           next == [r EXCEPT !.hops = r.hops + 1, !.ackRequired = FALSE]
           forwarded == IF f.ip.ttl > 1 THEN {Packet(n, o.nextHop, f.ip.ttl - 1, next)} ELSE {}
           u == AfterRelay(t, r.dst, r.origin)
           ps == Ack(f) \cup forwarded
<1>1. /\ Arrives(f, "RREP") /\ UNCHANGED <<m_queue, fates>> /\ UNCHANGED toSend
      /\ IF NoReverseRoute(f) THEN Handled(f, t, Ack(f), {}) ELSE Handled(f, u, ps, {})
  BY DEF RelayReply
<1>2. r \in [kind: {"RREP"}, dst: Nodes, dstSeqno: Nat, hops: Nat,
             origin: Nodes, ackRequired: BOOLEAN]
  BY <1>1, FrameFacts, BodyFields DEF IInv, Arrives
<1> HIDE DEF t, o, u
<1>3. next.kind # "DATA"
  BY <1>2
<1> HIDE DEF next
<1>4. NoData(Ack(f)) /\ NoData(ps) /\ FreeOfData({})
  BY <1>3, AckIs, PacketIs DEF NoData, FreeOfData
<1> HIDE DEF ps
<1> QED
  BY <1>1, <1>4, ReceiveQuiet

LEMMA RecvReplyAckPlaces ==
  ASSUME IInv, Places, NEW f \in air, RecvReplyAck(f) PROVE Places'
<1>1. NoData({}) /\ FreeOfData({})
  BY DEF NoData, FreeOfData
<1> QED
  BY <1>1, ReceiveQuiet DEF RecvReplyAck

LEMMA ErrorsFree ==
  ASSUME NEW n, NEW t, NEW un, NEW to
  PROVE  NoData(ErrorUnicast(n, t, un, to)) /\ FreeOfData(ErrorBroadcast(n, t, un, to))
<1> DEFINE b == Error(un)
<1>1. b.kind # "DATA"
  BY DEF Error
<1> HIDE DEF b
<1>2. FreeOfData(Flood(n, 1, b)) /\ \A p : ~IsData(Packet(n, p, 1, b))
  BY <1>1, FloodFree, PacketIs
<1> QED
  BY <1>2 DEF NoData, FreeOfData, ErrorUnicast, ErrorBroadcast, b

LEMMA RecvErrorPlaces ==
  ASSUME IInv, Places, NEW f \in air, RecvError(f) PROVE Places'
<1> DEFINE n == f.to
           t == Neighbored(f)
           un == f.ip.body.unreachable \cap WithNextHop(t, f.ip.src)
           to == Precursors(t, un)
           u == Invalidate(t, un)
           fs == ErrorBroadcast(n, t, un, to)
           ps == ErrorUnicast(n, t, un, to)
<1>1. /\ Handled(f, u, {}, fs) /\ UNCHANGED <<m_queue, fates>>
      /\ toSend' = [toSend EXCEPT ![n] = @ \cup ps]
  BY DEF RecvError
<1> HIDE DEF t, un, to, u
<1>2. NoData(ps) /\ FreeOfData(fs) /\ NoData({})
  BY ErrorsFree DEF NoData
<1> HIDE DEF fs, ps
<1>3. \A m \in Nodes : NoData(toSend'[m])
  BY <1>1, <1>2 DEF IInv, Mail, Places, NoData
<1> QED
  BY <1>1, <1>2, <1>3, HandledQuiet

-----------------------------------------------------------------------------
(* Requests, and what a node sends by itself.                              *)

(* A step that only puts messages in the air.                              *)
LEMMA MailPlaces ==
  ASSUME Places, UNCHANGED <<m_queue, fates>>, UNCHANGED loopback,
         NEW fs, FreeOfData(fs), air' \subseteq air \cup fs,
         \A n \in Nodes : NoData(toSend'[n])
  PROVE  Places'
<1>1. \A f \in air' : IsData(f.ip) => f \in air
  BY DEF FreeOfData
<1> QED
  BY <1>1, QuietKeeps DEF NoData

LEMMA RequestAir ==
  ASSUME NEW n, NEW d, NEW timers, Originate(n, d) \/ SendRequest(n, d, timers)
  PROVE  \E fs : FreeOfData(fs) /\ air' = air \cup fs
<1> DEFINE b == Request(n, d)
           fs == Flood(n, NextTtl(m_routingTable[n][d]), b)
<1>1. CASE Originate(n, d)
  <2>1. b.kind # "DATA"
    BY DEF Request
  <2> HIDE DEF b
  <2>2. FreeOfData(fs)
    BY <2>1, FloodFree
  <2>3. air' = air \cup fs
    BY <1>1 DEF Originate, b
  <2> QED
    BY <2>2, <2>3
<1>2. CASE Postpone(n, d, timers)
  <2>1. FreeOfData({}) /\ air' = air \cup {}
    BY <1>2 DEF Postpone, FreeOfData
  <2> QED
    BY <2>1
<1> QED
  BY <1>1, <1>2 DEF SendRequest

LEMMA DelayedRequestPlaces ==
  ASSUME Places, NEW n \in Nodes, NEW d \in Nodes, DelayedRequest(n, d) PROVE Places'
<1>1. Originate(n, d) /\ UNCHANGED <<m_queue, fates>> /\ UNCHANGED <<loopback, toSend>>
  BY DEF DelayedRequest
<1>2. PICK fs : FreeOfData(fs) /\ air' = air \cup fs
  BY <1>1, RequestAir
<1>3. \A m \in Nodes : NoData(toSend'[m])
  BY <1>1 DEF Places, NoData
<1> QED
  BY <1>1, <1>2, <1>3, MailPlaces

LEMMA RreqRateLimitTimerExpirePlaces ==
  ASSUME Places, NEW n \in Nodes, RreqRateLimitTimerExpire(n) PROVE Places'
<1>1. UNCHANGED <<m_queue, fates>> /\ UNCHANGED <<loopback, toSend, air>>
  BY DEF RreqRateLimitTimerExpire
<1> QED
  BY <1>1, QuietKeeps DEF Places

LEMMA SendHelloPlaces ==
  ASSUME Places, NEW n \in Nodes, SendHello(n) PROVE Places'
<1> DEFINE b == Reply(n, m_seqNo[n], 0, n, FALSE)
<1>1. /\ air' = air \cup Flood(n, 1, b)
      /\ UNCHANGED <<m_queue, fates>> /\ UNCHANGED <<loopback, toSend>>
  BY DEF SendHello
<1>2. b.kind # "DATA"
  BY DEF Reply
<1> HIDE DEF b
<1>3. FreeOfData(Flood(n, 1, b))
  BY <1>2, FloodFree
<1>4. \A m \in Nodes : NoData(toSend'[m])
  BY <1>1 DEF Places, NoData
<1> QED
  BY <1>1, <1>3, <1>4, MailPlaces

LEMMA RouteExpiresPlaces ==
  ASSUME Places, NEW n \in Nodes, NEW d \in Nodes, RouteExpires(n, d) PROVE Places'
<1>1. UNCHANGED <<m_queue, fates>> /\ UNCHANGED <<loopback, toSend, air>>
  BY DEF RouteExpires
<1> QED
  BY <1>1, QuietKeeps DEF Places

LEMMA BreaksLinkPlaces ==
  ASSUME IInv, Places, NEW n \in Nodes, NEW h \in Nodes, SendRerrWhenBreaksLinkToNextHop(n, h)
  PROVE  Places'
<1> DEFINE t == m_routingTable[n]
           un == {h} \cup WithNextHop(t, h)
           to == Precursors(t, un)
           fs == ErrorBroadcast(n, t, un, to)
           ps == ErrorUnicast(n, t, un, to)
<1>1. /\ UNCHANGED <<m_queue, fates>> /\ UNCHANGED loopback
      /\ \/ UNCHANGED <<air, toSend>>
         \/ air' = air \cup fs /\ toSend' = [toSend EXCEPT ![n] = @ \cup ps]
  BY DEF SendRerrWhenBreaksLinkToNextHop
<1> HIDE DEF un, to
<1>2. NoData(ps) /\ FreeOfData(fs)
  BY ErrorsFree
<1> HIDE DEF fs, ps
<1>3. \A m \in Nodes : NoData(toSend'[m])
  BY <1>1, <1>2 DEF IInv, Mail, Places, NoData
<1>4. air' \subseteq air \cup fs
  BY <1>1
<1> QED
  BY <1>1, <1>2, <1>3, <1>4, MailPlaces

LEMMA SendToPlaces ==
  ASSUME IInv, Places, NEW n \in Nodes, NEW p \in toSend[n], SendTo(n, p) PROVE Places'
<1>1. /\ toSend' = [toSend EXCEPT ![n] = @ \ {p}] /\ UNCHANGED <<m_queue, fates>>
      /\ air' = air \cup Routed(n, m_routingTable[n], {p})
      /\ loopback' = [loopback EXCEPT ![n] = @ \cup Unrouted(m_routingTable[n], {p})]
  BY DEF SendTo
<1>2. NoData({p})
  BY DEF Places, NoData
<1>3. /\ FreeOfData(Routed(n, m_routingTable[n], {p}))
      /\ NoData(Unrouted(m_routingTable[n], {p}))
  BY <1>2, RoutedFree
<1>4. \A f \in air' : IsData(f.ip) => f \in air
  BY <1>1, <1>3 DEF FreeOfData
<1>5. \A m \in Nodes : /\ \A q \in loopback'[m] : IsData(q) => q \in loopback[m]
                       /\ \A q \in toSend'[m] : ~IsData(q)
  BY <1>1, <1>3 DEF IInv, Mail, Places, NoData
<1> QED
  BY <1>1, <1>4, <1>5, QuietKeeps

-----------------------------------------------------------------------------
(* What moves packets.                                                     *)

LEMMA PlacesHere ==
  ASSUME Places, NEW n \in Nodes
  PROVE  /\ Disjoint(Queued[n], Looping[n], Flying, delivered, dropped)
         /\ OnceQueued(m_queue[n]) /\ Once(loopback[n]) /\ OnceFlying(air)
         /\ Queued[n] = DataOf(PacketsOf(m_queue[n])) /\ Looping[n] = DataOf(loopback[n])
         /\ Flying = DataOf({f.ip : f \in air})
         /\ \A p \in toSend[n] : ~IsData(p)
BY DEF Places, Apart, Queued, Looping, Flying

(* What waits for d is sent.                                               *)
LEMMA FlushPlaces ==
  ASSUME IInv, Places, NEW n \in Nodes, NEW d, NEW hop, NEW fs, FreeOfData(fs),
         m_queue' = [m_queue EXCEPT ![n] = Rest(@, d)],
         air' \subseteq air \cup Flushed(n, d, hop) \cup fs,
         UNCHANGED fates, UNCHANGED toSend,
         \A m \in Nodes \ {n} : loopback'[m] = loopback[m],
         \A p \in loopback'[n] : IsData(p) => p \in loopback[n]
  PROVE  Places'
<1> DEFINE q == m_queue[n]
           W == DataOf(Waiting(q, d))
           P == Unicasts(m_seqNo)
<1>1. m_queue \in [Nodes -> Seq(P)] /\ sent \in Nat
  BY DEF IInv, Mail, Counts
<1>2. m_queue'[n] = Rest(q, d) /\ \A m \in Nodes \ {n} : m_queue'[m] = m_queue[m]
  BY <1>1
<1>3. /\ Disjoint(Queued[n], Looping[n], Flying, delivered, dropped)
      /\ OnceQueued(q) /\ Once(loopback[n]) /\ OnceFlying(air)
      /\ Queued[n] = DataOf(PacketsOf(q)) /\ Looping[n] = DataOf(loopback[n])
  BY PlacesHere
<1>4. OnceQueued(m_queue'[n]) /\ Queued'[n] \subseteq Queued[n] \ W
  <2>1. Queued'[n] = DataOf(PacketsOf(Rest(q, d)))
    BY <1>2 DEF Queued
  <2>2. q \in Seq(P)
    BY <1>1
  <2> HIDE DEF q, P
  <2>3. OnceQueued(Rest(q, d)) /\ DataOf(PacketsOf(Rest(q, d))) \subseteq DataOf(PacketsOf(q)) \ W
    BY <1>3, <2>2, RestOnce DEF q
  <2> QED
    BY <1>2, <1>3, <2>1, <2>3 DEF q
<1>5. \A f \in Flushed(n, d, hop) : f = [to |-> hop, ip |-> f.ip] /\ f.ip \in Waiting(q, d)
  BY DEF Flushed, Frame
<1>6. W \subseteq Queued[n] /\ \A p \in Waiting(q, d) : p \in PacketsOf(q)
  BY <1>3, DataOfIs DEF Waiting
<1>7. Looping'[n] \subseteq Looping[n] /\ Once(loopback'[n])
  BY <1>3, DataOfIs DEF Looping, Once, SameData
<1>8. Flying' \subseteq Flying \cup W
  <2>1. ASSUME NEW i \in DataOf({f.ip : f \in air'}) PROVE i \in Flying \cup W
    <3>1. PICK f \in air' : IsData(f.ip) /\ f.ip.body.id = i
      BY <2>1, DataOfIs
    <3> QED
      BY <1>5, <3>1, DataOfIs, FlyingIs DEF FreeOfData
  <2> QED
    BY <2>1 DEF Flying
<1>9. OnceFlying(air')
  <2> SUFFICES ASSUME NEW f \in air', NEW g \in air', SameData(f.ip, g.ip) PROVE f = g
    BY DEF OnceFlying
  <2>1. IsData(f.ip) /\ IsData(g.ip) /\ f.ip.body.id = g.ip.body.id
    BY DEF SameData
  <2>2. f \in air \cup Flushed(n, d, hop) /\ g \in air \cup Flushed(n, d, hop)
    BY <2>1 DEF FreeOfData
  <2>3. ASSUME NEW h \in Flushed(n, d, hop), IsData(h.ip) PROVE h.ip.body.id \notin Flying
    BY <1>3, <1>5, <1>6, <2>3, DataOfIs DEF Disjoint
  <2>4. CASE f \in air /\ g \in air
    BY <1>3, <2>4 DEF OnceFlying
  <2>5. CASE f \in air /\ g \in Flushed(n, d, hop)
    BY <2>1, <2>3, <2>5, FlyingIs
  <2>6. CASE f \in Flushed(n, d, hop) /\ g \in air
    BY <2>1, <2>3, <2>6, FlyingIs
  <2>7. CASE f \in Flushed(n, d, hop) /\ g \in Flushed(n, d, hop)
    <3>1. f.ip \in PacketsOf(q) /\ g.ip \in PacketsOf(q)
      BY <1>5, <1>6, <2>7
    <3>2. f.ip = g.ip
      BY <1>3, <3>1 DEF PacketsOf, OnceQueued
    <3> QED
      BY <1>5, <2>7, <3>2
  <2> QED
    BY <2>2, <2>4, <2>5, <2>6, <2>7
<1>10. sent' = sent /\ delivered' = delivered /\ dropped' = dropped
  BY DEF fates
<1> HIDE DEF W
<1>11. Disjoint(Queued'[n], Looping'[n], Flying', delivered', dropped')
  BY <1>3, <1>4, <1>6, <1>7, <1>8, <1>10 DEF Disjoint
<1>12. Queued'[n] \cup Looping'[n] \cup Flying' \cup delivered' \cup dropped'
         \subseteq Queued[n] \cup Looping[n] \cup Flying \cup delivered \cup dropped
                    \cup ((sent + 1)..sent')
  BY <1>4, <1>6, <1>7, <1>8, <1>10
<1>13. \A m \in Nodes : \A p \in toSend'[m] : ~IsData(p)
  BY DEF Places
<1>14. sent' \in Nat /\ sent <= sent'
  BY <1>1, <1>10
<1> QED
  BY <1>1, <1>2, <1>4, <1>7, <1>9, <1>11, <1>12, <1>13, <1>14, StaysInPlace

(* The node's queue gives up the data in X.                                *)
LEMMA DropPlaces ==
  ASSUME IInv, Places, NEW n \in Nodes, NEW X, X \subseteq Queued[n],
         Queued'[n] \subseteq Queued[n] \ X, OnceQueued(m_queue'[n]),
         \A m \in Nodes \ {n} : m_queue'[m] = m_queue[m],
         dropped' = dropped \cup X, UNCHANGED <<sent, delivered, loopback, toSend>>,
         NEW fs, FreeOfData(fs), air' \subseteq air \cup fs
  PROVE  Places'
<1>1. /\ Disjoint(Queued[n], Looping[n], Flying, delivered, dropped)
      /\ Once(loopback[n]) /\ OnceFlying(air)
  BY PlacesHere
<1>2. Looping'[n] = Looping[n] /\ Once(loopback'[n])
  BY <1>1 DEF Looping
<1>3. Flying' \subseteq Flying
  <2>1. ASSUME NEW i \in DataOf({f.ip : f \in air'}) PROVE i \in Flying
    <3>1. PICK f \in air' : IsData(f.ip) /\ f.ip.body.id = i
      BY <2>1, DataOfIs
    <3> QED
      BY <3>1, FlyingIs DEF FreeOfData
  <2> QED
    BY <2>1 DEF Flying
<1>4. OnceFlying(air')
  BY <1>1 DEF OnceFlying, SameData, FreeOfData
<1>5. Disjoint(Queued'[n], Looping'[n], Flying', delivered', dropped')
  BY <1>1, <1>2, <1>3 DEF Disjoint
<1>6. Queued'[n] \cup Looping'[n] \cup Flying' \cup delivered' \cup dropped'
        \subseteq Queued[n] \cup Looping[n] \cup Flying \cup delivered \cup dropped
                   \cup ((sent + 1)..sent')
  BY <1>2, <1>3
<1>7. \A m \in Nodes : \A p \in toSend'[m] : ~IsData(p)
  BY DEF Places
<1>8. sent \in Nat /\ sent' \in Nat /\ sent <= sent'
  BY DEF IInv, Counts
<1> QED
  BY <1>2, <1>4, <1>5, <1>6, <1>7, <1>8, StaysInPlace

LEMMA RecvReplyPlaces ==
  ASSUME IInv, Places, NEW f \in air, RecvReply(f) PROVE Places'
<1> DEFINE n == f.to
           r == f.ip.body
           found == InSearch(Neighbored(f), r.dst)
           t == IF found THEN [Replied(f) EXCEPT ![r.dst] = RouteOf(r, f.ip.src)] ELSE Replied(f)
           hop == t[r.dst].nextHop
           ps == Ack(f)
<1>1. /\ Handled(f, t, ps, Flushed(n, r.dst, hop))
      /\ m_queue' = [m_queue EXCEPT ![n] = Rest(@, r.dst)]
      /\ UNCHANGED fates /\ UNCHANGED toSend
  BY DEF RecvReply
<1> HIDE DEF t, hop, ps
<1>2. n \in Nodes
  BY FrameFacts DEF IInv
<1>3. FreeOfData(Routed(n, t, ps)) /\ NoData(Unrouted(t, ps))
  BY AckIs, RoutedFree DEF ps
<1>4. air' \subseteq air \cup Flushed(n, r.dst, hop) \cup Routed(n, t, ps)
  BY <1>1 DEF Handled
<1>5. /\ \A m \in Nodes \ {n} : loopback'[m] = loopback[m]
      /\ \A p \in loopback'[n] : IsData(p) => p \in loopback[n]
  BY <1>1, <1>2, <1>3 DEF IInv, Mail, Handled, NoData
<1> QED
  BY <1>1, <1>2, <1>3, <1>4, <1>5, FlushPlaces

LEMMA RouteRequestTimerExpirePlaces ==
  ASSUME IInv, Places, NEW n \in Nodes, NEW d \in Nodes, RouteRequestTimerExpire(n, d)
  PROVE  Places'
<1> DEFINE e == m_routingTable[n][d]
           q == m_queue[n]
           timers == m_addressReqTimer[n] \ {d}
<1>1. UNCHANGED <<loopback, toSend, sent, delivered>>
  BY DEF RouteRequestTimerExpire
<1>2. FreeOfData({})
  BY DEF FreeOfData
<1>3. CASE /\ air' = air \cup Flushed(n, d, e.nextHop)
           /\ m_queue' = [m_queue EXCEPT ![n] = Rest(@, d)] /\ UNCHANGED dropped
  <2>1. UNCHANGED fates
    BY <1>1, <1>3 DEF fates
  <2> QED
    BY <1>1, <1>2, <1>3, <2>1, FlushPlaces
<1>4. CASE SendRequest(n, d, timers) /\ UNCHANGED <<m_queue, dropped>>
  <2>1. PICK fs : FreeOfData(fs) /\ air' = air \cup fs
    BY <1>4, RequestAir
  <2>2. UNCHANGED <<m_queue, fates>> /\ \A m \in Nodes : NoData(toSend'[m])
    BY <1>1, <1>4 DEF fates, Places, NoData
  <2> QED
    BY <1>1, <2>1, <2>2, MailPlaces
<1>5. CASE /\ m_queue' = [m_queue EXCEPT ![n] = Rest(@, d)]
           /\ dropped' = dropped \cup DataOf(Waiting(q, d)) /\ UNCHANGED air
  <2> DEFINE P == Unicasts(m_seqNo)
  <2>1. m_queue \in [Nodes -> Seq(P)]
    BY DEF IInv, Mail
  <2> HIDE DEF P
  <2>2. m_queue'[n] = Rest(q, d) /\ \A m \in Nodes \ {n} : m_queue'[m] = m_queue[m]
    BY <1>5, <2>1
  <2>3. q \in Seq(P) /\ OnceQueued(q) /\ Queued[n] = DataOf(PacketsOf(q))
    BY <2>1, PlacesHere
  <2> HIDE DEF q
  <2>4. /\ OnceQueued(Rest(q, d))
        /\ DataOf(PacketsOf(Rest(q, d))) \subseteq Queued[n] \ DataOf(Waiting(q, d))
    BY <2>3, RestOnce
  <2>5. Queued'[n] \subseteq Queued[n] \ DataOf(Waiting(q, d)) /\ OnceQueued(m_queue'[n])
    BY <2>2, <2>4 DEF Queued
  <2>6. DataOf(Waiting(q, d)) \subseteq Queued[n]
    BY <2>3, DataOfIs DEF Waiting
  <2> QED
    BY <1>1, <1>2, <1>5, <2>2, <2>5, <2>6, DropPlaces
<1> QED
  BY <1>3, <1>4, <1>5 DEF RouteRequestTimerExpire

LEMMA PacketExpiresPlaces ==
  ASSUME IInv, Places, NEW n \in Nodes, PacketExpires(n) PROVE Places'
<1> DEFINE P == Unicasts(m_seqNo)
           q == m_queue[n]
<1>1. /\ m_queue \in [Nodes -> Seq(P)] /\ q # <<>> /\ m_queue' = [m_queue EXCEPT ![n] = Tail(q)]
      /\ dropped' = dropped \cup DataOf({Head(q)})
      /\ UNCHANGED <<loopback, toSend, air, sent, delivered>>
  BY DEF IInv, Mail, PacketExpires
<1> HIDE DEF P
<1>2. /\ OnceQueued(q) /\ Queued[n] = DataOf(PacketsOf(q)) /\ q \in Seq(P)
      /\ m_queue'[n] = Tail(q) /\ \A m \in Nodes \ {n} : m_queue'[m] = m_queue[m]
  BY <1>1, PlacesHere
<1> HIDE DEF q
<1>3. /\ Len(Tail(q)) = Len(q) - 1 /\ Len(q) \in Nat \ {0} /\ Head(q) = q[1]
      /\ \A i \in 1..Len(q) - 1 : Tail(q)[i] = q[i + 1] /\ i + 1 \in 1..Len(q)
  BY <1>1, <1>2
<1>4. OnceQueued(Tail(q))
  <2>1. ASSUME NEW i \in 1..Len(q) - 1, NEW j \in 1..Len(q) - 1, SameData(q[i + 1], q[j + 1])
        PROVE  i = j
    <3>1. i + 1 = j + 1
      BY <1>2, <1>3, <2>1 DEF OnceQueued
    <3> QED
      BY <1>3, <3>1
  <2> QED
    BY <1>3, <2>1 DEF OnceQueued
<1>5. ASSUME NEW i \in DataOf(PacketsOf(Tail(q)))
      PROVE  i \in DataOf(PacketsOf(q)) /\ i \notin DataOf({q[1]})
  <2>1. PICK j \in 1..Len(q) - 1 : IsData(q[j + 1]) /\ q[j + 1].body.id = i
    <3>1. PICK p \in PacketsOf(Tail(q)) : IsData(p) /\ p.body.id = i
      BY <1>5, DataOfIs
    <3> QED
      BY <1>3, <3>1 DEF PacketsOf
  <2>2. j + 1 \in 1..Len(q) /\ 1 \in 1..Len(q) /\ j + 1 # 1
    BY <1>3
  <2>3. i \in DataOf(PacketsOf(q))
    BY <2>1, <2>2, DataOfIs DEF PacketsOf
  <2>4. ~(IsData(q[1]) /\ q[1].body.id = i)
    BY <1>2, <2>1, <2>2 DEF OnceQueued, SameData
  <2> QED
    BY <2>3, <2>4, DataOfIs
<1>6. DataOf({Head(q)}) \subseteq Queued[n]
  <2>1. q[1] \in PacketsOf(q)
    BY <1>3 DEF PacketsOf
  <2> QED
    BY <1>2, <1>3, <2>1, DataOfIs
<1>7. Queued'[n] \subseteq Queued[n] \ DataOf({Head(q)}) /\ OnceQueued(m_queue'[n])
  <2>1. Queued'[n] = DataOf(PacketsOf(Tail(q)))
    BY <1>2 DEF Queued
  <2> QED
    BY <1>2, <1>3, <1>4, <1>5, <2>1
<1>8. FreeOfData({})
  BY DEF FreeOfData
<1> QED
  BY <1>1, <1>2, <1>6, <1>7, <1>8, DropPlaces

(* The data of frame f arrives, or is given up.                            *)
LEMMA LandPlaces ==
  ASSUME IInv, Places, NEW f \in air, UNCHANGED <<m_queue, toSend>>, UNCHANGED sent,
         \A m \in Nodes : \A p \in loopback'[m] : IsData(p) => p \in loopback[m],
         \A g \in air' : IsData(g.ip) => g \in air /\ g # f,
         \/ delivered' = delivered \cup DataOf({f.ip}) /\ UNCHANGED dropped
         \/ dropped' = dropped \cup DataOf({f.ip}) /\ UNCHANGED delivered
  PROVE  Places'
<1> DEFINE X == DataOf({f.ip})
<1>1. X \subseteq Flying
  BY DataOfIs DEF Flying
<1>2. Flying' \subseteq Flying \ X
  <2>1. ASSUME NEW i \in DataOf({g.ip : g \in air'}) PROVE i \in Flying \ X
    <3>1. PICK g \in air' : IsData(g.ip) /\ g.ip.body.id = i
      BY <2>1, DataOfIs
    <3>2. g \in air /\ g # f
      BY <3>1
    <3>3. ~(IsData(f.ip) /\ f.ip.body.id = i)
      BY <3>1, <3>2 DEF Places, OnceFlying, SameData
    <3> QED
      BY <3>1, <3>2, <3>3, DataOfIs, FlyingIs
  <2> QED
    BY <2>1 DEF Flying
<1>3. ASSUME NEW n \in Nodes PROVE Queued'[n] = Queued[n] /\ Looping'[n] \subseteq Looping[n]
  <2>1. DataOf(loopback'[n]) \subseteq DataOf(loopback[n])
    BY DataOfIs
  <2> QED
    BY <2>1 DEF Queued, Looping
<1> HIDE DEF X
<1>4. Apart(Queued, Looping, Flying, delivered, dropped)'
  BY <1>1, <1>2, <1>3 DEF Places, Apart, Disjoint, X
<1>5. Numbered(Queued, Looping, Flying, delivered, dropped, sent)'
  BY <1>1, <1>2, <1>3 DEF Places, Numbered, X
<1>6. ASSUME NEW n \in Nodes PROVE OnceQueued(m_queue[n])' /\ Once(loopback[n])'
  BY DEF Places, OnceQueued, Once, SameData
<1>7. OnceFlying(air)' /\ \A n \in Nodes : \A p \in toSend'[n] : ~IsData(p)
  BY DEF Places, OnceFlying, SameData
<1> QED
  BY <1>4, <1>5, <1>6, <1>7 DEF Places

LEMMA ReceiveDataPlaces ==
  ASSUME IInv, Places, NEW f \in air, ReceiveData(f) PROVE Places'
<1>1. /\ air' = air \ {f} /\ delivered' = delivered \cup DataOf({f.ip})
      /\ UNCHANGED <<m_queue, toSend>> /\ UNCHANGED <<loopback, sent, dropped>>
  BY DEF ReceiveData
<1> QED
  BY <1>1, LandPlaces

LEMMA DiscardPlaces ==
  ASSUME IInv, Places, NEW f \in air, Discard(f) PROVE Places'
<1> DEFINE n == f.to
           t == m_routingTable[n]
           own == f.ip.src = n
           b == Error({f.ip.dst})
           ps == IF own THEN {} ELSE ErrorToSource(n, t, f.ip)
           fs == IF own THEN {} ELSE ErrorToAll(n, t, f.ip)
<1>1. /\ Handled(f, t, ps, fs) /\ dropped' = dropped \cup DataOf({f.ip})
      /\ UNCHANGED <<m_queue, toSend>> /\ UNCHANGED <<sent, delivered>>
  BY DEF Discard
<1>2. n \in Nodes
  BY FrameFacts DEF IInv
<1>3. b.kind # "DATA"
  BY DEF Error
<1> HIDE DEF b, t
<1>4. FreeOfData(Flood(n, 1, b)) /\ \A to : ~IsData(Packet(n, to, 1, b))
  BY <1>3, FloodFree, PacketIs
<1>5. NoData(ps) /\ FreeOfData(fs)
  BY <1>4 DEF NoData, FreeOfData, ErrorToSource, ErrorToAll, b
<1> HIDE DEF ps, fs
<1>6. FreeOfData(Routed(n, t, ps)) /\ NoData(Unrouted(t, ps))
  BY <1>5, RoutedFree
<1>7. \A g \in air' : IsData(g.ip) => g \in air /\ g # f
  BY <1>1, <1>5, <1>6 DEF Handled, FreeOfData
<1>8. \A m \in Nodes : \A p \in loopback'[m] : IsData(p) => p \in loopback[m]
  BY <1>1, <1>2, <1>6 DEF IInv, Mail, Handled, NoData
<1> QED
  BY <1>1, <1>7, <1>8, LandPlaces

LEMMA ForwardingPlaces ==
  ASSUME IInv, Places, NEW f \in air, Forwarding(f) PROVE Places'
<1> DEFINE n == f.to
           p == f.ip
           hop == m_routingTable[n][p.dst].nextHop
           on == [p EXCEPT !.ttl = p.ttl - 1]
<1>1. /\ air' = (air \ {f}) \cup (IF p.ttl > 1 THEN Frame(n, hop, on) ELSE {})
      /\ dropped' = dropped \cup (IF p.ttl > 1 THEN {} ELSE DataOf({p}))
      /\ UNCHANGED <<m_queue, toSend>> /\ UNCHANGED <<loopback, sent, delivered>>
  BY DEF Forwarding
<1>2. n \in Nodes /\ sent \in Nat
  BY FrameFacts DEF IInv, Counts
<1>3. on.body = p.body
  <2> DEFINE ttl == p.ttl - 1
  <2>1. p \in IPPacket
    BY FrameFacts DEF IInv
  <2> HIDE DEF ttl, p
  <2> QED
    BY <2>1 DEF IPPacket
<1> HIDE DEF on, hop
<1>4. CASE p.ttl > 1
  <2>1. air' = (air \ {f}) \cup Frame(n, hop, on) /\ dropped' = dropped
    BY <1>1, <1>4
  <2>2. \A g \in Frame(n, hop, on) : g = [to |-> hop, ip |-> on]
    BY DEF Frame
  <2>3. \A g \in air' : \/ g \in air /\ g # f
                        \/ g = [to |-> hop, ip |-> on]
    BY <2>1, <2>2
  <2>4. /\ Disjoint(Queued[n], Looping[n], Flying, delivered, dropped)
        /\ OnceQueued(m_queue[n]) /\ Once(loopback[n]) /\ OnceFlying(air)
    BY <1>2, PlacesHere
  <2>5. Flying' \subseteq Flying
    <3>1. ASSUME NEW i \in DataOf({g.ip : g \in air'}) PROVE i \in Flying
      <4>1. PICK g \in air' : IsData(g.ip) /\ g.ip.body.id = i
        BY <3>1, DataOfIs
      <4>2. CASE g \in air
        BY <4>1, <4>2, FlyingIs
      <4>3. CASE g = [to |-> hop, ip |-> on]
        BY <1>3, <4>1, <4>3, FlyingIs DEF IsData
      <4> QED
        BY <2>3, <4>2, <4>3
    <3> QED
      BY <3>1 DEF Flying
  <2>6. OnceFlying(air')
    <3> SUFFICES ASSUME NEW g \in air', NEW h \in air', SameData(g.ip, h.ip) PROVE g = h
      BY DEF OnceFlying
    <3>1. ASSUME NEW k \in air, k # f PROVE ~SameData(k.ip, on) /\ ~SameData(on, k.ip)
      BY <1>3, <2>4, <3>1 DEF OnceFlying, SameData, IsData
    <3>2. CASE g \in air /\ g # f /\ h \in air /\ h # f
      BY <2>4, <3>2 DEF OnceFlying
    <3>3. CASE g = [to |-> hop, ip |-> on] /\ h \in air /\ h # f
      BY <3>1, <3>3
    <3>4. CASE h = [to |-> hop, ip |-> on] /\ g \in air /\ g # f
      BY <3>1, <3>4
    <3> QED
      BY <2>3, <3>2, <3>3, <3>4
  <2>7. Queued'[n] = Queued[n] /\ Looping'[n] = Looping[n]
    BY <1>1 DEF Queued, Looping
  <2>8. Disjoint(Queued'[n], Looping'[n], Flying', delivered', dropped')
    BY <1>1, <2>1, <2>4, <2>5, <2>7 DEF Disjoint
  <2>9. Queued'[n] \cup Looping'[n] \cup Flying' \cup delivered' \cup dropped'
          \subseteq Queued[n] \cup Looping[n] \cup Flying \cup delivered \cup dropped
                     \cup ((sent + 1)..sent')
    BY <1>1, <2>1, <2>5, <2>7
  <2>10. /\ \A m \in Nodes : \A q \in toSend'[m] : ~IsData(q)
         /\ OnceQueued(m_queue'[n]) /\ Once(loopback'[n])
    BY <1>1, <2>4 DEF Places
  <2>11. sent' \in Nat /\ sent <= sent'
    BY <1>1, <1>2
  <2> QED
    BY <1>1, <1>2, <2>6, <2>8, <2>9, <2>10, <2>11, StaysInPlace
<1>5. CASE ~(p.ttl > 1)
  BY <1>1, <1>5, LandPlaces
<1> QED
  BY <1>4, <1>5

LEMMA RouteOutputPlaces ==
  ASSUME IInv, Places, NEW n \in Nodes, NEW d \in Nodes, RouteOutput(n, d) PROVE Places'
<1> DEFINE b == [kind |-> "DATA", id |-> sent + 1]
           p == Packet(n, d, DataTtl, b)
           t == m_routingTable[n]
<1>1. /\ air' = air \cup Routed(n, t, {p})
      /\ loopback' = [loopback EXCEPT ![n] = @ \cup Unrouted(t, {p})]
      /\ UNCHANGED <<m_queue, toSend, delivered, dropped>> /\ sent' = sent + 1
  BY DEF RouteOutput
<1>2. sent \in Nat /\ loopback \in [Nodes -> SUBSET Unicasts(m_seqNo)]
  BY DEF IInv, Counts, Mail
<1>3. IsData(p) /\ p.body.id = sent + 1 /\ DataOf({p}) = {sent + 1}
  <2>1. IsData(p) /\ p.body.id = sent + 1
    BY PacketIs
  <2> HIDE DEF p
  <2> QED
    BY <2>1, DataOfIs
<1> HIDE DEF p, t
<1>4. /\ Disjoint(Queued[n], Looping[n], Flying, delivered, dropped)
      /\ OnceQueued(m_queue[n]) /\ Once(loopback[n]) /\ OnceFlying(air)
      /\ Looping[n] = DataOf(loopback[n])
      /\ sent + 1 \notin Queued[n] \cup Looping[n] \cup Flying \cup delivered \cup dropped
  <2>1. sent + 1 \notin 1..sent
    BY <1>2
  <2> QED
    BY <2>1, PlacesHere DEF Places, Numbered
<1>5. Queued'[n] = Queued[n] /\ OnceQueued(m_queue'[n])
  BY <1>1, <1>4 DEF Queued
<1>6. CASE Valid(t, p.dst)
  <2>1. Unrouted(t, {p}) = {} /\ \A g \in Routed(n, t, {p}) : g = [to |-> t[p.dst].nextHop, ip |-> p]
    BY <1>6 DEF Unrouted, Routed, Frame
  <2>2. loopback' = loopback
    BY <1>1, <1>2, <2>1
  <2>3. \A g \in air' : g \in air \/ g = [to |-> t[p.dst].nextHop, ip |-> p]
    BY <1>1, <2>1
  <2>4. Flying' \subseteq Flying \cup {sent + 1}
    <3>1. ASSUME NEW i \in DataOf({g.ip : g \in air'}) PROVE i \in Flying \cup {sent + 1}
      <4>1. PICK g \in air' : IsData(g.ip) /\ g.ip.body.id = i
        BY <3>1, DataOfIs
      <4> QED
        BY <1>3, <2>3, <4>1, FlyingIs
    <3> QED
      BY <3>1 DEF Flying
  <2>5. OnceFlying(air')
    <3>1. ASSUME NEW k \in air PROVE ~SameData(k.ip, p) /\ ~SameData(p, k.ip)
      BY <1>3, <1>4, FlyingIs DEF SameData
    <3> QED
      BY <1>4, <2>3, <3>1 DEF OnceFlying
  <2>6. Looping'[n] = Looping[n] /\ Once(loopback'[n])
    BY <1>4, <2>2 DEF Looping
  <2>7. Disjoint(Queued'[n], Looping'[n], Flying', delivered', dropped')
    BY <1>1, <1>4, <1>5, <2>4, <2>6 DEF Disjoint
  <2>8. Queued'[n] \cup Looping'[n] \cup Flying' \cup delivered' \cup dropped'
          \subseteq Queued[n] \cup Looping[n] \cup Flying \cup delivered \cup dropped
                     \cup ((sent + 1)..sent')
    BY <1>1, <1>2, <1>5, <2>4, <2>6
  <2>9. sent' \in Nat /\ sent <= sent' /\ \A m \in Nodes : \A q \in toSend'[m] : ~IsData(q)
    BY <1>1, <1>2 DEF Places
  <2> QED
    BY <1>1, <1>2, <1>5, <2>2, <2>5, <2>6, <2>7, <2>8, <2>9, StaysInPlace
<1>7. CASE ~Valid(t, p.dst)
  <2>1. Unrouted(t, {p}) = {p} /\ Routed(n, t, {p}) = {}
    BY <1>7 DEF Unrouted, Routed
  <2>2. air' = air /\ loopback'[n] = loopback[n] \cup {p}
        /\ \A m \in Nodes \ {n} : loopback'[m] = loopback[m]
    BY <1>1, <1>2, <2>1
  <2>3. Flying' = Flying /\ OnceFlying(air')
    BY <1>4, <2>2 DEF Flying
  <2>4. Looping'[n] \subseteq Looping[n] \cup {sent + 1}
    <3>1. DataOf(loopback[n] \cup {p}) \subseteq DataOf(loopback[n]) \cup {sent + 1}
      BY <1>3, DataOfIs
    <3> QED
      BY <1>4, <2>2, <3>1 DEF Looping
  <2>5. Once(loopback'[n])
    <3>1. ASSUME NEW r \in loopback[n] PROVE ~SameData(r, p) /\ ~SameData(p, r)
      BY <1>3, <1>4, DataOfIs DEF SameData
    <3> QED
      BY <1>4, <2>2, <3>1 DEF Once
  <2>6. Disjoint(Queued'[n], Looping'[n], Flying', delivered', dropped')
    BY <1>1, <1>4, <1>5, <2>3, <2>4 DEF Disjoint
  <2>7. Queued'[n] \cup Looping'[n] \cup Flying' \cup delivered' \cup dropped'
          \subseteq Queued[n] \cup Looping[n] \cup Flying \cup delivered \cup dropped
                     \cup ((sent + 1)..sent')
    BY <1>1, <1>2, <1>5, <2>3, <2>4
  <2>8. sent' \in Nat /\ sent <= sent' /\ \A m \in Nodes : \A q \in toSend'[m] : ~IsData(q)
    BY <1>1, <1>2 DEF Places
  <2> QED
    BY <1>1, <1>2, <1>5, <2>2, <2>3, <2>5, <2>6, <2>7, <2>8, StaysInPlace
<1> QED
  BY <1>6, <1>7

LEMMA DeferredRouteOutputPlaces ==
  ASSUME IInv, Places, NEW n \in Nodes, NEW p \in loopback[n], DeferredRouteOutput(n, p)
  PROVE  Places'
<1> DEFINE P == Unicasts(m_seqNo)
           q == m_queue[n]
           X == DataOf(Pushed(q))
<1>1. /\ loopback \in [Nodes -> SUBSET P] /\ m_queue \in [Nodes -> Seq(P)] /\ p \in P
      /\ sent \in Nat
  BY DEF IInv, Mail, Counts
<1>2. /\ loopback' = [loopback EXCEPT ![n] = @ \ {p}]
      /\ m_queue' = [m_queue EXCEPT ![n] = Enqueue(q, p)]
      /\ dropped' = dropped \cup X
      /\ UNCHANGED <<toSend, sent, delivered>>
  BY DEF DeferredRouteOutput
<1>3. PICK fs : FreeOfData(fs) /\ air' = air \cup fs
  <2>1. CASE InSearch(m_routingTable[n], p.dst)
    <3>1. FreeOfData({}) /\ air' = air \cup {}
      BY <2>1 DEF DeferredRouteOutput, FreeOfData
    <3> QED
      BY <3>1
  <2>2. CASE ~InSearch(m_routingTable[n], p.dst)
    <3>1. SendRequest(n, p.dst, m_addressReqTimer[n])
      BY <2>2 DEF DeferredRouteOutput
    <3> QED
      BY <3>1, RequestAir
  <2> QED
    BY <2>1, <2>2
<1>4. /\ Disjoint(Queued[n], Looping[n], Flying, delivered, dropped)
      /\ OnceQueued(q) /\ Once(loopback[n]) /\ OnceFlying(air)
      /\ Queued[n] = DataOf(PacketsOf(q)) /\ Looping[n] = DataOf(loopback[n])
  BY PlacesHere
<1>5. /\ m_queue'[n] = Enqueue(q, p) /\ loopback'[n] = loopback[n] \ {p}
      /\ \A m \in Nodes \ {n} : m_queue'[m] = m_queue[m] /\ loopback'[m] = loopback[m]
      /\ q \in Seq(P)
  BY <1>1, <1>2
<1> HIDE DEF q, P
<1>6. ASSUME NEW r \in PacketsOf(q) PROVE ~SameData(r, p)
  <2>1. SUFFICES ASSUME IsData(r), IsData(p), r.body.id = p.body.id PROVE FALSE
    BY DEF SameData
  <2>2. r.body.id \in Queued[n] /\ p.body.id \in Looping[n]
    BY <1>4, <2>1, DataOfIs
  <2> QED
    BY <1>4, <2>1, <2>2 DEF Disjoint
<1>7. /\ OnceQueued(Enqueue(q, p)) /\ X \subseteq Queued[n]
      /\ DataOf(PacketsOf(Enqueue(q, p))) \subseteq (Queued[n] \ X) \cup DataOf({p})
  <2>1. /\ OnceQueued(Enqueue(q, p)) /\ DataOf(Pushed(q)) \subseteq DataOf(PacketsOf(q))
        /\ DataOf(PacketsOf(Enqueue(q, p)))
             \subseteq (DataOf(PacketsOf(q)) \ DataOf(Pushed(q))) \cup DataOf({p})
    BY <1>1, <1>4, <1>5, <1>6, EnqueueOnce
  <2> QED
    BY <1>4, <2>1
<1> HIDE DEF X
<1>8. Queued'[n] \subseteq (Queued[n] \ X) \cup DataOf({p})
  BY <1>5, <1>7 DEF Queued
<1>9. DataOf({p}) \subseteq Looping[n]
  BY <1>4, DataOfIs
<1>10. Looping'[n] \subseteq Looping[n] \ DataOf({p}) /\ Once(loopback'[n])
  <2>1. DataOf(loopback[n] \ {p}) \subseteq DataOf(loopback[n]) \ DataOf({p})
    BY <1>4, DataOfIs DEF Once, SameData
  <2>2. Once(loopback[n] \ {p})
    BY <1>4 DEF Once
  <2> QED
    BY <1>4, <1>5, <2>1, <2>2 DEF Looping
<1>11. Flying' \subseteq Flying /\ OnceFlying(air')
  <2>1. ASSUME NEW i \in DataOf({f.ip : f \in air'}) PROVE i \in Flying
    <3>1. PICK f \in air' : IsData(f.ip) /\ f.ip.body.id = i
      BY <2>1, DataOfIs
    <3> QED
      BY <1>3, <3>1, FlyingIs DEF FreeOfData
  <2>2. Flying' \subseteq Flying
    BY <2>1 DEF Flying
  <2>3. OnceFlying(air')
    BY <1>3, <1>4 DEF OnceFlying, SameData, FreeOfData
  <2> QED
    BY <2>2, <2>3
<1>12. Disjoint(Queued'[n], Looping'[n], Flying', delivered', dropped')
  BY <1>2, <1>4, <1>7, <1>8, <1>9, <1>10, <1>11 DEF Disjoint
<1>13. Queued'[n] \cup Looping'[n] \cup Flying' \cup delivered' \cup dropped'
         \subseteq Queued[n] \cup Looping[n] \cup Flying \cup delivered \cup dropped
                    \cup ((sent + 1)..sent')
  BY <1>2, <1>7, <1>8, <1>9, <1>10, <1>11
<1>14. sent' \in Nat /\ sent <= sent' /\ \A m \in Nodes : \A r \in toSend'[m] : ~IsData(r)
  BY <1>1, <1>2 DEF Places
<1>15. OnceQueued(m_queue'[n])
  BY <1>5, <1>7
<1> QED
  BY <1>1, <1>5, <1>10, <1>11, <1>12, <1>13, <1>14, <1>15, StaysInPlace

-----------------------------------------------------------------------------
LEMMA PlacesInit == Init => Places
<1> SUFFICES ASSUME Init PROVE Places
  OBVIOUS
<1>1. DataOf({}) = {}
  BY DataOfIs
<1>2. \A n \in Nodes : Queued[n] = {} /\ Looping[n] = {}
  <2>1. \A n \in Nodes : PacketsOf(m_queue[n]) = {} /\ loopback[n] = {}
    BY DEF Init, PacketsOf
  <2> QED
    BY <1>1, <2>1 DEF Queued, Looping
<1>3. air = {} /\ delivered = {} /\ dropped = {}
  BY DEF Init
<1>4. Flying = {}
  BY <1>3, FlyingIs
<1>5. Apart(Queued, Looping, Flying, delivered, dropped)
  BY <1>2, <1>3, <1>4 DEF Apart, Disjoint
<1>6. Numbered(Queued, Looping, Flying, delivered, dropped, sent)
  BY <1>2, <1>3, <1>4 DEF Numbered
<1>7. OnceFlying(air)
  BY <1>3 DEF OnceFlying
<1>8. \A n \in Nodes : /\ OnceQueued(m_queue[n]) /\ Once(loopback[n])
                       /\ \A p \in toSend[n] : ~IsData(p)
  BY DEF Init, OnceQueued, Once
<1> QED
  BY <1>5, <1>6, <1>7, <1>8 DEF Places

LEMMA PlacesStep == IInv /\ Places /\ [Next]_vars => Places'
<1> SUFFICES ASSUME IInv, Places, [Next]_vars PROVE Places'
  OBVIOUS
<1>1. ASSUME NEW f \in air, Receive(f) PROVE Places'
  BY <1>1, DuplicateRequestPlaces, SendReplyPlaces, SendReplyByIntermediateNodePlaces,
     ForwardRequestPlaces, ProcessHelloPlaces, RecvReplyPlaces, RelayReplyPlaces,
     RecvReplyAckPlaces, RecvErrorPlaces, ReceiveDataPlaces, ForwardingPlaces, DiscardPlaces
     DEF Receive
<1>2. ASSUME NEW n \in Nodes, Internal(n) PROVE Places'
  BY <1>2, DeferredRouteOutputPlaces, SendToPlaces, RouteRequestTimerExpirePlaces,
     DelayedRequestPlaces, RreqRateLimitTimerExpirePlaces DEF Internal
<1>3. ASSUME NEW n \in Nodes, External(n) PROVE Places'
  BY <1>3, RouteOutputPlaces, BreaksLinkPlaces, SendHelloPlaces, RouteExpiresPlaces,
     PacketExpiresPlaces DEF External
<1>4. CASE UNCHANGED vars
  <2>1. UNCHANGED <<m_queue, fates>> /\ UNCHANGED <<loopback, toSend, air>>
    BY <1>4 DEF vars
  <2> QED
    BY <2>1, QuietKeeps DEF Places
<1> QED
  BY <1>1, <1>2, <1>3, <1>4 DEF Next

(* The data of a packet is in one queue, comes back through one loopback,  *)
(* is in the air, has arrived or has been given up; never two of these,    *)
(* and never twice in one of them.                                         *)
THEOREM PlacesInvariance == Spec => [](IInv /\ Places)
<1>1. Init => IInv /\ Places
  BY InitHolds, PlacesInit
<1>2. IInv /\ Places /\ [Next]_vars => (IInv /\ Places)'
  BY StepKeeps, PlacesStep
<1> QED
  BY <1>1, <1>2, PTL DEF Spec

LEMMA AtMostOne ==
  ASSUME NEW S, \A x, y \in S : x = y
  PROVE  Cardinality(S) = IF S = {} THEN 0 ELSE 1
<1>1. CASE S = {}
  BY <1>1, FS_EmptySet
<1>2. CASE S # {}
  <2>1. PICK x : S = {x}
    BY <1>2
  <2> QED
    BY <1>2, <2>1, FS_Singleton
<1> QED
  BY <1>1, <1>2

(* A data packet is never in two places, whatever flushes the queues and   *)
(* in whatever order replies, timers and the loopback come.                *)
THEOREM OnePlaceCorrect == Spec => []OnePlace
<1>1. IInv /\ Places => OnePlace
  <2> SUFFICES ASSUME IInv, Places, NEW i \in 1..sent
               PROVE  Cardinality({at \in Nodes \X (1..MaxQueueLen) :
                                     /\ at[2] <= Len(m_queue[at[1]])
                                     /\ i \in DataOf({m_queue[at[1]][at[2]]})})
                      + Cardinality({n \in Nodes : i \in DataOf(loopback[n])})
                      + Cardinality({f \in air : i \in DataOf({f.ip})})
                      + Cardinality({i} \cap delivered) + Cardinality({i} \cap dropped) <= 1
    BY DEF OnePlace
  <2> DEFINE queued == {at \in Nodes \X (1..MaxQueueLen) :
                          /\ at[2] <= Len(m_queue[at[1]])
                          /\ i \in DataOf({m_queue[at[1]][at[2]]})}
             looping == {n \in Nodes : i \in DataOf(loopback[n])}
             flying == {f \in air : i \in DataOf({f.ip})}
             arrived == {i} \cap delivered
             given == {i} \cap dropped
  <2>1. \A n \in Nodes : Len(m_queue[n]) \in Nat
    BY DEF IInv, Mail
  <2>2. ASSUME NEW at \in queued
        PROVE  /\ at[1] \in Nodes /\ at[2] \in 1..Len(m_queue[at[1]]) /\ at = <<at[1], at[2]>>
               /\ IsData(m_queue[at[1]][at[2]]) /\ m_queue[at[1]][at[2]].body.id = i
               /\ i \in Queued[at[1]]
    <3>1. MaxQueueLen \in Nat
      BY LimitsAssumption
    <3>2. at[1] \in Nodes /\ at[2] \in 1..Len(m_queue[at[1]]) /\ at = <<at[1], at[2]>>
      BY <2>1, <3>1
    <3>3. IsData(m_queue[at[1]][at[2]]) /\ m_queue[at[1]][at[2]].body.id = i
      BY DataOfIs
    <3>4. i \in DataOf(PacketsOf(m_queue[at[1]]))
      BY <3>2, <3>3, DataOfIs DEF PacketsOf
    <3> QED
      BY <3>2, <3>3, <3>4 DEF Queued
  <2>3. \A n \in looping : n \in Nodes /\ i \in Looping[n]
    BY DEF Looping
  <2>4. \A f \in flying : f \in air /\ IsData(f.ip) /\ f.ip.body.id = i /\ i \in Flying
    BY DataOfIs, FlyingIs
  <2>5. (arrived # {} => i \in delivered) /\ (given # {} => i \in dropped)
    OBVIOUS
  <2>6. ASSUME NEW at \in queued, NEW to \in queued PROVE at = to
    <3> HIDE DEF queued
    <3>1. at[1] = to[1]
      BY <2>2 DEF Places, Apart
    <3>2. SameData(m_queue[at[1]][at[2]], m_queue[at[1]][to[2]])
      BY <2>2, <3>1 DEF SameData
    <3>3. at[2] = to[2]
      BY <2>2, <3>1, <3>2 DEF Places, OnceQueued
    <3> QED
      BY <2>2, <3>1, <3>3
  <2>7. \A n, m \in looping : n = m
    BY <2>3 DEF Places, Apart
  <2>8. \A f, g \in flying : f = g
    BY <2>4 DEF Places, OnceFlying, SameData
  <2>9. Cardinality(queued) = IF queued = {} THEN 0 ELSE 1
    BY <2>6, AtMostOne
  <2>10. /\ Cardinality(looping) = IF looping = {} THEN 0 ELSE 1
         /\ Cardinality(flying) = IF flying = {} THEN 0 ELSE 1
    BY <2>7, <2>8, AtMostOne
  <2>11. /\ Cardinality(arrived) = IF arrived = {} THEN 0 ELSE 1
         /\ Cardinality(given) = IF given = {} THEN 0 ELSE 1
    BY AtMostOne
  <2> HIDE DEF queued, looping, flying, arrived, given
  <2>12. /\ \A n, m \in Nodes : i \in Queued[n] => i \notin Looping[m]
         /\ \A n \in Nodes : i \in Queued[n] \cup Looping[n]
               => i \notin Flying /\ i \notin delivered /\ i \notin dropped
         /\ i \in Flying => i \notin delivered /\ i \notin dropped
         /\ i \in delivered => i \notin dropped
    <3>1. Disjoint({}, {}, Flying, delivered, dropped)
      BY DEF Places, Apart
    <3>2. \A n, m \in Nodes : i \in Queued[n] => i \notin Looping[m]
      BY DEF Places, Apart, Disjoint
    <3>3. \A n \in Nodes : Disjoint(Queued[n], Looping[n], Flying, delivered, dropped)
      BY DEF Places, Apart
    <3> QED
      BY <3>1, <3>2, <3>3 DEF Disjoint
  <2>13. /\ queued # {} => looping = {} /\ flying = {} /\ arrived = {} /\ given = {}
         /\ looping # {} => flying = {} /\ arrived = {} /\ given = {}
         /\ flying # {} => arrived = {} /\ given = {}
         /\ arrived # {} => given = {}
    BY <2>2, <2>3, <2>4, <2>5, <2>12
  <2>14. Cardinality(queued) + Cardinality(looping) + Cardinality(flying)
           + Cardinality(arrived) + Cardinality(given) <= 1
    BY <2>9, <2>10, <2>11, <2>13
  <2> QED
    BY <2>14 DEF queued, looping, flying, arrived, given
<1> QED
  BY <1>1, PlacesInvariance, PTL
=============================================================================
