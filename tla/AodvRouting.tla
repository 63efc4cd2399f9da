---------------------------- MODULE AodvRouting ----------------------------
(***************************************************************************)
(* AODV route discovery (aodv-routing-protocol.cc) on every node of a      *)
(* small network: packets wait in a queue while an expanding ring search   *)
(* is under way, requests are flooded, replies travel back along the       *)
(* reverse route, errors follow broken links.                              *)
(*                                                                         *)
(* A handler is one action: the simulator runs events one at a time.  What *)
(* is in the air may arrive in any order; a copy that never arrives is     *)
(* lost.  Every AODV message is the body of an IP packet, so it is routed  *)
(* by the very tables the messages build.                                  *)
(***************************************************************************)
EXTENDS AodvTable, Sequences

CONSTANTS
  Links,          \* the neighbours each node can be heard by
  Broadcast,      \* the subnet's broadcast address
  TtlStart, TtlIncrement, TtlThreshold, NetDiameter,
  RreqRetries, RreqRateLimit, MaxQueueLen, GratuitousReply, DestinationOnly,
  Flows,          \* who sends data packets to whom: pairs of nodes
  DataTtl,        \* the TTL a data packet starts with
  Timely,         \* timers outlast everything under way, and nothing is lost
  MaxPackets,     \* bound: data packets sent
  MaxRequests,    \* bound: requests a node originates
  MaxFaults       \* bound: routes or packets that expire, links that break, hellos sent

ASSUME LinksAssumption == Links \in [Nodes -> SUBSET Nodes]
ASSUME FlowsAssumption == Flows \subseteq {flow \in Nodes \X Nodes : flow[1] # flow[2]}
ASSUME AddressAssumption == None \notin Nodes /\ Broadcast \notin Nodes
ASSUME TtlAssumption ==
  /\ {TtlStart, TtlIncrement, TtlThreshold, NetDiameter, DataTtl} \subseteq Nat \ {0}
  /\ TtlStart <= NetDiameter
  /\ TtlThreshold < NetDiameter
ASSUME LimitsAssumption ==
  /\ {RreqRetries, RreqRateLimit, MaxQueueLen} \subseteq Nat \ {0}
  /\ {Timely, GratuitousReply, DestinationOnly} \subseteq BOOLEAN
  /\ {MaxPackets, MaxRequests, MaxFaults} \subseteq Nat

VARIABLES
  m_routingTable,
  m_queue,            \* packets waiting for a route, oldest first
  m_addressReqTimer,  \* destinations whose request timer is running
  delayed,            \* how many SendRequest calls wait for the rate limit
  m_rreqCount,
  m_seqNo,
  m_requestId,
  m_rreqIdCache,
  m_nb,               \* neighbours known to the neighbour manager
  loopback,           \* packets without a route, on their way through m_lo
  toSend,             \* unicast errors whose jittered SendTo is pending
  air,                \* copies on their way: records [to, ip]
  sent,               \* data packets sent so far
  delivered, dropped, \* data packets that arrived, that a node gave up
  faults              \* expired routes and packets, broken links and hellos so far

search == <<m_addressReqTimer, delayed, m_rreqCount>>
numbers == <<m_seqNo, m_requestId>>
fates == <<sent, delivered, dropped>>
vars == <<m_routingTable, m_queue, m_rreqIdCache, m_nb, loopback, toSend, air, faults,
          search, numbers, fates>>

Unknown == -1    \* the destination sequence number of a request that has none

Init ==
  /\ m_routingTable = [n \in Nodes |-> [d \in Nodes |-> NoEntry]]
  /\ m_queue = [n \in Nodes |-> <<>>]
  /\ m_addressReqTimer = [n \in Nodes |-> {}]
  /\ delayed = [n \in Nodes |-> [d \in Nodes |-> 0]]
  /\ m_rreqCount = [n \in Nodes |-> 0]
  /\ m_seqNo = [n \in Nodes |-> 0]
  /\ m_requestId = [n \in Nodes |-> 0]
  /\ m_rreqIdCache = [n \in Nodes |-> {}]
  /\ m_nb = [n \in Nodes |-> {}]
  /\ loopback = [n \in Nodes |-> {}]
  /\ toSend = [n \in Nodes |-> {}]
  /\ air = {}
  /\ sent = 0 /\ delivered = {} /\ dropped = {}
  /\ faults = 0

-----------------------------------------------------------------------------
(* The IP layer under AODV, as AODV uses it.                               *)

Packet(src, dst, ttl, body) == [src |-> src, dst |-> dst, ttl |-> ttl, body |-> body]

(* The device hands a unicast frame to its neighbour, or loses it.         *)
Frame(n, hop, p) == IF hop \in Links[n] THEN {[to |-> hop, ip |-> p]} ELSE {}

Flood(n, ttl, body) ==
  {[to |-> m, ip |-> Packet(n, Broadcast, ttl, body)] : m \in Links[n]}

(* RouteOutput: a packet with a valid route goes to its gateway, any other *)
(* one comes back through the loopback device.                             *)
Routed(n, t, ps) ==
  UNION {Frame(n, t[p.dst].nextHop, p) : p \in {q \in ps : Valid(t, q.dst)}}
Unrouted(t, ps) == {p \in ps : ~Valid(t, p.dst)}

DataOf(ps) == {p.body.id : p \in {q \in ps : q.body.kind = "DATA"}}

Quiet == air = {} /\ \A n \in Nodes : loopback[n] = {} /\ toSend[n] = {}

SetTable(n, t) == m_routingTable' = [m_routingTable EXCEPT ![n] = t]

(* A handler of frame f that leaves table t and sends the unicasts ps and  *)
(* the frames fs.                                                          *)
Handled(f, t, ps, fs) ==
  /\ SetTable(f.to, t)
  /\ air' = (air \ {f}) \cup Routed(f.to, t, ps) \cup fs
  /\ loopback' = [loopback EXCEPT ![f.to] = @ \cup Unrouted(t, ps)]

-----------------------------------------------------------------------------
(* Route discovery by the node that wants to send.                         *)

NextTtl(e) ==
  CASE e.flag = "NONE" -> TtlStart
    [] e.flag = "IN_SEARCH" -> IF e.hops + TtlIncrement > TtlThreshold
                               THEN NetDiameter ELSE e.hops + TtlIncrement
    [] OTHER -> IF e.hops + TtlIncrement < NetDiameter
                THEN e.hops + TtlIncrement ELSE NetDiameter

(* The entry of the destination keeps the state of the search: its hop     *)
(* count is the TTL of the last request.                                   *)
Searched(e) ==
  [e EXCEPT !.flag = "IN_SEARCH", !.hops = NextTtl(e),
            !.reqCount = IF NextTtl(e) = NetDiameter THEN @ + 1 ELSE @]

Request(n, d) ==
  LET e == m_routingTable[n][d]
  IN [kind |-> "RREQ", origin |-> n, id |-> m_requestId[n] + 1,
      originSeqno |-> m_seqNo[n] + 1, dst |-> d,
      dstSeqno |-> IF e.validSeqNo THEN e.seqNo ELSE Unknown, hops |-> 0]

Originate(n, d) ==
  /\ m_rreqCount[n] # RreqRateLimit
  /\ m_requestId[n] < MaxRequests
  /\ m_rreqCount' = [m_rreqCount EXCEPT ![n] = @ + 1]
  /\ SetTable(n, [m_routingTable[n] EXCEPT ![d] = Searched(@)])
  /\ m_seqNo' = [m_seqNo EXCEPT ![n] = @ + 1]
  /\ m_requestId' = [m_requestId EXCEPT ![n] = @ + 1]
  /\ m_rreqIdCache' = [m_rreqIdCache EXCEPT ![n] = @ \cup {<<n, m_requestId[n] + 1>>}]
  /\ air' = air \cup Flood(n, NextTtl(m_routingTable[n][d]), Request(n, d))
  /\ m_addressReqTimer' = [m_addressReqTimer EXCEPT ![n] = @ \cup {d}]

(* slip: the request above the limit is not scheduled again.               *)
PostponeForgotten(n, d, timers) ==
  /\ m_rreqCount[n] = RreqRateLimit
  /\ m_addressReqTimer' = [m_addressReqTimer EXCEPT ![n] = timers]
  /\ UNCHANGED <<m_routingTable, delayed, m_rreqCount, numbers, m_rreqIdCache, air>>

(* Above the rate limit SendRequest only schedules itself for when the     *)
(* limit is lifted; timers is the set of request timers it leaves running. *)
Postpone(n, d, timers) ==
  /\ m_rreqCount[n] = RreqRateLimit
  /\ delayed' = [delayed EXCEPT ![n][d] = @ + 1]
  /\ m_addressReqTimer' = [m_addressReqTimer EXCEPT ![n] = timers]
  /\ UNCHANGED <<m_routingTable, m_rreqCount, numbers, m_rreqIdCache, air>>

SendRequest(n, d, timers) ==
  \/ Originate(n, d) /\ UNCHANGED delayed
  \/ Postpone(n, d, timers)

(* An application sends a packet to d.                                     *)
RouteOutput(n, d) ==
  /\ sent < MaxPackets /\ <<n, d>> \in Flows
  /\ sent' = sent + 1
  /\ LET t == m_routingTable[n]
         p == {Packet(n, d, DataTtl, [kind |-> "DATA", id |-> sent + 1])}
     IN /\ air' = air \cup Routed(n, t, p)
        /\ loopback' = [loopback EXCEPT ![n] = @ \cup Unrouted(t, p)]
  /\ UNCHANGED <<m_routingTable, m_queue, m_rreqIdCache, m_nb, toSend, faults,
                 delivered, dropped, search, numbers>>

(* RequestQueue::Enqueue drops the oldest packet when the queue is full.   *)
Enqueue(q, p) == Append(IF Len(q) = MaxQueueLen THEN Tail(q) ELSE q, p)
Pushed(q) == IF Len(q) = MaxQueueLen THEN {Head(q)} ELSE {}
(* slip: nothing is asked for while any entry exists.                      *)
DeferredIfUnknown(n, p) ==
  /\ p \in loopback[n]
  /\ loopback' = [loopback EXCEPT ![n] = @ \ {p}]
  /\ m_queue' = [m_queue EXCEPT ![n] = Enqueue(@, p)]
  /\ dropped' = dropped \cup DataOf(Pushed(m_queue[n]))
  /\ IF Has(m_routingTable[n], p.dst)
     THEN UNCHANGED <<m_routingTable, search, numbers, m_rreqIdCache, air>>
     ELSE SendRequest(n, p.dst, m_addressReqTimer[n])
  /\ UNCHANGED <<m_nb, toSend, faults, sent, delivered>>

DeferredRouteOutput(n, p) ==
  /\ p \in loopback[n]
  /\ loopback' = [loopback EXCEPT ![n] = @ \ {p}]
  /\ m_queue' = [m_queue EXCEPT ![n] = Enqueue(@, p)]
  /\ dropped' = dropped \cup DataOf(Pushed(m_queue[n]))
  /\ IF InSearch(m_routingTable[n], p.dst)
     THEN UNCHANGED <<m_routingTable, search, numbers, m_rreqIdCache, air>>
     ELSE SendRequest(n, p.dst, m_addressReqTimer[n])
  /\ UNCHANGED <<m_nb, toSend, faults, sent, delivered>>

RreqRateLimitTimerExpire(n) ==
  /\ m_rreqCount[n] > 0
  /\ m_rreqCount' = [m_rreqCount EXCEPT ![n] = 0]
  /\ UNCHANGED <<m_routingTable, m_queue, m_rreqIdCache, m_nb, loopback, toSend, air,
                 faults, m_addressReqTimer, delayed, numbers, fates>>

(* slip: the call is made again although it has been made.                 *)
DelayedTwice(n, d) ==
  /\ Originate(n, d)
  /\ delayed' = [delayed EXCEPT ![n][d] = @ - 1]
  /\ UNCHANGED <<m_queue, m_nb, loopback, toSend, faults, fates>>

(* The scheduled call; while the limit still holds it only schedules       *)
(* itself again.                                                           *)
DelayedRequest(n, d) ==
  /\ delayed[n][d] > 0
  /\ Originate(n, d)
  /\ delayed' = [delayed EXCEPT ![n][d] = @ - 1]
  /\ UNCHANGED <<m_queue, m_nb, loopback, toSend, faults, fates>>

PacketsOf(q) == {q[i] : i \in 1..Len(q)}
Waiting(q, d) == {p \in PacketsOf(q) : p.dst = d}

(* What Dequeue leaves: the packets to others, in their order.             *)
Kept(q, d) == {i \in 1..Len(q) : q[i].dst # d}
Rank(i, S) == Cardinality({k \in S : k <= i})
(* slip: a packet that is sent stays in the queue.                         *)
AllOf(q, d) == q
Rest(q, d) ==
  [j \in 1..Cardinality(Kept(q, d)) |->
     q[CHOOSE i \in Kept(q, d) : Rank(i, Kept(q, d)) = j]]

(* SendPacketFromQueue: what waits for d leaves by the gateway given.      *)
Flushed(n, d, hop) == UNION {Frame(n, hop, p) : p \in Waiting(m_queue[n], d)}

(* slip: one attempt too few.                                              *)
ExhaustedEarly(e) == e.reqCount = RreqRetries - 1
Exhausted(e) == e.reqCount = RreqRetries

(* The request timer of d: the route has been found meanwhile, or the      *)
(* search has been tried often enough, or it is tried again, or the route  *)
(* is down.                                                                *)
RouteRequestTimerExpire(n, d) ==
  /\ d \in m_addressReqTimer[n]
  /\ Timely => Quiet
  /\ LET e == m_routingTable[n][d]
         timers == m_addressReqTimer[n] \ {d}
     IN \/ /\ e.flag = "VALID"
           /\ air' = air \cup Flushed(n, d, e.nextHop)
           /\ m_queue' = [m_queue EXCEPT ![n] = Rest(@, d)]
           /\ m_addressReqTimer' = [m_addressReqTimer EXCEPT ![n] = timers]
           /\ UNCHANGED <<m_routingTable, delayed, m_rreqCount, numbers, m_rreqIdCache,
                          dropped>>
        \/ /\ e.flag = "IN_SEARCH" /\ ~Exhausted(e)
           /\ SendRequest(n, d, timers)
           /\ UNCHANGED <<m_queue, dropped>>
        \/ /\ e.flag # "VALID"
           /\ Exhausted(e) \/ e.flag # "IN_SEARCH"
           /\ SetTable(n, [m_routingTable[n] EXCEPT ![d] = NoEntry])
           /\ m_queue' = [m_queue EXCEPT ![n] = Rest(@, d)]
           /\ dropped' = dropped \cup DataOf(Waiting(m_queue[n], d))
           /\ m_addressReqTimer' = [m_addressReqTimer EXCEPT ![n] = timers]
           /\ UNCHANGED <<delayed, m_rreqCount, numbers, m_rreqIdCache, air>>
  /\ UNCHANGED <<m_nb, loopback, toSend, faults, sent, delivered>>

-----------------------------------------------------------------------------
(* What RecvAodv does for every message: a route to the neighbour it came  *)
(* from.  A known route of one hop is left as it is, valid or not.         *)
UpdateRouteToNeighbor(t, src) ==
  IF t[src].validSeqNo /\ t[src].hops = 1 /\ Has(t, src) THEN t
  ELSE [t EXCEPT ![src] = NewEntry(FALSE, 0, 1, src)]

(* RouteInput, local unicast delivery: the neighbour towards the source is *)
(* alive.                                                                  *)
Heard(n, p) ==
  IF p.dst = n /\ Valid(m_routingTable[n], p.src)
  THEN {m_routingTable[n][p.src].nextHop} ELSE {}

(* A frame f for its receiver with a body of the kind given.               *)
Arrives(f, kind) ==
  /\ f \in air
  /\ f.ip.src # f.to
  /\ f.ip.dst \in {f.to, Broadcast}
  /\ f.ip.body.kind = kind

-----------------------------------------------------------------------------
(* RecvRequest.                                                            *)

(* The reverse route is always turned to the sender, however old the       *)
(* request; whether it is valid does not change.                           *)
ReverseRoute(e, r, src) ==
  IF e.flag = "NONE" THEN NewEntry(TRUE, r.originSeqno, r.hops + 1, src)
  ELSE [e EXCEPT !.seqNo = IF e.validSeqNo /\ e.seqNo >= r.originSeqno
                           THEN @ ELSE r.originSeqno,
                 !.validSeqNo = TRUE, !.nextHop = src, !.hops = r.hops + 1]
(* slip: the number, which is the originator's, is marked valid.           *)
NumberToSender(e, r, src) ==
  [NewEntry(TRUE, r.originSeqno, 1, src) EXCEPT !.precursors = e.precursors]
RouteToSender(e, r, src) ==
  [NewEntry(FALSE, r.originSeqno, 1, src) EXCEPT !.precursors = e.precursors]

AfterRequest(t, r, src) ==
  LET t1 == [t EXCEPT ![r.origin] = ReverseRoute(@, r, src)]
  IN [t1 EXCEPT ![src] = RouteToSender(@, r, src)]

Reply(dst, dstSeqno, hops, origin, ack) ==
  [kind |-> "RREP", dst |-> dst, dstSeqno |-> dstSeqno, hops |-> hops,
   origin |-> origin, ackRequired |-> ack]
IsDuplicate(n, r) == <<r.origin, r.id>> \in m_rreqIdCache[n]

(* The entry for the destination lets the node answer in its place.        *)
KnowsBetter(e, r) ==
  e.validSeqNo /\ (r.dstSeqno = Unknown \/ e.seqNo >= r.dstSeqno)
Answers(e, r) == KnowsBetter(e, r) /\ ~DestinationOnly /\ e.flag = "VALID"

(* "Drop RREQ, This node RREP will make a loop."                           *)
WouldLoop(e, src) == e.nextHop = src

DuplicateRequest(f) ==
  /\ Arrives(f, "RREQ") /\ IsDuplicate(f.to, f.ip.body)
  /\ Handled(f, UpdateRouteToNeighbor(m_routingTable[f.to], f.ip.src), {}, {})
  /\ UNCHANGED <<m_queue, m_rreqIdCache, m_nb, toSend, faults, search, numbers, fates>>

(* What every first copy of a request does.                                *)
FirstRequest(f) ==
  /\ Arrives(f, "RREQ") /\ ~IsDuplicate(f.to, f.ip.body)
  /\ m_rreqIdCache' = [m_rreqIdCache EXCEPT ![f.to] = @ \cup {<<f.ip.body.origin, f.ip.body.id>>}]
  /\ m_nb' = [m_nb EXCEPT ![f.to] = @ \cup {f.ip.src}]
  /\ UNCHANGED <<m_queue, toSend, faults, search, m_requestId, fates>>

TableAfter(f) ==
  AfterRequest(UpdateRouteToNeighbor(m_routingTable[f.to], f.ip.src), f.ip.body, f.ip.src)

SendReply(f) ==
  LET n == f.to
      r == f.ip.body
      o == TableAfter(f)[r.origin]
      seqNo == IF r.dstSeqno = m_seqNo[n] + 1 THEN m_seqNo[n] + 1 ELSE m_seqNo[n]
  IN /\ FirstRequest(f) /\ r.dst = n
     /\ m_seqNo' = [m_seqNo EXCEPT ![n] = seqNo]
     /\ Handled(f, TableAfter(f),
                {Packet(n, o.nextHop, o.hops, Reply(n, seqNo, 0, r.origin, FALSE))}, {})

(* SendReplyByIntermediateNode, with the unasked reply to the destination. *)
SendReplyByIntermediateNode(f) ==
  LET n == f.to
      r == f.ip.body
      t == TableAfter(f)
      o == t[r.origin]
      e == t[r.dst]
      answer == Packet(n, o.nextHop, o.hops,
                       Reply(r.dst, e.seqNo, e.hops, r.origin, e.hops = 1))
      gratuitous == Packet(n, e.nextHop, e.hops,
                           Reply(r.origin, o.seqNo, o.hops, r.dst, FALSE))
  IN /\ FirstRequest(f) /\ r.dst # n
     /\ ~WouldLoop(e, f.ip.src) /\ Answers(e, r)
     /\ Handled(f, WithPrecursor(WithPrecursor(t, r.dst, o.nextHop), r.origin, e.nextHop),
                {answer} \cup (IF GratuitousReply THEN {gratuitous} ELSE {}), {})
     /\ UNCHANGED m_seqNo

ForwardRequest(f) ==
  LET n == f.to
      r == f.ip.body
      t == TableAfter(f)
      e == t[r.dst]
      next == [r EXCEPT !.hops = @ + 1,
                        !.dstSeqno = IF KnowsBetter(e, r) THEN e.seqNo ELSE @]
  IN /\ FirstRequest(f) /\ r.dst # n
     /\ WouldLoop(e, f.ip.src) \/ ~Answers(e, r)
     /\ Handled(f, t, {},
                IF ~WouldLoop(e, f.ip.src) /\ f.ip.ttl > 1
                THEN Flood(n, f.ip.ttl - 1, next) ELSE {})
     /\ UNCHANGED m_seqNo

-----------------------------------------------------------------------------
(* RecvReply.                                                              *)

(* The circumstances under which the entry e is updated.                   *)
Fresher(e, r) ==
  \/ ~e.validSeqNo
  \/ r.dstSeqno > e.seqNo
  \/ r.dstSeqno = e.seqNo /\ e.flag # "VALID"
  \/ r.dstSeqno = e.seqNo /\ r.hops + 1 < e.hops

(* slip: the reply's own hop is not counted.                               *)
RouteAsTold(r, src) == NewEntry(TRUE, r.dstSeqno, r.hops, src)
RouteOf(r, src) == NewEntry(TRUE, r.dstSeqno, r.hops + 1, src)

AfterReply(t, r, src) ==
  IF Has(t, r.dst) /\ ~Fresher(t[r.dst], r) THEN t
  ELSE [t EXCEPT ![r.dst] = RouteOf(r, src)]

Neighbored(f) == UpdateRouteToNeighbor(m_routingTable[f.to], f.ip.src)
Replied(f) == AfterReply(Neighbored(f), f.ip.body, f.ip.src)

Ack(f) ==
  IF f.ip.body.ackRequired
  THEN {Packet(f.to, f.ip.src, 1, [kind |-> "RREP_ACK"])} ELSE {}

IsHello(r) == r.dst = r.origin

ProcessHello(f) ==
  LET n == f.to
      r == f.ip.body
      hello == [NewEntry(TRUE, r.dstSeqno, 1, r.dst) EXCEPT
                  !.precursors = Neighbored(f)[r.dst].precursors]
  IN /\ Arrives(f, "RREP") /\ IsHello(r)
     /\ Handled(f, [Neighbored(f) EXCEPT ![r.dst] = hello], {}, {})
     /\ m_nb' = [m_nb EXCEPT ![n] = @ \cup {r.dst}]
     /\ UNCHANGED <<m_queue, m_rreqIdCache, toSend, faults, search, numbers, fates>>

(* The reply to a request of this node.  When the search is still on, the  *)
(* route is taken whatever its sequence number.                            *)
RecvReply(f) ==
  LET n == f.to
      r == f.ip.body
      found == InSearch(Neighbored(f), r.dst)
      t == IF found THEN [Replied(f) EXCEPT ![r.dst] = RouteOf(r, f.ip.src)] ELSE Replied(f)
  IN /\ Arrives(f, "RREP") /\ ~IsHello(r) /\ r.origin = n
     /\ Handled(f, t, Ack(f), Flushed(n, r.dst, t[r.dst].nextHop))
     /\ m_addressReqTimer' = [m_addressReqTimer EXCEPT ![n] = IF found THEN @ \ {r.dst} ELSE @]
     /\ m_queue' = [m_queue EXCEPT ![n] = Rest(@, r.dst)]
     /\ m_nb' = [m_nb EXCEPT ![n] = @ \cup Heard(n, f.ip)]
     /\ UNCHANGED <<m_rreqIdCache, toSend, faults, delayed, m_rreqCount, numbers, fates>>

(* The precursors of both directions, one copy of an entry after the       *)
(* other: toOrigin is the copy taken first.                                *)
AfterRelay(t, d, o) ==
  LET toOrigin == t[o]
      hop == t[d].nextHop
      t1 == WithPrecursor(t, d, toOrigin.nextHop)
      t2 == IF hop \in Nodes THEN WithPrecursor(t1, hop, toOrigin.nextHop) ELSE t1
      t3 == WithPrecursor([t2 EXCEPT ![o] = toOrigin], o, hop)
  IN IF Valid(t, d) THEN WithPrecursor(t3, toOrigin.nextHop, hop) ELSE t

(* "Impossible! drop.": the reply of somebody else's search finds no       *)
(* reverse route to follow.                                                *)
NoReverseRoute(f) ==
  LET e == Replied(f)[f.ip.body.origin] IN e.flag \in {"NONE", "IN_SEARCH"}

RelayReply(f) ==
  LET n == f.to
      r == f.ip.body
      t == Replied(f)
      o == t[r.origin]
      next == [r EXCEPT !.hops = @ + 1, !.ackRequired = FALSE]
      forwarded == IF f.ip.ttl > 1 THEN {Packet(n, o.nextHop, f.ip.ttl - 1, next)} ELSE {}
  IN /\ Arrives(f, "RREP") /\ ~IsHello(r) /\ r.origin # n
     /\ IF NoReverseRoute(f)
        THEN Handled(f, t, Ack(f), {})
        ELSE Handled(f, AfterRelay(t, r.dst, r.origin), Ack(f) \cup forwarded, {})
     /\ m_nb' = [m_nb EXCEPT ![n] = @ \cup Heard(n, f.ip)]
     /\ UNCHANGED <<m_queue, m_rreqIdCache, toSend, faults, search, numbers, fates>>

RecvReplyAck(f) ==
  LET t == Neighbored(f)
  IN /\ Arrives(f, "RREP_ACK")
     /\ Handled(f, [t EXCEPT ![f.ip.src].flag = "VALID", ![f.ip.src].reqCount = 0], {}, {})
     /\ m_nb' = [m_nb EXCEPT ![f.to] = @ \cup Heard(f.to, f.ip)]
     /\ UNCHANGED <<m_queue, m_rreqIdCache, toSend, faults, search, numbers, fates>>

-----------------------------------------------------------------------------
(* Broken links.  A message names the destinations no longer reached; the  *)
(* sequence numbers beside them are read by nobody.                        *)

Error(un) == [kind |-> "RERR", unreachable |-> un]

(* SendRerrMessage: one precursor gets a unicast, after a jitter and only  *)
(* if there is a valid route to it; several get a broadcast.               *)
ErrorUnicast(n, t, un, to) ==
  IF Cardinality(to) = 1
  THEN {Packet(n, p, 1, Error(un)) : p \in {q \in to : Valid(t, q)}} ELSE {}
ErrorBroadcast(n, t, un, to) ==
  IF Cardinality(to) > 1 /\ \E p \in to : Valid(t, p) THEN Flood(n, 1, Error(un)) ELSE {}

RecvError(f) ==
  LET n == f.to
      t == Neighbored(f)
      un == f.ip.body.unreachable \cap WithNextHop(t, f.ip.src)
      to == Precursors(t, un)
  IN /\ Arrives(f, "RERR")
     /\ Handled(f, Invalidate(t, un), {}, ErrorBroadcast(n, t, un, to))
     /\ toSend' = [toSend EXCEPT ![n] = @ \cup ErrorUnicast(n, t, un, to)]
     /\ m_nb' = [m_nb EXCEPT ![n] = @ \cup Heard(n, f.ip)]
     /\ UNCHANGED <<m_queue, m_rreqIdCache, faults, search, numbers, fates>>

(* The neighbour manager gives up neighbour h: it has been silent too      *)
(* long, or a frame to it failed (Neighbors::Purge).                       *)
SendRerrWhenBreaksLinkToNextHop(n, h) ==
  LET t == m_routingTable[n]
      un == {h} \cup WithNextHop(t, h)
      to == Precursors(t, un)
  IN /\ h \in m_nb[n] /\ faults < MaxFaults
     /\ faults' = faults + 1
     /\ m_nb' = [m_nb EXCEPT ![n] = @ \ {h}]
     /\ \/ /\ ~Has(t, h)
           /\ UNCHANGED <<m_routingTable, air, toSend>>
        \/ /\ Has(t, h)
           /\ SetTable(n, Invalidate(t, un))
           /\ air' = air \cup ErrorBroadcast(n, t, un, to)
           /\ toSend' = [toSend EXCEPT ![n] = @ \cup ErrorUnicast(n, t, un, to)]
     /\ UNCHANGED <<m_queue, m_rreqIdCache, loopback, search, numbers, fates>>

SendTo(n, p) ==
  /\ p \in toSend[n]
  /\ toSend' = [toSend EXCEPT ![n] = @ \ {p}]
  /\ air' = air \cup Routed(n, m_routingTable[n], {p})
  /\ loopback' = [loopback EXCEPT ![n] = @ \cup Unrouted(m_routingTable[n], {p})]
  /\ UNCHANGED <<m_routingTable, m_queue, m_rreqIdCache, m_nb, faults, search, numbers, fates>>

-----------------------------------------------------------------------------
(* Packets that are not for AODV itself.                                   *)

ReceiveData(f) ==
  /\ Arrives(f, "DATA")
  /\ air' = air \ {f}
  /\ delivered' = delivered \cup DataOf({f.ip})
  /\ m_nb' = [m_nb EXCEPT ![f.to] = @ \cup Heard(f.to, f.ip)]
  /\ UNCHANGED <<m_routingTable, m_queue, m_rreqIdCache, loopback, toSend, faults, search,
                 numbers, sent, dropped>>

(* SendRerrWhenNoRouteToForward: towards the source if there is a route,   *)
(* to everybody otherwise.                                                 *)
ErrorToSource(n, t, p) ==
  IF Valid(t, p.src) THEN {Packet(n, t[p.src].nextHop, 1, Error({p.dst}))} ELSE {}
ErrorToAll(n, t, p) == IF Valid(t, p.src) THEN {} ELSE Flood(n, 1, Error({p.dst}))

Strange(f) == f \in air /\ f.ip.dst \notin {f.to, Broadcast}

(* Forward a packet for somebody else; the TTL runs out after the tables   *)
(* were consulted.                                                         *)
Forwarding(f) ==
  LET n == f.to
      p == f.ip
      t == m_routingTable[n]
      on == [p EXCEPT !.ttl = @ - 1]
  IN /\ Strange(f) /\ p.src # n /\ Valid(t, p.dst)
     /\ air' = (air \ {f}) \cup (IF p.ttl > 1 THEN Frame(n, t[p.dst].nextHop, on) ELSE {})
     /\ dropped' = dropped \cup (IF p.ttl > 1 THEN {} ELSE DataOf({p}))
     /\ m_nb' = [m_nb EXCEPT ![n] =
                   (@ \cup {t[p.dst].nextHop, t[p.src].nextHop}) \cap Nodes]
     /\ UNCHANGED <<m_routingTable, m_queue, m_rreqIdCache, loopback, toSend, faults,
                    search, numbers, sent, delivered>>

(* No route to forward it by; or it is one of the node's own packets, come *)
(* back to it, which is dropped without a word.                            *)
Discard(f) ==
  LET n == f.to
      t == m_routingTable[n]
      own == f.ip.src = n
  IN /\ Strange(f) /\ (own \/ ~Valid(t, f.ip.dst))
     /\ Handled(f, t, IF own THEN {} ELSE ErrorToSource(n, t, f.ip),
                   IF own THEN {} ELSE ErrorToAll(n, t, f.ip))
     /\ dropped' = dropped \cup DataOf({f.ip})
     /\ UNCHANGED <<m_queue, m_rreqIdCache, m_nb, toSend, faults, search, numbers, sent,
                    delivered>>

-----------------------------------------------------------------------------
SendHello(n) ==
  /\ faults < MaxFaults
  /\ faults' = faults + 1
  /\ air' = air \cup Flood(n, 1, Reply(n, m_seqNo[n], 0, n, FALSE))
  /\ UNCHANGED <<m_routingTable, m_queue, m_rreqIdCache, m_nb, loopback, toSend, search,
                 numbers, fates>>

(* The lifetime of an entry is over.                                       *)
RouteExpires(n, d) ==
  /\ m_routingTable[n][d].flag \in {"VALID", "INVALID"}
  /\ faults < MaxFaults
  /\ faults' = faults + 1
  /\ SetTable(n, Purge(m_routingTable[n], d))
  /\ UNCHANGED <<m_queue, m_rreqIdCache, m_nb, loopback, toSend, air, search, numbers, fates>>

(* The oldest packet of a queue has waited too long (RequestQueue::Purge). *)
PacketExpires(n) ==
  /\ m_queue[n] # <<>>
  /\ faults < MaxFaults
  /\ faults' = faults + 1
  /\ m_queue' = [m_queue EXCEPT ![n] = Tail(@)]
  /\ dropped' = dropped \cup DataOf({Head(m_queue[n])})
  /\ UNCHANGED <<m_routingTable, m_rreqIdCache, m_nb, loopback, toSend, air, search, numbers,
                 sent, delivered>>

Receive(f) ==
  \/ DuplicateRequest(f) \/ SendReply(f) \/ SendReplyByIntermediateNode(f) \/ ForwardRequest(f)
  \/ ProcessHello(f) \/ RecvReply(f) \/ RelayReply(f) \/ RecvReplyAck(f) \/ RecvError(f)
  \/ ReceiveData(f) \/ Forwarding(f) \/ Discard(f)

(* What the node has promised itself to do.                                *)
Internal(n) ==
  \/ \E p \in loopback[n] : DeferredRouteOutput(n, p)
  \/ \E p \in toSend[n] : SendTo(n, p)
  \/ \E d \in Nodes : RouteRequestTimerExpire(n, d)
  \/ \E d \in Nodes : DelayedRequest(n, d)
  \/ RreqRateLimitTimerExpire(n)

(* What its surroundings do.                                               *)
External(n) ==
  \/ \E d \in Nodes : RouteOutput(n, d)
  \/ \E h \in Nodes : SendRerrWhenBreaksLinkToNextHop(n, h)
  \/ SendHello(n)
  \/ \E d \in Nodes : RouteExpires(n, d)
  \/ PacketExpires(n)

Next ==
  \/ \E f \in air : Receive(f)
  \/ \E n \in Nodes : Internal(n) \/ External(n)

Spec == Init /\ [][Next]_vars

(* The simulator runs every event that is scheduled.                       *)
Underway == (\E f \in air : Receive(f)) \/ (\E n \in Nodes : Internal(n))
FairSpec == Spec /\ WF_vars(Underway)

-----------------------------------------------------------------------------
Body ==
  [kind: {"DATA"}, id: Nat]
  \cup [kind: {"RREQ"}, origin: Nodes, id: Nat, originSeqno: Nat, dst: Nodes,
        dstSeqno: Nat \cup {Unknown}, hops: Nat]
  \cup [kind: {"RREP"}, dst: Nodes, dstSeqno: Nat, hops: Nat, origin: Nodes,
        ackRequired: BOOLEAN]
  \cup [kind: {"RREP_ACK"}]
  \cup [kind: {"RERR"}, unreachable: SUBSET Nodes]

IPPacket == [src: Nodes, dst: Nodes \cup {Broadcast}, ttl: Nat, body: Body]
Unicast == [src: Nodes, dst: Nodes, ttl: Nat, body: Body]

TypeOK ==
  /\ m_routingTable \in [Nodes -> [Nodes -> Entry]]
  /\ m_queue \in [Nodes -> Seq(Unicast)]
  /\ m_addressReqTimer \in [Nodes -> SUBSET Nodes]
  /\ delayed \in [Nodes -> [Nodes -> Nat]]
  /\ {m_rreqCount, m_seqNo, m_requestId} \subseteq [Nodes -> Nat]
  /\ m_rreqIdCache \in [Nodes -> SUBSET (Nodes \X Nat)]
  /\ m_nb \in [Nodes -> SUBSET Nodes]
  /\ {loopback, toSend} \subseteq [Nodes -> SUBSET Unicast]
  /\ air \subseteq [to: Nodes, ip: IPPacket]
  /\ sent \in Nat /\ {delivered, dropped} \subseteq SUBSET Nat
  /\ faults \in Nat

(* A destination that is being searched has a request timer running or a   *)
(* postponed request: DeferredRouteOutput asks for nothing while the entry *)
(* is in search, so a search without a timer would never end and nothing   *)
(* would be sent to that destination any more.                             *)
SearchHasTimer ==
  \A n, d \in Nodes : InSearch(m_routingTable[n], d) =>
     d \in m_addressReqTimer[n] \/ delayed[n][d] > 0

(* Every packet in a request queue has a running timer or a postponed      *)
(* request that will release it, even though other messages turn the entry *)
(* it waits for valid or remove it behind the search's back.               *)
QueuedIsSought ==
  \A n \in Nodes : \A p \in PacketsOf(m_queue[n]) :
     p.dst \in m_addressReqTimer[n] \/ delayed[n][p.dst] > 0

(* Nobody holds or spreads a sequence number its owner has not reached:    *)
(* a route believed fresher than what the destination itself can say could *)
(* never be replaced.                                                      *)
KnownSeqNos ==
  /\ \A n, d \in Nodes : m_routingTable[n][d].validSeqNo =>
        m_routingTable[n][d].seqNo <= m_seqNo[d]
  /\ \A f \in air : LET m == f.ip.body IN
        /\ m.kind = "RREQ" => m.originSeqno <= m_seqNo[m.origin] /\ m.dstSeqno <= m_seqNo[m.dst]
        /\ m.kind = "RREP" => m.dstSeqno <= m_seqNo[m.dst]

(* A route that is not being searched leads to another node, and one of    *)
(* one hop straight to its destination: the hop count of an entry is       *)
(* overwritten by the TTL of a search, by reverse routes and by replies    *)
(* that other nodes relay, and an acknowledgement makes an entry valid     *)
(* whatever it says.                                                       *)
RoutesLead ==
  \A n, d \in Nodes : m_routingTable[n][d].flag \in {"VALID", "INVALID"} =>
     /\ m_routingTable[n][d].nextHop \notin {None, n}
     /\ m_routingTable[n][d].hops = 1 => m_routingTable[n][d].nextHop = d

(* The valid routes to a destination never run in a circle, which is what  *)
(* RecvRequest's "This node RREP will make a loop" is there for.           *)
LoopFree ==
  \A d \in Nodes : ~\E S \in SUBSET (Nodes \ {d}) :
     /\ S # {}
     /\ \A n \in S : Valid(m_routingTable[n], d) /\ m_routingTable[n][d].nextHop \in S

(* A data packet is never in two places: a queue is flushed by the reply   *)
(* and by the timer, a packet comes back through the loopback, and a full  *)
(* queue drops what another flush may have sent.                           *)
OnePlace ==
  \A i \in 1..sent :
     Cardinality({at \in Nodes \X (1..MaxQueueLen) :
                    /\ at[2] <= Len(m_queue[at[1]])
                    /\ i \in DataOf({m_queue[at[1]][at[2]]})})
     + Cardinality({n \in Nodes : i \in DataOf(loopback[n])})
     + Cardinality({f \in air : i \in DataOf({f.ip})})
     + Cardinality({i} \cap delivered) + Cardinality({i} \cap dropped) <= 1

(* A route discovery is attempted RreqRetries times at the maximum TTL and *)
(* no more: then its packets are dropped.                                  *)
AttemptsBounded == \A n, d \in Nodes : m_routingTable[n][d].reqCount <= RreqRetries

(* When nothing is lost and the timers outlast the messages, whatever has  *)
(* been sent has at some later time all reached its destination.           *)
Delivered == []<>(delivered = 1..sent)
=============================================================================
