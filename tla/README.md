# Formal model of the VANET simulation and the ns-3 parts it runs on

The repository is the ns-3.44 "allinone" tree with a course program on top,
`ns-3.44/scratch/vanet-simulation.cc`: vehicles on an ad-hoc Wi-Fi network
broadcast messages, and a vehicle that hears an "IAM_SANBAO" message turns red
in the animation for half a second and raises an alert.  This directory holds
TLA+ modules translated from that source, the TLC configurations that check
them on small instances, and proofs that TLAPS checks for every instance.
Paths below are relative to `ns-3.44/` unless they say otherwise.

## 1. Inventory

| Component | State | Operations | Interacts with |
|---|---|---|---|
| VANET program, application (`scratch/vanet-simulation.cc`) | `m_running`, `m_sendEvent`, sockets, colours, timers | `StartApplication`, `StopApplication`, `ScheduleTx`, `SendPacket`, `ReceivePacket`, `SendSanbaoAlertToRealServer` | schedules events on the simulator, sends and receives through UDP sockets |
| VANET program, message tag | time, plate, MAC, flag, node id | `Serialize`, `Deserialize`, `GetSerializedSize` | written into and read from the packet's tag list |
| Simulation engine (`src/core/model/default-simulator-impl.cc`) | event list, clock, uid counter, posted events, destroy events | `Schedule*`, `Stop`, `Cancel`, `Remove`, `IsExpired`, `Run`, `Destroy`, `DoDispose` | every component schedules events on it; other threads post to it |
| Schedulers (`src/core/model/*-scheduler.cc`) | the event list | `Insert`, `PeekNext`, `RemoveNext`, `Remove` | called by the engine only |
| Simulator facade, Timer, Watchdog (`src/core/model`) | the engine in use; the event of a timer | create/destroy; suspend, resume, ping | wrap the engine |
| Real-time simulator (`src/core/model/realtime-simulator-impl.cc`) | as the engine, under a mutex | as the engine, plus waiting for the wall clock | other threads, the wall clock |
| Packet tag lists (`src/network/model/packet-tag-list.cc`) | trees of tags shared by packets | `Add`, `Peek`, `Remove`, `Replace` | carry the VANET tag |
| AODV (`src/aodv/model`) | routing table, sequence numbers, request ids, queue of waiting packets, neighbours | route request, reply, error, hello, timeouts, forwarding | IPv4 asks it for routes; it sends through UDP; its tables route its own messages |
| ARP (`src/internet/model/arp-*.cc`) | cache entries with pending packets, one retry timer per cache | `Lookup`, `Receive`, retries; entries preset by the neighbour helper | between IPv4 and the device |
| IPv4, UDP (`src/internet/model`) | endpoints, receive buffers | bind, send, receive, close | between AODV/applications and ARP |
| Wi-Fi MAC (`src/wifi/model`) | back-off, access state, queues | contention, transmission, retry | between IPv4 and the channel |
| Mobility, propagation, NetAnim output | positions, colours | polling, file output | read by the program |

What makes the system hard: the order of events due at one instant; events
other threads post while the loop runs or the main thread sleeps; ids of events
that outlive what they refer to; timers that overlap; routes and caches built
from messages that are lost, late or overtaken, while packets wait for them;
messages lost or late around start and stop; and containers edited by hand (the
heap, the tag buffer).  PROJECT.json lists each hazard at its line with the
properties that cover it, or says why none does.

What makes each component correct: the engine runs what is planned, in order and
once, and says so when asked; the scheduler gives back the earliest event; the
lists of tags behave as if nothing were shared; a vehicle sends while it runs
and is red no longer than half a second after the last alert; AODV keeps every
packet it accepts in one place and somebody looking after it, and routes that lead
to another node and are never ahead of what their destination says; ARP decides
about every packet; the real-time simulator is neither early nor asleep when it
should not be.  That AODV's routes never run in a circle, which sequence numbers
are there for, is not so: section 3 has the run that shows it.

## 2. Modules

| Module | What it is | Code |
|---|---|---|
| `EventKey` | the order of events and the reserved uids | `scheduler.h`, `event-id.h` |
| `EventLoop` | abstract: what a simulator promises its users | - |
| `DefaultSimulator` | the engine with the default map scheduler | `default-simulator-impl.cc`, `map-scheduler.cc`, `event-impl.cc` |
| `DefaultSimulatorProofs` | its theorems, that it implements `EventLoop` included | |
| `EventList` | abstract: what a scheduler promises the engine | `scheduler.h` |
| `HeapScheduler` | the binary heap, one loop iteration a step | `heap-scheduler.cc` |
| `HeapSchedulerProofs` | its theorems | |
| `TagLists` | abstract: tag lists that share nothing | `packet-tag-list.h` |
| `PacketTagList`, `MCPacketTagList` | the copy-on-write tree of tags, one loop iteration a step | `packet-tag-list.cc`, `.h` |
| `PacketTagListProofs` | its theorems | |
| `VehicleApp` | the vehicles, their timers, the medium and the end of the run | `scratch/vanet-simulation.cc`, `application.cc` |
| `VehicleAppProofs` | its theorems | |
| `VehicleMessageTag` | the tag's bytes and the room reserved for them | `scratch/vanet-simulation.cc`, `packet-tag-list.cc` |
| `VehicleMessageTagProofs` | its theorems | |
| `AodvTable` | the routing table of a node | `aodv-rtable.cc` |
| `AodvRouting`, `MCAodv` | AODV on every node of a network, over a lossy medium | `aodv-routing-protocol.cc`, `aodv-rqueue.cc`, `aodv-id-cache.cc`, `aodv-neighbor.cc` |
| `AodvRoutingProofs` | its theorems | |
| `ArpCache` | the ARP cache of an interface, its retries and its packets | `arp-cache.cc`, `arp-l3-protocol.cc`, `neighbor-cache-helper.cc` |
| `ArpCacheProofs` | its theorems | |
| `RealtimeSimulator` | the main thread, other threads, the mutex and the wall clock | `realtime-simulator-impl.cc`, `wall-clock-synchronizer.cc` |
| `RealtimeSimulatorProofs` | its theorems, the refinement of `EventLoop` included | |

A definition marked *slip* in a comment is not part of the model: it is a wrong
variant of the definition after it, the one a plausible bug would give, kept to
show that the property named in PROJECT.json notices the difference.

### DefaultSimulator

The variables are the members of `DefaultSimulatorImpl` under their own names
plus the cancel bits of the `EventImpl`s, the EventIds handed to user code
(`issued`) and where the main thread is (`pc`).  One action per public
operation, called by user code outside `Run` or inside a handler; one per step
of `Run`; `Post` is `ScheduleWithContext` on another thread, at any moment.
`ProcessEventsWithContext` is a step of its own (`SkipPosts` when the unlocked
flag is read as true, `TakePosts` otherwise), so a post can fall before or after
the read.  Left out because no property depends on them: contexts,
`m_eventCount`, reference counts, `PreEventHook`, and `SetScheduler`, which moves
the list as it is.  The 64-bit clock does not overflow in the model.

### HeapScheduler

`m_heap` is the vector from its element 1 on; `index` is the local of
`BottomUp` and `TopDown`, and each iteration of their loops is an action, so the
heap is visible with an event on its way.  Element 0, which the code wastes, and
the `NS_ASSERT`s are left out.

### PacketTagList

When a packet is broadcast every receiver gets a copy, and the copies share the
tags.  A list and a node are both holders of one pointer, so `next` maps lists
(`m_next`) and nodes alike, and `count` of a node is compared with the number of
holders that point at it.  `cur` and `prev` are the locals of `COWTraverse`
(`prev` is the holder whose pointer `prevNext` addresses) and of `RemoveAll`.  A
constructor is an `Assign` to an empty list, a destructor a `RemoveAll`.  The
names of nodes carry a type and a slot only to keep equal trees equal; `malloc`
picks any free one.  `NodesFrom` is the set of nodes of a list without
recursion, so that it can be proved about.

### VehicleApp

Virtual time is counted in ticks, `Second` of them to a second; events of one tick
run in any order, which stands for every order that times inside a tick can give.
The wireless medium hands each vehicle its copy of a broadcast within `MaxDelay`
ticks or loses it: routing, back-off and collisions are inside that choice.  The
run takes `MaxDelay = 0`, a copy that arrives in the tick it was sent in (real
delays are far below a tick); the proofs are for any `MaxDelay`.  The colour of a
vehicle and its half-second timers are explicit; a timer of the code is a lambda,
so it cannot be cancelled and neither can it in the model.  Alerts towards the
real server have no effect on the simulation and are left out.  (As committed,
line 435 of the program lacks an operator between two vectors and does not
compile; the line above it says what is meant.)

### VehicleMessageTag

A tag is written and read byte by byte, in the room of `GetSerializedSize`
bytes that `PacketTagList::Add` allocates.  Bytes of fixed fields are told apart
by field and place, plate bytes by their place, so that a byte read from the
wrong place is noticed.

### AodvTable and AodvRouting

Each variable is indexed by the node whose member it is, and an action is one
handler run by the simulator: `RouteOutput` and `DeferredRouteOutput` for packets
of the node itself, one action per outcome of `RecvRequest`, `RecvReply`,
`ProcessHello`, `RecvReplyAck` and `RecvError`, `Forwarding` and `Discard` for
packets of others, the request timer, the rate limit and the requests it holds
back, hello messages, and the loss of a route, a packet or a neighbour.  Every
handler of a message begins with `UpdateRouteToNeighbor` and every unicast it
sends is routed by the table it has just changed, so AODV's own replies may find
no route, come back through the loopback device and start a search, as in the code.

`air` is the set of copies under way.  Any of them may be received next, or
never: loss, delay and overtaking need no action of their own.  A missing entry
of the table is one whose flag is `NONE`; `WithPrecursor` and the two-step updates
of `AfterRelay` keep the code's copies, which are taken before and written back
after other entries change.  Lifetimes are abstract: an entry, a packet or a
neighbour may expire at any moment, `MaxFaults` times in all.  The queue operations
are written without recursion (`Kept`, `Rank`, `Rest`) so that they can be proved
about.

Left out: interfaces going up and down, several interfaces per node, exact
lifetimes, the rate limit on route errors, wrap-around of sequence numbers, and the
blacklist, which no path of the code fills.

### ArpCache

Time is relative: an entry carries its age, the cache's one retry timer what is
left of it.  `Lookup` is one action per outcome (`StartSearch`, `DropAtDeadEntry`,
`SendAtOnce`, `WaitForReply`); `Answer`, `AcceptReply` and `IgnoreReply` are `Receive` at
the host that is asked and back at the node; `HandleWaitReplyTimeout` treats all
waiting entries at once, as the code does.  `Flush` is the link that goes down;
`AddEntry`, `Remove` and `RemoveAutoGeneratedEntries` are the neighbour helper's, which
may come at any moment.  `delayed` holds the jittered requests, `medium` the
messages under way; both are sets, so equal requests merge.  The packets that wait
in an entry are a sequence, bounded by `PendingQueueSize`.  The comment at
`arp-cache.cc:461` speaks of dumping the packet that waited before and replacing it;
the code refuses the new one, and the model follows the code.  Packets that wait in
an entry the helper makes permanent stay in it and no timer looks at them:
`Decided` says so by speaking of entries that wait for a reply.

### RealtimeSimulator

The main thread's loop is cut where it takes or gives up the mutex or looks at the
clock: `CheckList`, `PlanWait`, `DoSynchronize`, `SleepWait` and the ends of the
sleep, `SpinWait`, `TakeNext`, `HandlerReturns`.  Another thread's
`ScheduleWithContext` (`Post`) holds the mutex from the insertion to `Signal`, and may
come at any moment: before `Run`, as in `threaded-test-suite.cc:254`, where the threads
are started first, during `Run` and after it.  The real clock (`rt`) ticks at any
moment after `SetOrigin`.  The main thread's own `ScheduleWithContext` behaves as
`Schedule` without an id and is not a separate action.  Time is bounded by `MaxTime`,
and beyond it goes on only as far as the end of a sleep that has begun.

`Run` sets `m_running` (`realtime-simulator-impl.cc:422`) and then the origin of the
clock (line 423), both without the mutex; they are two steps, `Run` and `SetOrigin`.
Before the second the origin is the 0 of `synchronizer.cc:32` and the clock reads the
time since 1970, `Epoch` in the model.  An event that another thread inserts between
the two, or that the program itself inserts with `ScheduleRealtime` before `Run`, gets such
a time and is never due in the life of a program, although the comment at line 544
takes the clock for meaningful as soon as `m_running` is set.  The order of the two lines
matters for `Served`, which therefore speaks of events whose time is below `Epoch`; the
other properties hold with such events in the list.  `Post` reads `m_running` and the
origin under the mutex, which `Run` does not take.  A `Post` that still sees an old
value of either has taken the mutex before the main thread's next critical section, so
nothing has run since, and it behaves as one that came between earlier steps of `Run`.

Read while modelling, and of no consequence for what is checked: `SetOrigin` ignores
its argument (`wall-clock-synchronizer.cc:103`, against `synchronizer.h:88`), so a
second `Run` starts real time at 0 again; `Stop` gives no `Signal`; and `SleepWait`
returns the opposite of what the comment at `wall-clock-synchronizer.cc:213` says, which
its caller does not use in a way that matters.  Left out: the hard-limit mode,
contexts, destroy events, `DoDispose`, `SetScheduler`, a second `Run`, `Cancel`, `Remove`
and `ScheduleRealtime` from other threads, and the conversion to nanoseconds.

## 3. Runs

| Run | Shows | Bounds, and why they are enough |
|---|---|---|
| `engine` | the engine keeps its list, ids, flag and clock consistent, answers `IsExpired` exactly and for good, implements `EventLoop` | four events, two posts, delays 0 and 1: two events at one instant, one cancelled or removed, one posted during a handler all fit |
| `heap` | heap order at every operation until the first `Remove`; with `Remove` the heap is still a pool that loses and doubles nothing (`EventList`) | six events, two removals: three levels, the last reached through both children |
| `heap_remove_order` (violation) | after `Remove`, `RemoveNext` may give back a later event | seven events, one removal |
| `packet_tags` | sharing cannot be seen, counts are exact, nothing leaks or dangles, every loop ends | two lists, three types, one with a short and a long value: shared runs of up to three nodes, so the copying loop runs up to twice before its target |
| `vehicles` | loops, timers and sockets around start, stop and end; a red vehicle turns blue or the simulation ends | three vehicles, two ticks between start and stop; two senders' timers overlap at the third |
| `message_tag` | what fits and what is read back | lengths around 0, 15, 16, 255, 256, 271, 272, NULs at the edges |
| `aodv` | types, waiting packets are looked for, sequence numbers known to their owners, routes lead to another node and those of one hop straight to their destination, a packet is in one place | chain of three, two packets to its end from both others, queues of one so that the second packet of a node pushes out the first, two requests each, one fault: replies by the destination and by an intermediate node, gratuitous replies, errors and the search after a loss all occur |
| `aodv_timely` | when nothing is lost and timers outlast messages, every packet arrives | chain of four, two crossing flows, queues of two so that one search may serve two packets, ring search with three TTLs, rate limit 1 so that requests are postponed |
| `aodv_loops` (violation) | two valid routes to one destination lead to each other | a triangle, one request from each of two nodes, nothing lost: the reply that is overtaken by the other request does it |
| `aodv_attempts` (violation) | a search steps over the number of attempts it should stop at | two nodes that cannot hear each other, three packets |
| `arp` | who waits has a timer, nobody else keeps packets, a packet is in one place, order is kept, what leaves is sent or traced, every packet is decided about | two next hops, one that answers and one that does not, one retry, queue of two, three packets |
| `realtime` | no wakeup is lost, no event is early, every event whose time was not read before `SetOrigin` is served, implements `EventLoop` | two threads, three events, delays 0 and 3 around the idle wait of 2, real time up to 4: an event due at once may come during the sleep for a later one or during the idle wait; any `Epoch` beyond `MaxTime` does, as time never comes to it |

`IInv` of `engine`, `packet_tags` and `realtime` is the inductive invariant of the proofs;
it contains the type invariant and the smaller invariants named in section 4.

Deadlock is not checked where the system really stops: the engine after
`Destroy`, the heap when its bound on events is used up and it is empty, the
vehicles at the end of the simulation, the tag once it is read, the tag lists
after a tag was written past its room, AODV when all that was sent has arrived
or been given up, the real-time simulator after `Run` or at the bound of time.
It is checked for `arp`.

`MaxEvents`, `MaxPosts`, `MaxInserts`, `MaxRemoves`, `MaxDelay`, `Slots`, `MaxPackets`,
`MaxFaults` and `MaxTime` bound what the environment does or has.  `MaxRequests` is the
one bound on an action of the code itself: it ends the retries of `aodv`, while in
`aodv_timely` it is never reached before everything has been delivered.

Violation runs are disagreements between the code and its documentation; each is
explained under `findings` in PROJECT.json with the sentence it contradicts.

Fairness is that of the simulator, which runs every event that is scheduled
(`default-simulator-impl.cc:184`); nothing is assumed of the medium unless said.
- `VehicleApp`: weak fairness of the next-state relation.
- `AodvRouting`: weak fairness of `Underway`, what messages and timers make due.
  `Delivered` also needs `Timely`: no loss, and a request timer that fires only when
  nothing is under way, which is what the code computes its timeouts for.
- `ArpCache`: weak fairness of time, of the retry timer and of delayed requests; none of
  the medium, so a reply may never come.
- `RealtimeSimulator`: weak fairness of time, of a thread that holds the mutex, and of
  the main thread; none of threads that might post.

That the loops of `PacketTagList` end is stated without fairness: `LoopsAdvance` says
that each iteration leaves fewer nodes ahead of the cursor.

## 4. Proofs

Every theorem holds for all values of the constants that satisfy the named
assumptions of its module.

`DefaultSimulatorProofs`, for any set of delays and any number of events, posts
and uids with `NoWrap` (fewer events than uids): the type invariant, `IInv`, and
from it `UnscheduledCounts`, `NoUndefined`, `ExpiredExact`, `ExpiredIsFinal` and
`RunOrder`.  `IsExpired` never looks at the event list, so `ExpiredExact` is not
inductive: `IInv` adds that uids are serial numbers (`UidsAreSerials`), that no two
entries share an event (`OneIdPerEvent`), that what is listed is ahead of the clock
(`AheadOfClock`) and that every id is listed, behind the clock or withdrawn
(`AccountedFor`).

It also proves, under the same assumption, that the engine implements `EventLoop`: an entry of the list that is not cancelled is a planned
event, destroy events are invisible.  Each action is mapped by a lemma of its own;
`IInv` supplies that new entries have new numbers and that the first entry of the
list is the earliest, the rest is the order of `EventKey`.

`HeapSchedulerProofs`, for any stamps and any number of events and removals:
`HeapInv`, which promises heap order until the first `Remove`, and the refinement of
`EventList`; and, when nothing is removed, that the heap is ordered and its root the
earliest event (`heap_remove_order` shows that `Remove` breaks this).  Heap order is
broken while an event moves, so the invariant says which pair may be out of order
and that the children of the moving event are in order with its parent
(`SkipOrdered`).  That the root is the earliest event follows without induction: the
smallest index whose event is before the root would have a parent before the root
too.

`PacketTagListProofs`, for any lists, tags, sizes of tags and memory: `CountsExact`,
`NoDangling`, `CopiesMerges`, `NoLeak`, `LoopsAdvance`.  Counts alone are not inductive:
moving a link past a node needs that the node is not its own next, and the copying
loop needs that the tag lies ahead.  `IInv` adds that the tree has no cycle (every set
of nodes has one whose next is outside it), that free nodes hold no link, and what
each loop holds.  A tag found ahead of the cursor stays ahead while nodes are
copied because a list never comes back to what leads to it (`NoWayBack`).  That
nothing leaks is a counting argument: nodes that no list reaches would each be led
to by another one, so their links would map them onto themselves, a cycle.  The
loops end because each of them leaves a part of the memory alone that holds the
cursor and out of which no link leads (`AheadShrinks`).

It also proves the refinement of `TagLists` (`TagListsImplemented`).  What a list holds
is `TagsFrom`, recursive over the tree, so the proof first shows that its equation has
a solution: each node lies in a part of the tree that is closed under `next` and can be
read, two such parts agree, and a node without a reading would lead to another one for
ever.  That the tree has no cycle does the work of an induction, here and for every
later fact about what is read.  The invariant `Separated` adds two conjuncts to `IInv`.
`OneOfAType`: from the next of a node on there is no tag of the node's type, without
which `RemoveShared` and `ReplaceShared` could leave a second tag behind.  `Walked`: the
nodes that a traversal has left behind follow one another, none has the type sought, and
no link leads into them from anywhere else.  So what a step changes on the way belongs
to no other list, the list splits at the cursor (`Split`), and each step replaces what
comes after the split.

`VehicleAppProofs`, for any vehicles, times and delays of the medium: `TypeOK`,
`SendLoopAlive`, `RedHasTimer`, `SendsThroughOpenSocket`.  The invariant adds that nothing
is planned before the clock or after its latest time (`InTime`), that the program's
stages follow each other (`Stages`) and that a vehicle runs exactly between its start
and its stop (`Running`).

`ArpCacheProofs`, for any hops, timeouts, retries and queue sizes: two invariants, one
on top of the other.  `EntriesInv` is `TypeOK`, `WaitingHasTimer` and
`PendingOnlyWaiting`, inductive together.  `PacketsInv` adds what the history of packets
needs: numbers handed out are used up (`Numbered`), queues and what was sent are in
order with each other (`QueuesInOrder`), and no packet is in two places (`Apart`); from
it follow `OnePlace`, `OrderKept` and `LeavesWithTrace`.

`RealtimeSimulatorProofs`, for any threads, delays and slack and any `Epoch` beyond
`MaxTime`: `IInv`, hence `NoLostWakeup` and `NeverEarly`, and the refinement of
`EventLoop`.  The wait and the books are proved together: that the event that is taken out is due relies on every earlier
insertion having left its mark before the mutex was given up.  That nothing has run
before real time begins (`BeginsAtZero`) keeps insertions before `SetOrigin` out of the
past.

`VehicleMessageTagProofs`, for plates of any length with a NUL anywhere: `FitsUpTo15` and
`ReadsWhatWasWritten`.  The invariant says that the buffer of a tag that was added is
what `Serialize` writes and fits the room; a lemma about `Serialize` gives the place of
every field behind the plate, modulo the byte that counts it, and a lemma about the
bytes before the first NUL gives back the plate.

`AodvRoutingProofs`, for any nodes, links, flows, limits, TTLs, numbers of packets,
requests and faults, timely or not, in three layers.

- `IInv` gives `TypeOK`, `SearchHasTimer`, `QueuedIsSought` and `KnownSeqNos`.  Tables and
  messages feed each other, so it speaks of both: every entry `Leads` (a route that is
  not searched has a next hop; so has an entry of one hop with a known number, which
  the neighbour update would leave as it is, and no hop count is 0), its number is not
  ahead of its owner (`Tables`), and neither is a number in any message, in the air, in
  the loopback, in a queue or pending (`Mail`).  Each way a table is changed has a lemma
  that keeps a good table good and begins no search; each handler has a lemma that puts
  them together.  The two properties of the search are then inductive: what is `Sought`
  stays so until the table entry leaves the search and the queue has been emptied.
- `Routes`, on top of it, gives `RoutesLead`.  Hop counts are written by the search (its
  TTL), by reverse routes and from what relayed replies claim, and the neighbour update
  trusts them.  So the invariant also covers entries in search whose number is valid,
  keeps a node out of its own next hops and precursors (`OutwardTables`), and says what
  every message claims (`MailOutward`): no packet waits for the node it is at, and a
  request or reply that has made no hop comes from its origin or destination itself.
  Nobody searches itself (`OthersSought`).
- `Places` gives `OnePlace`.  Queues, loopbacks, frames and what has arrived or been
  given up hold disjoint sets of packets (`Apart`), all of them sent (`Numbered`), and
  each at most once; a flush takes exactly what `Dequeue` would take one by one, because
  `Rank` numbers what stays without gaps.

`LoopFree` has no theorem because it is false: the attempt to prove it led to
`aodv_loops`.  `UpdateRouteToNeighbor` and `RecvRequest` forget sequence numbers, so the
order of numbers and hop counts that keeps routes of RFC 3561 free of circles does not
hold along a route here.

Checked by TLC only: the liveness properties (`RedTurnsBlue`, `Delivered`, `Decided`,
`Served`), which are out of the prover's reach.

## 5. Not modelled, and the plan

Within the modelled components: what section 2 lists as left out, in each module.

Not modelled, in the order in which they would come next:

1. The simulator facade (ids that outlive a simulator), Timer and Watchdog: thin
   wrappers whose hazards are those of the engine's ids.
2. Calendar, list and priority-queue schedulers against `EventList`; the program
   uses the map scheduler, which `DefaultSimulator` contains.
3. UDP endpoints and IPv4 forwarding, between AODV and ARP.
4. Wi-Fi back-off and retransmission: its timing is what the properties would be
   about, and `VehicleApp` and `AodvRouting` assume nothing of the medium.

Left out for good: continuous mobility and propagation, file output, logging,
the ns-3 modules the program does not use, and the vendored tools `bake` and
`netanim-3.109` (outside `ns-3.44/`).
