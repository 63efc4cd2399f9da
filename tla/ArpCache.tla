------------------------------ MODULE ArpCache ------------------------------
(***************************************************************************)
(* The address resolution of one interface: ArpCache, its entries and the  *)
(* packets that wait in them, ArpL3Protocol::Lookup and Receive, and what  *)
(* NeighborCacheHelper does to the same entries.                           *)
(*                                                                         *)
(* Time is relative: an entry knows how long ago it was last seen, a timer *)
(* how long it still has to run, so that the clock needs no bound.  The    *)
(* age of an entry is not counted beyond the point where it has expired.   *)
(* Packets are numbered in the order in which IP hands them down.          *)
(***************************************************************************)
EXTENDS Integers, Sequences

CONSTANTS
    Addr,               \* next hops the node sends to
    Answering,          \* those among them some host of the link answers for
    AliveTimeout, DeadTimeout, WaitReplyTimeout,
    MaxRetries,
    PendingQueueSize,
    MaxJitter,          \* longest delay of the first request of a search
    MaxPackets          \* bound of the model on the packets handed down

ASSUME ArpAssumption ==
    /\ Answering \subseteq Addr
    /\ AliveTimeout \in Nat
    /\ DeadTimeout \in Nat
    /\ WaitReplyTimeout \in Nat \ {0}
    /\ MaxRetries \in Nat
    /\ PendingQueueSize \in Nat
    /\ MaxJitter \in Nat
    /\ MaxPackets \in Nat

VARIABLES
    cache,              \* m_arpCache
    waitReplyTimer,     \* time left of m_waitReplyTimer, or Off
    delayed,            \* the calls of SendArpRequest that Lookup scheduled
    medium,             \* requests and replies on their way
    asked,              \* packets handed down so far
    out,                \* packets handed to the device, per next hop
    dropped             \* packets reported to a drop trace

vars == <<cache, waitReplyTimer, delayed, medium, asked, out, dropped>>

Off == -1
NoEntry == [state |-> "None"]
Packet == 1 .. MaxPackets
Message == [op : {"request", "reply"}, for : Addr]
Request(a) == [op |-> "request", for |-> a]
Reply(a) == [op |-> "reply", for |-> a]

-----------------------------------------------------------------------------
(* Entries.                                                                *)

Init ==
    /\ cache = [a \in Addr |-> NoEntry]
    /\ waitReplyTimer = Off
    /\ delayed = {}
    /\ medium = {}
    /\ asked = 0
    /\ out = [a \in Addr |-> <<>>]
    /\ dropped = {}

HasEntry(a) == cache[a].state # "None"

\* GetTimeout; entries made by hand are never too old.
GetTimeout(state) ==
    CASE state = "WaitReply" -> WaitReplyTimeout
      [] state = "Dead" -> DeadTimeout
      [] OTHER -> AliveTimeout

Timed(e) == e.state \in {"Alive", "Dead", "WaitReply"}
IsExpired(e) == Timed(e) /\ e.age > GetTimeout(e.state)
Is(a, state) == cache[a].state = state /\ ~IsExpired(cache[a])
Waiting == {a \in Addr : cache[a].state = "WaitReply"}

\* An entry that has just been seen in some state, with what waits in it.
Seen(state, retries, pending) ==
    [state |-> state, age |-> 0, retries |-> retries, pending |-> pending]

PendingOf(a) == IF HasEntry(a) THEN cache[a].pending ELSE <<>>
In(s) == {s[i] : i \in DOMAIN s}
Held(a) == In(PendingOf(a))
Sent(a) == In(out[a])

-----------------------------------------------------------------------------
(* ArpL3Protocol::Lookup: what becomes of a packet for next hop a.  A      *)
(* waiting entry that has expired would end the program; WaitingHasTimer   *)
(* says that there is none.                                                *)

NewPacket == asked + 1
HandDown == asked < MaxPackets /\ asked' = NewPacket

StartWaitReplyTimer == IF waitReplyTimer = Off THEN WaitReplyTimeout ELSE waitReplyTimer
MarkWaitReply(a) == Seen("WaitReply", IF HasEntry(a) THEN cache[a].retries ELSE 0,
                         Append(PendingOf(a), NewPacket))

StartSearch(a) ==
    /\ HandDown
    /\ ~HasEntry(a) \/ (cache[a].state \in {"Alive", "Dead"} /\ IsExpired(cache[a]))
    /\ cache' = [cache EXCEPT ![a] = MarkWaitReply(a)]
    /\ waitReplyTimer' = StartWaitReplyTimer
    /\ \E jitter \in 0 .. MaxJitter : delayed' = delayed \cup {[to |-> a, left |-> jitter]}
    /\ UNCHANGED <<medium, out, dropped>>

DropAtDeadEntry(a) ==
    /\ HandDown
    /\ Is(a, "Dead")
    /\ dropped' = dropped \cup {NewPacket}
    /\ UNCHANGED <<cache, waitReplyTimer, delayed, medium, out>>

SendAtOnce(a) ==
    /\ HandDown
    /\ Is(a, "Alive") \/ Is(a, "AutoGenerated")
    /\ out' = [out EXCEPT ![a] = Append(@, NewPacket)]
    /\ UNCHANGED <<cache, waitReplyTimer, delayed, medium, dropped>>

Full(a) == Len(cache[a].pending) >= PendingQueueSize

(* slip: the oldest packet makes room, the new one is reported as dropped.  *)
QueuedAnyway(a) ==
    IF Full(a) THEN [pending |-> Append(Tail(cache[a].pending), NewPacket), done |-> FALSE]
               ELSE [pending |-> Append(cache[a].pending, NewPacket), done |-> TRUE]
\* The queue as it is left, and whether the packet is in it.
UpdateWaitReply(a) ==
    IF Full(a) THEN [pending |-> cache[a].pending, done |-> FALSE]
               ELSE [pending |-> Append(cache[a].pending, NewPacket), done |-> TRUE]

WaitForReply(a) ==
    /\ HandDown
    /\ Is(a, "WaitReply")
    /\ cache' = [cache EXCEPT ![a].pending = UpdateWaitReply(a).pending]
    /\ dropped' = IF UpdateWaitReply(a).done THEN dropped ELSE dropped \cup {NewPacket}
    /\ UNCHANGED <<waitReplyTimer, delayed, medium, out>>

Lookup(a) == StartSearch(a) \/ DropAtDeadEntry(a) \/ SendAtOnce(a) \/ WaitForReply(a)

\* The request that Lookup scheduled leaves, whatever became of its entry.
SendArpRequest(r) ==
    /\ r.left = 0
    /\ delayed' = delayed \ {r}
    /\ medium' = medium \cup {Request(r.to)}
    /\ UNCHANGED <<cache, waitReplyTimer, asked, out, dropped>>

-----------------------------------------------------------------------------
(* ArpL3Protocol::Receive, at the host that owns a and back at the node.   *)

\* SendArpReply: a request changes no cache.
Answer(a) ==
    /\ a \in Answering
    /\ Request(a) \in medium
    /\ medium' = (medium \ {Request(a)}) \cup {Reply(a)}
    /\ UNCHANGED <<cache, waitReplyTimer, delayed, asked, out, dropped>>

(* slip: the queue is emptied from its end.                                 *)
NewestFirst(a) == [i \in DOMAIN cache[a].pending |->
                      cache[a].pending[Len(cache[a].pending) + 1 - i]]
\* All of them, in the order it yields them.
DequeuePending(a) == cache[a].pending

\* Interface::Send of each of them looks a up again and finds it alive.
AcceptReply(a) ==
    /\ Reply(a) \in medium
    /\ cache[a].state = "WaitReply"
    /\ medium' = medium \ {Reply(a)}
    /\ cache' = [cache EXCEPT ![a] = Seen("Alive", 0, <<>>)]
    /\ out' = [out EXCEPT ![a] = @ \o DequeuePending(a)]
    /\ UNCHANGED <<waitReplyTimer, delayed, asked, dropped>>

IgnoreReply(a) ==
    /\ Reply(a) \in medium
    /\ cache[a].state # "WaitReply"
    /\ medium' = medium \ {Reply(a)}
    /\ UNCHANGED <<cache, waitReplyTimer, delayed, asked, out, dropped>>

Lose(m) ==
    /\ medium' = medium \ {m}
    /\ UNCHANGED <<cache, waitReplyTimer, delayed, asked, out, dropped>>

-----------------------------------------------------------------------------
(* HandleWaitReplyTimeout: one timer serves every entry that waits.        *)

(* slip: off by one.                                                       *)
RetriedOnceMore == {a \in Waiting : cache[a].retries <= MaxRetries}
Retried == {a \in Waiting : cache[a].retries < MaxRetries}
GivenUp == Waiting \ Retried
(* slip: retries are not counted.                                           *)
RetryUncounted(e) == Seen("WaitReply", e.retries, e.pending)
AfterRetry(e) == Seen("WaitReply", e.retries + 1, e.pending)
(* slip: the packets of a search given up stay in the entry.                *)
GivenUpKeeping(e) == Seen("Dead", 0, e.pending)
AfterGivingUp(e) == Seen("Dead", 0, <<>>)
(* slip: only the first packet is reported.                                 *)
DumpedFirst(a) == IF Held(a) = {} THEN {} ELSE {Head(cache[a].pending)}
Dumped(a) == Held(a)
(* slip: the timer is not restarted when an entry is given up.              *)
RestartIfNoneGivenUp == GivenUp = {}
RestartWaitReplyTimer == Retried # {}

HandleWaitReplyTimeout ==
    /\ waitReplyTimer = 0
    /\ medium' = medium \cup {Request(a) : a \in Retried}
    /\ cache' = [a \in Addr |-> IF a \in Retried THEN AfterRetry(cache[a])
                                ELSE IF a \in GivenUp THEN AfterGivingUp(cache[a])
                                ELSE cache[a]]
    /\ dropped' = dropped \cup UNION {Dumped(a) : a \in GivenUp}
    /\ waitReplyTimer' = IF RestartWaitReplyTimer THEN WaitReplyTimeout ELSE Off
    /\ UNCHANGED <<delayed, asked, out>>

-----------------------------------------------------------------------------
(* What changes entries from outside: the link, and the helper that fills  *)
(* caches by hand.                                                         *)

Flush ==
    /\ cache' = [a \in Addr |-> NoEntry]
    /\ waitReplyTimer' = Off
    /\ UNCHANGED <<delayed, medium, asked, out, dropped>>

\* NeighborCacheHelper::AddEntry and MarkAutoGenerated, on whatever is there.
AddEntry(a) ==
    /\ cache' = [cache EXCEPT ![a] = Seen("AutoGenerated", 0, PendingOf(a))]
    /\ UNCHANGED <<waitReplyTimer, delayed, medium, asked, out, dropped>>

\* UpdateCacheByIpv4AddressRemoved, when a neighbour gives up its address.
Remove(a) ==
    /\ HasEntry(a)
    /\ cache' = [cache EXCEPT ![a] = NoEntry]
    /\ UNCHANGED <<waitReplyTimer, delayed, medium, asked, out, dropped>>

RemoveAutoGeneratedEntries ==
    /\ cache' = [a \in Addr |-> IF cache[a].state = "AutoGenerated" THEN NoEntry ELSE cache[a]]
    /\ UNCHANGED <<waitReplyTimer, delayed, medium, asked, out, dropped>>

-----------------------------------------------------------------------------
(* The clock moves when nothing is due.                                    *)

Older(e) == IF Timed(e) /\ ~IsExpired(e) THEN [e EXCEPT !.age = @ + 1] ELSE e
Sooner(r) == [r EXCEPT !.left = @ - 1]

Tick ==
    /\ waitReplyTimer # 0
    /\ \A r \in delayed : r.left > 0
    /\ cache' = [a \in Addr |-> Older(cache[a])]
    /\ waitReplyTimer' = IF waitReplyTimer = Off THEN Off ELSE waitReplyTimer - 1
    /\ delayed' = {Sooner(r) : r \in delayed}
    /\ UNCHANGED <<medium, asked, out, dropped>>

-----------------------------------------------------------------------------
Next ==
    \/ \E a \in Addr : \/ Lookup(a) \/ Answer(a) \/ AcceptReply(a) \/ IgnoreReply(a)
                       \/ AddEntry(a) \/ Remove(a)
    \/ \E r \in delayed : SendArpRequest(r)
    \/ \E m \in medium : Lose(m)
    \/ HandleWaitReplyTimeout
    \/ Flush
    \/ RemoveAutoGeneratedEntries
    \/ Tick

Spec == Init /\ [][Next]_vars

\* The simulator goes on and runs what is due.  Nothing is assumed of the
\* medium, of the link, or of the helper.
FairSpec ==
    /\ Spec
    /\ WF_vars(Tick)
    /\ WF_vars(HandleWaitReplyTimeout)
    /\ WF_vars(\E r \in delayed : SendArpRequest(r))

-----------------------------------------------------------------------------
(* Properties.                                                             *)

Increasing(s) == \A i, j \in DOMAIN s : i < j => s[i] < s[j]
NoRepeat(s) == \A i, j \in DOMAIN s : s[i] = s[j] => i = j

Entry ==
    [state : {"Alive", "Dead", "WaitReply", "AutoGenerated"}, age : Nat,
     retries : 0 .. MaxRetries, pending : Seq(Packet)]

\* The type of the state; no entry counts more retries than MaxRetries.
TypeOK ==
    /\ cache \in [Addr -> Entry \cup {NoEntry}]
    /\ waitReplyTimer \in {Off} \cup 0 .. WaitReplyTimeout
    /\ delayed \subseteq [to : Addr, left : 0 .. MaxJitter]
    /\ medium \subseteq Message
    /\ asked \in 0 .. MaxPackets
    /\ out \in [Addr -> Seq(Packet)]
    /\ dropped \subseteq Packet

\* The one timer of the cache is running whenever an entry waits, and it will
\* look at that entry before its time is up: no lookup ever finds an expired
\* entry that waits, where ArpL3Protocol::Lookup ends the program.
WaitingHasTimer ==
    \A a \in Waiting :
        /\ waitReplyTimer # Off
        /\ cache[a].age + waitReplyTimer <= WaitReplyTimeout

\* Packets wait only in entries that wait for a reply, or that were turned
\* into permanent ones by hand meanwhile; so the assertion of MarkWaitReply
\* that a new search starts with an empty queue holds.
PendingOnlyWaiting ==
    \A a \in Addr : PendingOf(a) # <<>> => cache[a].state \in {"WaitReply", "AutoGenerated"}

\* A packet is in one place: in one queue, handed to the device once, or
\* reported as dropped.  None is sent twice, and none is sent after it was
\* reported as dropped or while it still waits.
OnePlace ==
    /\ \A a, b \in Addr : a # b => (Held(a) \cup Sent(a)) \cap (Held(b) \cup Sent(b)) = {}
    /\ \A a \in Addr :
        /\ NoRepeat(PendingOf(a))
        /\ NoRepeat(out[a])
        /\ Held(a) \cap Sent(a) = {}
        /\ (Held(a) \cup Sent(a)) \cap dropped = {}

\* Packets to one next hop reach the device in the order in which IP handed
\* them down, whether they waited or not.
OrderKept ==
    \A a \in Addr : Increasing(out[a])

\* A packet leaves the queue of an entry that stays in the cache only to the
\* device or with a report that it was dropped.
LeavesWithTrace ==
    [][\A a \in Addr : HasEntry(a) /\ HasEntry(a)' =>
           Held(a) \subseteq Held(a)' \cup Sent(a)' \cup dropped']_vars

\* A packet that waits for a reply does not wait for ever, whatever the
\* medium loses and whether or not anybody answers: it is sent, dropped,
\* removed with its entry, or left in an entry made permanent by hand.
Decided ==
    \A a \in Addr : \A p \in Packet :
        (a \in Waiting /\ p \in Held(a)) ~> ~(a \in Waiting /\ p \in Held(a))
=============================================================================
