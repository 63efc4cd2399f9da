--------------------------- MODULE ArpCacheProofs ---------------------------
(***************************************************************************)
(* Proofs about ArpCache, for any timeouts, limits and packets: the one    *)
(* timer of the cache covers every entry that waits, and every packet is   *)
(* in one place and in order.                                              *)
(***************************************************************************)
EXTENDS ArpCache, SequenceTheorems, TLAPS

(* The states of entries and the timer.                                    *)
EntriesInv == TypeOK /\ WaitingHasTimer /\ PendingOnlyWaiting

-----------------------------------------------------------------------------
(* Lemmas on entries.                                                      *)

(* An entry just seen is an entry.                                         *)
LEMMA SeenIsEntry ==
  ASSUME NEW state \in {"Alive", "Dead", "WaitReply", "AutoGenerated"},
         NEW retries \in 0 .. MaxRetries, NEW pending \in Seq(Packet)
  PROVE  /\ Seen(state, retries, pending) \in Entry
         /\ Seen(state, retries, pending).state = state
         /\ Seen(state, retries, pending).age = 0
         /\ Seen(state, retries, pending).pending = pending
BY DEF Seen, Entry

(* The empty cache entry is none, and what is not none is an entry.        *)
LEMMA EntryFields ==
  ASSUME TypeOK, NEW a \in Addr
  PROVE  /\ HasEntry(a) => /\ cache[a] \in Entry
                           /\ cache[a].age \in Nat
                           /\ cache[a].retries \in 0 .. MaxRetries
                           /\ cache[a].pending \in Seq(Packet)
         /\ ~HasEntry(a) => cache[a] = NoEntry
         /\ PendingOf(a) \in Seq(Packet)
<1>1. CASE cache[a] = NoEntry
  <2>1. ~HasEntry(a) /\ PendingOf(a) = <<>>
    BY <1>1 DEF HasEntry, PendingOf, NoEntry
  <2> QED
    BY <1>1, <2>1, EmptySeq
<1>2. CASE cache[a] \in Entry
  <2>1. HasEntry(a) /\ PendingOf(a) = cache[a].pending
    BY <1>2 DEF HasEntry, PendingOf, Entry
  <2> QED
    BY <1>2, <2>1 DEF Entry
<1> QED
  BY <1>1, <1>2 DEF TypeOK

(* A packet handed down is a packet, and it can be put into a queue.       *)
LEMMA NewPacketFits ==
  ASSUME TypeOK, HandDown, NEW s \in Seq(Packet)
  PROVE  /\ NewPacket \in Packet /\ asked' = NewPacket /\ asked' \in 0 .. MaxPackets
         /\ Append(s, NewPacket) \in Seq(Packet)
<1>1. NewPacket \in Packet /\ asked' = NewPacket /\ asked' \in 0 .. MaxPackets
  BY ArpAssumption DEF TypeOK, HandDown, NewPacket, Packet
<1> QED
  BY <1>1, AppendProperties

(* What waits for a reply has an entry.                                    *)
LEMMA WaitingHasEntry ==
  ASSUME NEW a \in Waiting
  PROVE  a \in Addr /\ HasEntry(a) /\ cache[a].state = "WaitReply"
BY DEF Waiting, HasEntry

-----------------------------------------------------------------------------
(* The entries and the timer.                                              *)

LEMMA InitEntries == Init => EntriesInv
<1> SUFFICES ASSUME Init PROVE EntriesInv
  OBVIOUS
<1>1. TypeOK
  BY ArpAssumption, EmptySeq DEF Init, TypeOK
<1>2. \A a \in Addr : cache[a].state = "None"
  BY DEF Init, NoEntry
<1> QED
  BY <1>1, <1>2 DEF EntriesInv, WaitingHasTimer, PendingOnlyWaiting, Waiting, PendingOf, HasEntry

(* One entry is replaced: what the invariant asks of it and of the timer.  *)
LEMMA EntryReplaced ==
  ASSUME EntriesInv, NEW b \in Addr, NEW e \in Entry \cup {NoEntry},
         cache' = [cache EXCEPT ![b] = e],
         waitReplyTimer' = waitReplyTimer
           \/ (waitReplyTimer = Off /\ waitReplyTimer' = WaitReplyTimeout),
         waitReplyTimer' # Off \/ e.state # "WaitReply",
         e.state = "WaitReply" => \/ e.age = 0
                                  \/ cache[b].state = "WaitReply" /\ e.age = cache[b].age,
         e \in Entry /\ e.pending # <<>> => e.state \in {"WaitReply", "AutoGenerated"},
         delayed' \subseteq [to : Addr, left : 0 .. MaxJitter],
         medium' \subseteq Message,
         asked' \in 0 .. MaxPackets,
         out' \in [Addr -> Seq(Packet)],
         dropped' \subseteq Packet
  PROVE  EntriesInv'
<1>1. waitReplyTimer' \in {Off} \cup 0 .. WaitReplyTimeout
  BY ArpAssumption DEF EntriesInv, TypeOK
<1>2. TypeOK'
  BY <1>1 DEF EntriesInv, TypeOK
<1>3. ASSUME NEW a \in Waiting'
      PROVE  waitReplyTimer' # Off /\ cache'[a].age + waitReplyTimer' <= WaitReplyTimeout
  <2>1. a \in Addr /\ cache'[a].state = "WaitReply"
    BY <1>3 DEF Waiting
  <2>2. waitReplyTimer' # Off => waitReplyTimer' \in 0 .. WaitReplyTimeout
    BY <1>1
  <2>3. CASE cache[a].state = "WaitReply" /\ cache'[a].age = cache[a].age
    <3>1. waitReplyTimer # Off /\ cache[a].age + waitReplyTimer <= WaitReplyTimeout
      BY <2>1, <2>3 DEF EntriesInv, WaitingHasTimer, Waiting
    <3> QED
      BY <2>3, <3>1
  <2>4. CASE a = b /\ cache'[a].age = 0
    <3>1. cache'[a] = e
      BY <2>4 DEF EntriesInv, TypeOK
    <3> QED
      BY <2>1, <2>2, <2>4, <3>1
  <2> QED
    BY <2>1, <2>3, <2>4 DEF EntriesInv, TypeOK
<1>4. ASSUME NEW a \in Addr, PendingOf(a)' # <<>>
      PROVE  cache'[a].state \in {"WaitReply", "AutoGenerated"}
  <2>1. CASE a = b
    <3>1. cache'[a] = e
      BY <2>1 DEF EntriesInv, TypeOK
    <3>2. e \in Entry /\ PendingOf(a)' = e.pending
      BY <1>4, <3>1 DEF PendingOf, HasEntry, NoEntry
    <3> QED
      BY <1>4, <3>1, <3>2
  <2>2. CASE a # b
    <3>1. cache'[a] = cache[a]
      BY <2>2 DEF EntriesInv, TypeOK
    <3>2. PendingOf(a)' = PendingOf(a)
      BY <3>1 DEF PendingOf, HasEntry
    <3> QED
      BY <1>4, <3>1, <3>2 DEF EntriesInv, PendingOnlyWaiting
  <2> QED
    BY <2>1, <2>2
<1> QED
  BY <1>2, <1>3, <1>4 DEF EntriesInv, WaitingHasTimer, PendingOnlyWaiting

(* A search starts, and the timer with it unless it runs.                  *)
LEMMA StartSearchEntries ==
  ASSUME EntriesInv, NEW a \in Addr, StartSearch(a) PROVE EntriesInv'
<1> DEFINE retries == IF HasEntry(a) THEN cache[a].retries ELSE 0
           e == Seen("WaitReply", retries, Append(PendingOf(a), NewPacket))
<1>1. PendingOf(a) \in Seq(Packet) /\ retries \in 0 .. MaxRetries
  BY EntryFields, ArpAssumption DEF EntriesInv
<1>2. Append(PendingOf(a), NewPacket) \in Seq(Packet) /\ asked' \in 0 .. MaxPackets
  BY <1>1, NewPacketFits DEF EntriesInv, StartSearch
<1>3. e \in Entry /\ e.state = "WaitReply" /\ e.age = 0
  BY <1>1, <1>2 DEF Seen, Entry
<1>4. cache' = [cache EXCEPT ![a] = e]
  BY DEF StartSearch, MarkWaitReply
<1>5. waitReplyTimer' # Off /\ (waitReplyTimer' = waitReplyTimer
         \/ (waitReplyTimer = Off /\ waitReplyTimer' = WaitReplyTimeout))
  BY ArpAssumption DEF StartSearch, StartWaitReplyTimer, Off
<1>6. delayed' \subseteq [to : Addr, left : 0 .. MaxJitter]
  BY DEF StartSearch, EntriesInv, TypeOK
<1> HIDE DEF e
<1>7. UNCHANGED <<medium, out, dropped>>
  BY DEF StartSearch
<1> QED
  BY <1>2, <1>3, <1>4, <1>5, <1>6, <1>7, EntryReplaced DEF EntriesInv, TypeOK

(* A packet joins the queue of an entry that waits, or finds it full.      *)
LEMMA WaitForReplyEntries ==
  ASSUME EntriesInv, NEW a \in Addr, WaitForReply(a) PROVE EntriesInv'
<1> DEFINE pending == UpdateWaitReply(a).pending
           e == [cache[a] EXCEPT !.pending = pending]
<1>1. cache[a].state = "WaitReply" /\ HasEntry(a)
  BY DEF WaitForReply, Is, HasEntry
<1>2. cache[a] \in Entry
  BY <1>1, EntryFields DEF EntriesInv
<1>3. pending \in Seq(Packet) /\ asked' \in 0 .. MaxPackets /\ dropped' \subseteq Packet
  <2>1. cache[a].pending \in Seq(Packet)
    BY <1>2 DEF Entry
  <2>2. /\ NewPacket \in Packet /\ asked' \in 0 .. MaxPackets
        /\ Append(cache[a].pending, NewPacket) \in Seq(Packet)
    BY <2>1, NewPacketFits DEF EntriesInv, WaitForReply
  <2>3. pending \in Seq(Packet)
    BY <2>1, <2>2 DEF UpdateWaitReply
  <2> QED
    BY <2>2, <2>3 DEF WaitForReply, EntriesInv, TypeOK
<1>4. e \in Entry /\ e.state = "WaitReply" /\ e.age = cache[a].age
  BY <1>1, <1>2, <1>3 DEF Entry
<1>5. cache' = [cache EXCEPT ![a] = e]
  BY DEF WaitForReply
<1> HIDE DEF e
<1>6. waitReplyTimer # Off
  BY <1>1 DEF EntriesInv, WaitingHasTimer, Waiting
<1>7. UNCHANGED <<waitReplyTimer, delayed, medium, out>>
  BY DEF WaitForReply
<1> QED
  BY <1>1, <1>3, <1>4, <1>5, <1>6, <1>7, EntryReplaced DEF EntriesInv, TypeOK

(* Packets that do not wait leave the entries as they are.                 *)
LEMMA PassingEntries ==
  ASSUME EntriesInv, NEW a \in Addr, DropAtDeadEntry(a) \/ SendAtOnce(a) PROVE EntriesInv'
<1>1. HandDown /\ UNCHANGED <<cache, waitReplyTimer, delayed, medium>>
  BY DEF DropAtDeadEntry, SendAtOnce
<1>2. out[a] \in Seq(Packet)
  BY DEF EntriesInv, TypeOK
<1>3. /\ NewPacket \in Packet /\ asked' \in 0 .. MaxPackets
      /\ Append(out[a], NewPacket) \in Seq(Packet)
  BY <1>1, <1>2, NewPacketFits DEF EntriesInv
<1>4. out' \in [Addr -> Seq(Packet)] /\ dropped' \subseteq Packet
  BY <1>3 DEF DropAtDeadEntry, SendAtOnce, EntriesInv, TypeOK
<1> QED
  BY <1>1, <1>3, <1>4 DEF EntriesInv, TypeOK, WaitingHasTimer, PendingOnlyWaiting, Waiting,
     PendingOf, HasEntry

(* Messages on their way are none of the cache's business.                 *)
LEMMA MediumEntries ==
  ASSUME EntriesInv,
         \/ \E a \in Addr : Answer(a) \/ IgnoreReply(a)
         \/ \E r \in delayed : SendArpRequest(r)
         \/ \E m \in medium : Lose(m)
  PROVE  EntriesInv'
<1>1. /\ UNCHANGED <<cache, waitReplyTimer, asked, out, dropped>>
      /\ medium' \subseteq Message /\ delayed' \subseteq delayed
  <2>1. CASE \E a \in Addr : Answer(a) \/ IgnoreReply(a)
    BY <2>1 DEF Answer, IgnoreReply, Reply, Message, EntriesInv, TypeOK
  <2>2. CASE \E r \in delayed : SendArpRequest(r)
    BY <2>2 DEF SendArpRequest, Request, Message, EntriesInv, TypeOK
  <2>3. CASE \E m \in medium : Lose(m)
    BY <2>3 DEF Lose, EntriesInv, TypeOK
  <2> QED
    BY <2>1, <2>2, <2>3
<1> QED
  BY <1>1 DEF EntriesInv, TypeOK, WaitingHasTimer, PendingOnlyWaiting, Waiting, PendingOf, HasEntry

(* A reply makes a waiting entry alive and empties its queue.              *)
LEMMA AcceptReplyEntries ==
  ASSUME EntriesInv, NEW a \in Addr, AcceptReply(a) PROVE EntriesInv'
<1> DEFINE e == Seen("Alive", 0, <<>>)
<1>1. e \in Entry /\ e.state = "Alive" /\ e.pending = <<>>
  BY EmptySeq, ArpAssumption DEF Seen, Entry
<1>2. cache[a].pending \in Seq(Packet) /\ out[a] \in Seq(Packet)
  BY EntryFields DEF AcceptReply, HasEntry, EntriesInv, TypeOK
<1>3. out[a] \o cache[a].pending \in Seq(Packet)
  BY <1>2, ConcatProperties
<1>4. out' \in [Addr -> Seq(Packet)] /\ medium' \subseteq Message
  BY <1>3 DEF AcceptReply, DequeuePending, EntriesInv, TypeOK
<1>5. cache' = [cache EXCEPT ![a] = e] /\ UNCHANGED <<waitReplyTimer, delayed, asked, dropped>>
  BY DEF AcceptReply
<1> HIDE DEF e
<1> QED
  BY <1>1, <1>4, <1>5, EntryReplaced DEF EntriesInv, TypeOK

(* An entry is made, or made permanent, by hand; what waits in it stays.   *)
LEMMA AddEntryEntries ==
  ASSUME EntriesInv, NEW a \in Addr, AddEntry(a) PROVE EntriesInv'
<1> DEFINE e == Seen("AutoGenerated", 0, PendingOf(a))
<1>1. e \in Entry /\ e.state = "AutoGenerated"
  BY SeenIsEntry, EntryFields, ArpAssumption DEF EntriesInv
<1>2. /\ cache' = [cache EXCEPT ![a] = e]
      /\ UNCHANGED <<waitReplyTimer, delayed, medium, asked, out, dropped>>
  BY DEF AddEntry
<1> HIDE DEF e
<1> QED
  BY <1>1, <1>2, EntryReplaced DEF EntriesInv, TypeOK

(* Entries are taken out of the cache: none left, or those left unchanged. *)
LEMMA RemovalEntries ==
  ASSUME EntriesInv, Flush \/ RemoveAutoGeneratedEntries \/ \E a \in Addr : Remove(a)
  PROVE  EntriesInv'
<1>1. /\ cache' \in [Addr -> Entry \cup {NoEntry}]
      /\ \A a \in Addr : cache'[a] = NoEntry \/ (cache'[a] = cache[a] /\ ~Flush)
  BY DEF Flush, RemoveAutoGeneratedEntries, Remove, EntriesInv, TypeOK
<1>2. /\ waitReplyTimer' = waitReplyTimer \/ (Flush /\ waitReplyTimer' = Off)
      /\ UNCHANGED <<delayed, medium, asked, out, dropped>>
  BY DEF Flush, RemoveAutoGeneratedEntries, Remove
<1>3. TypeOK'
  BY <1>1, <1>2 DEF EntriesInv, TypeOK
<1>4. \A a \in Addr : cache'[a].state \in {"WaitReply", "AutoGenerated"} => cache'[a] = cache[a]
  BY <1>1 DEF NoEntry
<1>5. WaitingHasTimer'
  <2> SUFFICES ASSUME NEW a \in Waiting'
               PROVE  waitReplyTimer' # Off /\ cache'[a].age + waitReplyTimer' <= WaitReplyTimeout
    BY DEF WaitingHasTimer
  <2>1. a \in Addr /\ cache'[a] = cache[a] /\ a \in Waiting
    BY <1>4 DEF Waiting
  <2>2. ~Flush
    BY <2>1, <1>1 DEF Waiting, NoEntry
  <2> QED
    BY <1>2, <2>1, <2>2 DEF EntriesInv, WaitingHasTimer
<1>6. PendingOnlyWaiting'
  <2> SUFFICES ASSUME NEW a \in Addr, PendingOf(a)' # <<>>
               PROVE  cache'[a].state \in {"WaitReply", "AutoGenerated"}
    BY DEF PendingOnlyWaiting
  <2>1. cache'[a] = cache[a]
    BY <1>1 DEF PendingOf, HasEntry, NoEntry
  <2>2. PendingOf(a)' = PendingOf(a)
    BY <2>1 DEF PendingOf, HasEntry
  <2> QED
    BY <2>1, <2>2 DEF EntriesInv, PendingOnlyWaiting
<1> QED
  BY <1>3, <1>5, <1>6 DEF EntriesInv

(* The timer fires: entries are retried with a timer, or given up empty.   *)
LEMMA TimeoutEntries ==
  ASSUME EntriesInv, HandleWaitReplyTimeout PROVE EntriesInv'
<1>1. \A a \in Waiting : /\ a \in Addr /\ cache[a] \in Entry
                         /\ cache[a].pending \in Seq(Packet)
                         /\ cache[a].retries \in 0 .. MaxRetries
  BY WaitingHasEntry, EntryFields DEF EntriesInv
<1>2. \A a \in Retried : /\ AfterRetry(cache[a]) \in Entry
                         /\ AfterRetry(cache[a]).state = "WaitReply"
                         /\ AfterRetry(cache[a]).age = 0
  <2> SUFFICES ASSUME NEW a \in Retried
               PROVE  /\ AfterRetry(cache[a]) \in Entry
                      /\ AfterRetry(cache[a]).state = "WaitReply"
                      /\ AfterRetry(cache[a]).age = 0
    OBVIOUS
  <2>1. cache[a].retries + 1 \in 0 .. MaxRetries /\ cache[a].pending \in Seq(Packet)
    BY <1>1, ArpAssumption DEF Retried
  <2> QED
    BY <2>1, SeenIsEntry DEF AfterRetry
<1>3. \A e : /\ AfterGivingUp(e) \in Entry /\ AfterGivingUp(e).state = "Dead"
             /\ AfterGivingUp(e).pending = <<>>
  BY EmptySeq, ArpAssumption DEF AfterGivingUp, Seen, Entry
<1>4. \A a \in Addr : \/ a \in Retried /\ cache'[a] = AfterRetry(cache[a])
                      \/ a \in GivenUp /\ cache'[a] = AfterGivingUp(cache[a])
                      \/ a \notin Waiting /\ cache'[a] = cache[a]
  BY DEF HandleWaitReplyTimeout, GivenUp, Retried
<1>5. cache' \in [Addr -> Entry \cup {NoEntry}]
  <2>1. \A a \in Addr : cache'[a] \in Entry \cup {NoEntry}
    BY <1>2, <1>3, <1>4 DEF EntriesInv, TypeOK
  <2>2. \E f : cache' = [a \in Addr |-> f[a]]
    BY DEF HandleWaitReplyTimeout
  <2> QED
    BY <2>1, <2>2 DEF HandleWaitReplyTimeout
<1>6. dropped' \subseteq Packet
  <2>1. \A a \in GivenUp : Dumped(a) \subseteq Packet
    <3> SUFFICES ASSUME NEW a \in GivenUp PROVE Dumped(a) \subseteq Packet
      OBVIOUS
    <3>1. PendingOf(a) \in Seq(Packet)
      BY EntryFields DEF EntriesInv, GivenUp, Waiting
    <3>2. \A i \in DOMAIN PendingOf(a) : PendingOf(a)[i] \in Packet
      BY <3>1, ElementOfSeq, LenProperties
    <3> QED
      BY <3>2 DEF Dumped, Held, In
  <2> QED
    BY <2>1 DEF HandleWaitReplyTimeout, EntriesInv, TypeOK
<1>7. medium' \subseteq Message
  BY DEF HandleWaitReplyTimeout, Retried, Waiting, Request, Message, EntriesInv, TypeOK
<1>8. /\ waitReplyTimer' \in {Off} \cup 0 .. WaitReplyTimeout
      /\ Retried # {} => waitReplyTimer' = WaitReplyTimeout /\ waitReplyTimer' # Off
  BY ArpAssumption DEF HandleWaitReplyTimeout, RestartWaitReplyTimer, Off
<1>9. TypeOK'
  BY <1>5, <1>6, <1>7, <1>8 DEF HandleWaitReplyTimeout, EntriesInv, TypeOK
<1>10. WaitingHasTimer'
  <2> SUFFICES ASSUME NEW a \in Waiting'
               PROVE  waitReplyTimer' # Off /\ cache'[a].age + waitReplyTimer' <= WaitReplyTimeout
    BY DEF WaitingHasTimer
  <2>1. a \in Addr /\ cache'[a].state = "WaitReply"
    BY DEF Waiting
  <2>2. a \in Retried /\ cache'[a] = AfterRetry(cache[a])
    BY <2>1, <1>3, <1>4 DEF Waiting
  <2> QED
    BY <2>2, <1>2, <1>8, ArpAssumption
<1>11. PendingOnlyWaiting'
  <2> SUFFICES ASSUME NEW a \in Addr, PendingOf(a)' # <<>>
               PROVE  cache'[a].state \in {"WaitReply", "AutoGenerated"}
    BY DEF PendingOnlyWaiting
  <2>1. CASE a \in Retried /\ cache'[a] = AfterRetry(cache[a])
    BY <2>1, <1>2
  <2>2. CASE cache'[a] = AfterGivingUp(cache[a])
    <3>1. PendingOf(a)' = <<>>
      BY <2>2, <1>3 DEF PendingOf
    <3> QED
      BY <3>1
  <2>3. CASE cache'[a] = cache[a]
    <3>1. PendingOf(a)' = PendingOf(a)
      BY <2>3 DEF PendingOf, HasEntry
    <3> QED
      BY <2>3, <3>1 DEF EntriesInv, PendingOnlyWaiting
  <2> QED
    BY <2>1, <2>2, <2>3, <1>4
<1> QED
  BY <1>9, <1>10, <1>11 DEF EntriesInv

(* Time passes: what the timer loses, the ages of waiting entries gain.    *)
LEMMA TickEntries == EntriesInv /\ Tick => EntriesInv'
<1> SUFFICES ASSUME EntriesInv, Tick PROVE EntriesInv'
  OBVIOUS
<1>1. /\ \A a \in Addr : cache'[a] = Older(cache[a])
      /\ waitReplyTimer' = IF waitReplyTimer = Off THEN Off ELSE waitReplyTimer - 1
      /\ UNCHANGED <<medium, asked, out, dropped>>
  BY DEF Tick
<1>2. ASSUME NEW a \in Addr
      PROVE  \/ cache'[a] = cache[a]
             \/ /\ cache[a] \in Entry /\ cache'[a] \in Entry
                /\ cache'[a].state = cache[a].state
                /\ cache'[a].pending = cache[a].pending
                /\ cache'[a].age = cache[a].age + 1
  <2>1. CASE HasEntry(a)
    <3>1. cache[a] \in Entry
      BY <2>1, EntryFields DEF EntriesInv
    <3>2. CASE cache'[a] = [cache[a] EXCEPT !.age = @ + 1]
      BY <3>1, <3>2 DEF Entry
    <3>3. cache'[a] = [cache[a] EXCEPT !.age = @ + 1] \/ cache'[a] = cache[a]
      BY <1>1 DEF Older
    <3> QED
      BY <3>2, <3>3
  <2>2. CASE ~HasEntry(a)
    BY <1>1, <2>2, EntryFields DEF Older, Timed, NoEntry, EntriesInv
  <2> QED
    BY <2>1, <2>2
<1>3. cache' \in [Addr -> Entry \cup {NoEntry}]
  <2>1. \A a \in Addr : cache'[a] \in Entry \cup {NoEntry}
    BY <1>2 DEF EntriesInv, TypeOK
  <2>2. cache' = [a \in Addr |-> cache'[a]]
    BY DEF Tick
  <2> QED
    BY <2>1, <2>2
<1>4. /\ waitReplyTimer # Off => /\ waitReplyTimer' = waitReplyTimer - 1
                               /\ waitReplyTimer' # Off
      /\ waitReplyTimer' \in {Off} \cup 0 .. WaitReplyTimeout
  BY <1>1, ArpAssumption DEF Tick, Off, EntriesInv, TypeOK
<1>5. delayed' \subseteq [to : Addr, left : 0 .. MaxJitter]
  <2>1. \A r \in delayed : /\ r \in [to : Addr, left : 0 .. MaxJitter]
                           /\ Sooner(r) \in [to : Addr, left : 0 .. MaxJitter]
    <3> SUFFICES ASSUME NEW r \in delayed
                 PROVE  /\ r \in [to : Addr, left : 0 .. MaxJitter]
                        /\ Sooner(r) \in [to : Addr, left : 0 .. MaxJitter]
      OBVIOUS
    <3>1. r \in [to : Addr, left : 0 .. MaxJitter] /\ r.left > 0
      BY DEF Tick, EntriesInv, TypeOK
    <3>2. r.left - 1 \in 0 .. MaxJitter
      BY <3>1, ArpAssumption
    <3> QED
      BY <3>1, <3>2 DEF Sooner
  <2> QED
    BY <2>1 DEF Tick
<1>6. TypeOK'
  BY <1>1, <1>3, <1>4, <1>5 DEF EntriesInv, TypeOK
<1>7. WaitingHasTimer'
  <2> SUFFICES ASSUME NEW a \in Waiting'
               PROVE  waitReplyTimer' # Off /\ cache'[a].age + waitReplyTimer' <= WaitReplyTimeout
    BY DEF WaitingHasTimer
  <2>1. a \in Addr /\ a \in Waiting
    BY <1>2 DEF Waiting
  <2>2. /\ cache[a].age \in Nat /\ waitReplyTimer # Off
        /\ cache[a].age + waitReplyTimer <= WaitReplyTimeout
    BY <2>1, WaitingHasEntry, EntryFields DEF EntriesInv, WaitingHasTimer
  <2>3. waitReplyTimer \in 0 .. WaitReplyTimeout
    BY <2>2 DEF EntriesInv, TypeOK
  <2>4. cache'[a].age = cache[a].age \/ cache'[a].age = cache[a].age + 1
    BY <1>2, <2>1
  <2> QED
    BY <1>4, <2>2, <2>3, <2>4, ArpAssumption
<1>8. PendingOnlyWaiting'
  <2> SUFFICES ASSUME NEW a \in Addr, PendingOf(a)' # <<>>
               PROVE  cache'[a].state \in {"WaitReply", "AutoGenerated"}
    BY DEF PendingOnlyWaiting
  <2>1. cache'[a].state = cache[a].state /\ PendingOf(a)' = PendingOf(a)
    BY <1>2 DEF PendingOf, HasEntry, Entry
  <2> QED
    BY <2>1 DEF EntriesInv, PendingOnlyWaiting
<1> QED
  BY <1>6, <1>7, <1>8 DEF EntriesInv

(* Every step keeps the invariant of the entries.                          *)
LEMMA NextEntries == EntriesInv /\ [Next]_vars => EntriesInv'
<1> SUFFICES ASSUME EntriesInv, [Next]_vars PROVE EntriesInv'
  OBVIOUS
<1>1. CASE \E a \in Addr : Lookup(a)
  BY <1>1, StartSearchEntries, WaitForReplyEntries, PassingEntries DEF Lookup
<1>2. CASE \/ \E a \in Addr : Answer(a) \/ IgnoreReply(a)
           \/ \E r \in delayed : SendArpRequest(r)
           \/ \E m \in medium : Lose(m)
  BY <1>2, MediumEntries
<1>3. CASE \E a \in Addr : AcceptReply(a)
  BY <1>3, AcceptReplyEntries
<1>4. CASE \E a \in Addr : AddEntry(a)
  BY <1>4, AddEntryEntries
<1>5. CASE Flush \/ RemoveAutoGeneratedEntries \/ \E a \in Addr : Remove(a)
  BY <1>5, RemovalEntries
<1>6. CASE HandleWaitReplyTimeout
  BY <1>6, TimeoutEntries
<1>7. CASE Tick
  BY <1>7, TickEntries
<1>8. CASE UNCHANGED vars
  BY <1>8 DEF vars, EntriesInv, TypeOK, WaitingHasTimer, PendingOnlyWaiting, Waiting, PendingOf,
     HasEntry
<1> QED
  BY <1>1, <1>2, <1>3, <1>4, <1>5, <1>6, <1>7, <1>8 DEF Next

(* The invariant of the entries holds in every reachable state.            *)
THEOREM EntriesCorrect == Spec => []EntriesInv
<1> QED
  BY InitEntries, NextEntries, PTL DEF Spec

(* Every reachable state has its type; no search counts too many retries.  *)
THEOREM TypeCorrect == Spec => []TypeOK
<1>1. EntriesInv => TypeOK
  BY DEF EntriesInv
<1> QED
  BY <1>1, EntriesCorrect, PTL

(* An entry never waits without the timer, nor past its time, so the call  *)
(* of NS_FATAL_ERROR in ArpL3Protocol::Lookup cannot be reached.           *)
THEOREM WaitingCorrect == Spec => []WaitingHasTimer
<1>1. EntriesInv => WaitingHasTimer
  BY DEF EntriesInv
<1> QED
  BY <1>1, EntriesCorrect, PTL

(* Packets wait in entries that wait, or were made permanent meanwhile.    *)
THEOREM PendingCorrect == Spec => []PendingOnlyWaiting
<1>1. EntriesInv => PendingOnlyWaiting
  BY DEF EntriesInv
<1> QED
  BY <1>1, EntriesCorrect, PTL

-----------------------------------------------------------------------------
(* Where the packets are.                                                  *)

(* Numbers are given in order: nothing has a number that was not given.    *)
Numbered ==
    /\ \A a \in Addr : Held(a) \cup Sent(a) \subseteq 1 .. asked
    /\ dropped \subseteq 1 .. asked

(* Queues are in order, and what a search holds is newer than what was sent.*)
QueuesInOrder ==
    /\ \A a \in Addr : Increasing(PendingOf(a)) /\ Increasing(out[a])
    /\ \A a \in Waiting : \A p \in Sent(a), q \in Held(a) : p < q

(* No packet is in two places.                                             *)
Apart ==
    /\ \A a, b \in Addr : a # b => (Held(a) \cup Sent(a)) \cap (Held(b) \cup Sent(b)) = {}
    /\ \A a \in Addr : Held(a) \cap Sent(a) = {} /\ (Held(a) \cup Sent(a)) \cap dropped = {}

PacketsInv == Numbered /\ QueuesInOrder /\ Apart

(* What leaves a queue in a step has been sent or reported.                *)
Leaves(a) == HasEntry(a) /\ HasEntry(a)' => Held(a) \subseteq Held(a)' \cup Sent(a)' \cup dropped'

(* What an appended element adds to the elements, and to the order.        *)
LEMMA InAppend ==
  ASSUME NEW s \in Seq(Packet), NEW p \in Packet, Increasing(s), \A q \in In(s) : q < p
  PROVE  In(Append(s, p)) = In(s) \cup {p} /\ Increasing(Append(s, p))
<1> DEFINE t == Append(s, p)
<1>1. /\ Len(s) \in Nat /\ DOMAIN s = 1 .. Len(s) /\ DOMAIN t = 1 .. Len(s) + 1
      /\ t[Len(s) + 1] = p
      /\ \A i \in 1 .. Len(s) : t[i] = s[i]
  BY LenProperties, AppendProperties
<1> HIDE DEF t
<1>2. In(t) = In(s) \cup {p}
  <2>1. In(t) \subseteq In(s) \cup {p}
    <3> SUFFICES ASSUME NEW i \in 1 .. Len(s) + 1 PROVE t[i] \in In(s) \cup {p}
      BY <1>1 DEF In
    <3>1. i \in 1 .. Len(s) \/ i = Len(s) + 1
      BY <1>1
    <3> QED
      BY <1>1, <3>1 DEF In
  <2>2. In(s) \cup {p} \subseteq In(t)
    <3>1. \A i \in 1 .. Len(s) : i \in 1 .. Len(s) + 1
      BY <1>1
    <3>2. Len(s) + 1 \in 1 .. Len(s) + 1
      BY <1>1
    <3> QED
      BY <1>1, <3>1, <3>2 DEF In
  <2> QED
    BY <2>1, <2>2
<1>3. Increasing(t)
  <2> SUFFICES ASSUME NEW i \in 1 .. Len(s) + 1, NEW j \in 1 .. Len(s) + 1, i < j
               PROVE  t[i] < t[j]
    BY <1>1 DEF Increasing
  <2>1. i \in 1 .. Len(s) /\ (j \in 1 .. Len(s) \/ j = Len(s) + 1)
    BY <1>1
  <2>2. CASE j \in 1 .. Len(s)
    BY <1>1, <2>1, <2>2 DEF Increasing
  <2>3. CASE j = Len(s) + 1
    <3>1. s[i] \in In(s) /\ t[i] = s[i] /\ t[j] = p
      BY <1>1, <2>1, <2>3 DEF In
    <3> QED
      BY <3>1
  <2> QED
    BY <2>1, <2>2, <2>3
<1> QED
  BY <1>2, <1>3 DEF t

(* The same for a queue put behind what was sent.                          *)
LEMMA InConcat ==
  ASSUME NEW s \in Seq(Packet), NEW t \in Seq(Packet), Increasing(s), Increasing(t),
         \A p \in In(s), q \in In(t) : p < q
  PROVE  In(s \o t) = In(s) \cup In(t) /\ Increasing(s \o t)
<1> DEFINE u == s \o t
<1>1. /\ Len(s) \in Nat /\ Len(t) \in Nat
      /\ DOMAIN s = 1 .. Len(s) /\ DOMAIN t = 1 .. Len(t) /\ DOMAIN u = 1 .. Len(s) + Len(t)
      /\ \A i \in 1 .. Len(s) + Len(t) : u[i] = IF i <= Len(s) THEN s[i] ELSE t[i - Len(s)]
  BY LenProperties, ConcatProperties
<1> HIDE DEF u
<1>2. \A i \in 1 .. Len(s) + Len(t) :
        \/ i \in 1 .. Len(s) /\ u[i] = s[i]
        \/ i > Len(s) /\ i - Len(s) \in 1 .. Len(t) /\ u[i] = t[i - Len(s)]
  BY <1>1
<1>3. In(u) = In(s) \cup In(t)
  <2>1. In(u) \subseteq In(s) \cup In(t)
    BY <1>1, <1>2 DEF In
  <2>2. In(s) \subseteq In(u)
    <3>1. \A i \in 1 .. Len(s) : i \in 1 .. Len(s) + Len(t) /\ u[i] = s[i]
      BY <1>1
    <3> QED
      BY <1>1, <3>1 DEF In
  <2>3. In(t) \subseteq In(u)
    <3>1. \A i \in 1 .. Len(t) : Len(s) + i \in 1 .. Len(s) + Len(t) /\ u[Len(s) + i] = t[i]
      BY <1>1
    <3> QED
      BY <1>1, <3>1 DEF In
  <2> QED
    BY <2>1, <2>2, <2>3
<1>4. Increasing(u)
  <2> SUFFICES ASSUME NEW i \in 1 .. Len(s) + Len(t), NEW j \in 1 .. Len(s) + Len(t), i < j
               PROVE  u[i] < u[j]
    BY <1>1 DEF Increasing
  <2>1. CASE i \in 1 .. Len(s) /\ j \in 1 .. Len(s)
    BY <1>1, <2>1 DEF Increasing
  <2>2. CASE i \in 1 .. Len(s) /\ j > Len(s)
    <3>1. u[i] \in In(s) /\ u[j] \in In(t)
      BY <1>1, <1>2, <2>2 DEF In
    <3> QED
      BY <3>1
  <2>3. CASE i > Len(s) /\ j > Len(s)
    <3>1. /\ i - Len(s) \in DOMAIN t /\ j - Len(s) \in DOMAIN t /\ i - Len(s) < j - Len(s)
          /\ u[i] = t[i - Len(s)] /\ u[j] = t[j - Len(s)]
      BY <1>1, <1>2, <2>3
    <3> QED
      BY <3>1 DEF Increasing
  <2> QED
    BY <1>1, <2>1, <2>2, <2>3
<1> QED
  BY <1>3, <1>4 DEF u

(* An empty queue holds nothing and is in order.                           *)
LEMMA InEmpty == In(<<>>) = {} /\ Increasing(<<>>)
BY DEF In, Increasing

LEMMA InitPackets == Init => PacketsInv
<1> SUFFICES ASSUME Init PROVE PacketsInv
  OBVIOUS
<1>1. \A a \in Addr : PendingOf(a) = <<>> /\ out[a] = <<>>
  BY DEF Init, PendingOf, HasEntry, NoEntry
<1>2. \A a \in Addr : Held(a) = {} /\ Sent(a) = {}
  BY <1>1, InEmpty DEF Held, Sent
<1>3. Numbered /\ Apart
  BY <1>2 DEF Init, Numbered, Apart
<1>4. QueuesInOrder
  BY <1>1, <1>2, InEmpty DEF QueuesInOrder, Waiting
<1> QED
  BY <1>3, <1>4 DEF PacketsInv

(* Queues stay or are emptied, by a loss or with a report.                 *)
LEMMA QueuesEmptied ==
  ASSUME PacketsInv, UNCHANGED <<out, asked>>, Waiting' \subseteq Waiting,
         \A a \in Addr : PendingOf(a)' = PendingOf(a) \/ PendingOf(a)' = <<>>,
         \A p \in dropped' : \/ p \in dropped
                            \/ \E b \in Addr : p \in Held(b) /\ PendingOf(b)' = <<>>
  PROVE  PacketsInv'
<1>1. \A a \in Addr : /\ Held(a)' = Held(a) \/ Held(a)' = {}
                      /\ PendingOf(a)' = <<>> => Held(a)' = {}
                      /\ Sent(a)' = Sent(a)
                      /\ Increasing(PendingOf(a)') /\ Increasing(out'[a])
  BY InEmpty DEF Held, Sent, PacketsInv, QueuesInOrder
<1>2. Numbered'
  BY <1>1 DEF PacketsInv, Numbered
<1>3. QueuesInOrder'
  <2>1. \A a \in Waiting' : a \in Waiting /\ a \in Addr
    BY DEF Waiting
  <2> QED
    BY <1>1, <2>1 DEF PacketsInv, QueuesInOrder
<1>4. Apart'
  <2>1. ASSUME NEW a \in Addr, NEW p \in (Held(a) \cup Sent(a))' PROVE p \notin dropped'
    <3>1. p \in Held(a) \cup Sent(a) /\ p \notin dropped
      BY <1>1, <2>1 DEF PacketsInv, Apart
    <3>2. SUFFICES ASSUME NEW b \in Addr, p \in Held(b), PendingOf(b)' = <<>> PROVE FALSE
      BY <3>1
    <3>3. a = b
      BY <3>1, <3>2 DEF PacketsInv, Apart
    <3>4. p \in Sent(a) /\ p \in Held(a)
      BY <1>1, <2>1, <3>2, <3>3
    <3> QED
      BY <3>4 DEF PacketsInv, Apart
  <2>2. \A a \in Addr : Held(a)' \cap Sent(a)' = {}
    BY <1>1 DEF PacketsInv, Apart
  <2>3. \A a, b \in Addr : a # b => (Held(a) \cup Sent(a))' \cap (Held(b) \cup Sent(b))' = {}
    BY <1>1 DEF PacketsInv, Apart
  <2> QED
    BY <2>1, <2>2, <2>3 DEF Apart
<1> QED
  BY <1>2, <1>3, <1>4 DEF PacketsInv

(* A number that has not been given is nowhere.                            *)
LEMMA NewPacketIsNew ==
  ASSUME TypeOK, PacketsInv, HandDown
  PROVE  /\ NewPacket \in Packet /\ asked' = NewPacket
         /\ 1 .. asked \subseteq 1 .. asked' /\ NewPacket \in 1 .. asked'
         /\ NewPacket \notin dropped
         /\ \A a \in Addr : \A p \in Held(a) \cup Sent(a) : p < NewPacket
<1>1. asked \in Nat /\ asked + 1 \in Packet /\ asked' = asked + 1 /\ NewPacket = asked + 1
  BY ArpAssumption DEF TypeOK, HandDown, NewPacket, Packet
<1>2. \A p \in 1 .. asked : p < asked + 1
  BY <1>1
<1>3. NewPacket \notin 1 .. asked
  BY <1>1
<1> QED
  BY <1>1, <1>2, <1>3 DEF PacketsInv, Numbered

(* The new packet joins a queue, which was empty unless the entry waited.  *)
LEMMA PacketQueued ==
  ASSUME TypeOK, PacketsInv, HandDown, NEW b \in Addr,
         b \in Waiting \/ PendingOf(b) = <<>>,
         Waiting' \subseteq Waiting \cup {b},
         PendingOf(b)' = Append(PendingOf(b), NewPacket),
         \A a \in Addr : a # b => PendingOf(a)' = PendingOf(a),
         UNCHANGED <<out, dropped>>
  PROVE  PacketsInv' /\ \A a \in Addr : Leaves(a)
<1>1. /\ Held(b)' = Held(b) \cup {NewPacket} /\ Increasing(PendingOf(b)')
      /\ \A a \in Addr : a # b => Held(a)' = Held(a) /\ PendingOf(a)' = PendingOf(a)
      /\ \A a \in Addr : Sent(a)' = Sent(a)
  <2>1. PendingOf(b) \in Seq(Packet)
    BY EntryFields
  <2>2. /\ In(PendingOf(b)') = In(PendingOf(b)) \cup {NewPacket}
        /\ Increasing(PendingOf(b)')
    BY <2>1, InAppend, NewPacketIsNew DEF Held, PacketsInv, QueuesInOrder
  <2> QED
    BY <2>2 DEF Held, Sent
<1>2. Numbered'
  BY <1>1, NewPacketIsNew DEF PacketsInv, Numbered
<1>3. QueuesInOrder'
  <2>1. ASSUME NEW a \in Waiting', NEW p \in Sent(a)', NEW q \in Held(a)' PROVE p < q
    <3>1. a \in Addr /\ (a \in Waiting \/ a = b) /\ p \in Sent(a)
      BY <1>1, <2>1 DEF Waiting
    <3>2. CASE q = NewPacket
      BY <3>1, <3>2, NewPacketIsNew
    <3>3. CASE q # NewPacket
      <4>1. q \in Held(a)
        BY <1>1, <3>1, <3>3, <2>1
      <4>2. a \in Waiting
        BY <3>1, <4>1, InEmpty DEF Held
      <4> QED
        BY <3>1, <4>1, <4>2 DEF PacketsInv, QueuesInOrder
    <3> QED
      BY <3>2, <3>3
  <2> QED
    BY <1>1, <2>1 DEF PacketsInv, QueuesInOrder
<1>4. Apart'
  <2>1. \A a \in Addr : NewPacket \notin Held(a) \cup Sent(a) /\ NewPacket \notin dropped
    <3>1. ~(NewPacket < NewPacket)
      BY NewPacketIsNew DEF Packet
    <3> QED
      BY <3>1, NewPacketIsNew
  <2> QED
    BY <1>1, <2>1 DEF PacketsInv, Apart
<1> QED
  BY <1>1, <1>2, <1>3, <1>4 DEF PacketsInv, Leaves

(* The new packet is sent at once, past an entry that does not wait.       *)
LEMMA PacketSent ==
  ASSUME TypeOK, PacketsInv, NEW b \in Addr, SendAtOnce(b) PROVE PacketsInv' /\ \A a \in Addr : Leaves(a)
<1>1. HandDown /\ b \notin Waiting
  BY DEF SendAtOnce, Is, Waiting
<1>2. /\ out' = [out EXCEPT ![b] = Append(@, NewPacket)] /\ dropped' = dropped
      /\ Waiting' = Waiting /\ \A a \in Addr : PendingOf(a)' = PendingOf(a)
  BY DEF SendAtOnce, Waiting, PendingOf, HasEntry
<1>3. /\ Sent(b)' = Sent(b) \cup {NewPacket} /\ Increasing(out'[b])
      /\ \A a \in Addr : a # b => Sent(a)' = Sent(a) /\ out'[a] = out[a]
      /\ \A a \in Addr : Held(a)' = Held(a)
  <2>1. out[b] \in Seq(Packet) /\ out'[b] = Append(out[b], NewPacket)
    BY <1>2 DEF TypeOK
  <2>2. In(out'[b]) = In(out[b]) \cup {NewPacket} /\ Increasing(out'[b])
    BY <1>1, <2>1, InAppend, NewPacketIsNew DEF Sent, PacketsInv, QueuesInOrder
  <2> QED
    BY <1>2, <2>2 DEF Held, Sent, TypeOK
<1>4. Numbered'
  BY <1>1, <1>2, <1>3, NewPacketIsNew DEF PacketsInv, Numbered
<1>5. QueuesInOrder'
  <2>1. \A a \in Waiting : a # b /\ a \in Addr
    BY <1>1 DEF Waiting
  <2> QED
    BY <1>2, <1>3, <2>1 DEF PacketsInv, QueuesInOrder
<1>6. Apart'
  <2>1. \A a \in Addr : NewPacket \notin Held(a) \cup Sent(a) /\ NewPacket \notin dropped
    <3>1. ~(NewPacket < NewPacket)
      BY <1>1, NewPacketIsNew DEF Packet
    <3> QED
      BY <1>1, <3>1, NewPacketIsNew
  <2> QED
    BY <1>2, <1>3, <2>1 DEF PacketsInv, Apart
<1> QED
  BY <1>3, <1>4, <1>5, <1>6 DEF PacketsInv, Leaves

(* The new packet is reported as dropped.                                  *)
LEMMA PacketDropped ==
  ASSUME TypeOK, PacketsInv, HandDown, UNCHANGED out, Waiting' = Waiting,
         \A a \in Addr : PendingOf(a)' = PendingOf(a),
         dropped' = dropped \cup {NewPacket}
  PROVE  PacketsInv' /\ \A a \in Addr : Leaves(a)
<1>1. \A a \in Addr : Held(a)' = Held(a) /\ Sent(a)' = Sent(a)
  BY DEF Held, Sent
<1>2. \A a \in Addr : NewPacket \notin Held(a) \cup Sent(a)
  <2>1. ~(NewPacket < NewPacket)
    BY NewPacketIsNew DEF Packet
  <2> QED
    BY <2>1, NewPacketIsNew
<1>3. Numbered'
  BY <1>1, NewPacketIsNew DEF PacketsInv, Numbered
<1>4. QueuesInOrder'
  <2>1. \A a \in Waiting : a \in Addr
    BY DEF Waiting
  <2> QED
    BY <1>1, <2>1 DEF PacketsInv, QueuesInOrder
<1>5. Apart'
  BY <1>1, <1>2 DEF PacketsInv, Apart
<1> QED
  BY <1>1, <1>3, <1>4, <1>5 DEF PacketsInv, Leaves

(* A lookup puts the new packet in one place.                              *)
LEMMA LookupPackets ==
  ASSUME EntriesInv, PacketsInv, NEW b \in Addr, Lookup(b) PROVE PacketsInv' /\ \A a \in Addr : Leaves(a)
<1>1. TypeOK /\ PendingOnlyWaiting
  BY DEF EntriesInv
<1>2. CASE StartSearch(b)
  <2>1. cache' = [cache EXCEPT ![b] = MarkWaitReply(b)] /\ cache \in [Addr -> Entry \cup {NoEntry}]
    BY <1>1, <1>2 DEF StartSearch, TypeOK
  <2>2. /\ cache'[b] = MarkWaitReply(b)
        /\ \A a \in Addr : a # b => cache'[a] = cache[a]
    BY <2>1
  <2>3. PendingOf(b)' = Append(PendingOf(b), NewPacket)
    BY <2>2 DEF PendingOf, HasEntry, MarkWaitReply, Seen
  <2>4. PendingOf(b) = <<>>
    BY <1>1, <1>2 DEF StartSearch, PendingOnlyWaiting, PendingOf, HasEntry
  <2>5. /\ Waiting' \subseteq Waiting \cup {b}
        /\ \A a \in Addr : a # b => PendingOf(a)' = PendingOf(a)
    BY <2>2 DEF Waiting, PendingOf, HasEntry
  <2> QED
    BY <1>1, <1>2, <2>3, <2>4, <2>5, PacketQueued DEF StartSearch
<1>3. CASE DropAtDeadEntry(b)
  BY <1>1, <1>3, PacketDropped DEF DropAtDeadEntry, Waiting, PendingOf, HasEntry
<1>4. CASE SendAtOnce(b)
  BY <1>1, <1>4, PacketSent
<1>5. CASE WaitForReply(b)
  <2>1. b \in Waiting /\ HasEntry(b) /\ cache[b] \in Entry
    <3>1. b \in Waiting /\ HasEntry(b)
      BY <1>5 DEF WaitForReply, Is, Waiting, HasEntry
    <3> QED
      BY <3>1, <1>1, EntryFields
  <2>2. /\ cache'[b].state = cache[b].state
        /\ cache'[b].pending = UpdateWaitReply(b).pending
        /\ \A a \in Addr : a # b => cache'[a] = cache[a]
    <3>1. /\ cache' = [cache EXCEPT ![b].pending = UpdateWaitReply(b).pending]
          /\ cache \in [Addr -> Entry \cup {NoEntry}]
      BY <1>1, <1>5 DEF WaitForReply, TypeOK
    <3> HIDE DEF UpdateWaitReply
    <3>2. cache'[b] = [cache[b] EXCEPT !.pending = UpdateWaitReply(b).pending]
      BY <3>1
    <3> QED
      BY <3>1, <3>2, <2>1 DEF Entry
  <2>3. /\ Waiting' = Waiting
        /\ \A a \in Addr : a # b => PendingOf(a)' = PendingOf(a)
        /\ PendingOf(b) = cache[b].pending /\ PendingOf(b)' = UpdateWaitReply(b).pending
    BY <2>1, <2>2 DEF Waiting, PendingOf, HasEntry
  <2>4. CASE Full(b)
    <3>1. UpdateWaitReply(b).pending = cache[b].pending /\ ~UpdateWaitReply(b).done
      BY <2>4 DEF UpdateWaitReply
    <3>2. \A a \in Addr : PendingOf(a)' = PendingOf(a)
      BY <2>3, <3>1
    <3>3. dropped' = dropped \cup {NewPacket} /\ HandDown /\ UNCHANGED out
      BY <1>5, <3>1 DEF WaitForReply
    <3> QED
      BY <1>1, <2>3, <3>2, <3>3, PacketDropped
  <2>5. CASE ~Full(b)
    <3>1. UpdateWaitReply(b).pending = Append(cache[b].pending, NewPacket) /\ UpdateWaitReply(b).done
      BY <2>5 DEF UpdateWaitReply
    <3>2. PendingOf(b)' = Append(PendingOf(b), NewPacket)
      BY <2>3, <3>1
    <3>3. HandDown /\ UNCHANGED <<out, dropped>>
      BY <1>5, <3>1 DEF WaitForReply
    <3> QED
      BY <1>1, <2>1, <2>3, <3>2, <3>3, PacketQueued
  <2> QED
    BY <2>4, <2>5
<1> QED
  BY <1>2, <1>3, <1>4, <1>5 DEF Lookup

(* A reply moves what waited behind what was sent.                         *)
LEMMA ReplyPackets ==
  ASSUME EntriesInv, PacketsInv, NEW b \in Addr, AcceptReply(b) PROVE PacketsInv' /\ \A a \in Addr : Leaves(a)
<1>1. /\ TypeOK /\ b \in Waiting /\ PendingOf(b) = cache[b].pending
      /\ PendingOf(b) \in Seq(Packet) /\ out[b] \in Seq(Packet)
  <2>1. TypeOK
    BY DEF EntriesInv
  <2> QED
    BY <2>1, EntryFields DEF AcceptReply, Waiting, PendingOf, HasEntry, TypeOK
<1>2. /\ cache' = [cache EXCEPT ![b] = Seen("Alive", 0, <<>>)]
      /\ out' = [out EXCEPT ![b] = out[b] \o PendingOf(b)] /\ UNCHANGED <<asked, dropped>>
  BY <1>1 DEF AcceptReply, DequeuePending
<1>3. /\ PendingOf(b)' = <<>> /\ Waiting' = Waiting \ {b}
      /\ \A a \in Addr : a # b => PendingOf(a)' = PendingOf(a)
  <2>1. /\ cache'[b] = Seen("Alive", 0, <<>>)
        /\ \A a \in Addr : a # b => cache'[a] = cache[a]
    BY <1>1, <1>2 DEF TypeOK
  <2> QED
    BY <2>1 DEF PendingOf, HasEntry, Waiting, Seen
<1>4. /\ Sent(b)' = Sent(b) \cup Held(b) /\ Held(b)' = {} /\ Increasing(out'[b])
      /\ \A a \in Addr : a # b => /\ Sent(a)' = Sent(a) /\ Held(a)' = Held(a)
                                   /\ out'[a] = out[a]
      /\ \A a \in Addr : Increasing(PendingOf(a)')
  <2>1. out'[b] = out[b] \o PendingOf(b)
    BY <1>1, <1>2 DEF TypeOK
  <2>2. /\ In(out[b] \o PendingOf(b)) = In(out[b]) \cup In(PendingOf(b))
        /\ Increasing(out[b] \o PendingOf(b))
    BY <1>1, InConcat DEF Held, Sent, PacketsInv, QueuesInOrder
  <2> QED
    BY <1>1, <1>2, <1>3, <2>1, <2>2, InEmpty DEF Held, Sent, PacketsInv, QueuesInOrder, TypeOK
<1>5. Numbered'
  BY <1>2, <1>4 DEF PacketsInv, Numbered
<1>6. QueuesInOrder'
  <2>1. \A a \in Waiting : a \in Addr
    BY DEF Waiting
  <2> QED
    BY <1>3, <1>4, <2>1 DEF PacketsInv, QueuesInOrder
<1>7. Apart'
  BY <1>2, <1>4 DEF PacketsInv, Apart
<1> QED
  BY <1>4, <1>5, <1>6, <1>7 DEF PacketsInv, Leaves

(* Of the searches given up the timer reports every packet, once.          *)
LEMMA TimeoutPackets ==
  ASSUME EntriesInv, PacketsInv, HandleWaitReplyTimeout PROVE PacketsInv' /\ \A a \in Addr : Leaves(a)
<1>1. /\ \A a \in Addr : cache'[a] = IF a \in Retried THEN AfterRetry(cache[a])
                                       ELSE IF a \in GivenUp THEN AfterGivingUp(cache[a])
                                       ELSE cache[a]
      /\ dropped' = dropped \cup UNION {Dumped(a) : a \in GivenUp}
      /\ UNCHANGED <<out, asked>>
  BY DEF HandleWaitReplyTimeout
<1>2. ASSUME NEW a \in Addr
      PROVE  /\ a \in GivenUp => PendingOf(a)' = <<>>
             /\ a \notin GivenUp => PendingOf(a)' = PendingOf(a)
             /\ cache'[a].state = "WaitReply" => cache[a].state = "WaitReply"
  <2>1. CASE a \in Retried
    <3>1. PendingOf(a) = cache[a].pending /\ cache[a].state = "WaitReply"
      BY <2>1 DEF Retried, Waiting, PendingOf, HasEntry
    <3>2. /\ cache'[a] = AfterRetry(cache[a])
          /\ cache'[a].state = "WaitReply" /\ cache'[a].pending = cache[a].pending
      BY <1>1, <2>1 DEF AfterRetry, Seen
    <3>3. PendingOf(a)' = cache[a].pending
      BY <3>2 DEF PendingOf, HasEntry
    <3> QED
      BY <2>1, <3>1, <3>3 DEF GivenUp
  <2>2. CASE a \in GivenUp
    BY <1>1, <2>2 DEF GivenUp, PendingOf, HasEntry, AfterGivingUp, Seen, Waiting
  <2>3. CASE a \notin Retried /\ a \notin GivenUp
    BY <1>1, <2>3 DEF PendingOf, HasEntry
  <2> QED
    BY <2>1, <2>2, <2>3
<1>3. Waiting' \subseteq Waiting
  BY <1>2 DEF Waiting
<1>4. \A p \in dropped' : \/ p \in dropped
                         \/ \E b \in Addr : p \in Held(b) /\ PendingOf(b)' = <<>>
  BY <1>1, <1>2 DEF Dumped, GivenUp, Waiting
<1>5. ASSUME NEW a \in Addr PROVE Leaves(a)
  <2>1. a \notin GivenUp => Held(a)' = Held(a)
    BY <1>2 DEF Held
  <2>2. a \in GivenUp => Held(a) \subseteq dropped'
    BY <1>1 DEF Dumped
  <2> QED
    BY <2>1, <2>2 DEF Leaves
<1> QED
  BY <1>1, <1>2, <1>3, <1>4, <1>5, QueuesEmptied

(* What else happens leaves the queues or empties them.                    *)
LEMMA OtherPackets ==
  ASSUME EntriesInv, PacketsInv,
         \/ \E a \in Addr : Answer(a) \/ IgnoreReply(a) \/ AddEntry(a) \/ Remove(a)
         \/ \E r \in delayed : SendArpRequest(r)
         \/ \E m \in medium : Lose(m)
         \/ Flush \/ RemoveAutoGeneratedEntries \/ Tick \/ UNCHANGED vars
  PROVE  PacketsInv' /\ \A a \in Addr : Leaves(a)
<1>1. UNCHANGED <<asked, out, dropped>>
  BY DEF Answer, IgnoreReply, AddEntry, Remove, SendArpRequest, Lose, Flush,
     RemoveAutoGeneratedEntries, Tick, vars
<1>2. ASSUME NEW a \in Addr
      PROVE  /\ PendingOf(a)' = PendingOf(a) \/ (PendingOf(a)' = <<>> /\ ~HasEntry(a)')
             /\ cache'[a].state = "WaitReply" => cache[a].state = "WaitReply"
  <2>1. \/ cache'[a] = cache[a] \/ cache'[a] = NoEntry
        \/ cache'[a] = Seen("AutoGenerated", 0, PendingOf(a))
        \/ cache'[a] = Older(cache[a])
    <3>1. CASE \E b \in Addr : AddEntry(b) \/ Remove(b)
      BY <3>1 DEF AddEntry, Remove, EntriesInv, TypeOK
    <3>2. CASE Flush \/ RemoveAutoGeneratedEntries \/ Tick
      BY <3>2 DEF Flush, RemoveAutoGeneratedEntries, Tick
    <3>3. CASE UNCHANGED cache
      BY <3>3
    <3> QED
      BY <3>1, <3>2, <3>3 DEF Answer, IgnoreReply, SendArpRequest, Lose, vars
  <2>2. CASE cache'[a] = cache[a]
    BY <2>2 DEF PendingOf, HasEntry
  <2>3. CASE cache'[a] = NoEntry
    BY <2>3 DEF PendingOf, HasEntry, NoEntry
  <2>4. CASE cache'[a] = Seen("AutoGenerated", 0, PendingOf(a))
    <3>1. cache'[a].state = "AutoGenerated" /\ cache'[a].pending = PendingOf(a)
      BY <2>4 DEF Seen
    <3> QED
      BY <3>1 DEF PendingOf, HasEntry
  <2>5. CASE cache'[a] = Older(cache[a]) /\ cache'[a] # cache[a]
    <3>1. Timed(cache[a]) /\ cache'[a] = [cache[a] EXCEPT !.age = @ + 1]
      BY <2>5 DEF Older
    <3>2. cache[a] \in Entry
      BY <3>1, EntryFields DEF Timed, HasEntry, EntriesInv
    <3>3. cache'[a].state = cache[a].state /\ cache'[a].pending = cache[a].pending
      BY <3>1, <3>2 DEF Entry
    <3> QED
      BY <3>3 DEF PendingOf, HasEntry
  <2> QED
    BY <2>1, <2>2, <2>3, <2>4, <2>5
<1>3. Waiting' \subseteq Waiting
  BY <1>2 DEF Waiting
<1>4. \A a \in Addr : Leaves(a)
  BY <1>2 DEF Leaves, Held
<1> QED
  BY <1>1, <1>2, <1>3, <1>4, QueuesEmptied

(* Every step keeps every packet in its place.                             *)
LEMMA NextPackets ==
  EntriesInv /\ PacketsInv /\ [Next]_vars => PacketsInv' /\ \A a \in Addr : Leaves(a)
<1> SUFFICES ASSUME EntriesInv, PacketsInv, [Next]_vars
             PROVE  PacketsInv' /\ \A a \in Addr : Leaves(a)
  OBVIOUS
<1>1. CASE \E a \in Addr : Lookup(a)
  BY <1>1, LookupPackets
<1>2. CASE \E a \in Addr : AcceptReply(a)
  BY <1>2, ReplyPackets
<1>3. CASE HandleWaitReplyTimeout
  BY <1>3, TimeoutPackets
<1>4. CASE \/ \E a \in Addr : Answer(a) \/ IgnoreReply(a) \/ AddEntry(a) \/ Remove(a)
           \/ \E r \in delayed : SendArpRequest(r)
           \/ \E m \in medium : Lose(m)
           \/ Flush \/ RemoveAutoGeneratedEntries \/ Tick \/ UNCHANGED vars
  BY <1>4, OtherPackets
<1> QED
  BY <1>1, <1>2, <1>3, <1>4 DEF Next

(* Packets are where the invariant has them in every reachable state.      *)
THEOREM PacketsCorrect == Spec => []PacketsInv
<1> QED
  BY InitPackets, NextPackets, EntriesCorrect, PTL DEF Spec

(* Increasing queues repeat no packet.                                     *)
LEMMA IncreasingNoRepeat ==
  ASSUME NEW s \in Seq(Packet), Increasing(s) PROVE NoRepeat(s)
<1> SUFFICES ASSUME NEW i \in DOMAIN s, NEW j \in DOMAIN s, s[i] = s[j] PROVE i = j
  BY DEF NoRepeat
<1>1. i \in Int /\ j \in Int /\ s[i] \in Int
  <2>1. Len(s) \in Nat /\ DOMAIN s = 1 .. Len(s)
    BY LenProperties
  <2>2. s[i] \in Packet
    BY <2>1, ElementOfSeq
  <2> QED
    BY <2>1, <2>2 DEF Packet
<1>2. ~(s[i] < s[i])
  BY <1>1
<1>3. ~(i < j) /\ ~(j < i)
  BY <1>2 DEF Increasing
<1> QED
  BY <1>1, <1>3

(* A packet is in one place only: waiting, sent once, or reported dropped. *)
THEOREM OnePlaceCorrect == Spec => []OnePlace
<1>1. TypeOK /\ PacketsInv => OnePlace
  <2> SUFFICES ASSUME TypeOK, PacketsInv PROVE OnePlace
    OBVIOUS
  <2>1. \A a \in Addr : NoRepeat(PendingOf(a)) /\ NoRepeat(out[a])
    <3> SUFFICES ASSUME NEW a \in Addr PROVE NoRepeat(PendingOf(a)) /\ NoRepeat(out[a])
      OBVIOUS
    <3>1. PendingOf(a) \in Seq(Packet) /\ out[a] \in Seq(Packet)
      BY EntryFields DEF TypeOK
    <3> QED
      BY <3>1, IncreasingNoRepeat DEF PacketsInv, QueuesInOrder
  <2> QED
    BY <2>1 DEF PacketsInv, Apart, OnePlace
<1> QED
  BY <1>1, TypeCorrect, PacketsCorrect, PTL

(* Packets to one next hop reach the device in the order of their lookups. *)
THEOREM OrderCorrect == Spec => []OrderKept
<1>1. PacketsInv => OrderKept
  BY DEF PacketsInv, QueuesInOrder, OrderKept
<1> QED
  BY <1>1, PacketsCorrect, PTL

(* A packet leaves the queue of an entry that stays only to the device or  *)
(* with a report.                                                          *)
THEOREM TraceCorrect == Spec => LeavesWithTrace
<1>1. EntriesInv /\ PacketsInv /\ [Next]_vars =>
        [\A a \in Addr : HasEntry(a) /\ HasEntry(a)' =>
            Held(a) \subseteq Held(a)' \cup Sent(a)' \cup dropped']_vars
  BY NextPackets DEF Leaves
<1> QED
  BY <1>1, EntriesCorrect, PacketsCorrect, PTL DEF Spec, LeavesWithTrace
=============================================================================
