-------------------------- MODULE DefaultSimulator --------------------------
(***************************************************************************)
(* ns3::DefaultSimulatorImpl, with the default MapScheduler as its event   *)
(* list: the loop that runs events in virtual time, the calls user code    *)
(* makes from an event handler or around Run, the events other threads     *)
(* post with ScheduleWithContext, and the end of the simulation.           *)
(*                                                                         *)
(* The main thread is the one that calls Run; pc says where it is:         *)
(*   idle            outside Run                                           *)
(*   drain           about to call ProcessEventsWithContext, inside Run    *)
(*   loop            at the condition of Run's while loop                  *)
(*   handler         inside the Notify of an event                         *)
(*   destroying      in the loop of Destroy                                *)
(*   destroyHandler  inside the Notify of a destroy event                  *)
(*   disposed        after DoDispose                                       *)
(*   undefined       undefined behaviour was reached                       *)
(* An EventImpl is named by the order in which the simulator took it in; an *)
(* EventId, and a Scheduler::Event, is a record [ts, uid, ev].             *)
(***************************************************************************)
EXTENDS EventKey, Sequences, FiniteSets
SX == INSTANCE SequencesExt

CONSTANTS
  Delays,      \* the delays events are scheduled with, in time steps
  MaxEvents,   \* bound: EventImpls ever handed to the simulator
  MaxPosts,    \* bound: events posted by other threads and not yet taken in
  UidLimit     \* how many values m_uid has: 2^32 in the code

ASSUME DelaysAssumption == Delays \subseteq Nat
ASSUME BoundsAssumption ==
  /\ MaxEvents \in Nat
  /\ MaxPosts \in Nat
  /\ UidLimit \in Nat
  /\ UidLimit > VALID
  /\ MaxPosts <= UidLimit

VARIABLES
  pc,                       \* where the main thread is
  m_events,                 \* the event list: std::map from key to EventImpl
  m_uid,                    \* uid of the next event
  m_currentUid,             \* uid of the current event
  m_currentTs,              \* its time stamp, the virtual clock
  m_stop,                   \* Stop was called
  m_unscheduledEvents,      \* events inserted and not yet run
  m_eventsWithContext,      \* delays of the events other threads posted
  m_eventsWithContextEmpty, \* the flag the main thread reads without the lock
  m_destroyEvents,          \* EventIds to run at Destroy, in order
  cancelled,                \* the EventImpls whose m_cancel bit is set
  stops,                    \* the EventImpls that call Simulator::Stop
  issued,                   \* the EventIds returned to user code
  made,                     \* how many EventImpls the simulator was given
  ran                       \* EventImpls whose Notify was called

queueVars == <<m_events, m_uid, m_unscheduledEvents, made>>
clockVars == <<m_currentUid, m_currentTs>>
postVars  == <<m_eventsWithContext, m_eventsWithContextEmpty>>
userVars  == <<m_destroyEvents, cancelled, stops, issued>>
vars == <<pc, m_stop, ran, queueVars, clockVars, postVars, userVars>>

Events   == 1..MaxEvents
Uids     == 0..(UidLimit - 1)
EventIds == [ts : Nat, uid : Uids, ev : Events]

Init ==
  /\ pc = "idle"
  /\ m_events = {}
  /\ m_uid = VALID
  /\ m_currentUid = INVALID
  /\ m_currentTs = 0
  /\ m_stop = FALSE
  /\ m_unscheduledEvents = 0
  /\ m_eventsWithContext = <<>>
  /\ m_eventsWithContextEmpty = TRUE
  /\ m_destroyEvents = <<>>
  /\ cancelled = {}
  /\ stops = {}
  /\ issued = {}
  /\ made = 0
  /\ ran = {}

-----------------------------------------------------------------------------
(* Inserting into the event list.                                          *)

(* m_uid++, k times, on an unsigned integer of UidLimit values. *)
Advance(uid, k) == IF uid + k < UidLimit THEN uid + k ELSE uid + k - UidLimit

(* MapScheduler::Insert: std::map::insert keeps the old entry of a key. *)
Insert(list, new) == list \union {e \in new : \A f \in list : ~SameKey(e, f)}

NewEvent(delay) == [ts |-> m_currentTs + delay, uid |-> m_uid, ev |-> made + 1]

HasRoom == made + Len(m_eventsWithContext) < MaxEvents

(* User code runs on the main thread around Run and inside handlers. *)
UserCode == pc \in {"idle", "handler", "destroyHandler"}

(* n insertions move the three counters together. *)
CountedOnce(n) ==   \* slip: a batch of posted events counted as one
  /\ m_uid' = Advance(m_uid, n)
  /\ m_unscheduledEvents' = m_unscheduledEvents + 1
  /\ made' = made + n
Counted(n) ==
  /\ m_uid' = Advance(m_uid, n)
  /\ m_unscheduledEvents' = m_unscheduledEvents + n
  /\ made' = made + n

Enqueue(delay) ==
  /\ HasRoom
  /\ m_events' = Insert(m_events, {NewEvent(delay)})
  /\ Counted(1)

(* Schedule, and with a delay of 0 ScheduleNow: the caller gets the EventId. *)
Schedule(delay) ==
  /\ UserCode
  /\ Enqueue(delay)
  /\ issued' = issued \union {NewEvent(delay)}
  /\ UNCHANGED <<pc, m_stop, ran, clockVars, postVars, m_destroyEvents, cancelled, stops>>

(* Stop(delay) schedules Simulator::Stop itself. *)
ScheduleStop(delay) ==
  /\ UserCode
  /\ Enqueue(delay)
  /\ stops' = stops \union {made + 1}
  /\ issued' = issued \union {NewEvent(delay)}
  /\ UNCHANGED <<pc, m_stop, ran, clockVars, postVars, m_destroyEvents, cancelled>>

(* ScheduleWithContext on the main thread: no EventId comes back. *)
ScheduleWithContext(delay) ==
  /\ UserCode
  /\ Enqueue(delay)
  /\ UNCHANGED <<pc, m_stop, ran, clockVars, postVars, userVars>>

PostFlagFirst(delay) ==   \* slip: the flag computed before the append
  /\ pc \notin {"disposed", "undefined"}
  /\ HasRoom
  /\ Len(m_eventsWithContext) < MaxPosts
  /\ m_eventsWithContext' = Append(m_eventsWithContext, delay)
  /\ m_eventsWithContextEmpty' = (m_eventsWithContext = <<>>)
  /\ UNCHANGED <<pc, m_stop, ran, queueVars, clockVars, userVars>>

(* ScheduleWithContext on another thread, at any moment: under the mutex   *)
(* the delay is queued, relative to whenever the main thread takes it in.  *)
Post(delay) ==
  /\ pc \notin {"disposed", "undefined"}
  /\ HasRoom
  /\ Len(m_eventsWithContext) < MaxPosts
  /\ m_eventsWithContext' = Append(m_eventsWithContext, delay)
  /\ m_eventsWithContextEmpty' = FALSE
  /\ UNCHANGED <<pc, m_stop, ran, queueVars, clockVars, userVars>>

(* ScheduleDestroy: the id carries DESTROY, and m_uid advances all the same. *)
ScheduleDestroy ==
  LET id == [ts |-> m_currentTs, uid |-> DESTROY, ev |-> made + 1]
  IN  /\ UserCode
      /\ HasRoom
      /\ m_destroyEvents' = Append(m_destroyEvents, id)
      /\ m_uid' = Advance(m_uid, 1)
      /\ made' = made + 1
      /\ issued' = issued \union {id}
      /\ UNCHANGED <<pc, m_stop, ran, m_events, m_unscheduledEvents, clockVars, postVars,
                     cancelled, stops>>

-----------------------------------------------------------------------------
(* Expiry, cancellation and removal.                                       *)

InDestroyList(id) == \E i \in DOMAIN m_destroyEvents : m_destroyEvents[i] = id

IsExpired(id) ==
  IF id.uid = DESTROY
  THEN id.ev \in cancelled \/ ~InDestroyList(id)
  ELSE \/ id.ts < m_currentTs
       \/ id.ts = m_currentTs /\ id.uid <= m_currentUid
       \/ id.ev \in cancelled

(* Cancel only sets the bit: the event stays in the list. *)
Cancel(id) ==
  /\ UserCode
  /\ ~IsExpired(id)
  /\ cancelled' = cancelled \union {id.ev}
  /\ UNCHANGED <<pc, m_stop, ran, queueVars, clockVars, postVars, m_destroyEvents, stops, issued>>

(* Remove of a destroy event erases the first match from that list and     *)
(* leaves the bit alone.                                                   *)
RemoveDestroy(id) ==
  /\ UserCode
  /\ id.uid = DESTROY
  /\ \E i \in DOMAIN m_destroyEvents :
       /\ m_destroyEvents[i] = id
       /\ \A j \in 1..(i - 1) : m_destroyEvents[j] # id
       /\ m_destroyEvents' = SX!RemoveAt(m_destroyEvents, i)
  /\ UNCHANGED <<pc, m_stop, ran, queueVars, clockVars, postVars, cancelled, stops, issued>>

(* Remove of a pending event: MapScheduler::Remove erases the entry found  *)
(* under its key; erasing what find did not find is undefined.             *)
RemoveQuietly(id) ==   \* slip: the removed event is not marked cancelled
  /\ UserCode
  /\ id.uid # DESTROY
  /\ ~IsExpired(id)
  /\ m_events' = m_events \ {id}
  /\ m_unscheduledEvents' = m_unscheduledEvents - 1
  /\ UNCHANGED <<pc, m_stop, ran, m_uid, made, clockVars, postVars, userVars>>
Remove(id) ==
  LET found == {f \in m_events : SameKey(f, id)}
  IN  /\ UserCode
      /\ id.uid # DESTROY
      /\ ~IsExpired(id)
      /\ m_events' = m_events \ found
      /\ cancelled' = cancelled \union {id.ev}
      /\ m_unscheduledEvents' = m_unscheduledEvents - 1
      /\ pc' = IF found = {} THEN "undefined" ELSE pc
      /\ UNCHANGED <<m_stop, ran, m_uid, made, clockVars, postVars, m_destroyEvents, stops, issued>>

(* Stop() called by user code. *)
Stop ==
  /\ UserCode
  /\ m_stop' = TRUE
  /\ UNCHANGED <<pc, ran, queueVars, clockVars, postVars, userVars>>

-----------------------------------------------------------------------------
(* Run.                                                                    *)

(* Run clears m_stop, so a Stop before Run is lost.  (The code drains the  *)
(* posted events just before clearing it; nothing reads it in between.)    *)
Run ==
  /\ pc = "idle"
  /\ m_stop' = FALSE
  /\ pc' = "drain"
  /\ UNCHANGED <<ran, queueVars, clockVars, postVars, userVars>>

(* ProcessEventsWithContext returns at once when it reads the flag as TRUE. *)
(* The read takes no lock, so the flag may already be FALSE when it does.  *)
SkipPosts ==
  /\ pc = "drain"
  /\ pc' = "loop"
  /\ UNCHANGED <<m_stop, ran, queueVars, clockVars, postVars, userVars>>

(* Otherwise it swaps the list out under the mutex and inserts its events. *)
Taken(k) == [ts |-> m_currentTs + m_eventsWithContext[k],
             uid |-> Advance(m_uid, k - 1),
             ev |-> made + k]

TakePosts ==
  /\ pc = "drain"
  /\ ~m_eventsWithContextEmpty
  /\ m_events' = Insert(m_events, {Taken(k) : k \in 1..Len(m_eventsWithContext)})
  /\ Counted(Len(m_eventsWithContext))
  /\ m_eventsWithContext' = <<>>
  /\ m_eventsWithContextEmpty' = TRUE
  /\ pc' = "loop"
  /\ UNCHANGED <<m_stop, ran, clockVars, userVars>>

(* ProcessOneEvent up to the event's Invoke. *)
TakeNext(next) ==
  /\ pc = "loop"
  /\ ~m_stop
  /\ IsFirst(next, m_events)
  /\ m_events' = m_events \ {next}
  /\ m_unscheduledEvents' = m_unscheduledEvents - 1
  /\ m_currentTs' = next.ts
  /\ m_currentUid' = next.uid
  /\ UNCHANGED <<m_uid, made, postVars, userVars>>

(* Invoke does nothing when the m_cancel bit is set ... *)
SkipCancelled(next) ==
  /\ TakeNext(next)
  /\ next.ev \in cancelled
  /\ pc' = "drain"
  /\ UNCHANGED <<m_stop, ran>>

RunEventAlways(next) ==   \* slip: Invoke ignores the cancel bit
  /\ TakeNext(next)
  /\ ran' = ran \union {next.ev}
  /\ IF next.ev \in stops
     THEN m_stop' = TRUE /\ pc' = "drain"
     ELSE m_stop' = m_stop /\ pc' = "handler"

(* ... and calls Notify otherwise: user code, or Simulator::Stop. *)
RunEvent(next) ==
  /\ TakeNext(next)
  /\ next.ev \notin cancelled
  /\ ran' = ran \union {next.ev}
  /\ IF next.ev \in stops
     THEN m_stop' = TRUE /\ pc' = "drain"
     ELSE m_stop' = m_stop /\ pc' = "handler"

(* The handler returns to ProcessOneEvent, which calls                     *)
(* ProcessEventsWithContext last.                                          *)
HandlerReturns ==
  /\ pc = "handler"
  /\ pc' = "drain"
  /\ UNCHANGED <<m_stop, ran, queueVars, clockVars, postVars, userVars>>

RunReturns ==
  /\ pc = "loop"
  /\ m_events = {} \/ m_stop
  /\ pc' = "idle"
  /\ UNCHANGED <<m_stop, ran, queueVars, clockVars, postVars, userVars>>

-----------------------------------------------------------------------------
(* Simulator::Destroy: run the destroy events, then drop the simulator.    *)

Destroy ==
  /\ pc = "idle"
  /\ pc' = "destroying"
  /\ UNCHANGED <<m_stop, ran, queueVars, clockVars, postVars, userVars>>

(* Each destroy event leaves the list before it runs. *)
DestroyNext ==
  /\ pc = "destroying"
  /\ m_destroyEvents # <<>>
  /\ m_destroyEvents' = Tail(m_destroyEvents)
  /\ IF Head(m_destroyEvents).ev \in cancelled
     THEN UNCHANGED <<pc, ran>>
     ELSE /\ pc' = "destroyHandler"
          /\ ran' = ran \union {Head(m_destroyEvents).ev}
  /\ UNCHANGED <<m_stop, queueVars, clockVars, postVars, cancelled, stops, issued>>

DestroyHandlerReturns ==
  /\ pc = "destroyHandler"
  /\ pc' = "destroying"
  /\ UNCHANGED <<m_stop, ran, queueVars, clockVars, postVars, userVars>>

(* DoDispose takes in what is still posted, then drops every event left. *)
DoDispose ==
  /\ pc = "destroying"
  /\ m_destroyEvents = <<>>
  /\ m_events' = {}
  /\ Counted(Len(m_eventsWithContext))
  /\ m_eventsWithContext' = <<>>
  /\ m_eventsWithContextEmpty' = TRUE
  /\ pc' = "disposed"
  /\ UNCHANGED <<m_stop, ran, clockVars, userVars>>

-----------------------------------------------------------------------------
Next ==
  \/ \E d \in Delays : Schedule(d) \/ ScheduleStop(d) \/ ScheduleWithContext(d) \/ Post(d)
  \/ ScheduleDestroy
  \/ \E id \in issued : Cancel(id) \/ RemoveDestroy(id) \/ Remove(id)
  \/ Stop
  \/ Run \/ SkipPosts \/ TakePosts
  \/ \E next \in m_events : SkipCancelled(next) \/ RunEvent(next)
  \/ HandlerReturns \/ RunReturns
  \/ Destroy \/ DestroyNext \/ DestroyHandlerReturns \/ DoDispose

Spec == Init /\ [][Next]_vars

-----------------------------------------------------------------------------
(* Properties.                                                             *)

TypeOK ==
  /\ pc \in {"idle", "drain", "loop", "handler", "destroying", "destroyHandler",
             "disposed", "undefined"}
  /\ m_events \subseteq EventIds
  /\ m_uid \in Uids /\ m_currentUid \in Uids
  /\ m_currentTs \in Nat
  /\ m_stop \in BOOLEAN
  /\ m_unscheduledEvents \in Nat
  /\ m_eventsWithContext \in Seq(Delays)
  /\ m_eventsWithContextEmpty \in BOOLEAN
  /\ m_destroyEvents \in Seq(EventIds)
  /\ cancelled \subseteq Events
  /\ stops \subseteq Events
  /\ issued \subseteq EventIds
  /\ made \in 0..MaxEvents
  /\ ran \subseteq Events

(* IsExpired answers from the clock, the current uid and the cancel bit    *)
(* alone, never from the event list; yet for every EventId the program was *)
(* given it must say "pending" exactly when the event is still in a list   *)
(* and will still run.                                                     *)
ExpiredExact ==
  pc # "disposed" =>
    \A id \in issued :
      ~IsExpired(id) <=> (id \in m_events \/ InDestroyList(id)) /\ id.ev \notin cancelled

(* An expired EventId stays expired and its event never runs afterwards,   *)
(* whatever mix of Cancel, Remove, Run and Destroy follows.                *)
ExpiredIsFinal ==
  [][\A id \in issued : IsExpired(id) => /\ pc' # "disposed" => IsExpired(id)'
                                         /\ id.ev \in ran' => id.ev \in ran]_vars

(* Events run in virtual-time order and, within one instant, in the order  *)
(* in which they were inserted; virtual time never goes back.              *)
RunOrder ==
  [][/\ m_currentTs' >= m_currentTs
     /\ \A e \in m_events : e.ev \in ran' \ ran =>
          \A f \in m_events \ {e} : f.ts > e.ts \/ (f.ts = e.ts /\ f.ev > e.ev)]_vars

(* The counter that Run's closing assertion relies on counts the list.     *)
UnscheduledCounts ==
  pc # "disposed" => m_unscheduledEvents = Cardinality(m_events)

(* A posted event is never left behind a flag that says there is none.     *)
PostsAreFlagged == m_eventsWithContext # <<>> <=> ~m_eventsWithContextEmpty

(* Erasing an entry that is not in the event list never happens.           *)
NoUndefined == pc # "undefined"

(* The inductive invariant behind ExpiredExact, NoUndefined, RunOrder and  *)
(* ImplementsLoop, for a program that makes fewer events than there are    *)
(* uids.                                                                   *)

(* A uid is the serial number of its event, so uids order events as they   *)
(* were inserted, and the uid the clock stands at is an old one.           *)
UidsAreSerials ==
  /\ m_uid = VALID + made
  /\ made + Len(m_eventsWithContext) <= MaxEvents
  /\ m_currentUid < m_uid
  /\ \A e \in m_events : e.uid = VALID + e.ev - 1
  /\ \A id \in issued : id.uid \in {DESTROY, VALID + id.ev - 1}
  /\ \A e \in m_events \union issued : e.ev <= made

(* No two EventIds, or entries of the list, share an EventImpl. *)
OneIdPerEvent == \A a, b \in m_events \union issued : a.ev = b.ev => a = b

(* Every entry of the list is still ahead of the clock. *)
AheadOfClock ==
  \A e \in m_events : \/ e.ts > m_currentTs
                      \/ e.ts = m_currentTs /\ e.uid > m_currentUid

(* Every EventId of the program is in the list, behind the clock, or was   *)
(* withdrawn.                                                              *)
AccountedFor ==
  pc # "disposed" =>
    \A id \in issued : id.uid # DESTROY => id \in m_events \/ IsExpired(id)

DestroyListIssued ==
  \A i \in DOMAIN m_destroyEvents :
    m_destroyEvents[i] \in issued /\ m_destroyEvents[i].uid = DESTROY

(* What is in the list has not run: no event runs twice. *)
NotYetRun == ran \subseteq 1..made /\ \A e \in m_events : e.ev \notin ran

IInv ==
  /\ TypeOK
  /\ UidsAreSerials
  /\ OneIdPerEvent
  /\ AheadOfClock
  /\ AccountedFor
  /\ DestroyListIssued
  /\ NotYetRun
  /\ PostsAreFlagged
  /\ IsFiniteSet(m_events)
  /\ UnscheduledCounts
  /\ NoUndefined

(* The simulator implements the promised event loop: what is planned is    *)
(* what is in the list with its cancel bit clear; destroy events, which    *)
(* run outside the loop, are left out of what ran.                         *)
Planned == {[ts |-> e.ts, ev |-> e.ev] : e \in {f \in m_events : f.ev \notin cancelled}}
DestroyEvs == {id.ev : id \in {i \in issued : i.uid = DESTROY}}

Loop == INSTANCE EventLoop WITH planned <- Planned, now <- m_currentTs, ran <- ran \ DestroyEvs
ImplementsLoop == Loop!LoopSpec

=============================================================================
