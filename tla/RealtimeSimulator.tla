-------------------------- MODULE RealtimeSimulator -------------------------
(***************************************************************************)
(* ns3::RealtimeSimulatorImpl with its WallClockSynchronizer: the loop that *)
(* waits until real time reaches the time of the next event, and threads   *)
(* that insert events of their own while it waits.                         *)
(*                                                                         *)
(* The main thread is the one that calls Run; pc says where it is:         *)
(*   user     before Run                                                   *)
(*   origin   in Run, m_running set, before SetOrigin                      *)
(*   check    at the top of Run's while loop                               *)
(*   plan     at the critical section that opens ProcessOneEvent's loop    *)
(*   sync     in DoSynchronize, before the sleep                           *)
(*   toSleep  about to enter SleepWait, its duration computed              *)
(*   sleep    in SleepWait                                                 *)
(*   spin     past the sleep, waiting in SpinWait                          *)
(*   take     at the critical section that takes the event out             *)
(*   handler  in the Invoke of an event                                    *)
(*   over     Run has returned                                             *)
(* Between two steps of the main thread real time may pass and the other   *)
(* threads may run.  m_mutex is held by a thread from the insertion of its *)
(* event to the Signal that follows; the critical sections of the main     *)
(* thread are steps of their own.  The other threads may insert events at  *)
(* any moment, before Run, while it starts and after it has returned.      *)
(***************************************************************************)
EXTENDS EventKey, FiniteSets

CONSTANTS
  Threads,    \* the threads other than the main thread
  NoThread,   \* m_mutex is free
  Delays,     \* the delays events are scheduled with
  Slack,      \* the three jiffies DoSynchronize leaves to SpinWait
  IdleWait,   \* how long Run waits on an empty list: a second
  Epoch,      \* what the clock reads while its origin is 0: the time since 1970
  MaxEvents,  \* bound: events ever inserted
  MaxTime     \* bound: real time since SetOrigin, and the time of events in its terms

ASSUME ThreadsAssumption == NoThread \notin Threads
ASSUME TimesAssumption ==
  /\ Delays \subseteq Nat
  /\ Slack \in Nat
  /\ IdleWait \in Nat
  /\ MaxTime \in Nat
ASSUME EpochAssumption == Epoch \in Nat /\ Epoch > MaxTime
ASSUME BoundAssumption == MaxEvents \in Nat

VARIABLES
  pc,                  \* where the main thread is
  rt,                  \* real time since SetOrigin
  m_events,            \* the event list
  m_uid,               \* uid of the next event
  m_currentTs,         \* time of the last event run
  m_currentUid,        \* its uid
  m_unscheduledEvents, \* events inserted and not yet taken out
  m_stop,              \* Stop was called
  m_running,           \* Run is under way
  m_mutex,             \* the thread that holds the simulator's mutex
  m_condition,         \* the synchronizer's condition: somebody signalled
  target,              \* nsCurrent + nsDelay of the wait
  until,               \* duration, then end, of SleepWait
  idle,                \* the wait is that of Run on an empty list
  issued,              \* the EventIds returned to user code
  cancelled,           \* uids of the events whose m_cancel bit is set
  ran                  \* uids of the events whose Notify was called

listVars == <<m_events, m_uid, m_unscheduledEvents>>
clockVars == <<m_currentTs, m_currentUid>>
waitVars == <<target, until, idle>>
userVars == <<issued, cancelled>>
vars == <<pc, rt, m_stop, m_running, m_mutex, m_condition, ran, listVars, clockVars, waitVars,
          userVars>>

Init ==
  /\ pc = "user"
  /\ rt = 0
  /\ m_events = {}
  /\ m_uid = VALID
  /\ m_currentTs = 0
  /\ m_currentUid = INVALID
  /\ m_unscheduledEvents = 0
  /\ m_stop = FALSE
  /\ m_running = FALSE
  /\ m_mutex = NoThread
  /\ m_condition = FALSE
  /\ target = 0
  /\ until = 0
  /\ idle = FALSE
  /\ issued = {}
  /\ cancelled = {}
  /\ ran = {}

-----------------------------------------------------------------------------
(* Scheduling.                                                             *)

Free == m_mutex = NoThread
UserCode == pc \in {"user", "handler"}

Event(ts) == [ts |-> ts, uid |-> m_uid]

Insert(ts) ==
  /\ m_uid < VALID + MaxEvents
  /\ ts <= MaxTime \/ ts >= Epoch
  /\ m_events' = m_events \union {Event(ts)}
  /\ m_uid' = m_uid + 1
  /\ m_unscheduledEvents' = m_unscheduledEvents + 1

(* Schedule by the main thread: relative to the last event, Signal included. *)
Schedule(delay) ==
  /\ UserCode
  /\ Free
  /\ Insert(m_currentTs + delay)
  /\ issued' = issued \union {Event(m_currentTs + delay)}
  /\ m_condition' = TRUE
  /\ UNCHANGED <<pc, rt, m_stop, m_running, m_mutex, ran, clockVars, waitVars, cancelled>>

(* GetCurrentRealtime: the synchronizer starts with the origin 0 and has   *)
(* it until Run calls SetOrigin.                                           *)
BeforeOrigin == pc \in {"user", "origin"}
GetCurrentRealtime == IF BeforeOrigin THEN Epoch ELSE rt

(* ScheduleRealtime: relative to real time, and the caller gets no EventId. *)
ScheduleRealtime(delay) ==
  /\ UserCode
  /\ Free
  /\ Insert(GetCurrentRealtime + delay)
  /\ m_condition' = TRUE
  /\ UNCHANGED <<pc, rt, m_stop, m_running, m_mutex, ran, clockVars, waitVars, userVars>>

(* The time of what another thread schedules: relative to real time from   *)
(* the moment Run has set m_running, and to the last event otherwise.      *)
PostTimeFromStart(delay) == delay   \* slip: the delay is taken for the time
PostTime(delay) == (IF m_running THEN GetCurrentRealtime ELSE m_currentTs) + delay

(* ScheduleRealtimeNow.                                                    *)
ScheduleRealtimeNow ==
  /\ UserCode
  /\ Free
  /\ Insert(PostTime(0))
  /\ m_condition' = TRUE
  /\ UNCHANGED <<pc, rt, m_stop, m_running, m_mutex, ran, clockVars, waitVars, userVars>>

(* ScheduleWithContext by another thread, up to the insertion.             *)
Post(t, delay) ==
  /\ Free
  /\ m_mutex' = t
  /\ Insert(PostTime(delay))
  /\ UNCHANGED <<pc, rt, m_stop, m_running, m_condition, ran, clockVars, waitVars, userVars>>

(* Its last call before it lets go of the mutex.                           *)
SignalHolding(t) ==   \* slip: the mutex is never given back
  /\ m_mutex = t
  /\ m_condition' = TRUE
  /\ UNCHANGED <<pc, rt, m_stop, m_running, m_mutex, ran, listVars, clockVars, waitVars, userVars>>
Signal(t) ==
  /\ m_mutex = t
  /\ m_condition' = TRUE
  /\ m_mutex' = NoThread
  /\ UNCHANGED <<pc, rt, m_stop, m_running, ran, listVars, clockVars, waitVars, userVars>>

IsExpired(id) ==
  \/ id.ts < m_currentTs
  \/ id.ts = m_currentTs /\ id.uid <= m_currentUid
  \/ id.uid \in cancelled

Cancel(id) ==
  /\ UserCode
  /\ ~IsExpired(id)
  /\ cancelled' = cancelled \union {id.uid}
  /\ UNCHANGED <<pc, rt, m_stop, m_running, m_mutex, m_condition, ran, listVars, clockVars,
                 waitVars, issued>>

RemoveUncounted(id) ==   \* slip: the counter is left alone
  /\ UserCode
  /\ Free
  /\ ~IsExpired(id)
  /\ m_events' = m_events \ {id}
  /\ cancelled' = cancelled \union {id.uid}
  /\ UNCHANGED <<pc, rt, m_stop, m_running, m_mutex, m_condition, ran, m_uid, m_unscheduledEvents,
                 clockVars, waitVars, issued>>
Remove(id) ==
  /\ UserCode
  /\ Free
  /\ ~IsExpired(id)
  /\ m_events' = m_events \ {id}
  /\ m_unscheduledEvents' = m_unscheduledEvents - 1
  /\ cancelled' = cancelled \union {id.uid}
  /\ UNCHANGED <<pc, rt, m_stop, m_running, m_mutex, m_condition, ran, m_uid, clockVars, waitVars,
                 issued>>

(* Stop: Run's loop ends when the event that calls it has returned.        *)
Stop ==
  /\ UserCode
  /\ m_stop' = TRUE
  /\ UNCHANGED <<pc, rt, m_running, m_mutex, m_condition, ran, listVars, clockVars, waitVars,
                 userVars>>

-----------------------------------------------------------------------------
(* Run.                                                                    *)

GoTo(place) == pc' = place
Stay == UNCHANGED <<rt, m_mutex, ran, userVars>>

Run ==
  /\ pc = "user"
  /\ m_stop' = FALSE
  /\ m_running' = TRUE
  /\ GoTo("origin")
  /\ UNCHANGED <<m_condition, listVars, clockVars, waitVars>>
  /\ Stay

(* This instant becomes the origin of real time.  The mutex is not taken.  *)
SetOrigin ==
  /\ pc = "origin"
  /\ GoTo("check")
  /\ UNCHANGED <<m_stop, m_running, m_condition, listVars, clockVars, waitVars>>
  /\ Stay

CheckList ==
  /\ pc = "check"
  /\ ~m_stop
  /\ Free
  /\ IF m_events # {}
     THEN /\ GoTo("plan")
          /\ UNCHANGED waitVars
     ELSE /\ GoTo("sync")
          /\ target' = rt + IdleWait
          /\ idle' = TRUE
          /\ UNCHANGED until
  /\ UNCHANGED <<m_stop, m_running, m_condition, listVars, clockVars>>
  /\ Stay

RunReturns ==
  /\ pc = "check"
  /\ m_stop
  /\ Free
  /\ m_running' = FALSE
  /\ GoTo("over")
  /\ UNCHANGED <<m_stop, m_condition, listVars, clockVars, waitVars>>
  /\ Stay

Later(a, b) == IF a < b THEN b ELSE a

(* ProcessOneEvent looks at the next event and resets the condition in the *)
(* same critical section.                                                  *)
PlanWait(next) ==
  /\ pc = "plan"
  /\ Free
  /\ IsFirst(next, m_events)
  /\ target' = Later(rt, next.ts)
  /\ idle' = FALSE
  /\ m_condition' = FALSE
  /\ GoTo("sync")
  /\ UNCHANGED <<m_stop, m_running, listVars, clockVars, until>>
  /\ Stay

(* DoSynchronize: after the drift has been corrected, what is more than    *)
(* Slack is slept.                                                         *)
DoSynchronizeResetting ==   \* slip: the condition is reset here, without the mutex
  /\ pc = "sync"
  /\ IF target - rt > Slack
     THEN GoTo("toSleep") /\ until' = target - rt - Slack
     ELSE GoTo("spin") /\ UNCHANGED until
  /\ m_condition' = FALSE
  /\ UNCHANGED <<m_stop, m_running, listVars, clockVars, target, idle>>
  /\ Stay
DoSynchronize ==
  /\ pc = "sync"
  /\ IF target - rt > Slack
     THEN GoTo("toSleep") /\ until' = target - rt - Slack
     ELSE GoTo("spin") /\ UNCHANGED until
  /\ UNCHANGED <<m_stop, m_running, m_condition, listVars, clockVars, target, idle>>
  /\ Stay

SleepWait ==
  /\ pc = "toSleep"
  /\ until' = rt + until
  /\ GoTo("sleep")
  /\ UNCHANGED <<m_stop, m_running, m_condition, listVars, clockVars, target, idle>>
  /\ Stay

(* Where an unfinished wait goes: Run looks at the list again, and         *)
(* ProcessOneEvent plans again.                                            *)
AgainTaking == IF idle THEN "check" ELSE "take"   \* slip: any end of the wait is the end
Again == IF idle THEN "check" ELSE "plan"

(* wait_for returns the condition: TRUE, "the sleep went until the end",   *)
(* when it was interrupted by a Signal, and the rest is spun ...           *)
SleepSignalled ==
  /\ pc = "sleep"
  /\ m_condition
  /\ GoTo("spin")
  /\ UNCHANGED <<m_stop, m_running, m_condition, listVars, clockVars, waitVars>>
  /\ Stay

(* ... and FALSE when the time is up: DoSynchronize returns unfinished.    *)
SleepEnds ==
  /\ pc = "sleep"
  /\ rt >= until
  /\ ~m_condition
  /\ GoTo(Again)
  /\ UNCHANGED <<m_stop, m_running, m_condition, listVars, clockVars, waitVars>>
  /\ Stay

(* The last look at the drift, and each turn of SpinWait.                  *)
SpinWait ==
  /\ pc = "spin"
  /\ \/ rt >= target /\ GoTo(IF idle THEN "check" ELSE "take")
     \/ rt < target /\ m_condition /\ GoTo(Again)
  /\ UNCHANGED <<m_stop, m_running, m_condition, listVars, clockVars, waitVars>>
  /\ Stay

(* The event taken out is the first there is now; Invoke calls Notify      *)
(* unless the event was cancelled.                                         *)
TakeNext(next) ==
  /\ pc = "take"
  /\ Free
  /\ IsFirst(next, m_events)
  /\ m_events' = m_events \ {next}
  /\ m_unscheduledEvents' = m_unscheduledEvents - 1
  /\ m_currentTs' = next.ts
  /\ m_currentUid' = next.uid
  /\ IF next.uid \in cancelled
     THEN GoTo("check") /\ UNCHANGED ran
     ELSE GoTo("handler") /\ ran' = ran \union {next.uid}
  /\ UNCHANGED <<rt, m_stop, m_running, m_mutex, m_condition, m_uid, waitVars, userVars>>

HandlerReturns ==
  /\ pc = "handler"
  /\ GoTo("check")
  /\ UNCHANGED <<m_stop, m_running, m_condition, listVars, clockVars, waitVars>>
  /\ Stay

(* Real time passes, whatever the threads do; past MaxTime only to the end *)
(* of a sleep that began late, and never to the Epoch.                     *)
Tick ==
  /\ m_running /\ ~BeforeOrigin
  /\ rt < MaxTime \/ (pc = "sleep" /\ ~idle /\ rt < until /\ target <= MaxTime)
  /\ rt' = rt + 1
  /\ UNCHANGED <<pc, m_stop, m_running, m_mutex, m_condition, ran, listVars, clockVars, waitVars,
                 userVars>>

-----------------------------------------------------------------------------
Wait ==
  \/ \E next \in m_events : PlanWait(next)
  \/ DoSynchronize \/ SleepWait \/ SleepSignalled \/ SleepEnds \/ SpinWait

MainLoop ==
  \/ Run \/ SetOrigin \/ CheckList \/ RunReturns
  \/ Wait
  \/ \E next \in m_events : TakeNext(next)
  \/ HandlerReturns

User ==
  \/ \E d \in Delays : Schedule(d) \/ ScheduleRealtime(d)
  \/ ScheduleRealtimeNow
  \/ \E id \in issued : Cancel(id) \/ Remove(id)
  \/ Stop

Next ==
  \/ MainLoop \/ User
  \/ \E t \in Threads : Signal(t) \/ \E d \in Delays : Post(t, d)
  \/ Tick

Spec == Init /\ [][Next]_vars

(* Time passes, a thread that holds the mutex lets go of it, the main      *)
(* thread runs, and event handlers return.                                 *)
FairSpec ==
  /\ Spec
  /\ WF_vars(Tick)
  /\ WF_vars(\E t \in Threads : Signal(t))
  /\ WF_vars(MainLoop)

-----------------------------------------------------------------------------
(* Properties.                                                             *)

Listed(uid) == \E e \in m_events : e.uid = uid
Waiting == pc \in {"sync", "toSleep", "sleep", "spin"}

TypeOK ==
  /\ pc \in {"user", "origin", "check", "plan", "sync", "toSleep", "sleep", "spin", "take",
             "handler", "over"}
  /\ rt \in Nat /\ m_currentTs \in Nat /\ target \in Nat /\ until \in Nat
  /\ m_events \subseteq [ts : Nat, uid : Nat] /\ IsFiniteSet(m_events)
  /\ m_uid \in Nat /\ m_currentUid \in Nat
  /\ m_unscheduledEvents \in Nat
  /\ m_stop \in BOOLEAN /\ m_running \in BOOLEAN /\ m_condition \in BOOLEAN
  /\ idle \in BOOLEAN
  /\ m_mutex \in Threads \union {NoThread}
  /\ issued \subseteq [ts : Nat, uid : Nat]
  /\ cancelled \subseteq Nat /\ ran \subseteq Nat

(* A wait that nobody has interrupted is no longer than the first event    *)
(* asks for: a thread that inserts an earlier event, at whatever point of  *)
(* the way into the wait, leaves its mark before it lets go of the mutex.  *)
NoLostWakeup ==
  Waiting /\ Free /\ ~m_condition /\ rt < target =>
    IF idle THEN m_events = {} ELSE \A e \in m_events : e.ts >= target

(* No event runs before its real time has come, although the event that is *)
(* taken out need not be the one that was waited for.                      *)
NeverEarly == m_currentTs <= rt

(* The counter that the assertion at the end of Run relies on counts the   *)
(* list.                                                                   *)
UnscheduledCounts == m_unscheduledEvents = Cardinality(m_events)

(* ProcessOneEvent relies on an event being there each time it gets the    *)
(* mutex back, and takes one out when its real time has come.              *)
HasNext ==
  /\ pc = "plan" => m_events # {}
  /\ pc = "take" \/ (Waiting /\ ~idle) => \E e \in m_events : e.ts <= target
  /\ pc = "take" => target <= rt

(* What is in the list is still ahead of the clock, as the assertions on   *)
(* the time of an event say when it is inserted and when it is taken out.  *)
AheadOfClock ==
  \A e \in m_events : \/ e.ts > m_currentTs
                      \/ e.ts = m_currentTs /\ e.uid > m_currentUid

(* Uids tell events apart, those in the list and those user code knows,    *)
(* and number them in the order of insertion.                              *)
UidsAreSerials ==
  /\ m_currentUid < m_uid
  /\ \A e \in m_events \union issued : e.uid < m_uid
  /\ \A e, f \in m_events \union issued : e.uid = f.uid => e = f
  /\ \A uid \in ran : uid < m_uid /\ ~Listed(uid)

(* Every EventId of user code is in the list or answers that it expired.   *)
AccountedFor == \A id \in issued : id \in m_events \/ IsExpired(id)

(* Nothing runs before real time begins.                                   *)
BeginsAtZero == BeforeOrigin => rt = 0 /\ m_currentTs = 0

(* The inductive invariant behind NoLostWakeup, NeverEarly and             *)
(* ImplementsLoop.                                                         *)
IInv ==
  /\ TypeOK /\ UnscheduledCounts /\ HasNext /\ AheadOfClock /\ UidsAreSerials
  /\ AccountedFor /\ NoLostWakeup /\ NeverEarly /\ BeginsAtZero

(* The program that user code sees is that of the simulator in virtual     *)
(* time: events run in the order of their times and of their insertion,    *)
(* none is planned in the past, whichever thread plans it, and none that   *)
(* was withdrawn runs.                                                     *)
Planned == {[ts |-> e.ts, ev |-> e.uid] : e \in {f \in m_events : f.uid \notin cancelled}}
Loop == INSTANCE EventLoop WITH planned <- Planned, now <- m_currentTs
ImplementsLoop == Loop!LoopSpec

(* An event that is in the list when Run is under way, or comes later, is  *)
(* run or withdrawn some time, or the simulation is stopped; but not one   *)
(* whose time was read from the clock before SetOrigin, as that of a       *)
(* thread that inserts it between the two lines of Run is.                 *)
ListedInTime(uid) == \E e \in m_events : e.uid = uid /\ e.ts < Epoch
Served ==
  \A uid \in VALID..(VALID + MaxEvents - 1) :
    m_running /\ ListedInTime(uid) ~> ~Listed(uid) \/ m_stop
=============================================================================
