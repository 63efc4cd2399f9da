----------------------- MODULE RealtimeSimulatorProofs ----------------------
(***************************************************************************)
(* Proofs about RealtimeSimulator: for any threads, delays, waiting times  *)
(* and bounds, IInv is an inductive invariant, so that no wakeup is lost   *)
(* and no event runs early; and the real-time simulator implements the     *)
(* same event loop as the one in virtual time.                             *)
(***************************************************************************)
EXTENDS RealtimeSimulator, FiniteSetTheorems, TLAPS

(* What IInv says of the list and the clock, and of the main thread. *)
Books == UnscheduledCounts /\ AheadOfClock /\ UidsAreSerials /\ AccountedFor
Flow == HasNext /\ NoLostWakeup /\ NeverEarly /\ BeginsAtZero

LEMMA Parts == IInv => TypeOK /\ Books /\ Flow
BY DEF IInv, Books, Flow

LEMMA Joined == TypeOK' /\ Books' /\ Flow' => IInv'
BY DEF IInv, Books, Flow

LEMMA Naturals ==
  ASSUME TypeOK
  PROVE  /\ rt \in Nat /\ m_currentTs \in Nat /\ target \in Nat /\ until \in Nat
         /\ m_uid \in Nat /\ m_currentUid \in Nat /\ m_unscheduledEvents \in Nat
         /\ \A e \in m_events \union issued : e.ts \in Nat /\ e.uid \in Nat
BY DEF TypeOK

LEMMA InitInv == Init => IInv
<1> SUFFICES ASSUME Init PROVE IInv
  OBVIOUS
<1>1. IsFiniteSet({}) /\ Cardinality({}) = 0
  BY FS_EmptySet
<1>2. TypeOK
  BY <1>1 DEF Init, TypeOK, VALID, INVALID
<1>3. UnscheduledCounts
  BY <1>1 DEF Init, UnscheduledCounts
<1>4. AheadOfClock /\ UidsAreSerials /\ AccountedFor
  BY DEF Init, AheadOfClock, UidsAreSerials, AccountedFor, VALID, INVALID
<1>5. Flow
  BY DEF Init, Flow, HasNext, NoLostWakeup, NeverEarly, BeginsAtZero, BeforeOrigin, Waiting
<1> QED
  BY <1>2, <1>3, <1>4, <1>5 DEF IInv, Flow

-----------------------------------------------------------------------------
(* Inserting an event that is not in the past.                             *)

LEMMA InsertBooks ==
  ASSUME TypeOK, Books, NEW ts \in Nat, ts >= m_currentTs, Insert(ts),
         issued' \in {issued, issued \union {Event(ts)}},
         UNCHANGED <<clockVars, cancelled, ran>>
  PROVE  /\ Books'
         /\ m_events' \subseteq [ts : Nat, uid : Nat] /\ IsFiniteSet(m_events')
         /\ issued' \subseteq [ts : Nat, uid : Nat]
         /\ m_uid' \in Nat /\ m_unscheduledEvents' \in Nat
<1> DEFINE new == Event(ts)
<1>1. /\ m_events' = m_events \union {new}
      /\ m_uid' = m_uid + 1
      /\ m_unscheduledEvents' = m_unscheduledEvents + 1
      /\ m_currentTs' = m_currentTs /\ m_currentUid' = m_currentUid
      /\ cancelled' = cancelled /\ ran' = ran
      /\ issued' \in {issued, issued \union {new}}
  BY DEF Insert, clockVars
<1>2. new \in [ts : Nat, uid : Nat] /\ new.ts = ts /\ new.uid = m_uid
  BY DEF Event, TypeOK
<1> HIDE DEF new
<1>3. \A e \in m_events \union issued : e.uid < m_uid /\ e.uid \in Nat /\ e.uid # m_uid
  BY Naturals DEF Books, UidsAreSerials
<1>4. new \notin m_events
  BY <1>2, <1>3
<1>5. IsFiniteSet(m_events') /\ Cardinality(m_events') = Cardinality(m_events) + 1
  BY <1>1, <1>4, FS_AddElement DEF TypeOK
<1>6. UnscheduledCounts'
  BY <1>1, <1>5 DEF Books, UnscheduledCounts
<1>7. AheadOfClock'
  BY <1>1, <1>2, Naturals DEF Books, AheadOfClock, UidsAreSerials
<1>8. UidsAreSerials'
  <2>1. m_events' \union issued' = m_events \union issued \union {new}
    BY <1>1
  <2>2. \A e \in m_events' \union issued' : e.uid < m_uid'
    BY <2>1, <1>1, <1>2, <1>3, Naturals
  <2>3. \A e, f \in m_events' \union issued' : e.uid = f.uid => e = f
    BY <2>1, <1>2, <1>3 DEF Books, UidsAreSerials
  <2>4. \A uid \in ran : uid \in Nat /\ uid < m_uid /\ uid # m_uid
    BY Naturals DEF Books, UidsAreSerials, TypeOK
  <2>5. \A uid \in ran' : uid < m_uid' /\ ~Listed(uid)'
    BY <2>4, <1>1, <1>2, Naturals DEF Books, UidsAreSerials, Listed
  <2> QED
    BY <2>2, <2>3, <2>5, <1>1, Naturals DEF Books, UidsAreSerials
<1>9. AccountedFor'
  BY <1>1 DEF Books, AccountedFor, IsExpired
<1> QED
  BY <1>1, <1>2, <1>5, <1>6, <1>7, <1>8, <1>9 DEF Books, TypeOK

LEMMA ScheduleInv == ASSUME IInv, NEW d \in Delays, Schedule(d) PROVE IInv'
<1>1. TypeOK /\ Books /\ Flow
  BY Parts
<1>2. m_currentTs + d \in Nat /\ m_currentTs + d >= m_currentTs
  BY <1>1, Naturals, TimesAssumption
<1>3. Books' /\ TypeOK'
  BY <1>1, <1>2, InsertBooks DEF Schedule, TypeOK, clockVars, waitVars
<1>4. Flow'
  BY <1>1 DEF Flow, Schedule, UserCode, HasNext, NoLostWakeup, NeverEarly, BeginsAtZero,
     BeforeOrigin, Waiting, clockVars
<1> QED
  BY <1>3, <1>4, Joined

(* What the clock reads, and with it the time of an event another thread   *)
(* inserts, is not before the last event, whatever the origin is.          *)
LEMMA ReadsLater ==
  ASSUME TypeOK, Flow
  PROVE  /\ GetCurrentRealtime \in Nat /\ GetCurrentRealtime >= m_currentTs
         /\ \A d \in Nat : PostTime(d) \in Nat /\ PostTime(d) >= m_currentTs
<1>1. rt \in Nat /\ m_currentTs \in Nat /\ m_currentTs <= rt
  BY Naturals DEF Flow, NeverEarly
<1>2. GetCurrentRealtime \in Nat /\ GetCurrentRealtime >= m_currentTs
  BY <1>1, EpochAssumption DEF Flow, BeginsAtZero, GetCurrentRealtime
<1>3. ASSUME NEW d \in Nat
      PROVE  PostTime(d) \in Nat /\ PostTime(d) >= m_currentTs
  BY <1>1, <1>2 DEF PostTime
<1> QED
  BY <1>2, <1>3

LEMMA ScheduleRealtimeInv == ASSUME IInv, NEW d \in Delays, ScheduleRealtime(d) PROVE IInv'
<1>1. TypeOK /\ Books /\ Flow
  BY Parts
<1>2. GetCurrentRealtime + d \in Nat /\ GetCurrentRealtime + d >= m_currentTs
  BY <1>1, ReadsLater, Naturals, TimesAssumption
<1>3. Books' /\ TypeOK'
  BY <1>1, <1>2, InsertBooks DEF ScheduleRealtime, TypeOK, clockVars, waitVars, userVars
<1>4. Flow'
  BY <1>1 DEF Flow, ScheduleRealtime, UserCode, HasNext, NoLostWakeup, NeverEarly,
     BeginsAtZero, BeforeOrigin, Waiting, clockVars
<1> QED
  BY <1>3, <1>4, Joined

LEMMA ScheduleRealtimeNowInv == ASSUME IInv, ScheduleRealtimeNow PROVE IInv'
<1>1. TypeOK /\ Books /\ Flow
  BY Parts
<1>2. PostTime(0) \in Nat /\ PostTime(0) >= m_currentTs
  BY <1>1, ReadsLater
<1>3. Books' /\ TypeOK'
  BY <1>1, <1>2, InsertBooks DEF ScheduleRealtimeNow, TypeOK, clockVars, waitVars, userVars
<1>4. Flow'
  BY <1>1 DEF Flow, ScheduleRealtimeNow, UserCode, HasNext, NoLostWakeup, NeverEarly,
     BeginsAtZero, BeforeOrigin, Waiting, clockVars
<1> QED
  BY <1>3, <1>4, Joined

LEMMA PostInv == ASSUME IInv, NEW t \in Threads, NEW d \in Delays, Post(t, d) PROVE IInv'
<1>1. TypeOK /\ Books /\ Flow
  BY Parts
<1>2. PostTime(d) \in Nat /\ PostTime(d) >= m_currentTs
  BY <1>1, ReadsLater, TimesAssumption
<1>3. Books' /\ TypeOK'
  BY <1>1, <1>2, InsertBooks DEF Post, TypeOK, clockVars, waitVars, userVars
<1>4. Flow'
  <2>1. m_events \subseteq m_events' /\ ~Free' /\ UNCHANGED <<pc, rt, m_currentTs, target, idle>>
    BY ThreadsAssumption DEF Post, Insert, Free, clockVars, waitVars
  <2> QED
    BY <1>1, <2>1 DEF Flow, HasNext, NoLostWakeup, NeverEarly, BeginsAtZero, BeforeOrigin,
       Waiting
<1> QED
  BY <1>3, <1>4, Joined

-----------------------------------------------------------------------------
(* Steps that leave the list, the clock and the EventIds alone.            *)

LEMMA QuietBooks ==
  ASSUME Books, UNCHANGED <<listVars, clockVars, issued, cancelled, ran>>
  PROVE  Books'
BY DEF Books, UnscheduledCounts, AheadOfClock, UidsAreSerials, AccountedFor, IsExpired, Listed,
       listVars, clockVars

LEMMA OtherQuietInv ==
  ASSUME IInv,
         \/ \E t \in Threads : Signal(t)
         \/ Stop \/ Tick
  PROVE  IInv'
<1>1. TypeOK /\ Books /\ Flow
  BY Parts
<1>2. Books'
  BY <1>1, QuietBooks DEF Signal, Stop, Tick, userVars
<1>3. CASE \E t \in Threads : Signal(t)
  <2>1. TypeOK'
    BY <1>1, <1>3 DEF Signal, TypeOK, listVars, clockVars, waitVars, userVars
  <2>2. Flow'
    BY <1>1, <1>3 DEF Signal, Flow, HasNext, NoLostWakeup, NeverEarly, BeginsAtZero,
       BeforeOrigin, Waiting, listVars, clockVars, waitVars
  <2> QED
    BY <1>2, <2>1, <2>2, Joined
<1>4. CASE Stop
  <2>1. TypeOK'
    BY <1>1, <1>4 DEF Stop, TypeOK, listVars, clockVars, waitVars, userVars
  <2>2. Flow'
    BY <1>1, <1>4 DEF Stop, Flow, HasNext, NoLostWakeup, NeverEarly, BeginsAtZero,
       BeforeOrigin, Waiting, Free, listVars, clockVars, waitVars
  <2> QED
    BY <1>2, <2>1, <2>2, Joined
<1>5. CASE Tick
  <2>1. TypeOK'
    BY <1>1, <1>5 DEF Tick, TypeOK, listVars, clockVars, waitVars, userVars
  <2>2. /\ rt' = rt + 1 /\ ~BeforeOrigin
        /\ UNCHANGED <<pc, m_mutex, m_condition, m_events, m_currentTs, target, idle>>
    BY <1>5 DEF Tick, listVars, clockVars, waitVars
  <2>3. Flow'
    BY <1>1, <2>2, Naturals DEF Flow, HasNext, NoLostWakeup, NeverEarly, BeginsAtZero,
       BeforeOrigin, Waiting, Free
  <2> QED
    BY <1>2, <2>1, <2>3, Joined
<1> QED
  BY <1>3, <1>4, <1>5

(* The loop of Run, the waits and the return of a handler.                 *)
LEMMA LoopType ==
  ASSUME TypeOK,
         \/ Run \/ SetOrigin \/ CheckList \/ RunReturns \/ Wait \/ HandlerReturns
  PROVE  TypeOK'
<1>1. UNCHANGED <<listVars, clockVars, rt, m_mutex, ran, userVars>>
  BY DEF Run, SetOrigin, CheckList, RunReturns, Wait, PlanWait, DoSynchronize, SleepWait,
     SleepSignalled, SleepEnds, SpinWait, HandlerReturns, Stay
<1>2. pc' \in {"user", "origin", "check", "plan", "sync", "toSleep", "sleep", "spin", "take",
               "handler", "over"}
  BY DEF Run, SetOrigin, CheckList, RunReturns, Wait, PlanWait, DoSynchronize, SleepWait,
     SleepSignalled, SleepEnds, SpinWait, HandlerReturns, GoTo, Again
<1>3. m_stop' \in BOOLEAN /\ m_running' \in BOOLEAN /\ m_condition' \in BOOLEAN /\ idle' \in BOOLEAN
  BY DEF Run, SetOrigin, CheckList, RunReturns, Wait, PlanWait, DoSynchronize, SleepWait,
     SleepSignalled, SleepEnds, SpinWait, HandlerReturns, TypeOK, waitVars
<1>4. target' \in Nat
  <2>1. CASE CheckList
    BY <2>1, TimesAssumption DEF CheckList, TypeOK, waitVars
  <2>2. ASSUME NEW next \in m_events, PlanWait(next) PROVE target' \in Nat
    BY <2>2, Naturals DEF PlanWait, Later
  <2>3. CASE ~CheckList /\ \A next \in m_events : ~PlanWait(next)
    BY <2>3 DEF Run, SetOrigin, RunReturns, Wait, DoSynchronize, SleepWait, SleepSignalled,
       SleepEnds, SpinWait, HandlerReturns, TypeOK, waitVars
  <2> QED
    BY <2>1, <2>2, <2>3
<1>5. until' \in Nat
  <2>1. CASE DoSynchronize
    BY <2>1, Naturals, TimesAssumption DEF DoSynchronize
  <2>2. CASE SleepWait
    BY <2>2, Naturals DEF SleepWait
  <2>3. CASE ~DoSynchronize /\ ~SleepWait
    BY <2>3 DEF Run, SetOrigin, CheckList, RunReturns, Wait, PlanWait, SleepSignalled,
       SleepEnds, SpinWait, HandlerReturns, TypeOK, waitVars
  <2> QED
    BY <2>1, <2>2, <2>3
<1> QED
  BY <1>1, <1>2, <1>3, <1>4, <1>5 DEF TypeOK, listVars, clockVars, userVars

LEMMA LoopFlow ==
  ASSUME TypeOK, Flow,
         \/ Run \/ SetOrigin \/ CheckList \/ RunReturns \/ Wait \/ HandlerReturns
  PROVE  Flow'
<1>1. UNCHANGED <<m_events, m_currentTs, rt, m_mutex>>
  BY DEF Run, SetOrigin, CheckList, RunReturns, Wait, PlanWait, DoSynchronize, SleepWait,
     SleepSignalled, SleepEnds, SpinWait, HandlerReturns, Stay, listVars, clockVars
<1>2. NeverEarly' /\ BeginsAtZero'
  <2>1. BeforeOrigin' => BeforeOrigin
    BY DEF Run, SetOrigin, CheckList, RunReturns, Wait, PlanWait, DoSynchronize, SleepWait,
       SleepSignalled, SleepEnds, SpinWait, HandlerReturns, GoTo, Again, BeforeOrigin
  <2> QED
    BY <1>1, <2>1 DEF Flow, NeverEarly, BeginsAtZero
<1>3. CASE Run \/ SetOrigin \/ RunReturns \/ HandlerReturns
  BY <1>2, <1>3 DEF Run, SetOrigin, RunReturns, HandlerReturns, GoTo, Flow, HasNext,
     NoLostWakeup, Waiting
<1>4. CASE CheckList
  <2>1. CASE m_events # {}
    BY <1>1, <1>2, <1>4, <2>1 DEF CheckList, GoTo, Flow, HasNext, NoLostWakeup, Waiting
  <2>2. CASE m_events = {}
    BY <1>1, <1>2, <1>4, <2>2 DEF CheckList, GoTo, Flow, HasNext, NoLostWakeup, Waiting
  <2> QED
    BY <2>1, <2>2
<1>5. ASSUME NEW next \in m_events, PlanWait(next) PROVE Flow'
  <2>1. pc' = "sync" /\ idle' = FALSE /\ target' = Later(rt, next.ts) /\ IsFirst(next, m_events)
    BY <1>5 DEF PlanWait, GoTo
  <2>2. \A e \in m_events : next.ts <= e.ts
    BY <2>1, Naturals DEF IsFirst, Before
  <2>3. next.ts <= target' /\ (rt < target' => target' = next.ts)
    BY <2>1, Naturals DEF Later
  <2>4. HasNext'
    BY <1>1, <2>1, <2>3 DEF HasNext, Waiting
  <2>5. NoLostWakeup'
    BY <1>1, <2>1, <2>2, <2>3, Naturals DEF NoLostWakeup
  <2> QED
    BY <1>2, <2>4, <2>5 DEF Flow
<1>6. CASE DoSynchronize \/ SleepWait \/ SleepSignalled
  <2>1. Waiting /\ Waiting' /\ UNCHANGED <<target, idle, m_condition>>
    BY <1>6 DEF DoSynchronize, SleepWait, SleepSignalled, GoTo, Waiting, waitVars
  <2>2. pc' \notin {"plan", "take"}
    BY <1>6 DEF DoSynchronize, SleepWait, SleepSignalled, GoTo
  <2> QED
    BY <1>1, <1>2, <2>1, <2>2 DEF Flow, HasNext, NoLostWakeup, Free
<1>7. CASE SleepEnds \/ SpinWait
  <2>1. Waiting /\ ~Waiting' /\ UNCHANGED <<target, idle, m_condition>>
    BY <1>7 DEF SleepEnds, SpinWait, GoTo, Again, Waiting, waitVars
  <2>2. pc' = "plan" => ~idle
    BY <1>7 DEF SleepEnds, SpinWait, GoTo, Again
  <2>3. pc' = "take" => ~idle /\ target <= rt
    BY <1>7, Naturals DEF SleepEnds, SpinWait, GoTo, Again
  <2> QED
    BY <1>1, <1>2, <2>1, <2>2, <2>3 DEF Flow, HasNext, NoLostWakeup
<1> QED
  BY <1>3, <1>4, <1>5, <1>6, <1>7 DEF Wait

LEMMA LoopInv ==
  ASSUME IInv, Run \/ SetOrigin \/ CheckList \/ RunReturns \/ Wait \/ HandlerReturns
  PROVE  IInv'
<1>1. TypeOK /\ Books /\ Flow
  BY Parts
<1>2. UNCHANGED <<listVars, clockVars, issued, cancelled, ran>>
  BY DEF Run, SetOrigin, CheckList, RunReturns, Wait, PlanWait, DoSynchronize, SleepWait,
     SleepSignalled, SleepEnds, SpinWait, HandlerReturns, Stay, userVars
<1> QED
  BY <1>1, <1>2, QuietBooks, LoopType, LoopFlow, Joined

-----------------------------------------------------------------------------
(* Withdrawing and running events.                                         *)

LEMMA CancelInv == ASSUME IInv, NEW id \in issued, Cancel(id) PROVE IInv'
<1>1. TypeOK /\ Books /\ Flow
  BY Parts
<1>2. TypeOK'
  BY <1>1, Naturals DEF Cancel, TypeOK, listVars, clockVars, waitVars
<1>3. Books'
  BY <1>1 DEF Cancel, Books, UnscheduledCounts, AheadOfClock, UidsAreSerials, AccountedFor,
     IsExpired, Listed, listVars, clockVars
<1>4. Flow'
  BY <1>1 DEF Cancel, UserCode, Flow, HasNext, NoLostWakeup, NeverEarly, BeginsAtZero,
     BeforeOrigin, Waiting, clockVars
<1> QED
  BY <1>2, <1>3, <1>4, Joined

LEMMA RemoveInv == ASSUME IInv, NEW id \in issued, Remove(id) PROVE IInv'
<1>1. TypeOK /\ Books /\ Flow
  BY Parts
<1>2. id \in m_events
  BY <1>1 DEF Remove, Books, AccountedFor
<1>3. /\ m_events' = m_events \ {id}
      /\ m_unscheduledEvents' = m_unscheduledEvents - 1
      /\ cancelled' = cancelled \union {id.uid}
      /\ UNCHANGED <<m_uid, m_currentTs, m_currentUid, issued, ran>>
  BY DEF Remove, clockVars
<1>4. /\ IsFiniteSet(m_events')
      /\ Cardinality(m_events') = Cardinality(m_events) - 1
      /\ Cardinality(m_events) \in Nat /\ Cardinality(m_events') \in Nat
  BY <1>1, <1>2, <1>3, FS_RemoveElement, FS_CardinalityType DEF TypeOK
<1>5. UnscheduledCounts' /\ m_unscheduledEvents' \in Nat
  BY <1>1, <1>3, <1>4 DEF Books, UnscheduledCounts
<1>6. TypeOK'
  BY <1>1, <1>3, <1>4, <1>5, Naturals DEF Remove, TypeOK, waitVars
<1>7. AheadOfClock' /\ UidsAreSerials'
  BY <1>1, <1>3 DEF Books, AheadOfClock, UidsAreSerials, Listed
<1>8. AccountedFor'
  BY <1>1, <1>3 DEF Books, AccountedFor, IsExpired
<1>9. Flow'
  BY <1>1 DEF Remove, UserCode, Flow, HasNext, NoLostWakeup, NeverEarly, BeginsAtZero,
     BeforeOrigin, Waiting, clockVars
<1> QED
  BY <1>5, <1>6, <1>7, <1>8, <1>9, Joined DEF Books

(* The first event is due, and what stays in the list comes after it.      *)
LEMMA FirstIsDue ==
  ASSUME IInv, NEW next \in m_events, TakeNext(next)
  PROVE  /\ next.ts <= rt /\ next.ts >= m_currentTs
         /\ next.ts = m_currentTs => next.uid > m_currentUid
         /\ \A e \in m_events \ {next} :
              e.ts > next.ts \/ (e.ts = next.ts /\ e.uid > next.uid)
<1>1. TypeOK /\ Books /\ Flow
  BY Parts
<1>2. pc = "take" /\ IsFirst(next, m_events)
  BY DEF TakeNext
<1>3. PICK e \in m_events : e.ts <= target /\ target <= rt
  BY <1>1, <1>2 DEF Flow, HasNext
<1>4. next.ts <= rt
  BY <1>1, <1>2, <1>3, Naturals DEF IsFirst, Before
<1>5. next.ts >= m_currentTs /\ (next.ts = m_currentTs => next.uid > m_currentUid)
  BY <1>1, Naturals DEF Books, AheadOfClock
<1>6. ASSUME NEW f \in m_events \ {next}
      PROVE  f.ts > next.ts \/ (f.ts = next.ts /\ f.uid > next.uid)
  <2>1. f.uid # next.uid
    BY <1>1 DEF Books, UidsAreSerials
  <2>2. ~Before(f, next)
    BY <1>2 DEF IsFirst
  <2> QED
    BY <1>1, <2>1, <2>2, Naturals DEF Before
<1> QED
  BY <1>4, <1>5, <1>6

LEMMA TakeNextInv == ASSUME IInv, NEW next \in m_events, TakeNext(next) PROVE IInv'
<1>1. TypeOK /\ Books /\ Flow
  BY Parts
<1>2. /\ m_events' = m_events \ {next}
      /\ m_unscheduledEvents' = m_unscheduledEvents - 1
      /\ m_currentTs' = next.ts /\ m_currentUid' = next.uid
      /\ pc' \in {"check", "handler"}
      /\ ran' \subseteq ran \union {next.uid}
      /\ UNCHANGED <<rt, m_uid, issued, cancelled>>
  BY DEF TakeNext, GoTo, userVars
<1>3. /\ IsFiniteSet(m_events')
      /\ Cardinality(m_events') = Cardinality(m_events) - 1
      /\ Cardinality(m_events) \in Nat /\ Cardinality(m_events') \in Nat
  BY <1>1, <1>2, FS_RemoveElement, FS_CardinalityType DEF TypeOK
<1>4. UnscheduledCounts' /\ m_unscheduledEvents' \in Nat
  BY <1>1, <1>2, <1>3 DEF Books, UnscheduledCounts
<1>5. TypeOK'
  BY <1>1, <1>2, <1>3, <1>4, Naturals DEF TakeNext, TypeOK, waitVars, userVars
<1>6. AheadOfClock'
  BY <1>2, FirstIsDue DEF AheadOfClock
<1>7. UidsAreSerials'
  <2>1. next.uid < m_uid /\ \A e \in m_events : e.uid = next.uid => e = next
    BY <1>1 DEF Books, UidsAreSerials
  <2>2. \A uid \in ran' : uid < m_uid' /\ ~Listed(uid)'
    BY <1>1, <1>2, <2>1 DEF Books, UidsAreSerials, Listed
  <2> QED
    BY <1>1, <1>2, <2>1, <2>2 DEF Books, UidsAreSerials
<1>8. AccountedFor'
  <2> SUFFICES ASSUME NEW id \in issued, id \notin m_events' PROVE IsExpired(id)'
    BY <1>2 DEF AccountedFor
  <2>1. CASE id = next
    BY <1>1, <1>2, <2>1, Naturals DEF IsExpired
  <2>2. CASE IsExpired(id)
    BY <1>1, <1>2, <2>2, FirstIsDue, Naturals DEF IsExpired
  <2> QED
    BY <1>1, <1>2, <2>1, <2>2 DEF Books, AccountedFor
<1>9. Flow'
  BY <1>2, FirstIsDue DEF Flow, HasNext, NoLostWakeup, NeverEarly, BeginsAtZero,
     BeforeOrigin, Waiting
<1> QED
  BY <1>4, <1>5, <1>6, <1>7, <1>8, <1>9, Joined DEF Books

LEMMA NextInv == ASSUME IInv, [Next]_vars PROVE IInv'
<1>1. CASE UNCHANGED vars
  <2>1. TypeOK /\ Books /\ Flow
    BY Parts
  <2>2. TypeOK' /\ Flow'
    BY <1>1, <2>1 DEF vars, TypeOK, Flow, HasNext, NoLostWakeup, NeverEarly, BeginsAtZero,
       BeforeOrigin, Waiting, Free, listVars, clockVars, waitVars, userVars
  <2>3. Books'
    BY <1>1, <2>1, QuietBooks DEF vars, userVars
  <2> QED
    BY <2>2, <2>3, Joined
<1> QED
  BY <1>1, ScheduleInv, ScheduleRealtimeInv, ScheduleRealtimeNowInv, PostInv, OtherQuietInv,
     LoopInv, CancelInv, RemoveInv, TakeNextInv DEF Next, MainLoop, User

-----------------------------------------------------------------------------
(* The real-time simulator and the event loop.                             *)

LEMMA PlannedElements ==
  \A p : p \in Planned <=> \E e \in m_events : e.uid \notin cancelled /\ p = [ts |-> e.ts, ev |-> e.uid]
BY DEF Planned

LEMMA PlannedElementsNext ==
  \A p : p \in Planned' <=>
    \E e \in m_events' : e.uid \notin cancelled' /\ p = [ts |-> e.ts, ev |-> e.uid]
BY DEF Planned

(* What is planned is due now or later and has not run. *)
LEMMA PlannedFacts ==
  ASSUME IInv, NEW p \in Planned
  PROVE  /\ p.ts \in Nat /\ p.ts >= m_currentTs
         /\ p.ev \in Nat /\ p.ev < m_uid /\ p.ev \notin ran
<1>1. PICK e \in m_events : p = [ts |-> e.ts, ev |-> e.uid]
  BY PlannedElements
<1>2. e.ts \in Nat /\ e.uid \in Nat /\ m_currentTs \in Nat
  BY Naturals DEF IInv
<1>3. e.ts >= m_currentTs
  BY <1>2 DEF IInv, AheadOfClock
<1>4. e.uid < m_uid /\ e.uid \notin ran
  BY DEF IInv, UidsAreSerials, Listed
<1> QED
  BY <1>1, <1>2, <1>3, <1>4

LEMMA InsertPlans ==
  ASSUME IInv, NEW ts \in Nat, ts >= m_currentTs, Insert(ts),
         UNCHANGED <<clockVars, cancelled, ran>>
  PROVE  Loop!Plan
<1>1. /\ m_events' = m_events \union {Event(ts)} /\ Event(ts) = [ts |-> ts, uid |-> m_uid]
      /\ m_currentTs' = m_currentTs /\ cancelled' = cancelled /\ ran' = ran
  BY DEF Insert, Event, clockVars
<1>2. Planned \subseteq Planned'
  BY <1>1, PlannedElements, PlannedElementsNext
<1>3. \A p \in Planned' \ Planned : p.ts = ts /\ p.ev = m_uid
  BY <1>1, PlannedElements, PlannedElementsNext
<1>4. m_uid \notin ran
  BY Naturals DEF IInv, UidsAreSerials
<1> QED
  BY <1>1, <1>2, <1>3, <1>4, PlannedFacts DEF Loop!Plan

LEMMA ScheduleImplements ==
  ASSUME IInv,
         \/ \E d \in Delays : Schedule(d) \/ ScheduleRealtime(d)
         \/ ScheduleRealtimeNow
         \/ \E t \in Threads, d \in Delays : Post(t, d)
  PROVE  Loop!Plan
<1>1. /\ m_currentTs \in Nat /\ Delays \subseteq Nat
      /\ GetCurrentRealtime \in Nat /\ GetCurrentRealtime >= m_currentTs
      /\ \A d \in Nat : PostTime(d) \in Nat /\ PostTime(d) >= m_currentTs
  BY Parts, ReadsLater, Naturals, TimesAssumption
<1>2. ASSUME NEW d \in Delays, Schedule(d) PROVE Loop!Plan
  <2>1. m_currentTs + d \in Nat /\ m_currentTs + d >= m_currentTs
    BY <1>1
  <2> QED
    BY <1>2, <2>1, InsertPlans DEF Schedule
<1>3. ASSUME NEW d \in Delays, ScheduleRealtime(d) PROVE Loop!Plan
  <2>1. GetCurrentRealtime + d \in Nat /\ GetCurrentRealtime + d >= m_currentTs
    BY <1>1
  <2> QED
    BY <1>3, <2>1, InsertPlans DEF ScheduleRealtime, userVars
<1>4. ASSUME NEW t \in Threads, NEW d \in Delays, Post(t, d) PROVE Loop!Plan
  <2>1. PostTime(d) \in Nat /\ PostTime(d) >= m_currentTs
    BY <1>1
  <2> QED
    BY <1>4, <2>1, InsertPlans DEF Post, userVars
<1>5. CASE ScheduleRealtimeNow
  BY <1>1, <1>5, InsertPlans DEF ScheduleRealtimeNow, userVars
<1> QED
  BY <1>2, <1>3, <1>4, <1>5

(* Cancel and Remove withdraw the plan of their event.                     *)
LEMMA WithdrawImplements ==
  ASSUME IInv, NEW id \in issued, Cancel(id) \/ Remove(id)
  PROVE  \E p \in Planned : Loop!Withdraw(p)
<1> DEFINE p == [ts |-> id.ts, ev |-> id.uid]
<1>1. ~IsExpired(id)
  BY DEF Cancel, Remove
<1>2. id \in m_events /\ id.uid \notin cancelled
  BY <1>1 DEF IInv, AccountedFor, IsExpired
<1>3. \A e \in m_events : e.uid = id.uid => e = id
  BY DEF IInv, UidsAreSerials
<1>4. /\ m_events' = m_events \/ m_events' = m_events \ {id}
      /\ cancelled' = cancelled \union {id.uid}
      /\ m_currentTs' = m_currentTs /\ ran' = ran
  BY DEF Cancel, Remove, listVars, clockVars
<1>5. p \in Planned
  BY <1>2, PlannedElements
<1>6. Planned' = Planned \ {p}
  <2>1. ASSUME NEW q \in Planned' PROVE q \in Planned \ {p}
    <3>1. PICK e \in m_events' : e.uid \notin cancelled' /\ q = [ts |-> e.ts, ev |-> e.uid]
      BY PlannedElementsNext
    <3> QED
      BY <1>4, <3>1, PlannedElements
  <2>2. ASSUME NEW q \in Planned \ {p} PROVE q \in Planned'
    <3>1. PICK e \in m_events : e.uid \notin cancelled /\ q = [ts |-> e.ts, ev |-> e.uid]
      BY PlannedElements
    <3>2. e # id /\ e.uid # id.uid
      BY <1>3, <3>1
    <3> QED
      BY <1>4, <3>1, <3>2, PlannedElementsNext
  <2> QED
    BY <2>1, <2>2
<1>7. Loop!Withdraw(p)
  BY <1>4, <1>6 DEF Loop!Withdraw
<1> QED
  BY <1>5, <1>7

(* Taking an event out performs it, or passes over it when it has been     *)
(* cancelled.                                                              *)
LEMMA TakeImplements ==
  ASSUME IInv, NEW next \in m_events, TakeNext(next)
  PROVE  Loop!Pass \/ \E p \in Planned : Loop!Perform(p)
<1> DEFINE p == [ts |-> next.ts, ev |-> next.uid]
<1>1. /\ m_events' = m_events \ {next} /\ m_currentTs' = next.ts /\ cancelled' = cancelled
      /\ ran' = IF next.uid \in cancelled THEN ran ELSE ran \union {next.uid}
  BY DEF TakeNext, userVars
<1>2. /\ next.ts >= m_currentTs
      /\ \A e \in m_events \ {next} :
           e.ts > next.ts \/ (e.ts = next.ts /\ e.uid > next.uid)
  BY FirstIsDue
<1>3. \A e \in m_events : e.ts \in Nat /\ e.uid \in Nat
  BY Naturals DEF IInv
<1>4. \A e \in m_events : e.uid = next.uid => e = next
  BY DEF IInv, UidsAreSerials
<1>5. \A q \in Planned :
        q = p \/ \E e \in m_events \ {next} : e.uid \notin cancelled /\ q = [ts |-> e.ts, ev |-> e.uid]
  BY PlannedElements
<1>6. CASE next.uid \in cancelled
  <2>1. Planned' = Planned
    BY <1>1, <1>6, PlannedElements, PlannedElementsNext
  <2>2. \A q \in Planned : next.ts <= q.ts
    BY <1>2, <1>3, <1>5
  <2> QED
    BY <1>1, <1>2, <1>6, <2>1, <2>2 DEF Loop!Pass
<1>7. CASE next.uid \notin cancelled
  <2>1. p \in Planned
    BY <1>7, PlannedElements
  <2>2. Planned' = Planned \ {p}
    <3>1. ASSUME NEW q \in Planned' PROVE q \in Planned \ {p}
      BY <1>1, <1>4, PlannedElements, PlannedElementsNext
    <3>2. ASSUME NEW q \in Planned \ {p} PROVE q \in Planned'
      BY <1>1, <1>5, PlannedElementsNext
    <3> QED
      BY <3>1, <3>2
  <2>3. \A q \in Planned \ {p} : Loop!Precedes(p, q)
    BY <1>2, <1>3, <1>5 DEF Loop!Precedes
  <2>4. p.ev \notin ran
    BY <2>1, PlannedFacts
  <2>5. Loop!Perform(p)
    BY <1>1, <1>2, <1>7, <2>2, <2>3, <2>4 DEF Loop!Perform
  <2> QED
    BY <2>1, <2>5
<1> QED
  BY <1>6, <1>7

LEMMA QuietIsStutter ==
  ASSUME UNCHANGED <<m_events, m_currentTs, cancelled, ran>>
  PROVE  UNCHANGED Loop!loopVars
BY DEF Loop!loopVars, Planned

LEMMA StepImplements ==
  ASSUME IInv, [Next]_vars
  PROVE  [Loop!LoopNext]_(Loop!loopVars)
<1>1. CASE \/ \E d \in Delays : Schedule(d) \/ ScheduleRealtime(d)
           \/ ScheduleRealtimeNow
           \/ \E t \in Threads, d \in Delays : Post(t, d)
  BY <1>1, ScheduleImplements DEF Loop!LoopNext
<1>2. CASE \E id \in issued : Cancel(id) \/ Remove(id)
  BY <1>2, WithdrawImplements DEF Loop!LoopNext
<1>3. CASE \E next \in m_events : TakeNext(next)
  BY <1>3, TakeImplements DEF Loop!LoopNext
<1>4. CASE \/ \E t \in Threads : Signal(t)
           \/ Stop \/ Tick
  BY <1>4, QuietIsStutter
     DEF Signal, Stop, Tick, listVars, clockVars, userVars
<1>5. CASE Run \/ SetOrigin \/ CheckList \/ RunReturns \/ Wait \/ HandlerReturns
  BY <1>5, QuietIsStutter
     DEF Run, SetOrigin, CheckList, RunReturns, Wait, PlanWait, DoSynchronize, SleepWait,
        SleepSignalled, SleepEnds, SpinWait, HandlerReturns, Stay, listVars, clockVars,
        userVars
<1>6. CASE UNCHANGED vars
  BY <1>6, QuietIsStutter DEF vars, listVars, clockVars, userVars
<1> QED
  BY <1>1, <1>2, <1>3, <1>4, <1>5, <1>6 DEF Next, MainLoop, User

-----------------------------------------------------------------------------
(* The theorems.                                                           *)

(* The inductive invariant, whatever the threads and the clock do.         *)
THEOREM Invariance == Spec => []IInv
<1> QED
  BY InitInv, NextInv, PTL DEF Spec

(* No wait goes on past the time of an event another thread has inserted   *)
(* and signalled.                                                          *)
THEOREM WakeupsCorrect == Spec => []NoLostWakeup
<1>1. IInv => NoLostWakeup
  BY DEF IInv
<1> QED
  BY <1>1, Invariance, PTL

(* No event runs before real time has come to it.                          *)
THEOREM PunctualCorrect == Spec => []NeverEarly
<1>1. IInv => NeverEarly
  BY DEF IInv
<1> QED
  BY <1>1, Invariance, PTL

(* The real-time simulator implements the event loop of the simulator in   *)
(* virtual time, whatever the clock and the threads do.                    *)
THEOREM RealtimeImplementsLoop == Spec => ImplementsLoop
<1>1. Init => Loop!LoopInit
  BY DEF Init, Loop!LoopInit, Planned
<1> QED
  BY <1>1, StepImplements, Invariance, PTL DEF Spec, ImplementsLoop, Loop!LoopSpec
=============================================================================
