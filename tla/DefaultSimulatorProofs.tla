----------------------- MODULE DefaultSimulatorProofs -----------------------
(***************************************************************************)
(* Proofs about DefaultSimulator: for any delays and any number of events  *)
(* smaller than the number of uids, IInv is an inductive invariant, with   *)
(* it the event list, the EventIds and the clock agree, and the engine     *)
(* implements EventLoop.                                                   *)
(***************************************************************************)
EXTENDS DefaultSimulator, FiniteSetTheorems, SequenceTheorems, TLAPS

(* The simulation ends before the 32-bit uid wraps around. *)
NoWrap == UidLimit > VALID + MaxEvents

-----------------------------------------------------------------------------
(* Lemmas on the operators.                                                *)

(* Without a wrap, m_uid++ is an addition.                                 *)
LEMMA AdvanceAdds ==
  ASSUME NoWrap, NEW uid \in Nat, NEW k \in Nat, uid + k <= VALID + MaxEvents
  PROVE  Advance(uid, k) = uid + k
BY BoundsAssumption DEF NoWrap, VALID, Advance

(* MapScheduler::Insert of keys that are not in the list adds them all.    *)
LEMMA InsertFresh ==
  ASSUME NEW list, NEW new,
         \A e \in new : \A f \in list : e.uid # f.uid
  PROVE  Insert(list, new) = list \union new
BY DEF Insert, SameKey

(* Sizes of finite sets. *)
LEMMA CountUpTo == ASSUME NEW n \in Nat PROVE IsFiniteSet(1..n) /\ Cardinality(1..n) = n
<1>1. IsFiniteSet(1..n) /\ Cardinality(1..n) = IF 1 > n THEN 0 ELSE n - 1 + 1
  BY FS_Interval
<1>2. (IF 1 > n THEN 0 ELSE n - 1 + 1) = n
  OBVIOUS
<1> QED
  BY <1>1, <1>2

LEMMA CountDisjoint ==
  ASSUME NEW S, NEW T, IsFiniteSet(S), IsFiniteSet(T), S \intersect T = {}
  PROVE  /\ IsFiniteSet(S \union T)
         /\ Cardinality(S \union T) = Cardinality(S) + Cardinality(T)
<1>1. /\ IsFiniteSet(S \union T)
      /\ Cardinality(S \union T) = Cardinality(S) + Cardinality(T) - Cardinality(S \intersect T)
  BY FS_Union
<1>2. Cardinality(S) \in Nat /\ Cardinality(T) \in Nat /\ Cardinality(S \intersect T) = 0
  BY FS_CardinalityType, FS_EmptySet
<1> QED
  BY <1>1, <1>2

(* The next event has the next serial number and is due now or later.      *)
LEMMA NewEventFields ==
  ASSUME NoWrap, IInv, HasRoom, NEW d \in Delays
  PROVE  /\ NewEvent(d) \in EventIds
         /\ NewEvent(d).ts >= m_currentTs
         /\ NewEvent(d).uid = VALID + made
         /\ NewEvent(d).ev = made + 1
         /\ made + 1 <= MaxEvents
<1>1. m_currentTs + d \in Nat
  BY DelaysAssumption DEF IInv, TypeOK
<1>2. Len(m_eventsWithContext) \in Nat
  BY LenProperties DEF IInv, TypeOK
<1>3. made + 1 \in 1..MaxEvents
  BY <1>2, BoundsAssumption DEF IInv, TypeOK, HasRoom
<1>4. m_uid = VALID + made /\ m_uid \in Uids
  BY DEF IInv, TypeOK, UidsAreSerials
<1> QED
  BY <1>1, <1>3, <1>4, DelaysAssumption DEF NewEvent, EventIds, Events, IInv, TypeOK

-----------------------------------------------------------------------------
(* The initial states.                                                     *)
LEMMA InitInv == ASSUME NoWrap PROVE Init => IInv
<1> SUFFICES ASSUME Init PROVE IInv
  OBVIOUS
<1>1. TypeOK
  <2>1. <<>> \in Seq(Delays) /\ <<>> \in Seq(EventIds)
    BY EmptySeq
  <2>2. m_uid \in Uids /\ m_currentUid \in Uids /\ made \in 0..MaxEvents
    BY BoundsAssumption DEF Init, Uids, VALID, INVALID
  <2> QED
    BY <2>1, <2>2 DEF Init, TypeOK
<1>2. UidsAreSerials
  <2>1. Len(m_eventsWithContext) = 0
    BY DEF Init
  <2>2. made + Len(m_eventsWithContext) <= MaxEvents
    BY <2>1, BoundsAssumption DEF Init
  <2>3. m_uid = VALID + made /\ m_currentUid < m_uid
    BY DEF Init, VALID, INVALID
  <2>4. m_events = {} /\ issued = {}
    BY DEF Init
  <2> QED
    BY <2>2, <2>3, <2>4 DEF UidsAreSerials
<1>3. DestroyListIssued
  BY DEF Init, DestroyListIssued
<1>4. IsFiniteSet(m_events) /\ UnscheduledCounts
  BY FS_EmptySet DEF Init, UnscheduledCounts
<1> QED
  BY <1>1, <1>2, <1>3, <1>4 DEF Init, IInv, OneIdPerEvent, AheadOfClock, AccountedFor,
     NotYetRun, PostsAreFlagged, NoUndefined
-----------------------------------------------------------------------------
(* The steps.                                                              *)

(* Insertion of one event by the main thread: Schedule, Stop(delay) and    *)
(* ScheduleWithContext.                                                    *)
LEMMA EnqueueInv ==
  ASSUME NoWrap, IInv, UserCode, NEW d \in Delays, Enqueue(d),
         issued' = issued \/ issued' = issued \union {NewEvent(d)},
         stops' = stops \/ stops' = stops \union {made + 1},
         UNCHANGED <<pc, m_stop, ran, clockVars, postVars, m_destroyEvents, cancelled>>
  PROVE  IInv'
<1> DEFINE new == NewEvent(d)
<1>1. /\ new \in EventIds /\ new.ts >= m_currentTs
      /\ new.uid = VALID + made /\ new.ev = made + 1 /\ made + 1 <= MaxEvents
  BY NewEventFields DEF Enqueue
<1>2. \A f \in m_events \union issued : f.ev # new.ev /\ f # new
  BY <1>1 DEF IInv, TypeOK, UidsAreSerials, EventIds, Events
<1>3. m_events' = m_events \union {new} /\ made' = made + 1 /\ m_uid' = m_uid + 1
  <2>1. Len(m_eventsWithContext) \in Nat /\ made \in Nat
    BY LenProperties DEF IInv, TypeOK
  <2>2. \A f \in m_events : f.uid # new.uid
    BY <1>1, <2>1, BoundsAssumption DEF IInv, TypeOK, UidsAreSerials, EventIds, Events, VALID
  <2>3. Insert(m_events, {new}) = m_events \union {new}
    BY <2>2, InsertFresh
  <2>4. Advance(m_uid, 1) = m_uid + 1
    <3>1. m_uid \in Nat /\ m_uid + 1 <= VALID + MaxEvents
      BY <2>1, <1>1, BoundsAssumption DEF IInv, UidsAreSerials, VALID
    <3> QED
      BY <3>1, AdvanceAdds
  <2> QED
    BY <2>3, <2>4 DEF Enqueue, Counted
<1>4. m_unscheduledEvents' = m_unscheduledEvents + 1
  BY DEF Enqueue, Counted
<1> USE <1>1, <1>3
<1>5. TypeOK'
  <2>1. made' \in 0..MaxEvents /\ made + 1 \in Events
    BY BoundsAssumption DEF IInv, TypeOK, Events
  <2>2. m_uid' \in Uids
    BY <2>1, BoundsAssumption DEF IInv, TypeOK, UidsAreSerials, NoWrap, Uids, VALID
  <2>3. m_unscheduledEvents' \in Nat
    BY <1>4 DEF IInv, TypeOK
  <2> QED
    BY <2>1, <2>2, <2>3 DEF IInv, TypeOK, clockVars, postVars
<1>6. UidsAreSerials'
  <2>1. Len(m_eventsWithContext) \in Nat /\ made \in Nat /\ m_currentUid \in Nat
    BY LenProperties DEF IInv, TypeOK, Uids
  <2>2. made' + Len(m_eventsWithContext') <= MaxEvents
    BY <2>1, BoundsAssumption DEF Enqueue, HasRoom, postVars
  <2>3. m_uid' = VALID + made' /\ m_currentUid' < m_uid'
    BY <2>1 DEF IInv, UidsAreSerials, VALID, clockVars
  <2>4. new.uid = VALID + new.ev - 1
    BY <2>1 DEF VALID
  <2>5. \A e \in m_events' \union issued' : e \in m_events \union issued \/ e = new
    OBVIOUS
  <2>6. \A e \in m_events' \union issued' : e.ev <= made'
    BY <2>1, <2>5 DEF IInv, TypeOK, UidsAreSerials, EventIds, Events
  <2> QED
    BY <2>2, <2>3, <2>4, <2>6 DEF IInv, UidsAreSerials
<1>7. OneIdPerEvent'
  BY <1>2 DEF IInv, OneIdPerEvent
<1>8. AheadOfClock'
  BY DEF IInv, AheadOfClock, clockVars, UidsAreSerials, TypeOK, EventIds, Uids
<1>9. AccountedFor'
  BY DEF IInv, AccountedFor, clockVars, IsExpired
<1>10. DestroyListIssued'
  BY DEF IInv, DestroyListIssued
<1>11. NotYetRun'
  BY DEF IInv, NotYetRun, TypeOK
<1>12. IsFiniteSet(m_events)' /\ UnscheduledCounts'
  BY <1>2, <1>4, FS_AddElement, FS_CardinalityType DEF IInv, UnscheduledCounts, UserCode
<1>13. PostsAreFlagged' /\ NoUndefined'
  BY DEF IInv, PostsAreFlagged, NoUndefined, postVars
<1> QED
  BY <1>5, <1>6, <1>7, <1>8, <1>9, <1>10, <1>11, <1>12, <1>13 DEF IInv

(* The main thread moves on without touching the simulator's data.         *)
LEMMA ControlInv ==
  ASSUME IInv, pc # "disposed", m_stop' \in BOOLEAN,
         pc' \in {"idle", "drain", "loop", "handler", "destroying", "destroyHandler"},
         UNCHANGED <<ran, queueVars, clockVars, postVars, userVars>>
  PROVE  IInv'
<1> USE DEF IInv, queueVars, clockVars, postVars, userVars
<1>1. TypeOK'
  BY DEF TypeOK
<1>2. UidsAreSerials' /\ OneIdPerEvent' /\ AheadOfClock' /\ DestroyListIssued'
  BY DEF UidsAreSerials, OneIdPerEvent, AheadOfClock, DestroyListIssued
<1>3. AccountedFor'
  BY DEF AccountedFor, IsExpired
<1>4. NotYetRun' /\ PostsAreFlagged' /\ IsFiniteSet(m_events)' /\ UnscheduledCounts'
  BY DEF NotYetRun, PostsAreFlagged, UnscheduledCounts
<1>5. NoUndefined'
  BY DEF NoUndefined
<1> QED
  BY <1>1, <1>2, <1>3, <1>4, <1>5

(* Another thread posts an event.                                          *)
LEMMA PostInv == ASSUME IInv, NEW d \in Delays, Post(d) PROVE IInv'
<1> USE DEF IInv, Post, queueVars, clockVars, userVars
<1>1. Len(m_eventsWithContext) \in Nat /\ made \in Nat
  BY LenProperties DEF TypeOK
<1>2. /\ Append(m_eventsWithContext, d) \in Seq(Delays)
      /\ Len(Append(m_eventsWithContext, d)) = Len(m_eventsWithContext) + 1
      /\ Append(m_eventsWithContext, d) # <<>>
  BY DEF TypeOK
<1>3. TypeOK'
  BY <1>2 DEF TypeOK
<1>4. UidsAreSerials'
  <2>1. made + Len(m_eventsWithContext)' <= MaxEvents
    BY <1>1, <1>2, BoundsAssumption DEF HasRoom
  <2> QED
    BY <2>1 DEF UidsAreSerials
<1>5. OneIdPerEvent' /\ AheadOfClock' /\ DestroyListIssued'
  BY DEF OneIdPerEvent, AheadOfClock, DestroyListIssued
<1>6. AccountedFor'
  BY DEF AccountedFor, IsExpired
<1>7. NotYetRun' /\ IsFiniteSet(m_events)' /\ UnscheduledCounts' /\ NoUndefined'
  BY DEF NotYetRun, UnscheduledCounts, NoUndefined
<1>8. PostsAreFlagged'
  BY <1>2 DEF PostsAreFlagged
<1> QED
  BY <1>3, <1>4, <1>5, <1>6, <1>7, <1>8

(* The main thread takes in the posted events: their uids are the next     *)
(* serial numbers, in the order of the posts.                              *)
LEMMA TakePostsInv == ASSUME NoWrap, IInv, TakePosts PROVE IInv'
<1> DEFINE n == Len(m_eventsWithContext)
           taken == {Taken(k) : k \in 1..n}
<1>1. /\ n \in Nat /\ made \in Nat /\ m_currentTs \in Nat /\ made + n <= MaxEvents
      /\ m_uid = VALID + made /\ pc = "drain"
  BY LenProperties DEF IInv, TypeOK, UidsAreSerials, TakePosts
<1>2. \A k \in 1..n : /\ Taken(k) \in EventIds
                      /\ Taken(k).ts >= m_currentTs
                      /\ Taken(k).uid = VALID + made + k - 1
                      /\ Taken(k).ev = made + k
  <2> SUFFICES ASSUME NEW k \in 1..n
               PROVE  /\ Taken(k) \in EventIds
                      /\ Taken(k).ts >= m_currentTs
                      /\ Taken(k).uid = VALID + made + k - 1
                      /\ Taken(k).ev = made + k
    OBVIOUS
  <2>1. m_eventsWithContext[k] \in Nat
    BY ElementOfSeq, DelaysAssumption DEF IInv, TypeOK
  <2>2. Advance(m_uid, k - 1) = VALID + made + k - 1
    <3>1. m_uid \in Nat /\ k - 1 \in Nat /\ m_uid + (k - 1) <= VALID + MaxEvents
      BY <1>1, BoundsAssumption DEF VALID
    <3>2. Advance(m_uid, k - 1) = m_uid + (k - 1)
      BY <3>1, AdvanceAdds
    <3> QED
      BY <3>2, <1>1 DEF VALID
  <2>3. VALID + made + k - 1 \in Uids /\ made + k \in Events
    BY <1>1, BoundsAssumption DEF Uids, Events, VALID, NoWrap
  <2> QED
    BY <1>1, <2>1, <2>2, <2>3 DEF Taken, EventIds
<1>0. \A e \in taken : /\ e \in EventIds
                       /\ e.ts >= m_currentTs
                       /\ e.uid = VALID + e.ev - 1
                       /\ e.ev \in (made + 1)..(made + n)
  <2> SUFFICES ASSUME NEW k \in 1..n
               PROVE  /\ Taken(k) \in EventIds
                      /\ Taken(k).ts >= m_currentTs
                      /\ Taken(k).uid = VALID + Taken(k).ev - 1
                      /\ Taken(k).ev \in (made + 1)..(made + n)
    OBVIOUS
  <2> QED
    BY <1>1, <1>2 DEF VALID
<1>3. \A e \in taken : \A f \in m_events \union issued : f.ev < e.ev
  <2> HIDE DEF taken
  <2>1. \A f \in m_events \union issued : f.ev \in Nat /\ f.ev <= made
    BY DEF IInv, TypeOK, UidsAreSerials, EventIds, Events
  <2> QED
    BY <1>0, <1>1, <2>1
<1>4. m_events' = m_events \union taken
  <2>1. \A e \in taken : \A f \in m_events : e.uid # f.uid
    <3> SUFFICES ASSUME NEW k \in 1..n, NEW f \in m_events PROVE Taken(k).uid # f.uid
      OBVIOUS
    <3>1. f.uid = VALID + f.ev - 1 /\ f.ev \in Nat /\ f.ev <= made
      BY DEF IInv, TypeOK, UidsAreSerials, EventIds, Events
    <3> QED
      BY <1>1, <1>2, <3>1 DEF VALID
  <2> QED
    BY <2>1, InsertFresh DEF TakePosts
<1>5. /\ m_uid' = VALID + made + n /\ made' = made + n
      /\ m_unscheduledEvents' = m_unscheduledEvents + n
  <2>1. m_uid \in Nat /\ m_uid + n <= VALID + MaxEvents
    BY <1>1, BoundsAssumption DEF VALID
  <2> QED
    BY <1>1, <2>1, AdvanceAdds DEF TakePosts, Counted, VALID
<1>6. IsFiniteSet(taken) /\ Cardinality(taken) = n
  <2> DEFINE f == [k \in 1..n |-> Taken(k)]
  <2>1. IsFiniteSet(1..n) /\ Cardinality(1..n) = n
    BY <1>1, CountUpTo
  <2>2. f \in Surjection(1..n, taken)
    BY DEF Surjection
  <2>3. f \in Injection(1..n, taken)
    BY <1>1, <1>2 DEF Injection, IsInjective
  <2> QED
    BY <2>1, <2>2, <2>3, FS_Surjection
<1> USE DEF TakePosts, clockVars, userVars
<1>7. TypeOK'
  <2>1. m_uid' \in Uids /\ made' \in 0..MaxEvents /\ m_unscheduledEvents' \in Nat
    BY <1>1, <1>5, BoundsAssumption DEF IInv, TypeOK, Uids, VALID, NoWrap
  <2>2. m_events' \subseteq EventIds
    BY <1>2, <1>4 DEF IInv, TypeOK
  <2>3. <<>> \in Seq(Delays)
    BY EmptySeq
  <2> QED
    BY <2>1, <2>2, <2>3 DEF IInv, TypeOK
<1>8. UidsAreSerials'
  <2>1. made' + Len(m_eventsWithContext') <= MaxEvents
    <3>1. Len(<<>>) = 0
      OBVIOUS
    <3> QED
      BY <1>1, <1>5, <3>1
  <2>2. m_uid' = VALID + made' /\ m_currentUid' < m_uid'
    BY <1>1, <1>5 DEF IInv, TypeOK, UidsAreSerials, VALID, Uids
  <2> HIDE DEF taken
  <2>3. \A e \in taken : e.uid = VALID + e.ev - 1 /\ e.ev <= made'
    BY <1>0, <1>1, <1>5
  <2>4. \A e \in m_events \union issued : e.ev <= made'
    BY <1>1, <1>5 DEF IInv, TypeOK, UidsAreSerials, EventIds, Events
  <2> QED
    BY <1>4, <2>1, <2>2, <2>3, <2>4 DEF IInv, UidsAreSerials
<1>9. OneIdPerEvent'
  <2>1. \A a, b \in taken : a.ev = b.ev => a = b
    BY <1>1, <1>2
  <2> HIDE DEF taken
  <2>2. \A e \in taken : \A f \in m_events \union issued : f.ev # e.ev
    <3>1. \A f \in m_events \union issued : f.ev \in Nat
      BY DEF IInv, TypeOK, EventIds, Events
    <3> QED
      BY <1>0, <1>1, <1>3, <3>1
  <2> QED
    BY <1>4, <2>1, <2>2 DEF IInv, OneIdPerEvent
<1>10. AheadOfClock'
  <2> HIDE DEF taken
  <2>1. \A e \in taken : e.ts >= m_currentTs /\ e.uid > m_currentUid /\ e.ts \in Nat
    BY <1>0, <1>1 DEF IInv, TypeOK, UidsAreSerials, Uids, EventIds, VALID
  <2>2. \A e \in taken : \/ e.ts > m_currentTs
                         \/ e.ts = m_currentTs /\ e.uid > m_currentUid
    BY <1>1, <2>1
  <2> QED
    BY <1>4, <2>2 DEF IInv, AheadOfClock
<1>11. AccountedFor'
  BY <1>4 DEF IInv, AccountedFor, IsExpired
<1>12. DestroyListIssued'
  BY DEF IInv, DestroyListIssued
<1>13. NotYetRun'
  <2> HIDE DEF taken
  <2>1. \A e \in taken : e.ev \notin 1..made
    BY <1>0, <1>1
  <2>2. 1..made \subseteq 1..made'
    BY <1>1, <1>5
  <2> QED
    BY <1>4, <2>1, <2>2 DEF IInv, NotYetRun
<1>14. IsFiniteSet(m_events)' /\ UnscheduledCounts'
  <2> HIDE DEF taken
  <2>1. m_events \intersect taken = {}
    <3>1. \A f \in m_events : f.ev \in Nat
      BY DEF IInv, TypeOK, EventIds, Events
    <3> QED
      BY <1>3, <3>1
  <2>2. IsFiniteSet(m_events \union taken)
        /\ Cardinality(m_events \union taken) = Cardinality(m_events) + n
    <3>1. IsFiniteSet(m_events)
      BY DEF IInv
    <3> QED
      BY <1>6, <2>1, <3>1, CountDisjoint
  <2>3. m_unscheduledEvents = Cardinality(m_events) /\ Cardinality(m_events) \in Nat
    BY <1>1, FS_CardinalityType DEF IInv, UnscheduledCounts
  <2> QED
    BY <1>4, <1>5, <2>2, <2>3 DEF UnscheduledCounts
<1>15. PostsAreFlagged' /\ NoUndefined'
  BY DEF PostsAreFlagged, NoUndefined
<1> QED
  BY <1>7, <1>8, <1>9, <1>10, <1>11, <1>12, <1>13, <1>14, <1>15 DEF IInv

(* ScheduleDestroy advances m_uid and appends to the destroy list.         *)
LEMMA ScheduleDestroyInv == ASSUME NoWrap, IInv, ScheduleDestroy PROVE IInv'
<1> DEFINE id == [ts |-> m_currentTs, uid |-> DESTROY, ev |-> made + 1]
<1>1. /\ made \in Nat /\ made + 1 \in Events /\ Len(m_eventsWithContext) \in Nat
      /\ made + 1 + Len(m_eventsWithContext) <= MaxEvents
      /\ made' = made + 1 /\ made' \in 0..MaxEvents
  <2>1. Len(m_eventsWithContext) \in Nat
    BY LenProperties DEF IInv, TypeOK
  <2> QED
    BY <2>1, BoundsAssumption DEF IInv, TypeOK, Events, ScheduleDestroy, HasRoom
<1>2. m_uid' = m_uid + 1 /\ m_uid' = VALID + made' /\ m_uid \in Nat
  <2>1. m_uid = VALID + made /\ m_uid \in Nat /\ m_uid + 1 <= VALID + MaxEvents
    BY <1>1, BoundsAssumption DEF IInv, UidsAreSerials, VALID
  <2> QED
    BY <1>1, <2>1, AdvanceAdds DEF ScheduleDestroy, VALID
<1>3. id \in EventIds
  BY <1>1, BoundsAssumption DEF EventIds, Uids, DESTROY, VALID, IInv, TypeOK
<1>4. /\ m_destroyEvents' = Append(m_destroyEvents, id)
      /\ m_destroyEvents' \in Seq(EventIds)
      /\ \A i \in DOMAIN m_destroyEvents' :
           m_destroyEvents'[i] = id \/ \E j \in DOMAIN m_destroyEvents :
                                         m_destroyEvents'[i] = m_destroyEvents[j]
      /\ \A i \in DOMAIN m_destroyEvents : /\ i \in DOMAIN m_destroyEvents'
                                         /\ m_destroyEvents'[i] = m_destroyEvents[i]
  BY <1>3, LenProperties DEF ScheduleDestroy, IInv, TypeOK
<1>5. issued' = issued \union {id}
  BY DEF ScheduleDestroy
<1>6. UNCHANGED <<pc, m_stop, ran, m_events, m_unscheduledEvents, m_currentUid, m_currentTs,
                  m_eventsWithContext, m_eventsWithContextEmpty, cancelled, stops>>
  BY DEF ScheduleDestroy, clockVars, postVars
<1>7. pc # "disposed"
  BY DEF ScheduleDestroy, UserCode
<1>8. TypeOK'
  <2>1. m_uid' \in Uids
    BY <1>1, <1>2, BoundsAssumption DEF Uids, NoWrap, VALID
  <2> QED
    BY <1>1, <1>3, <1>4, <1>5, <1>6, <2>1 DEF IInv, TypeOK
<1>9. UidsAreSerials'
  <2>1. made' + Len(m_eventsWithContext') <= MaxEvents
    BY <1>1, <1>6
  <2>2. m_currentUid' < m_uid'
    BY <1>2, <1>6 DEF IInv, UidsAreSerials, TypeOK, Uids
  <2>3. \A e \in m_events' \union issued' : e.ev <= made'
    BY <1>1, <1>5, <1>6 DEF IInv, TypeOK, UidsAreSerials, EventIds, Events
  <2> QED
    BY <1>2, <1>5, <1>6, <2>1, <2>2, <2>3 DEF IInv, UidsAreSerials
<1>10. OneIdPerEvent'
  <2>1. \A f \in m_events \union issued : f.ev # id.ev
    BY <1>1 DEF IInv, TypeOK, UidsAreSerials, EventIds, Events
  <2> QED
    BY <1>5, <1>6, <2>1 DEF IInv, OneIdPerEvent
<1>11. AheadOfClock' /\ DestroyListIssued'
  BY <1>4, <1>5, <1>6 DEF IInv, AheadOfClock, DestroyListIssued
<1>12. AccountedFor'
  BY <1>5, <1>6, <1>7 DEF IInv, AccountedFor, IsExpired
<1>13. NotYetRun'
  BY <1>1, <1>6 DEF IInv, NotYetRun
<1>14. PostsAreFlagged' /\ IsFiniteSet(m_events)' /\ UnscheduledCounts' /\ NoUndefined'
  BY <1>6 DEF IInv, PostsAreFlagged, UnscheduledCounts, NoUndefined
<1> QED
  BY <1>8, <1>9, <1>10, <1>11, <1>12, <1>13, <1>14 DEF IInv

(* Cancel and RemoveDestroy only withdraw: the bits grow, the destroy list *)
(* shrinks.                                                                *)
LEMMA WithdrawInv ==
  ASSUME IInv, UserCode,
         cancelled \subseteq cancelled', cancelled' \subseteq Events,
         m_destroyEvents' \in Seq(EventIds),
         \A i \in DOMAIN m_destroyEvents' :
           \E j \in DOMAIN m_destroyEvents : m_destroyEvents'[i] = m_destroyEvents[j],
         UNCHANGED <<pc, m_stop, ran, queueVars, clockVars, postVars, stops, issued>>
  PROVE  IInv'
<1> USE DEF IInv, queueVars, clockVars, postVars
<1>1. TypeOK'
  BY DEF TypeOK
<1>2. UidsAreSerials' /\ OneIdPerEvent' /\ AheadOfClock'
  BY DEF UidsAreSerials, OneIdPerEvent, AheadOfClock
<1>3. DestroyListIssued'
  BY DEF DestroyListIssued
<1>4. AccountedFor'
  BY DEF AccountedFor, IsExpired, UserCode
<1>5. NotYetRun' /\ PostsAreFlagged' /\ IsFiniteSet(m_events)' /\ UnscheduledCounts'
      /\ NoUndefined'
  BY DEF NotYetRun, PostsAreFlagged, UnscheduledCounts, NoUndefined
<1> QED
  BY <1>1, <1>2, <1>3, <1>4, <1>5

LEMMA CancelInv == ASSUME IInv, NEW id \in issued, Cancel(id) PROVE IInv'
<1>1. id.ev \in Events
  BY DEF IInv, TypeOK, EventIds
<1>2. m_destroyEvents' \in Seq(EventIds)
  BY DEF IInv, TypeOK, Cancel
<1>3. \A i \in DOMAIN m_destroyEvents' :
        \E j \in DOMAIN m_destroyEvents : m_destroyEvents'[i] = m_destroyEvents[j]
  BY DEF Cancel
<1>4. cancelled \subseteq cancelled' /\ cancelled' \subseteq Events
  BY <1>1 DEF Cancel, IInv, TypeOK
<1> QED
  BY <1>2, <1>3, <1>4, WithdrawInv DEF Cancel

(* What RemoveAt leaves of a sequence was there before.                    *)
LEMMA RemoveAtProperties ==
  ASSUME NEW S, NEW s \in Seq(S), NEW i \in DOMAIN s
  PROVE  /\ SX!RemoveAt(s, i) \in Seq(S)
         /\ \A k \in DOMAIN SX!RemoveAt(s, i) :
              \E j \in DOMAIN s : SX!RemoveAt(s, i)[k] = s[j]
<1> DEFINE a == SubSeq(s, 1, i - 1)
           b == SubSeq(s, i + 1, Len(s))
<1>1. Len(s) \in Nat /\ DOMAIN s = 1..Len(s) /\ i \in 1..Len(s)
  BY LenProperties
<1>2. /\ a \in Seq(S) /\ Len(a) = i - 1
      /\ \A k \in 1..(i - 1) : a[k] = s[k]
  <2>1. \A k \in 1..(i - 1) : s[k] \in S
    BY <1>1, ElementOfSeq
  <2>2. i - 1 \in Int /\ (IF 1 <= i - 1 THEN i - 1 - 1 + 1 ELSE 0) = i - 1
    BY <1>1
  <2>3. /\ a \in Seq(S) /\ Len(a) = i - 1
        /\ \A k \in 1..(i - 1 - 1 + 1) : a[k] = s[1 + k - 1]
    BY <2>1, <2>2, SubSeqProperties
  <2> QED
    BY <1>1, <2>3
<1>3. /\ b \in Seq(S) /\ Len(b) = Len(s) - i
      /\ \A k \in 1..(Len(s) - i) : b[k] = s[i + k]
  <2>1. \A k \in (i + 1)..Len(s) : s[k] \in S
    BY <1>1, ElementOfSeq
  <2>2. /\ i + 1 \in Int /\ Len(s) \in Int
        /\ (IF i + 1 <= Len(s) THEN Len(s) - (i + 1) + 1 ELSE 0) = Len(s) - i
    BY <1>1
  <2>3. /\ b \in Seq(S) /\ Len(b) = Len(s) - i
        /\ \A k \in 1..(Len(s) - (i + 1) + 1) : b[k] = s[(i + 1) + k - 1]
    BY <2>1, <2>2, SubSeqProperties
  <2> QED
    BY <1>1, <2>3
<1>4. /\ a \o b \in Seq(S) /\ Len(a \o b) = Len(s) - 1
      /\ \A k \in 1..(Len(s) - 1) : (a \o b)[k] = IF k <= i - 1 THEN a[k] ELSE b[k - (i - 1)]
  <2>1. Len(a) + Len(b) = Len(s) - 1
    BY <1>1, <1>2, <1>3
  <2> HIDE DEF a, b
  <2>2. /\ a \o b \in Seq(S) /\ Len(a \o b) = Len(a) + Len(b)
        /\ \A k \in 1..(Len(a) + Len(b)) :
             (a \o b)[k] = IF k <= Len(a) THEN a[k] ELSE b[k - Len(a)]
    BY <1>2, <1>3, ConcatProperties
  <2>3. Len(a) = i - 1
    BY <1>2
  <2> QED
    BY <2>1, <2>2, <2>3
<1>5. DOMAIN (a \o b) = 1..(Len(s) - 1)
  BY <1>4, LenProperties
<1>6. \A k \in 1..(Len(s) - 1) : \E j \in DOMAIN s : (a \o b)[k] = s[j]
  <2> HIDE DEF a, b
  <2> SUFFICES ASSUME NEW k \in 1..(Len(s) - 1)
               PROVE  \E j \in DOMAIN s : (a \o b)[k] = s[j]
    OBVIOUS
  <2>1. CASE k <= i - 1
    <3>1. k \in 1..(i - 1) /\ k \in DOMAIN s
      BY <1>1, <2>1
    <3>2. (a \o b)[k] = s[k]
      BY <1>2, <1>4, <2>1, <3>1
    <3> QED
      BY <3>1, <3>2
  <2>2. CASE ~(k <= i - 1)
    <3>1. k - (i - 1) \in 1..(Len(s) - i) /\ i + (k - (i - 1)) = k + 1 /\ k + 1 \in 1..Len(s)
      BY <1>1, <2>2
    <3>2. (a \o b)[k] = s[k + 1]
      BY <1>3, <1>4, <2>2, <3>1
    <3> QED
      BY <1>1, <3>1, <3>2
  <2> QED
    BY <2>1, <2>2
<1> QED
  BY <1>4, <1>5, <1>6 DEF SX!RemoveAt

LEMMA RemoveDestroyInv == ASSUME IInv, NEW id \in issued, RemoveDestroy(id) PROVE IInv'
<1>1. PICK i \in DOMAIN m_destroyEvents : m_destroyEvents' = SX!RemoveAt(m_destroyEvents, i)
  BY DEF RemoveDestroy
<1>2. /\ m_destroyEvents' \in Seq(EventIds)
      /\ \A k \in DOMAIN m_destroyEvents' :
           \E j \in DOMAIN m_destroyEvents : m_destroyEvents'[k] = m_destroyEvents[j]
  BY <1>1, RemoveAtProperties DEF IInv, TypeOK
<1>3. cancelled \subseteq cancelled' /\ cancelled' \subseteq Events
  BY DEF RemoveDestroy, IInv, TypeOK
<1> QED
  BY <1>2, <1>3, WithdrawInv DEF RemoveDestroy

(* Remove of a pending event finds it in the event list and takes exactly  *)
(* that entry out.                                                         *)
LEMMA RemoveFinds ==
  ASSUME IInv, NEW id \in issued, Remove(id)
  PROVE  /\ id \in m_events
         /\ {f \in m_events : SameKey(f, id)} = {id}
<1>1. id \in m_events
  BY DEF IInv, AccountedFor, Remove, UserCode
<1>2. \A f \in m_events : f.uid = id.uid => f = id
  <2> SUFFICES ASSUME NEW f \in m_events, f.uid = id.uid PROVE f = id
    OBVIOUS
  <2>1. f.ev \in Nat /\ id.ev \in Nat /\ VALID + f.ev - 1 = VALID + id.ev - 1
    BY <1>1 DEF IInv, TypeOK, UidsAreSerials, EventIds, Events
  <2>2. f.ev = id.ev
    BY <2>1 DEF VALID
  <2> QED
    BY <1>1, <2>2 DEF IInv, OneIdPerEvent
<1> QED
  BY <1>1, <1>2 DEF SameKey

LEMMA RemoveInv == ASSUME IInv, NEW id \in issued, Remove(id) PROVE IInv'
<1> USE DEF IInv
<1>1. id \in m_events /\ m_events' = m_events \ {id} /\ pc' = pc
  BY RemoveFinds DEF Remove
<1>2. cancelled' = cancelled \union {id.ev} /\ id.ev \in Events
  BY DEF Remove, TypeOK, EventIds
<1>3. m_unscheduledEvents' = m_unscheduledEvents - 1
  BY DEF Remove
<1>4. UNCHANGED <<m_stop, ran, m_uid, made, m_currentUid, m_currentTs, m_eventsWithContext,
                  m_eventsWithContextEmpty, m_destroyEvents, stops, issued>>
  BY DEF Remove, clockVars, postVars
<1>5. /\ IsFiniteSet(m_events \ {id})
      /\ Cardinality(m_events \ {id}) = Cardinality(m_events) - 1
      /\ Cardinality(m_events) \in Nat /\ Cardinality(m_events \ {id}) \in Nat
      /\ m_unscheduledEvents = Cardinality(m_events)
  BY <1>1, FS_RemoveElement, FS_CardinalityType DEF UnscheduledCounts, Remove, UserCode
<1>6. TypeOK'
  BY <1>1, <1>2, <1>3, <1>4, <1>5 DEF TypeOK
<1>7. UidsAreSerials' /\ OneIdPerEvent' /\ AheadOfClock' /\ DestroyListIssued'
  BY <1>1, <1>4 DEF UidsAreSerials, OneIdPerEvent, AheadOfClock, DestroyListIssued
<1>8. AccountedFor'
  <2> SUFFICES ASSUME NEW i \in issued, i.uid # DESTROY, pc # "disposed"
               PROVE  i \in m_events' \/ IsExpired(i)'
    BY <1>1, <1>4 DEF AccountedFor
  <2>1. CASE i = id
    BY <1>2, <2>1 DEF IsExpired
  <2>2. CASE i # id
    BY <1>1, <1>2, <1>4, <2>2 DEF AccountedFor, IsExpired
  <2> QED
    BY <2>1, <2>2
<1>9. NotYetRun' /\ PostsAreFlagged' /\ NoUndefined'
  BY <1>1, <1>4 DEF NotYetRun, PostsAreFlagged, NoUndefined
<1>10. IsFiniteSet(m_events)' /\ UnscheduledCounts'
  BY <1>1, <1>3, <1>5 DEF UnscheduledCounts
<1> QED
  BY <1>6, <1>7, <1>8, <1>9, <1>10

(* ProcessOneEvent takes the first event out and moves the clock to it: no *)
(* later than any other entry, and past every EventId that is not listed.  *)
LEMMA FirstIsStrict ==
  ASSUME IInv, NEW next \in m_events, IsFirst(next, m_events)
  PROVE  /\ \A f \in m_events \ {next} : \/ f.ts > next.ts
                                         \/ f.ts = next.ts /\ f.uid > next.uid
         /\ \A f \in m_events \ {next} : \/ f.ts > next.ts
                                         \/ f.ts = next.ts /\ f.ev > next.ev
         /\ \/ next.ts > m_currentTs
            \/ next.ts = m_currentTs /\ next.uid > m_currentUid
<1>1. \A e \in m_events : /\ e.ts \in Nat /\ e.uid \in Nat /\ e.ev \in Nat
                          /\ e.uid = VALID + e.ev - 1
  BY DEF IInv, TypeOK, EventIds, Uids, Events, UidsAreSerials
<1>2. \A f \in m_events \ {next} : f.uid # next.uid /\ ~Before(f, next)
  <2> SUFFICES ASSUME NEW f \in m_events \ {next} PROVE f.uid # next.uid
    BY DEF IsFirst
  <2>1. f.ev # next.ev
    BY DEF IInv, OneIdPerEvent
  <2> QED
    BY <1>1, <2>1 DEF VALID
<1>3. \A f \in m_events \ {next} : \/ f.ts > next.ts
                                   \/ f.ts = next.ts /\ f.uid > next.uid
  <2> SUFFICES ASSUME NEW f \in m_events \ {next}
               PROVE  f.ts > next.ts \/ (f.ts = next.ts /\ f.uid > next.uid)
    OBVIOUS
  <2>1. ~(f.ts < next.ts) /\ (f.ts = next.ts => ~(f.uid < next.uid)) /\ f.uid # next.uid
    BY <1>2 DEF Before
  <2>2. f.ts \in Nat /\ f.uid \in Nat /\ next.ts \in Nat /\ next.uid \in Nat
    BY <1>1
  <2> QED
    BY <2>1, <2>2
<1>4. \A f \in m_events \ {next} : f.uid > next.uid => f.ev > next.ev
  BY <1>1 DEF VALID
<1> QED
  BY <1>3, <1>4 DEF IInv, AheadOfClock

LEMMA TakeNextInv ==
  ASSUME IInv, NEW next \in m_events, TakeNext(next),
         m_stop' \in BOOLEAN, pc' \in {"drain", "handler"},
         ran' = ran \/ ran' = ran \union {next.ev}
  PROVE  IInv'
<1> USE DEF IInv
<1>1. /\ m_events' = m_events \ {next} /\ m_currentTs' = next.ts /\ m_currentUid' = next.uid
      /\ m_unscheduledEvents' = m_unscheduledEvents - 1 /\ pc = "loop"
  BY DEF TakeNext
<1>2. UNCHANGED <<m_uid, made, m_eventsWithContext, m_eventsWithContextEmpty, m_destroyEvents,
                  cancelled, stops, issued>>
  BY DEF TakeNext, postVars, userVars
<1>3. /\ \A f \in m_events \ {next} : f.ts > next.ts \/ (f.ts = next.ts /\ f.uid > next.uid)
      /\ next.ts > m_currentTs \/ (next.ts = m_currentTs /\ next.uid > m_currentUid)
  BY FirstIsStrict DEF TakeNext
<1>4. /\ IsFiniteSet(m_events \ {next})
      /\ Cardinality(m_events \ {next}) = Cardinality(m_events) - 1
      /\ Cardinality(m_events) \in Nat /\ Cardinality(m_events \ {next}) \in Nat
      /\ m_unscheduledEvents = Cardinality(m_events)
  BY <1>1, FS_RemoveElement, FS_CardinalityType DEF UnscheduledCounts
<1>5. next \in EventIds /\ next.ev \in 1..made
  BY DEF TypeOK, UidsAreSerials, EventIds, Events
<1>6. TypeOK'
  BY <1>1, <1>2, <1>4, <1>5 DEF TypeOK, EventIds
<1>7. UidsAreSerials'
  <2>1. next.uid < m_uid
    BY <1>5 DEF UidsAreSerials, TypeOK, VALID
  <2> QED
    BY <1>1, <1>2, <2>1 DEF UidsAreSerials
<1>8. OneIdPerEvent' /\ DestroyListIssued'
  BY <1>1, <1>2 DEF OneIdPerEvent, DestroyListIssued
<1>9. AheadOfClock'
  BY <1>1, <1>3 DEF AheadOfClock
<1>10. AccountedFor'
  <2> SUFFICES ASSUME NEW i \in issued, i.uid # DESTROY
               PROVE  i \in m_events' \/ IsExpired(i)'
    BY <1>2 DEF AccountedFor
  <2>1. CASE i = next
    BY <1>1, <1>2, <1>5, <2>1 DEF IsExpired, EventIds, Uids
  <2>2. CASE i # next
    <3>1. /\ i.ts \in Nat /\ i.uid \in Nat /\ next.ts \in Nat /\ next.uid \in Nat
          /\ m_currentTs \in Nat /\ m_currentUid \in Nat
      BY <1>5 DEF TypeOK, EventIds, Uids
    <3> QED
      BY <1>1, <1>2, <1>3, <2>2, <3>1 DEF AccountedFor, IsExpired
  <2> QED
    BY <2>1, <2>2
<1>11. NotYetRun'
  BY <1>1, <1>2, <1>5 DEF NotYetRun, OneIdPerEvent
<1>12. IsFiniteSet(m_events)' /\ UnscheduledCounts'
  BY <1>1, <1>4 DEF UnscheduledCounts
<1>13. PostsAreFlagged' /\ NoUndefined'
  BY <1>2 DEF PostsAreFlagged, NoUndefined
<1> QED
  BY <1>6, <1>7, <1>8, <1>9, <1>10, <1>11, <1>12, <1>13

(* Destroy takes the first destroy event out and runs it unless cancelled. *)
LEMMA DestroyNextInv == ASSUME IInv, DestroyNext PROVE IInv'
<1> DEFINE id == Head(m_destroyEvents)
<1>1. /\ id = m_destroyEvents[1] /\ 1 \in DOMAIN m_destroyEvents
      /\ m_destroyEvents' = Tail(m_destroyEvents) /\ pc = "destroying"
      /\ pc' \in {"destroying", "destroyHandler"}
      /\ ran' = ran \/ ran' = ran \union {id.ev}
  BY LenProperties, EmptySeq DEF DestroyNext, IInv, TypeOK
<1>2. UNCHANGED <<m_stop, m_events, m_uid, m_unscheduledEvents, made, m_currentUid, m_currentTs,
                  m_eventsWithContext, m_eventsWithContextEmpty, cancelled, stops, issued>>
  BY DEF DestroyNext, queueVars, clockVars, postVars
<1>3. /\ m_destroyEvents' \in Seq(EventIds)
      /\ \A i \in DOMAIN m_destroyEvents' :
           i + 1 \in DOMAIN m_destroyEvents /\ m_destroyEvents'[i] = m_destroyEvents[i + 1]
  <2>1. m_destroyEvents \in Seq(EventIds) /\ m_destroyEvents # <<>>
    BY DEF IInv, TypeOK, DestroyNext
  <2>2. /\ Tail(m_destroyEvents) \in Seq(EventIds)
        /\ Len(Tail(m_destroyEvents)) = Len(m_destroyEvents) - 1
        /\ \A i \in 1..Len(Tail(m_destroyEvents)) :
             Tail(m_destroyEvents)[i] = m_destroyEvents[i + 1]
    BY <2>1, HeadTailProperties
  <2>3. /\ DOMAIN m_destroyEvents = 1..Len(m_destroyEvents) /\ Len(m_destroyEvents) \in Nat
        /\ DOMAIN Tail(m_destroyEvents) = 1..Len(Tail(m_destroyEvents))
    BY <2>1, <2>2, LenProperties
  <2> QED
    BY <1>1, <2>2, <2>3
<1>4. id \in issued /\ id.uid = DESTROY /\ id \in EventIds
  BY <1>1 DEF IInv, DestroyListIssued, TypeOK
<1>5. id.ev \in 1..made /\ id.ev \in Events
  BY <1>4 DEF IInv, TypeOK, UidsAreSerials, EventIds, Events
<1>6. \A e \in m_events : e.ev # id.ev
  <2>1. \A e \in m_events : e.uid = VALID + e.ev - 1 /\ e.ev \in Nat /\ e.ev >= 1
    BY DEF IInv, TypeOK, UidsAreSerials, EventIds, Events
  <2>2. id \notin m_events
    BY <1>4, <2>1 DEF VALID, DESTROY
  <2> QED
    BY <1>4, <2>2 DEF IInv, OneIdPerEvent
<1> HIDE DEF id
<1> USE DEF IInv
<1>7. TypeOK'
  BY <1>1, <1>2, <1>3, <1>5 DEF TypeOK
<1>8. UidsAreSerials' /\ OneIdPerEvent' /\ AheadOfClock'
  BY <1>2 DEF UidsAreSerials, OneIdPerEvent, AheadOfClock
<1>9. AccountedFor'
  BY <1>1, <1>2 DEF AccountedFor, IsExpired
<1>10. DestroyListIssued'
  BY <1>2, <1>3 DEF DestroyListIssued
<1>11. NotYetRun'
  BY <1>1, <1>2, <1>5, <1>6 DEF NotYetRun
<1>12. PostsAreFlagged' /\ IsFiniteSet(m_events)' /\ UnscheduledCounts' /\ NoUndefined'
  BY <1>1, <1>2 DEF PostsAreFlagged, UnscheduledCounts, NoUndefined
<1> QED
  BY <1>7, <1>8, <1>9, <1>10, <1>11, <1>12

(* DoDispose empties everything. *)
LEMMA DoDisposeInv == ASSUME NoWrap, IInv, DoDispose PROVE IInv'
<1> DEFINE n == Len(m_eventsWithContext)
<1>1. /\ n \in Nat /\ made \in Nat /\ made + n <= MaxEvents
      /\ m_uid = VALID + made /\ m_uid \in Nat
  BY LenProperties DEF IInv, TypeOK, UidsAreSerials, Uids
<1>2. m_uid' = VALID + made + n /\ made' = made + n
      /\ m_unscheduledEvents' = m_unscheduledEvents + n
  <2>1. m_uid + n <= VALID + MaxEvents
    BY <1>1, BoundsAssumption DEF VALID
  <2> QED
    BY <1>1, <2>1, AdvanceAdds DEF DoDispose, Counted, VALID
<1>3. /\ m_events' = {} /\ m_eventsWithContext' = <<>> /\ m_eventsWithContextEmpty' = TRUE
      /\ pc' = "disposed"
      /\ UNCHANGED <<m_stop, ran, m_currentUid, m_currentTs, m_destroyEvents, cancelled, stops,
                     issued>>
  BY DEF DoDispose, clockVars, userVars
<1>4. TypeOK'
  <2>1. m_uid' \in Uids /\ made' \in 0..MaxEvents /\ m_unscheduledEvents' \in Nat
    BY <1>1, <1>2, BoundsAssumption DEF IInv, TypeOK, Uids, VALID, NoWrap
  <2>2. <<>> \in Seq(Delays)
    BY EmptySeq
  <2> QED
    BY <1>3, <2>1, <2>2 DEF IInv, TypeOK
<1>5. UidsAreSerials'
  <2>1. made' + Len(m_eventsWithContext') <= MaxEvents
    <3>1. Len(<<>>) = 0
      OBVIOUS
    <3> QED
      BY <1>1, <1>2, <1>3, <3>1
  <2>2. m_uid' = VALID + made' /\ m_currentUid' < m_uid'
    BY <1>1, <1>2, <1>3 DEF IInv, TypeOK, UidsAreSerials, VALID, Uids
  <2>3. \A id \in issued : id.ev <= made'
    BY <1>1, <1>2 DEF IInv, TypeOK, UidsAreSerials, EventIds, Events
  <2> QED
    BY <1>3, <2>1, <2>2, <2>3 DEF IInv, UidsAreSerials
<1>6. OneIdPerEvent' /\ AheadOfClock' /\ AccountedFor' /\ DestroyListIssued'
  BY <1>3 DEF IInv, OneIdPerEvent, AheadOfClock, AccountedFor, DestroyListIssued
<1>7. NotYetRun'
  BY <1>1, <1>2, <1>3 DEF IInv, NotYetRun
<1>8. IsFiniteSet(m_events)' /\ UnscheduledCounts'
  BY <1>3, FS_EmptySet DEF UnscheduledCounts
<1>9. PostsAreFlagged' /\ NoUndefined'
  BY <1>3 DEF PostsAreFlagged, NoUndefined
<1> QED
  BY <1>4, <1>5, <1>6, <1>7, <1>8, <1>9 DEF IInv

LEMMA StepInv == ASSUME NoWrap, IInv, [Next]_vars PROVE IInv'
<1>1. CASE \E d \in Delays : Schedule(d) \/ ScheduleStop(d) \/ ScheduleWithContext(d) \/ Post(d)
  <2> SUFFICES ASSUME NEW d \in Delays,
                      Schedule(d) \/ ScheduleStop(d) \/ ScheduleWithContext(d) \/ Post(d)
               PROVE  IInv'
    BY <1>1
  <2>1. CASE Schedule(d)
    BY <2>1, EnqueueInv DEF Schedule
  <2>2. CASE ScheduleStop(d)
    BY <2>2, EnqueueInv DEF ScheduleStop
  <2>3. CASE ScheduleWithContext(d)
    BY <2>3, EnqueueInv DEF ScheduleWithContext, userVars
  <2>4. CASE Post(d)
    BY <2>4, PostInv
  <2> QED
    BY <2>1, <2>2, <2>3, <2>4
<1>2. CASE ScheduleDestroy
  BY <1>2, ScheduleDestroyInv
<1>3. CASE \E id \in issued : Cancel(id) \/ RemoveDestroy(id) \/ Remove(id)
  BY <1>3, CancelInv, RemoveDestroyInv, RemoveInv
<1>4. CASE \E next \in m_events : SkipCancelled(next) \/ RunEvent(next)
  <2> SUFFICES ASSUME NEW next \in m_events, SkipCancelled(next) \/ RunEvent(next)
               PROVE  IInv'
    BY <1>4
  <2>1. m_stop \in BOOLEAN
    BY DEF IInv, TypeOK
  <2>2. CASE SkipCancelled(next)
    BY <2>1, <2>2, TakeNextInv DEF SkipCancelled
  <2>3. CASE RunEvent(next)
    BY <2>1, <2>3, TakeNextInv DEF RunEvent
  <2> QED
    BY <2>2, <2>3
<1>5. CASE Stop \/ Run \/ SkipPosts \/ HandlerReturns \/ RunReturns \/ Destroy
           \/ DestroyHandlerReturns
  <2>1. m_stop \in BOOLEAN
    BY DEF IInv, TypeOK
  <2> QED
    BY <1>5, <2>1, ControlInv DEF Stop, Run, SkipPosts, HandlerReturns, RunReturns, Destroy,
       DestroyHandlerReturns, UserCode
<1>6. CASE TakePosts
  BY <1>6, TakePostsInv
<1>7. CASE DestroyNext
  BY <1>7, DestroyNextInv
<1>8. CASE DoDispose
  BY <1>8, DoDisposeInv
<1>9. CASE UNCHANGED vars
  BY <1>9 DEF vars, queueVars, clockVars, postVars, userVars, IInv, TypeOK, UidsAreSerials,
     OneIdPerEvent, AheadOfClock, AccountedFor, IsExpired, InDestroyList, DestroyListIssued,
     NotYetRun, PostsAreFlagged, UnscheduledCounts, NoUndefined
<1> QED
  BY <1>1, <1>2, <1>3, <1>4, <1>5, <1>6, <1>7, <1>8, <1>9 DEF Next

-----------------------------------------------------------------------------
(* The theorems.                                                           *)

(* IInv holds in every reachable state: uids are serial numbers, no two    *)
(* EventIds share an event, the list is ahead of the clock, and every      *)
(* EventId is in the list, behind the clock or withdrawn.                  *)
THEOREM Invariance == ASSUME NoWrap PROVE Spec => []IInv
<1>1. Init => IInv
  BY InitInv
<1>2. IInv /\ [Next]_vars => IInv'
  BY StepInv
<1> QED
  BY <1>1, <1>2, PTL DEF Spec

(* The simulator's variables keep their types; in particular the signed    *)
(* counter of unscheduled events never goes below zero.                    *)
THEOREM TypeCorrect == ASSUME NoWrap PROVE Spec => []TypeOK
<1>1. IInv => TypeOK
  BY DEF IInv
<1> QED
  BY <1>1, Invariance, PTL

(* The counter behind Run's closing assertion counts the event list.       *)
THEOREM CountsCorrect == ASSUME NoWrap PROVE Spec => []UnscheduledCounts
<1>1. IInv => UnscheduledCounts
  BY DEF IInv
<1> QED
  BY <1>1, Invariance, PTL

(* Remove never erases an entry that the event list does not hold.         *)
THEOREM NeverUndefined == ASSUME NoWrap PROVE Spec => []NoUndefined
<1>1. IInv => NoUndefined
  BY DEF IInv
<1> QED
  BY <1>1, Invariance, PTL

(* IsExpired, which looks at the clock, the current uid and the cancel bit *)
(* only, agrees with what the event list holds.                            *)
LEMMA ExpiryIsExact == ASSUME IInv PROVE ExpiredExact
<1> SUFFICES ASSUME pc # "disposed", NEW id \in issued
             PROVE  ~IsExpired(id) <=> /\ id \in m_events \/ InDestroyList(id)
                                       /\ id.ev \notin cancelled
  BY DEF ExpiredExact
<1>1. \A e \in m_events : e.uid # DESTROY
  <2>1. \A e \in m_events : e.uid = VALID + e.ev - 1 /\ e.ev \in Nat /\ e.ev >= 1
    BY DEF IInv, TypeOK, UidsAreSerials, EventIds, Events
  <2> QED
    BY <2>1 DEF VALID, DESTROY
<1>2. CASE id.uid = DESTROY
  BY <1>1, <1>2 DEF IsExpired
<1>3. CASE id.uid # DESTROY
  <2>1. ~InDestroyList(id)
    BY <1>3 DEF IInv, DestroyListIssued, InDestroyList
  <2>2. ~IsExpired(id) => id \in m_events /\ id.ev \notin cancelled
    BY <1>3 DEF IInv, AccountedFor, IsExpired
  <2>3. id \in m_events /\ id.ev \notin cancelled => ~IsExpired(id)
    <3>1. /\ id.ts \in Nat /\ id.uid \in Nat
          /\ m_currentTs \in Nat /\ m_currentUid \in Nat
      BY DEF IInv, TypeOK, EventIds, Uids
    <3> QED
      BY <1>3, <3>1 DEF IInv, AheadOfClock, IsExpired
  <2> QED
    BY <2>1, <2>2, <2>3
<1> QED
  BY <1>2, <1>3

THEOREM ExpiredCorrect == ASSUME NoWrap PROVE Spec => []ExpiredExact
<1>1. IInv => ExpiredExact
  BY ExpiryIsExact
<1> QED
  BY <1>1, Invariance, PTL

-----------------------------------------------------------------------------
(* What a step may do.                                                     *)

(* A destroy event has no entry in the event list. *)
LEMMA DestroyIsApart ==
  ASSUME IInv, DestroyNext
  PROVE  /\ Head(m_destroyEvents) \in issued
         /\ InDestroyList(Head(m_destroyEvents))
         /\ Head(m_destroyEvents).uid = DESTROY
         /\ \A e \in m_events : e.ev # Head(m_destroyEvents).ev
<1> DEFINE id == Head(m_destroyEvents)
<1>1. id = m_destroyEvents[1] /\ 1 \in DOMAIN m_destroyEvents
  BY LenProperties, EmptySeq DEF DestroyNext, IInv, TypeOK
<1>2. id \in issued /\ id.uid = DESTROY /\ InDestroyList(id)
  BY <1>1 DEF IInv, DestroyListIssued, InDestroyList
<1>3. \A e \in m_events : e.uid = VALID + e.ev - 1 /\ e.ev \in Nat /\ e.ev >= 1
  BY DEF IInv, TypeOK, UidsAreSerials, EventIds, Events
<1>4. id \notin m_events
  BY <1>2, <1>3 DEF VALID, DESTROY
<1> QED
  BY <1>2, <1>4 DEF IInv, OneIdPerEvent

(* Only RunEvent and DestroyNext run an event; only ProcessOneEvent moves  *)
(* the clock.                                                              *)
LEMMA OtherStepsRunNothing ==
  ASSUME [Next]_vars, ~DestroyNext,
         \A next \in m_events : ~SkipCancelled(next) /\ ~RunEvent(next)
  PROVE  ran' = ran /\ UNCHANGED clockVars
BY DEF Next, vars, Schedule, ScheduleStop, ScheduleWithContext, Post, ScheduleDestroy, Cancel,
   RemoveDestroy, Remove, Stop, Run, SkipPosts, TakePosts, HandlerReturns, RunReturns,
   Destroy, DestroyHandlerReturns, DoDispose

(* Events run in time order and, within an instant, in insertion order.    *)
THEOREM RunOrderCorrect == ASSUME NoWrap PROVE Spec => RunOrder
<1> DEFINE Step == /\ m_currentTs' >= m_currentTs
                   /\ \A e \in m_events : e.ev \in ran' \ ran =>
                        \A f \in m_events \ {e} : f.ts > e.ts \/ (f.ts = e.ts /\ f.ev > e.ev)
<1>1. IInv /\ [Next]_vars => Step
  <2> SUFFICES ASSUME IInv, [Next]_vars PROVE Step
    OBVIOUS
  <2>1. CASE \E next \in m_events : SkipCancelled(next) \/ RunEvent(next)
    <3>1. PICK next \in m_events : SkipCancelled(next) \/ RunEvent(next)
      BY <2>1
    <3>2. TakeNext(next) /\ (ran' = ran \/ ran' = ran \union {next.ev})
      BY <3>1 DEF SkipCancelled, RunEvent
    <3>3. /\ \A f \in m_events \ {next} : f.ts > next.ts \/ (f.ts = next.ts /\ f.ev > next.ev)
          /\ next.ts > m_currentTs \/ next.ts = m_currentTs
      BY <3>2, FirstIsStrict DEF TakeNext
    <3>4. m_currentTs' = next.ts /\ next.ts \in Nat /\ m_currentTs \in Nat
      BY <3>2 DEF TakeNext, IInv, TypeOK, EventIds
    <3>5. \A e \in m_events : e.ev \in ran' \ ran => e = next
      BY <3>2 DEF IInv, OneIdPerEvent
    <3>6. m_currentTs' >= m_currentTs
      BY <3>3, <3>4
    <3> QED
      BY <3>3, <3>5, <3>6
  <2>2. CASE DestroyNext
    <3>1. m_currentTs' = m_currentTs /\ m_currentTs \in Nat
      BY <2>2 DEF DestroyNext, clockVars, IInv, TypeOK
    <3>2. \A e \in m_events : e.ev \notin ran' \ ran
      BY <2>2, DestroyIsApart DEF DestroyNext
    <3> QED
      BY <3>1, <3>2
  <2>3. CASE ~DestroyNext /\ \A next \in m_events : ~SkipCancelled(next) /\ ~RunEvent(next)
    <3>1. ran' = ran /\ m_currentTs' = m_currentTs /\ m_currentTs \in Nat
      BY <2>3, OtherStepsRunNothing DEF clockVars, IInv, TypeOK
    <3> QED
      BY <3>1
  <2> QED
    BY <2>1, <2>2, <2>3
<1>2. IInv /\ [Next]_vars => [Step]_vars
  BY <1>1
<1> QED
  BY <1>2, Invariance, PTL DEF Spec, RunOrder

(* Once expired, an EventId stays expired, and its event does not run.     *)
LEMMA ExpiredStays ==
  ASSUME IInv, [Next]_vars, pc' # "disposed", NEW id \in issued, IsExpired(id)
  PROVE  IsExpired(id)'
<1>1. CASE \E next \in m_events : SkipCancelled(next) \/ RunEvent(next)
  <2>1. PICK next \in m_events : TakeNext(next)
    BY <1>1 DEF SkipCancelled, RunEvent
  <2>2. /\ m_currentTs' = next.ts /\ m_currentUid' = next.uid
        /\ UNCHANGED <<cancelled, m_destroyEvents>>
    BY <2>1 DEF TakeNext, userVars
  <2>3. next.ts > m_currentTs \/ (next.ts = m_currentTs /\ next.uid > m_currentUid)
    BY <2>1, FirstIsStrict DEF TakeNext
  <2>4. /\ id.ts \in Nat /\ id.uid \in Nat /\ next.ts \in Nat /\ next.uid \in Nat
        /\ m_currentTs \in Nat /\ m_currentUid \in Nat
    BY DEF IInv, TypeOK, EventIds, Uids
  <2> QED
    BY <2>2, <2>3, <2>4 DEF IsExpired, InDestroyList
<1>2. CASE DestroyNext
  <2>1. m_destroyEvents \in Seq(EventIds) /\ m_destroyEvents # <<>>
        /\ m_destroyEvents' = Tail(m_destroyEvents)
        /\ UNCHANGED <<cancelled, m_currentTs, m_currentUid>>
    BY <1>2 DEF IInv, TypeOK, DestroyNext, clockVars
  <2>2. /\ Tail(m_destroyEvents) \in Seq(EventIds)
        /\ Len(Tail(m_destroyEvents)) = Len(m_destroyEvents) - 1
        /\ \A i \in 1..Len(Tail(m_destroyEvents)) :
             Tail(m_destroyEvents)[i] = m_destroyEvents[i + 1]
    BY <2>1, HeadTailProperties
  <2>3. /\ DOMAIN m_destroyEvents = 1..Len(m_destroyEvents) /\ Len(m_destroyEvents) \in Nat
        /\ DOMAIN Tail(m_destroyEvents) = 1..Len(Tail(m_destroyEvents))
    BY <2>1, <2>2, LenProperties
  <2>4. InDestroyList(id)' => InDestroyList(id)
    BY <2>1, <2>2, <2>3 DEF InDestroyList
  <2> QED
    BY <2>1, <2>4 DEF IsExpired
<1>3. CASE ScheduleDestroy
  <2> DEFINE new == [ts |-> m_currentTs, uid |-> DESTROY, ev |-> made + 1]
  <2>1. /\ m_destroyEvents' = Append(m_destroyEvents, new)
        /\ UNCHANGED <<cancelled, m_currentTs, m_currentUid>>
    BY <1>3 DEF ScheduleDestroy, clockVars
  <2>2. id # new
    BY DEF IInv, TypeOK, UidsAreSerials, EventIds, Events
  <2>3. new \in [ts : Nat, uid : {DESTROY}, ev : Nat] /\ m_destroyEvents \in Seq(EventIds)
    BY DEF IInv, TypeOK
  <2>4. InDestroyList(id)' => InDestroyList(id)
    BY <2>1, <2>2, <2>3, LenProperties DEF InDestroyList
  <2> QED
    BY <2>1, <2>4 DEF IsExpired
<1>4. CASE \E i \in issued : RemoveDestroy(i)
  <2>1. PICK i \in DOMAIN m_destroyEvents : m_destroyEvents' = SX!RemoveAt(m_destroyEvents, i)
    BY <1>4 DEF RemoveDestroy
  <2>2. \A k \in DOMAIN m_destroyEvents' :
          \E j \in DOMAIN m_destroyEvents : m_destroyEvents'[k] = m_destroyEvents[j]
    BY <2>1, RemoveAtProperties DEF IInv, TypeOK
  <2>3. UNCHANGED <<cancelled, m_currentTs, m_currentUid>>
    BY <1>4 DEF RemoveDestroy, clockVars
  <2> QED
    BY <2>2, <2>3 DEF IsExpired, InDestroyList
<1>5. CASE /\ ~DestroyNext /\ ~ScheduleDestroy
           /\ \A i \in issued : ~RemoveDestroy(i)
           /\ \A next \in m_events : ~SkipCancelled(next) /\ ~RunEvent(next)
  <2>1. UNCHANGED <<m_destroyEvents, m_currentTs, m_currentUid>>
        /\ cancelled \subseteq cancelled'
    BY <1>5 DEF Next, vars, Schedule, ScheduleStop, ScheduleWithContext, Post, Cancel,
       Remove, Stop, Run, SkipPosts, TakePosts, HandlerReturns, RunReturns,
       Destroy, DestroyHandlerReturns, DoDispose, clockVars, userVars
  <2> QED
    BY <2>1 DEF IsExpired, InDestroyList
<1> QED
  BY <1>1, <1>2, <1>3, <1>4, <1>5

LEMMA ExpiredNeverRuns ==
  ASSUME IInv, [Next]_vars, NEW id \in issued, IsExpired(id), id.ev \in ran'
  PROVE  id.ev \in ran
<1>1. CASE \E next \in m_events : SkipCancelled(next) \/ RunEvent(next)
  <2>1. PICK next \in m_events : SkipCancelled(next) \/ RunEvent(next)
    BY <1>1
  <2>2. CASE SkipCancelled(next)
    BY <2>2 DEF SkipCancelled
  <2>3. CASE RunEvent(next)
    <3>1. ran' = ran \union {next.ev} /\ next.ev \notin cancelled /\ pc = "loop"
      BY <2>3 DEF RunEvent, TakeNext
    <3>2. id.ev = next.ev => id = next
      BY DEF IInv, OneIdPerEvent
    <3>3. id # next
      BY <3>1, ExpiryIsExact DEF ExpiredExact
    <3> QED
      BY <3>1, <3>2, <3>3
  <2> QED
    BY <2>1, <2>2, <2>3
<1>2. CASE DestroyNext
  <2> DEFINE head == Head(m_destroyEvents)
  <2>1. head \in issued /\ InDestroyList(head) /\ head.uid = DESTROY
    BY <1>2, DestroyIsApart
  <2>2. ran' = ran \/ (ran' = ran \union {head.ev} /\ head.ev \notin cancelled)
    BY <1>2 DEF DestroyNext
  <2>3. id.ev = head.ev => id = head
    BY <2>1 DEF IInv, OneIdPerEvent
  <2>4. head.ev \notin cancelled => ~IsExpired(head)
    BY <2>1 DEF IsExpired
  <2> QED
    BY <2>2, <2>3, <2>4
<1>3. CASE ~DestroyNext /\ \A next \in m_events : ~SkipCancelled(next) /\ ~RunEvent(next)
  BY <1>3, OtherStepsRunNothing
<1> QED
  BY <1>1, <1>2, <1>3

THEOREM ExpiredIsFinalCorrect == ASSUME NoWrap PROVE Spec => ExpiredIsFinal
<1> DEFINE Step == \A id \in issued : IsExpired(id) => /\ pc' # "disposed" => IsExpired(id)'
                                                       /\ id.ev \in ran' => id.ev \in ran
<1>1. IInv /\ [Next]_vars => Step
  BY ExpiredStays, ExpiredNeverRuns
<1>2. IInv /\ [Next]_vars => [Step]_vars
  BY <1>1
<1> QED
  BY <1>2, Invariance, PTL DEF Spec, ExpiredIsFinal

-----------------------------------------------------------------------------
(* DefaultSimulator implements EventLoop: for any delays and any number of *)
(* events smaller than the number of uids, every step of the engine plans, *)
(* withdraws, performs or passes over events as the simulator promises, or *)
(* changes nothing a user of the loop can see.                             *)

LEMMA PlannedElements ==
  /\ \A e \in m_events : e.ev \notin cancelled => [ts |-> e.ts, ev |-> e.ev] \in Planned
  /\ \A p \in Planned : \E e \in m_events : e.ev \notin cancelled /\ p = [ts |-> e.ts, ev |-> e.ev]
BY DEF Planned

(* What is planned has its number from the events made so far, has not run *)
(* and is due now or later.                                                *)
LEMMA PlannedFacts ==
  ASSUME IInv
  PROVE  /\ made \in Nat /\ m_currentTs \in Nat
         /\ ran \subseteq 1..made
         /\ \A p \in Planned : /\ p.ts \in Nat /\ p.ts >= m_currentTs
                               /\ p.ev \in 1..made /\ p.ev \notin ran
<1>1. made \in Nat /\ m_currentTs \in Nat /\ ran \subseteq 1..made
  BY DEF IInv, TypeOK, NotYetRun
<1>2. ASSUME NEW e \in m_events
      PROVE  /\ e.ts \in Nat /\ e.ts >= m_currentTs
             /\ e.ev \in 1..made /\ e.ev \notin ran
  <2>1. e.ts \in Nat /\ e.ev \in Nat /\ e.ev >= 1 /\ e.ev <= made /\ e.ev \notin ran
    BY DEF IInv, TypeOK, EventIds, Events, UidsAreSerials, NotYetRun
  <2>2. e.ts > m_currentTs \/ e.ts = m_currentTs
    BY DEF IInv, AheadOfClock
  <2> QED
    BY <1>1, <2>1, <2>2
<1> QED
  BY <1>1, <1>2, PlannedElements

(* No entry of the list is a destroy event.                                *)
LEMMA ListedIsNoDestroy ==
  ASSUME IInv, NEW e \in m_events
  PROVE  e.ev \notin DestroyEvs
<1>1. e.uid = VALID + e.ev - 1 /\ e.ev \in Nat /\ e.ev >= 1
  BY DEF IInv, TypeOK, UidsAreSerials, EventIds, Events
<1>2. e.uid # DESTROY
  BY <1>1 DEF VALID, DESTROY
<1>3. \A id \in issued : id.ev = e.ev => id = e
  BY DEF IInv, OneIdPerEvent
<1> QED
  BY <1>2, <1>3 DEF DestroyEvs

-----------------------------------------------------------------------------
(* Planning.                                                               *)

(* New entries with new numbers, due now or later, and no other change,    *)
(* are a Plan step.                                                        *)
LEMMA InsertPlans ==
  ASSUME IInv, NEW new,
         \A e \in new : e.ts >= m_currentTs /\ e.ev \in Nat /\ e.ev > made,
         m_events' = m_events \union new,
         cancelled' = cancelled, m_currentTs' = m_currentTs,
         (ran \ DestroyEvs)' = ran \ DestroyEvs
  PROVE  Loop!Plan
<1>1. Planned \subseteq Planned'
  BY DEF Planned
<1>2. ASSUME NEW p \in Planned' \ Planned
      PROVE  /\ p.ts >= m_currentTs
             /\ p.ev \notin ran \ DestroyEvs
             /\ \A f \in Planned : f.ev < p.ev
  <2>1. PICK e \in m_events' : e.ev \notin cancelled' /\ p = [ts |-> e.ts, ev |-> e.ev]
    BY DEF Planned
  <2>2. e \in new
    BY <2>1, PlannedElements
  <2>3. p.ts = e.ts /\ p.ev = e.ev
    BY <2>1
  <2> QED
    BY <2>2, <2>3, PlannedFacts
<1> QED
  BY <1>1, <1>2 DEF Loop!Plan

LEMMA EnqueuePlans ==
  ASSUME NoWrap, IInv, NEW d \in Delays, Enqueue(d), UNCHANGED <<ran, cancelled, clockVars>>,
         issued' = issued \/ issued' = issued \union {NewEvent(d)}
  PROVE  Loop!Plan
<1> DEFINE new == NewEvent(d)
<1>1. /\ new \in EventIds /\ new.ts >= m_currentTs
      /\ new.uid = VALID + made /\ new.ev = made + 1
  BY NewEventFields DEF Enqueue
<1>2. m_events' = Insert(m_events, {new}) /\ m_currentTs' = m_currentTs
  BY DEF Enqueue, clockVars
<1>3. \A f \in m_events : f.uid # new.uid
  <2>1. \A f \in m_events : f.uid = VALID + f.ev - 1 /\ f.ev \in Nat /\ f.ev <= made
    BY DEF IInv, TypeOK, UidsAreSerials, EventIds, Events
  <2> QED
    BY <1>1, <2>1, PlannedFacts DEF VALID
<1>4. new.uid # DESTROY
  BY <1>1, PlannedFacts DEF VALID, DESTROY
<1> HIDE DEF new
<1>5. m_events' = m_events \union {new}
  BY <1>2, <1>3, InsertFresh
<1>6. (ran \ DestroyEvs)' = ran \ DestroyEvs
  BY <1>4 DEF DestroyEvs, new
<1>7. \A e \in {new} : e.ts >= m_currentTs /\ e.ev \in Nat /\ e.ev > made
  BY <1>1, PlannedFacts
<1>8. cancelled' = cancelled
  OBVIOUS
<1> QED
  BY <1>2, <1>5, <1>6, <1>7, <1>8, InsertPlans

LEMMA TakePostsPlans == ASSUME NoWrap, IInv, TakePosts PROVE Loop!Plan
<1> DEFINE n == Len(m_eventsWithContext)
           taken == {Taken(k) : k \in 1..n}
<1>1. /\ n \in Nat /\ made \in Nat /\ m_currentTs \in Nat /\ made + n <= MaxEvents
      /\ m_uid = VALID + made
  BY LenProperties DEF IInv, TypeOK, UidsAreSerials
<1>2. ASSUME NEW e \in taken
      PROVE  e.ts >= m_currentTs /\ e.uid = VALID + e.ev - 1 /\ e.ev \in Nat /\ e.ev > made
  <2>1. PICK k \in 1..n : e = Taken(k)
    OBVIOUS
  <2>2. m_eventsWithContext[k] \in Nat
    BY ElementOfSeq, DelaysAssumption DEF IInv, TypeOK
  <2>3. Advance(m_uid, k - 1) = m_uid + (k - 1)
    <3>1. m_uid \in Nat /\ k - 1 \in Nat /\ m_uid + (k - 1) <= VALID + MaxEvents
      BY <1>1, BoundsAssumption DEF VALID
    <3> QED
      BY <3>1, AdvanceAdds
  <2>4. e.ts = m_currentTs + m_eventsWithContext[k] /\ e.ev = made + k /\ e.uid = m_uid + (k - 1)
    BY <2>1, <2>3 DEF Taken
  <2> QED
    BY <1>1, <2>2, <2>4 DEF VALID
<1>3. m_events' = Insert(m_events, taken)
  BY DEF TakePosts
<1> HIDE DEF taken, n
<1>4. m_events' = m_events \union taken
  <2>1. \A f \in m_events : f.uid = VALID + f.ev - 1 /\ f.ev \in Nat /\ f.ev <= made
    BY DEF IInv, TypeOK, UidsAreSerials, EventIds, Events
  <2>2. \A e \in taken : \A f \in m_events : e.uid # f.uid
    BY <1>1, <1>2, <2>1 DEF VALID
  <2> QED
    BY <1>3, <2>2, InsertFresh
<1>5. UNCHANGED <<cancelled, m_currentTs, ran, issued>>
  BY DEF TakePosts, clockVars, userVars
<1>6. (ran \ DestroyEvs)' = ran \ DestroyEvs
  BY <1>5 DEF DestroyEvs
<1> QED
  BY <1>2, <1>4, <1>5, <1>6, InsertPlans

-----------------------------------------------------------------------------
(* Withdrawing.                                                            *)

(* Cancel of an event of the list, and Remove, withdraw its plan.          *)
LEMMA BitWithdraws ==
  ASSUME IInv, NEW id \in m_events, id.ev \notin cancelled,
         cancelled' = cancelled \union {id.ev},
         m_events' = m_events \/ m_events' = m_events \ {id},
         UNCHANGED <<m_currentTs, ran, issued>>
  PROVE  \E p \in Planned : Loop!Withdraw(p)
<1> DEFINE p == [ts |-> id.ts, ev |-> id.ev]
<1>1. \A e \in m_events : e.ev = id.ev => e = id
  BY DEF IInv, OneIdPerEvent
<1>2. p \in Planned
  BY PlannedElements
<1>3. Planned' = Planned \ {p}
  <2>1. ASSUME NEW q \in Planned' PROVE q \in Planned \ {p}
    <3>1. PICK e \in m_events' : e.ev \notin cancelled' /\ q = [ts |-> e.ts, ev |-> e.ev]
      BY DEF Planned
    <3> QED
      BY <3>1, PlannedElements
  <2>2. ASSUME NEW q \in Planned \ {p} PROVE q \in Planned'
    <3>1. PICK e \in m_events : e.ev \notin cancelled /\ q = [ts |-> e.ts, ev |-> e.ev]
      BY PlannedElements
    <3>2. e # id
      BY <3>1
    <3> QED
      BY <1>1, <3>1, <3>2 DEF Planned
  <2> QED
    BY <2>1, <2>2
<1>4. (ran \ DestroyEvs)' = ran \ DestroyEvs
  BY DEF DestroyEvs
<1>5. Loop!Withdraw(p)
  BY <1>3, <1>4 DEF Loop!Withdraw
<1> QED
  BY <1>2, <1>5

LEMMA CancelWithdraws ==
  ASSUME IInv, NEW id \in issued, Cancel(id)
  PROVE  (\E p \in Planned : Loop!Withdraw(p)) \/ UNCHANGED Loop!loopVars
<1>1. /\ ~IsExpired(id)
      /\ cancelled' = cancelled \union {id.ev}
      /\ UNCHANGED <<m_events, m_currentTs, ran, issued>>
  BY DEF Cancel, queueVars, clockVars
<1>2. id.ev \notin cancelled
  BY <1>1 DEF IsExpired
<1>3. CASE id \in m_events
  BY <1>1, <1>2, <1>3, BitWithdraws
<1>4. CASE id \notin m_events
  <2>1. \A e \in m_events : e.ev # id.ev
    BY <1>4 DEF IInv, OneIdPerEvent
  <2> QED
    BY <1>1, <2>1 DEF Loop!loopVars, Planned, DestroyEvs
<1> QED
  BY <1>3, <1>4

LEMMA RemoveWithdraws ==
  ASSUME IInv, NEW id \in issued, Remove(id)
  PROVE  \E p \in Planned : Loop!Withdraw(p)
<1>1. id \in m_events /\ m_events' = m_events \ {id}
  BY RemoveFinds DEF Remove
<1>2. id.ev \notin cancelled
  BY DEF Remove, IsExpired
<1> QED
  BY <1>1, <1>2, BitWithdraws DEF Remove, clockVars

-----------------------------------------------------------------------------
(* Performing, passing and forgetting.                                     *)

LEMMA RunEventPerforms ==
  ASSUME IInv, NEW next \in m_events, RunEvent(next)
  PROVE  \E p \in Planned : Loop!Perform(p)
<1> DEFINE p == [ts |-> next.ts, ev |-> next.ev]
<1>1. /\ IsFirst(next, m_events) /\ next.ev \notin cancelled
      /\ m_events' = m_events \ {next} /\ m_currentTs' = next.ts
      /\ ran' = ran \union {next.ev} /\ UNCHANGED <<cancelled, issued>>
  BY DEF RunEvent, TakeNext, userVars
<1>2. p \in Planned
  BY <1>1, PlannedElements
<1>3. \A f \in m_events \ {next} : f.ts > next.ts \/ (f.ts = next.ts /\ f.ev > next.ev)
  BY <1>1, FirstIsStrict
<1>4. ASSUME NEW q \in Planned \ {p} PROVE Loop!Precedes(p, q)
  <2>1. PICK e \in m_events : e.ev \notin cancelled /\ q = [ts |-> e.ts, ev |-> e.ev]
    BY PlannedElements
  <2>2. e \in m_events \ {next}
    BY <2>1
  <2>3. /\ p.ts \in Nat /\ p.ev \in Nat /\ q.ts \in Nat /\ q.ev \in Nat
    BY <1>2, PlannedFacts
  <2>4. q.ts = e.ts /\ q.ev = e.ev /\ p.ts = next.ts /\ p.ev = next.ev
    BY <2>1
  <2>5. q.ts > p.ts \/ (q.ts = p.ts /\ q.ev > p.ev)
    BY <1>3, <2>2, <2>4
  <2> QED
    BY <2>3, <2>5 DEF Loop!Precedes
<1>5. p.ts >= m_currentTs /\ p.ev \notin ran
  BY <1>2, PlannedFacts
<1>6. Planned' = Planned \ {p}
  <2>1. ASSUME NEW q \in Planned' PROVE q \in Planned \ {p}
    <3>1. PICK e \in m_events' : e.ev \notin cancelled' /\ q = [ts |-> e.ts, ev |-> e.ev]
      BY DEF Planned
    <3>2. e.ev # next.ev
      BY <1>1, <3>1 DEF IInv, OneIdPerEvent
    <3> QED
      BY <1>1, <3>1, <3>2, PlannedElements
  <2>2. ASSUME NEW q \in Planned \ {p} PROVE q \in Planned'
    <3>1. PICK e \in m_events : e.ev \notin cancelled /\ q = [ts |-> e.ts, ev |-> e.ev]
      BY PlannedElements
    <3> QED
      BY <1>1, <3>1 DEF Planned
  <2> QED
    BY <2>1, <2>2
<1>7. (ran \ DestroyEvs)' = (ran \ DestroyEvs) \union {p.ev}
  <2>1. DestroyEvs' = DestroyEvs /\ next.ev \notin DestroyEvs
    BY <1>1, ListedIsNoDestroy DEF DestroyEvs
  <2> QED
    BY <1>1, <2>1
<1>8. Loop!Perform(p)
  BY <1>1, <1>4, <1>5, <1>6, <1>7 DEF Loop!Perform
<1> QED
  BY <1>2, <1>8

LEMMA SkipCancelledPasses ==
  ASSUME IInv, NEW next \in m_events, SkipCancelled(next)
  PROVE  Loop!Pass
<1>1. /\ IsFirst(next, m_events) /\ next.ev \in cancelled
      /\ m_events' = m_events \ {next} /\ m_currentTs' = next.ts
      /\ UNCHANGED <<ran, cancelled, issued>>
  BY DEF SkipCancelled, TakeNext, userVars
<1>2. /\ \A f \in m_events \ {next} : f.ts > next.ts \/ f.ts = next.ts
      /\ next.ts > m_currentTs \/ next.ts = m_currentTs
  BY <1>1, FirstIsStrict
<1>3. next.ts \in Nat /\ m_currentTs \in Nat /\ \A p \in Planned : p.ts \in Nat
  BY PlannedFacts DEF IInv, TypeOK, EventIds
<1>4. Planned' = Planned
  BY <1>1 DEF Planned
<1>5. ASSUME NEW p \in Planned PROVE next.ts <= p.ts
  <2>1. PICK e \in m_events : e.ev \notin cancelled /\ p = [ts |-> e.ts, ev |-> e.ev]
    BY PlannedElements
  <2>2. p.ts = e.ts /\ e \in m_events \ {next}
    BY <1>1, <2>1
  <2> QED
    BY <1>2, <1>3, <2>2
<1>6. m_currentTs' >= m_currentTs
  BY <1>1, <1>2, <1>3
<1>7. (ran \ DestroyEvs)' = ran \ DestroyEvs
  BY <1>1 DEF DestroyEvs
<1> QED
  BY <1>1, <1>4, <1>5, <1>6, <1>7 DEF Loop!Pass

LEMMA DoDisposeForgets == ASSUME DoDispose PROVE Loop!Forget
BY DEF DoDispose, Loop!Forget, Planned, DestroyEvs, clockVars, userVars

(* Destroy events come and go unseen.                                      *)
LEMMA DestroyIsStutter ==
  ASSUME IInv, ScheduleDestroy \/ DestroyNext
  PROVE  UNCHANGED Loop!loopVars
<1>1. CASE ScheduleDestroy
  <2> DEFINE id == [ts |-> m_currentTs, uid |-> DESTROY, ev |-> made + 1]
  <2>1. /\ UNCHANGED <<m_events, cancelled, m_currentTs, ran>>
        /\ issued' = issued \union {id}
    BY <1>1 DEF ScheduleDestroy, clockVars
  <2>2. id.uid = DESTROY /\ id.ev = made + 1 /\ made + 1 \notin ran
    BY PlannedFacts
  <2> HIDE DEF id
  <2>3. \A n \in ran : n \in DestroyEvs' <=> n \in DestroyEvs
    BY <2>1, <2>2 DEF DestroyEvs
  <2>4. (ran \ DestroyEvs)' = ran \ DestroyEvs
    BY <2>1, <2>3
  <2> QED
    BY <2>1, <2>4 DEF Loop!loopVars, Planned
<1>2. CASE DestroyNext
  <2> DEFINE head == Head(m_destroyEvents)
  <2>1. head.ev \in DestroyEvs
    BY <1>2, DestroyIsApart DEF DestroyEvs
  <2>2. /\ UNCHANGED <<m_events, cancelled, m_currentTs, issued>>
        /\ ran' = ran \/ ran' = ran \union {head.ev}
    BY <1>2 DEF DestroyNext, queueVars, clockVars
  <2> QED
    BY <2>1, <2>2 DEF Loop!loopVars, Planned, DestroyEvs
<1> QED
  BY <1>1, <1>2

LEMMA ControlIsStutter ==
  ASSUME UNCHANGED <<ran, m_events, clockVars, cancelled, issued>>
  PROVE  UNCHANGED Loop!loopVars
BY DEF Loop!loopVars, Planned, DestroyEvs, clockVars

-----------------------------------------------------------------------------
LEMMA StepImplements ==
  ASSUME NoWrap, IInv, [Next]_vars
  PROVE  [Loop!LoopNext]_(Loop!loopVars)
<1>1. ASSUME NEW d \in Delays, Schedule(d) \/ ScheduleStop(d) \/ ScheduleWithContext(d)
      PROVE  Loop!LoopNext
  BY <1>1, EnqueuePlans
     DEF Loop!LoopNext, Schedule, ScheduleStop, ScheduleWithContext, userVars
<1>2. ASSUME NEW d \in Delays, Post(d) PROVE UNCHANGED Loop!loopVars
  BY <1>2, ControlIsStutter DEF Post, queueVars, userVars
<1>3. CASE ScheduleDestroy \/ DestroyNext
  BY <1>3, DestroyIsStutter
<1>4. ASSUME NEW id \in issued, Cancel(id) \/ Remove(id)
      PROVE  Loop!LoopNext \/ UNCHANGED Loop!loopVars
  BY <1>4, CancelWithdraws, RemoveWithdraws DEF Loop!LoopNext
<1>5. ASSUME NEW id \in issued, RemoveDestroy(id) PROVE UNCHANGED Loop!loopVars
  BY <1>5, ControlIsStutter DEF RemoveDestroy, queueVars
<1>6. CASE Stop \/ Run \/ SkipPosts \/ HandlerReturns \/ RunReturns \/ Destroy
           \/ DestroyHandlerReturns
  BY <1>6, ControlIsStutter
     DEF Stop, Run, SkipPosts, HandlerReturns, RunReturns, Destroy, DestroyHandlerReturns,
         queueVars, userVars
<1>7. CASE TakePosts
  BY <1>7, TakePostsPlans DEF Loop!LoopNext
<1>8. ASSUME NEW next \in m_events, SkipCancelled(next) \/ RunEvent(next)
      PROVE  Loop!LoopNext
  BY <1>8, SkipCancelledPasses, RunEventPerforms DEF Loop!LoopNext
<1>9. CASE DoDispose
  BY <1>9, DoDisposeForgets DEF Loop!LoopNext
<1>10. CASE UNCHANGED vars
  BY <1>10, ControlIsStutter DEF vars, queueVars, userVars
<1> QED
  BY <1>1, <1>2, <1>3, <1>4, <1>5, <1>6, <1>7, <1>8, <1>9, <1>10 DEF Next

(* The engine implements the event loop it promises.                       *)
THEOREM LoopImplemented == ASSUME NoWrap PROVE Spec => ImplementsLoop
<1>1. Init => Loop!LoopInit
  BY DEF Init, Loop!LoopInit, Planned, DestroyEvs
<1> QED
  BY <1>1, StepImplements, Invariance, PTL DEF Spec, ImplementsLoop, Loop!LoopSpec
=============================================================================
