-------------------------- MODULE VehicleAppProofs --------------------------
(***************************************************************************)
(* Proofs about VehicleApp: for any vehicles, any length of the simulation *)
(* and any delays of the medium, the transmission loops stay alive, every  *)
(* red vehicle has its timer and nothing is sent through a socket that is  *)
(* not open.  Stages says how far each vehicle has come; it bounds the     *)
(* moments at which timers can still be started.                           *)
(***************************************************************************)
EXTENDS VehicleApp, TLAPS

(* Nothing is started or stopped late. *)
InTime ==
  /\ now > StartTime => toStart = {}
  /\ now > StopTime => toStop = {}

(* A vehicle runs, with an open socket, from its start event to its stop   *)
(* event, and a transmission is pending exactly then.                      *)
Stages ==
  \A n \in Nodes :
    /\ n \in toStart => n \in toStop
    /\ m_socket[n] = "open" => n \notin toStart /\ n \in toStop
    /\ n \notin toStart /\ n \in toStop =>
         m_socket[n] = "open" /\ m_sendEvent[n] # None /\ m_sendEvent[n] >= now
    /\ n \in toStart \/ n \notin toStop => m_sendEvent[n] = None

Running == \A n \in Nodes : m_running[n] <=> n \notin toStart /\ n \in toStop

IInv == TypeOK /\ InTime /\ Stages /\ Running /\ RedHasTimer

LEMMA TimesFacts ==
  /\ Second \in Nat /\ SimTime \in Nat /\ StartTime \in Nat /\ StopTime \in Nat /\ EndTime \in Nat
  /\ StartTime = Second /\ StopTime = SimTime /\ EndTime = SimTime + Second
  /\ StartTime < StopTime
  /\ RevertDelay \in Nat /\ RevertDelay <= Second /\ RevertDelay = Second \div 2
  /\ None = -1 /\ None \notin Times
BY TimesAssumption DEF StartTime, StopTime, EndTime, RevertDelay, None, Times

LEMMA InitInv == Init => IInv
<1> SUFFICES ASSUME Init PROVE IInv
  OBVIOUS
<1>1. now \in Times
  BY TimesFacts DEF Init, Times
<1>2. TypeOK
  BY <1>1, Zenon DEF Init, TypeOK
<1>3. InTime
  BY TimesFacts DEF Init, InTime
<1>4. Stages
  BY Zenon DEF Init, Stages
<1>5. Running
  BY Zenon DEF Init, Running
<1>6. RedHasTimer
  BY DEF Init, RedHasTimer
<1> QED
  BY <1>2, <1>3, <1>4, <1>5, <1>6 DEF IInv

-----------------------------------------------------------------------------
(* One lemma for each kind of step.                                        *)

LEMMA StartInv == ASSUME IInv, NEW n \in Nodes, StartApplication(n) PROVE IInv'
<1>1. n \in toStart /\ now = StartTime /\ n \in toStop
  BY DEF StartApplication, IInv, Stages
<1>2. PICK d \in TxDelays : m_sendEvent' = [m_sendEvent EXCEPT ![n] = now + d]
  BY DEF StartApplication, ScheduleTx
<1>3. now + d \in Times /\ now + d >= now /\ now + d # None
  BY <1>1, TimesFacts DEF TxDelays, Times
<1>4. TypeOK'
  BY <1>2, <1>3 DEF StartApplication, IInv, TypeOK, animVars
<1>5. InTime'
  BY DEF StartApplication, IInv, InTime
<1>6. Stages'
  <2>1. /\ m_sendEvent \in [Nodes -> Times \union {None}]
        /\ m_socket \in [Nodes -> {"none", "open", "closed"}]
        /\ m_socket' = [m_socket EXCEPT ![n] = "open"]
        /\ now' = now /\ toStart' = toStart \ {n} /\ toStop' = toStop
    BY DEF StartApplication, IInv, TypeOK
  <2>2. m_sendEvent'[n] = now + d /\ m_socket'[n] = "open"
    BY <1>2, <2>1
  <2>3. \A m \in Nodes \ {n} : m_sendEvent'[m] = m_sendEvent[m] /\ m_socket'[m] = m_socket[m]
    BY <1>2, <2>1
  <2> QED
    BY <1>1, <1>3, <2>1, <2>2, <2>3 DEF IInv, Stages
<1>7. Running'
  BY <1>1 DEF StartApplication, IInv, Running, TypeOK
<1>8. RedHasTimer'
  BY DEF StartApplication, IInv, RedHasTimer, animVars
<1> QED
  BY <1>4, <1>5, <1>6, <1>7, <1>8 DEF IInv

LEMMA StopInv == ASSUME IInv, NEW n \in Nodes, StopApplication(n) PROVE IInv'
<1>1. n \in toStop /\ now = StopTime /\ toStart = {}
  BY TimesFacts DEF StopApplication, IInv, InTime
<1>2. TypeOK'
  BY DEF StopApplication, IInv, TypeOK, animVars
<1>3. InTime'
  BY DEF StopApplication, IInv, InTime
<1>4. Stages'
  BY <1>1 DEF StopApplication, IInv, Stages, TypeOK
<1>5. Running'
  BY <1>1 DEF StopApplication, IInv, Running, TypeOK
<1>6. RedHasTimer'
  BY DEF StopApplication, IInv, RedHasTimer, animVars
<1> QED
  BY <1>2, <1>3, <1>4, <1>5, <1>6 DEF IInv

(* SendPacket is called for a running vehicle only. *)
LEMMA SenderRuns ==
  ASSUME IInv, NEW n \in Nodes, SendPacket(n)
  PROVE  /\ m_running[n] /\ n \notin toStart /\ n \in toStop
         /\ m_socket[n] = "open" /\ now <= StopTime
<1>1. m_sendEvent[n] # None
  BY TimesFacts DEF SendPacket, IInv, TypeOK
<1>2. n \notin toStart /\ n \in toStop
  BY <1>1 DEF IInv, Stages
<1>3. now <= StopTime
  BY <1>2, TimesFacts DEF IInv, InTime, TypeOK, Times
<1> QED
  BY <1>2, <1>3 DEF IInv, Stages, Running

LEMMA SendInv == ASSUME IInv, NEW n \in Nodes, SendPacket(n) PROVE IInv'
<1>1. PICK d \in TxDelays : m_sendEvent' = [m_sendEvent EXCEPT ![n] = now + d]
  BY SenderRuns DEF SendPacket, Reschedule, ScheduleTx
<1>2. now + d \in Times /\ now + d >= now /\ now + d # None
  BY SenderRuns, TimesFacts DEF TxDelays, Times, IInv, TypeOK
<1>3. TypeOK'
  BY <1>1, <1>2 DEF SendPacket, SendTo, IInv, TypeOK, animVars
<1>4. InTime'
  BY DEF SendPacket, IInv, InTime
<1>5. Stages'
  <2>1. /\ m_sendEvent \in [Nodes -> Times \union {None}]
        /\ UNCHANGED <<now, toStart, toStop, m_socket>>
    BY DEF SendPacket, IInv, TypeOK
  <2>2. m_sendEvent'[n] = now + d /\ \A m \in Nodes \ {n} : m_sendEvent'[m] = m_sendEvent[m]
    BY <1>1, <2>1
  <2> QED
    BY <1>2, <2>1, <2>2, SenderRuns DEF IInv, Stages
<1>6. Running'
  BY DEF SendPacket, IInv, Running
<1>7. RedHasTimer'
  BY DEF SendPacket, IInv, RedHasTimer, animVars
<1> QED
  BY <1>3, <1>4, <1>5, <1>6, <1>7 DEF IInv

(* An alert is raised while the vehicle's socket is open, so its timer is  *)
(* due before the end.                                                     *)
LEMMA DeliverInv == ASSUME IInv, NEW copy \in air, Deliver(copy) PROVE IInv'
<1>1. copy.to \in Nodes /\ UNCHANGED <<now, finished, toStart, toStop, appVars>>
  BY DEF Deliver, IInv, TypeOK
<1>2. InTime' /\ Stages' /\ Running'
  BY <1>1 DEF IInv, InTime, Stages, Running, appVars
<1>3. CASE UNCHANGED animVars
  <2>1. TypeOK'
    BY <1>1, <1>3 DEF Deliver, IInv, TypeOK, appVars, animVars
  <2>2. RedHasTimer'
    BY <1>1, <1>3 DEF IInv, RedHasTimer, animVars
  <2> QED
    BY <1>2, <2>1, <2>2 DEF IInv
<1>4. CASE m_socket[copy.to] = "open" /\ Alert(copy.to)
  <2> DEFINE timer == [node |-> copy.to, due |-> now + RevertDelay]
  <2>1. now <= StopTime
    BY <1>1, <1>4, TimesFacts DEF IInv, Stages, InTime, TypeOK, Times
  <2>2. timer.due \in Times /\ timer.due \in now..(now + Second \div 2)
    BY <2>1, TimesFacts DEF Times, IInv, TypeOK
  <2>3. TypeOK'
    BY <1>1, <1>4, <2>2 DEF Deliver, Alert, IInv, TypeOK, appVars
  <2>4. RedHasTimer'
    <3> SUFFICES ASSUME NEW n \in Nodes, colour'[n] = "red"
                 PROVE  \E t \in reverts' : t.node = n /\ t.due \in now'..(now' + Second \div 2)
      BY DEF RedHasTimer
    <3>1. CASE n = copy.to
      BY <1>1, <1>4, <2>2, <3>1 DEF Alert
    <3>2. CASE n # copy.to
      BY <1>1, <1>4, <3>2 DEF Alert, IInv, TypeOK, RedHasTimer
    <3> QED
      BY <3>1, <3>2
  <2> QED
    BY <1>2, <2>3, <2>4 DEF IInv
<1> QED
  BY <1>3, <1>4 DEF Deliver, ReceivePacket

LEMMA LoseInv == ASSUME IInv, NEW copy \in air, Lose(copy) PROVE IInv'
BY DEF Lose, IInv, TypeOK, InTime, Stages, Running, RedHasTimer, appVars, animVars

LEMMA RevertInv == ASSUME IInv, NEW timer \in reverts, Revert(timer) PROVE IInv'
<1>1. timer.node \in Nodes /\ UNCHANGED <<now, finished, toStart, toStop, air, appVars>>
  BY DEF Revert, IInv, TypeOK
<1>2. TypeOK'
  BY <1>1 DEF Revert, IInv, TypeOK, appVars
<1>3. InTime' /\ Stages' /\ Running'
  BY <1>1 DEF IInv, InTime, Stages, Running, appVars
<1>4. RedHasTimer'
  BY <1>1 DEF Revert, IInv, TypeOK, RedHasTimer
<1> QED
  BY <1>2, <1>3, <1>4 DEF IInv

(* Time passes over no pending event, so what was due is due still.        *)
LEMMA TickInv == ASSUME IInv, Tick PROVE IInv'
<1>1. /\ now \in Nat /\ now' = now + 1 /\ now + 1 \in Times
      /\ UNCHANGED <<finished, toStart, toStop, air, appVars, animVars>>
  BY TimesFacts DEF Tick, NothingDue, IInv, TypeOK, Times
<1>2. TypeOK'
  BY <1>1 DEF IInv, TypeOK, appVars, animVars
<1>3. InTime'
  BY <1>1, TimesFacts DEF Tick, NothingDue, IInv, InTime
<1>4. Stages'
  <2>1. \A n \in Nodes : m_sendEvent[n] # now /\ m_sendEvent[n] \in Int
    BY DEF Tick, NothingDue, IInv, TypeOK, Times, None
  <2>2. \A n \in Nodes : m_sendEvent[n] >= now => m_sendEvent[n] >= now'
    BY <1>1, <2>1
  <2> QED
    BY <1>1, <2>2 DEF IInv, Stages, appVars
<1>5. Running'
  BY <1>1 DEF IInv, Running, appVars
<1>6. RedHasTimer'
  <2> SUFFICES ASSUME NEW n \in Nodes, colour[n] = "red"
               PROVE  \E t \in reverts : t.node = n /\ t.due \in now'..(now' + Second \div 2)
    BY <1>1 DEF RedHasTimer, animVars
  <2>1. PICK t \in reverts : t.node = n /\ t.due \in now..(now + Second \div 2)
    BY DEF IInv, RedHasTimer
  <2>2. t.due # now
    BY DEF Tick, NothingDue
  <2> QED
    BY <1>1, <2>1, <2>2, TimesFacts
<1> QED
  BY <1>2, <1>3, <1>4, <1>5, <1>6 DEF IInv

LEMMA StopsInv == ASSUME IInv, SimulationStops \/ UNCHANGED vars PROVE IInv'
BY DEF SimulationStops, IInv, TypeOK, InTime, Stages, Running, RedHasTimer, vars, appVars,
       animVars

LEMMA NextInv == ASSUME IInv, [Next]_vars PROVE IInv'
BY StartInv, StopInv, SendInv, DeliverInv, LoseInv, RevertInv, TickInv, StopsInv DEF Next

-----------------------------------------------------------------------------
(* The theorems.                                                           *)

LEMMA Invariance == Spec => []IInv
<1> QED
  BY InitInv, NextInv, PTL DEF Spec

(* Every reachable state has its type: no timer and no transmission is due *)
(* after the end of the simulation.                                        *)
THEOREM TypeCorrect == Spec => []TypeOK
<1>1. IInv => TypeOK
  BY DEF IInv
<1> QED
  BY <1>1, Invariance, PTL

(* A vehicle has a transmission pending exactly while it runs.             *)
THEOREM SendLoopCorrect == Spec => []SendLoopAlive
<1>1. IInv => SendLoopAlive
  BY DEF IInv, Stages, Running, SendLoopAlive
<1> QED
  BY <1>1, Invariance, PTL

(* A red vehicle has a timer that is due within half a second.             *)
THEOREM RedCorrect == Spec => []RedHasTimer
<1>1. IInv => RedHasTimer
  BY DEF IInv
<1> QED
  BY <1>1, Invariance, PTL

(* No vehicle sends before its start or after its stop.                    *)
THEOREM OpenSocketCorrect == Spec => SendsThroughOpenSocket
<1>1. ASSUME IInv, [Next]_vars PROVE [\A copy \in air' \ air : m_socket[copy.from] = "open"]_vars
  <2> SUFFICES ASSUME Next, NEW copy \in air' \ air PROVE m_socket[copy.from] = "open"
    BY <1>1
  <2>1. PICK n \in Nodes : SendPacket(n)
    BY DEF Next, StartApplication, StopApplication, Deliver, Lose, Revert, SimulationStops, Tick
  <2>2. copy.from = n
    BY <2>1 DEF SendPacket, SendTo
  <2> QED
    BY <1>1, <2>1, <2>2, SenderRuns
<1> QED
  BY <1>1, Invariance, PTL DEF Spec, SendsThroughOpenSocket
=============================================================================
