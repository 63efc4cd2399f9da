----------------------------- MODULE VehicleApp -----------------------------
(***************************************************************************)
(* The VANET program (scratch/vanet-simulation.cc): vehicles broadcast     *)
(* messages at random intervals; a vehicle that receives an "IAM_SANBAO"   *)
(* message turns red in the animation, raises an alert, and is turned blue *)
(* again half a second later.                                              *)
(*                                                                         *)
(* Virtual time is counted in ticks, Second of them to a second.  Events   *)
(* due at one tick run in any order, which covers every order that times   *)
(* between two ticks can give them.                                        *)
(***************************************************************************)
EXTENDS Integers, FiniteSets

CONSTANTS
  Nodes,       \* the vehicles
  Sanbao,      \* those created with sendsSanbao
  ShouldSend,  \* those created with shouldSend
  Second,      \* ticks in a second
  SimTime,     \* simTime of main, in ticks
  MaxDelay     \* bound: ticks a broadcast may take to reach a vehicle

ASSUME NodesAssumption == Sanbao \subseteq Nodes /\ ShouldSend \subseteq Nodes
ASSUME TimesAssumption ==
  /\ Second \in Nat /\ Second > 1
  /\ Second % 2 = 0
  /\ SimTime \in Nat /\ SimTime > Second
  /\ MaxDelay \in Nat

VARIABLES
  now,          \* Simulator::Now
  finished,     \* Run has returned
  toStart,      \* vehicles whose start event is pending
  toStop,       \* vehicles whose stop event is pending
  m_running,
  m_sendEvent,  \* when the pending SendPacket is due, or None
  m_socket,     \* none, open or closed
  colour,       \* the colour of each vehicle in the animation
  reverts,      \* pending half-second timers: records [node, due]
  air           \* copies of broadcasts on their way: records [from, to, sent]

appVars == <<m_running, m_sendEvent, m_socket>>
animVars == <<colour, reverts>>
vars == <<now, finished, toStart, toStop, air, appVars, animVars>>

None == -1

Init ==
  /\ now = 0
  /\ finished = FALSE
  /\ toStart = Nodes
  /\ toStop = Nodes
  /\ m_running = [n \in Nodes |-> FALSE]
  /\ m_sendEvent = [n \in Nodes |-> None]
  /\ m_socket = [n \in Nodes |-> "none"]
  /\ colour = [n \in Nodes |-> "blue"]
  /\ reverts = {}
  /\ air = {}

StartTime == Second
StopTime == SimTime
EndWithApps == SimTime   \* slip: the simulation stops with the applications
EndTime == SimTime + Second

(* The next transmission comes after a random part of a second.  A delay   *)
(* that rounds to no tick at all is left out.                              *)
TxDelays == 1..(Second - 1)

ScheduleTx(n) == \E d \in TxDelays : m_sendEvent' = [m_sendEvent EXCEPT ![n] = now + d]

StartApplication(n) ==
  /\ n \in toStart /\ now = StartTime
  /\ toStart' = toStart \ {n}
  /\ m_running' = [m_running EXCEPT ![n] = TRUE]
  /\ m_socket' = [m_socket EXCEPT ![n] = "open"]
  /\ ScheduleTx(n)
  /\ UNCHANGED <<now, finished, toStop, air, animVars>>

(* Cancel the pending transmission and close the socket. *)
StopLeavingEvent(n) ==   \* slip: the pending transmission is not cancelled
  /\ n \in toStop /\ now = StopTime
  /\ toStop' = toStop \ {n}
  /\ m_running' = [m_running EXCEPT ![n] = FALSE]
  /\ m_socket' = [m_socket EXCEPT ![n] = "closed"]
  /\ UNCHANGED <<now, finished, toStart, air, m_sendEvent, animVars>>
StopApplication(n) ==
  /\ n \in toStop /\ now = StopTime
  /\ toStop' = toStop \ {n}
  /\ m_running' = [m_running EXCEPT ![n] = FALSE]
  /\ m_sendEvent' = [m_sendEvent EXCEPT ![n] = None]
  /\ m_socket' = [m_socket EXCEPT ![n] = "closed"]
  /\ UNCHANGED <<now, finished, toStart, air, animVars>>

(* SendTo hands the medium a copy for each vehicle, its own included.      *)
SendTo(n) == air' = air \union {[from |-> n, to |-> m, sent |-> now] : m \in Nodes}

(* After its event has run, m_sendEvent is set again only by ScheduleTx. *)
Reschedule(n) ==
  IF m_running[n]
  THEN ScheduleTx(n)
  ELSE m_sendEvent' = [m_sendEvent EXCEPT ![n] = None]

SendPacketOrRest(n) ==   \* slip: a vehicle that should not send gives up
  /\ m_sendEvent[n] = now
  /\ IF n \in ShouldSend
     THEN SendTo(n) /\ Reschedule(n)
     ELSE m_sendEvent' = [m_sendEvent EXCEPT ![n] = None] /\ UNCHANGED air
  /\ UNCHANGED <<now, finished, toStart, toStop, m_running, m_socket, animVars>>
SendPacket(n) ==
  /\ m_sendEvent[n] = now
  /\ IF n \in ShouldSend THEN SendTo(n) ELSE UNCHANGED air
  /\ Reschedule(n)
  /\ UNCHANGED <<now, finished, toStart, toStop, m_running, m_socket, animVars>>

-----------------------------------------------------------------------------
(* Reception.                                                              *)

LateRevert == 2 * Second   \* slip: two seconds instead of half of one
RevertDelay == Second \div 2

(* Turn red and start the timer that turns the vehicle blue; the timers of *)
(* one vehicle that are due together have the effect of one.               *)
AlertWithoutTimer(n) ==   \* slip: nothing turns the vehicle blue again
  /\ colour' = [colour EXCEPT ![n] = "red"]
  /\ UNCHANGED reverts
Alert(n) ==
  /\ colour' = [colour EXCEPT ![n] = "red"]
  /\ reverts' = reverts \union {[node |-> n, due |-> now + RevertDelay]}

(* ReceivePacket reacts to a Sanbao message of another vehicle only.       *)
ReceivePacket(copy) ==
  /\ IF copy.from # copy.to /\ copy.from \in Sanbao
     THEN Alert(copy.to)
     ELSE UNCHANGED animVars

(* The medium brings a copy to its vehicle; a socket that is not open      *)
(* has no endpoint for it.                                                 *)
Deliver(copy) ==
  /\ air' = air \ {copy}
  /\ IF m_socket[copy.to] = "open" THEN ReceivePacket(copy) ELSE UNCHANGED animVars
  /\ UNCHANGED <<now, finished, toStart, toStop, appVars>>

(* ... or loses it. *)
Lose(copy) ==
  /\ air' = air \ {copy}
  /\ UNCHANGED <<now, finished, toStart, toStop, appVars, animVars>>

(* The timer turns the vehicle blue, whatever happened since.              *)
Revert(timer) ==
  /\ timer.due = now
  /\ reverts' = reverts \ {timer}
  /\ colour' = [colour EXCEPT ![timer.node] = "blue"]
  /\ UNCHANGED <<now, finished, toStart, toStop, air, appVars>>

-----------------------------------------------------------------------------
(* The simulator: Stop ends the run, and time passes when nothing is due.  *)

SimulationStops ==
  /\ now = EndTime
  /\ finished' = TRUE
  /\ UNCHANGED <<now, toStart, toStop, air, appVars, animVars>>

NothingDue ==
  /\ now = StartTime => toStart = {}
  /\ now = StopTime => toStop = {}
  /\ now # EndTime
  /\ \A n \in Nodes : m_sendEvent[n] # now
  /\ \A timer \in reverts : timer.due # now
  /\ \A copy \in air : copy.sent + MaxDelay > now

Tick ==
  /\ NothingDue
  /\ now' = now + 1
  /\ UNCHANGED <<finished, toStart, toStop, air, appVars, animVars>>

Next ==
  /\ ~finished
  /\ \/ \E n \in Nodes : StartApplication(n) \/ StopApplication(n) \/ SendPacket(n)
     \/ \E copy \in air : Deliver(copy) \/ Lose(copy)
     \/ \E timer \in reverts : Revert(timer)
     \/ SimulationStops
     \/ Tick

(* Run's loop goes on as long as there are events.                         *)
Spec == Init /\ [][Next]_vars /\ WF_vars(Next)

-----------------------------------------------------------------------------
(* Properties.                                                             *)

Times == 0..EndTime

TypeOK ==
  /\ now \in Times
  /\ finished \in BOOLEAN
  /\ toStart \subseteq Nodes /\ toStop \subseteq Nodes
  /\ m_running \in [Nodes -> BOOLEAN]
  /\ m_sendEvent \in [Nodes -> Times \union {None}]
  /\ m_socket \in [Nodes -> {"none", "open", "closed"}]
  /\ colour \in [Nodes -> {"blue", "red"}]
  /\ reverts \subseteq [node : Nodes, due : Times]
  /\ air \subseteq [from : Nodes, to : Nodes, sent : Times]

(* The transmission loop of a running vehicle never dies, and a stopped    *)
(* vehicle has no transmission pending.                                    *)
SendLoopAlive ==
  \A n \in Nodes : /\ m_running[n] <=> m_sendEvent[n] # None
                   /\ m_running[n] => m_sendEvent[n] >= now

(* Nothing is sent through a socket that is not open: no SendPacket        *)
(* outlives the StopApplication that closed its socket.                    *)
SendsThroughOpenSocket ==
  [][\A copy \in air' \ air : m_socket[copy.from] = "open"]_vars

(* A red vehicle has a timer that will turn it blue within half a second,  *)
(* however many alerts and timers overlap.                                 *)
RedHasTimer ==
  \A n \in Nodes : colour[n] = "red" =>
    \E timer \in reverts : timer.node = n /\ timer.due \in now..(now + Second \div 2)

(* Every alert is over at some point: the second between the stop of the   *)
(* applications and the end of the simulation is enough for the last       *)
(* timers, and no vehicle stays red.                                       *)
RedTurnsBlue == \A n \in Nodes : colour[n] = "red" ~> colour[n] = "blue"
=============================================================================
