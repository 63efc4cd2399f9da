----------------------------- MODULE EventLoop ------------------------------
(***************************************************************************)
(* What the ns-3 simulator promises its users (core/model/simulator.h): a  *)
(* set of planned events, a virtual clock, and one event run at a time,    *)
(* the earliest first and, among events of one instant, in the order in    *)
(* which they were planned.  An event withdrawn before it ran never runs.  *)
(* The module says nothing of how events are queued, numbered, flagged or  *)
(* handed over by other threads; DefaultSimulator implements it.           *)
(***************************************************************************)
EXTENDS Integers

VARIABLES
  planned,   \* the events to come: records [ts, ev], ev numbering them in order
  now,       \* the virtual clock
  ran        \* the numbers of the events run so far

loopVars == <<planned, now, ran>>

LoopInit ==
  /\ planned = {}
  /\ now = 0
  /\ ran = {}

(* Plan more events, none in the past, each later in the order than every  *)
(* event planned before it, and none of them one that already ran.         *)
Plan ==
  /\ planned \subseteq planned'
  /\ \A e \in planned' \ planned :
       /\ e.ts >= now
       /\ e.ev \notin ran
       /\ \A f \in planned : f.ev < e.ev
  /\ UNCHANGED <<now, ran>>

(* Withdraw a planned event: it is as if it had never been planned. *)
Withdraw(e) ==
  /\ planned' = planned \ {e}
  /\ UNCHANGED <<now, ran>>

Precedes(a, b) == a.ts < b.ts \/ (a.ts = b.ts /\ a.ev < b.ev)

(* Run the first planned event; the clock moves to its time. *)
Perform(e) ==
  /\ \A f \in planned \ {e} : Precedes(e, f)
  /\ e.ts >= now
  /\ e.ev \notin ran
  /\ planned' = planned \ {e}
  /\ now' = e.ts
  /\ ran' = ran \union {e.ev}

(* The clock may pass over an instant at which only withdrawn events were  *)
(* due, never over a planned one.                                          *)
Pass ==
  /\ now' >= now
  /\ \A f \in planned : now' <= f.ts
  /\ UNCHANGED <<planned, ran>>

(* The end of the simulation forgets what was still planned. *)
Forget ==
  /\ planned' = {}
  /\ UNCHANGED <<now, ran>>

LoopNext ==
  \/ Plan
  \/ \E e \in planned : Withdraw(e) \/ Perform(e)
  \/ Pass
  \/ Forget

LoopSpec == LoopInit /\ [][LoopNext]_loopVars
=============================================================================
