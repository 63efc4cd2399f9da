------------------------------ MODULE EventKey ------------------------------
(***************************************************************************)
(* The order in which ns-3 runs events.  A Scheduler::Event is a record    *)
(* [ts, uid, ev]: its time stamp, its unique id and the EventImpl it runs. *)
(* Contexts never take part in an ordering decision and are left out.      *)
(***************************************************************************)
EXTENDS Integers

(* The reserved values of EventId::UID; the first uid of a real event is   *)
(* VALID, and a "destroy" event carries DESTROY instead of a uid.          *)
INVALID == 0
DESTROY == 2
VALID   == 4

BeforeByTime(a, b) == a.ts < b.ts   \* slip: the uid does not break ties
(* operator< of EventKey: by time stamp, then by uid. *)
Before(a, b) == a.ts < b.ts \/ (a.ts = b.ts /\ a.uid < b.uid)

(* Two keys are the same for an ordered container when neither is less. *)
SameKey(a, b) == a.ts = b.ts /\ a.uid = b.uid

(* e is an earliest event of S. *)
IsFirst(e, S) == e \in S /\ \A f \in S : ~Before(f, e)
=============================================================================
