----------------------------- MODULE EventList ------------------------------
(***************************************************************************)
(* The contract of ns3::Scheduler (core/model/scheduler.h): a container of *)
(* events that gives back its earliest event, and drops an event on demand. *)
(***************************************************************************)
EXTENDS EventKey

VARIABLES
  pending,   \* the events held
  dropped    \* the events taken out with Remove

listVars == <<pending, dropped>>

ListInit == pending = {} /\ dropped = {}

Insert(e) ==
  /\ e \notin pending \union dropped
  /\ pending' = pending \union {e}
  /\ UNCHANGED dropped

Remove(e) ==
  /\ pending' = pending \ {e}
  /\ dropped' = dropped \union {e}

TakeOut(e) ==
  /\ pending' = pending \ {e}
  /\ UNCHANGED dropped

(* The earliest event comes back.  The heap keeps this promise until the   *)
(* first Remove; from then on it is a pool that loses, invents and doubles *)
(* nothing but gives its events back in any order.                         *)
RemoveNext(e) == (dropped = {} => IsFirst(e, pending)) /\ TakeOut(e)

ListNext ==
  \/ \E e \in pending' \ pending : Insert(e)
  \/ \E e \in pending : RemoveNext(e) \/ Remove(e)

ListSpec == ListInit /\ [][ListNext]_listVars
=============================================================================
