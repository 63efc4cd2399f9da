--------------------------- MODULE HeapScheduler ----------------------------
(***************************************************************************)
(* ns3::HeapScheduler: the event list as a binary heap in a vector.  Each  *)
(* iteration of the loops of BottomUp and TopDown is a step, so the heap is *)
(* seen while an event is on its way.  m_heap omits the unused element 0   *)
(* of the vector: index 1 is the root, as in the code, and Last is Len.    *)
(***************************************************************************)
EXTENDS EventKey, Sequences, FiniteSets
F == INSTANCE Functions

CONSTANTS
  Stamps,      \* the time stamps events are inserted with
  MaxInserts,  \* bound: events ever inserted
  MaxRemoves   \* bound: calls of Remove

ASSUME StampsAssumption == Stamps \subseteq Nat
ASSUME BoundsAssumption == MaxInserts \in Nat /\ MaxRemoves \in Nat

VARIABLES
  pc,       \* ready, bottomUp or topDown: the loop being executed
  m_heap,   \* the vector from its element 1 on
  index,    \* the local of BottomUp and TopDown
  inserted, \* events inserted so far; the next uid
  dropped   \* history: the events taken out by Remove

vars == <<pc, m_heap, index, inserted, dropped>>

Events == [ts : Stamps, uid : Nat, ev : Nat]

Init ==
  /\ pc = "ready"
  /\ m_heap = <<>>
  /\ index = 0
  /\ inserted = 0
  /\ dropped = {}

Root == 1
Last == Len(m_heap)
Parent(id) == id \div 2
LeftChild(id) == 2 * id
RightChild(id) == 2 * id + 1
IsBottom(id) == id > Last

Exch(a, b) == [m_heap EXCEPT ![a] = m_heap[b], ![b] = m_heap[a]]
IsLessStrictly(a, b) == Before(m_heap[a], m_heap[b])
Smallest(a, b) == IF IsLessStrictly(a, b) THEN a ELSE b

(* pop_back after Exch(id, Last). *)
PopExch(id) == SubSeq(Exch(id, Last), 1, Last - 1)

Insert(ts) ==
  /\ pc = "ready"
  /\ inserted < MaxInserts
  /\ m_heap' = Append(m_heap, [ts |-> ts, uid |-> inserted, ev |-> inserted])
  /\ inserted' = inserted + 1
  /\ pc' = "bottomUp"
  /\ index' = Last + 1
  /\ UNCHANGED dropped

BottomUpOnce ==   \* slip: the event climbs one level at most
  /\ pc = "bottomUp"
  /\ IF index # Root /\ IsLessStrictly(index, Parent(index))
     THEN m_heap' = Exch(index, Parent(index))
     ELSE UNCHANGED m_heap
  /\ pc' = "ready"
  /\ UNCHANGED <<index, inserted, dropped>>
BottomUp ==
  /\ pc = "bottomUp"
  /\ IF index # Root /\ IsLessStrictly(index, Parent(index))
     THEN /\ m_heap' = Exch(index, Parent(index))
          /\ index' = Parent(index)
          /\ UNCHANGED pc
     ELSE pc' = "ready" /\ UNCHANGED <<m_heap, index>>
  /\ UNCHANGED <<inserted, dropped>>

RemoveNext ==
  /\ pc = "ready"
  /\ m_heap # <<>>
  /\ m_heap' = PopExch(Root)
  /\ pc' = "topDown"
  /\ index' = Root
  /\ UNCHANGED <<inserted, dropped>>

(* Remove finds the event by its uid, fills its place with the last event  *)
(* and moves that one down from there.                                     *)
RemoveLast(id) ==   \* slip: pop_back without the exchange
  /\ pc = "ready"
  /\ Cardinality(dropped) < MaxRemoves
  /\ m_heap' = SubSeq(m_heap, 1, Last - 1)
  /\ dropped' = dropped \union {m_heap[id]}
  /\ pc' = "topDown"
  /\ index' = id
  /\ UNCHANGED inserted
Remove(id) ==
  /\ pc = "ready"
  /\ Cardinality(dropped) < MaxRemoves
  /\ m_heap' = PopExch(id)
  /\ dropped' = dropped \union {m_heap[id]}
  /\ pc' = "topDown"
  /\ index' = id
  /\ UNCHANGED inserted

(* Two children: go down with the smallest of the two, or stop.            *)
TopDownBoth ==
  LET tmp == Smallest(LeftChild(index), RightChild(index))
  IN  /\ pc = "topDown"
      /\ ~IsBottom(RightChild(index))
      /\ IF IsLessStrictly(index, tmp)
         THEN pc' = "ready" /\ UNCHANGED <<m_heap, index>>
         ELSE m_heap' = Exch(index, tmp) /\ index' = tmp /\ UNCHANGED pc
      /\ UNCHANGED <<inserted, dropped>>

(* After the loop: at most a left child is left to compare with.           *)
TopDownLast ==
  /\ pc = "topDown"
  /\ IsBottom(RightChild(index))
  /\ pc' = "ready"
  /\ m_heap' = IF IsBottom(LeftChild(index)) \/ IsLessStrictly(index, LeftChild(index))
               THEN m_heap
               ELSE Exch(index, LeftChild(index))
  /\ UNCHANGED <<index, inserted, dropped>>

Next ==
  \/ \E ts \in Stamps : Insert(ts)
  \/ BottomUp
  \/ RemoveNext
  \/ \E id \in DOMAIN m_heap : Remove(id)
  \/ TopDownBoth
  \/ TopDownLast

Spec == Init /\ [][Next]_vars
-----------------------------------------------------------------------------
(* Properties.                                                             *)

TypeOK ==
  /\ pc \in {"ready", "bottomUp", "topDown"}
  /\ m_heap \in Seq(Events)
  /\ index \in 0..(Last + 1)
  /\ inserted \in 0..MaxInserts
  /\ dropped \subseteq Events

(* Ordered(i): the event at i is no earlier than its parent. *)
Ordered(i) == ~IsLessStrictly(i, Parent(i))

(* Until the first Remove, every event is no earlier than its parent       *)
(* whenever no operation is under way, so the root is an earliest event.   *)
HeapOrdered == pc = "ready" /\ dropped = {} => \A i \in 2..Last : Ordered(i)

(* The children of the event on its way are in order with its parent.     *)
SkipOrdered ==
  index # Root => \A i \in 2..Last : Parent(i) = index => ~IsLessStrictly(i, Parent(index))

(* While an event climbs, only it can be before its parent.                *)
ClimbInv ==
  pc = "bottomUp" /\ dropped = {} => /\ \A i \in 2..Last : i # index => Ordered(i)
                                     /\ SkipOrdered

(* While an event goes down, only its children can be before their parent. *)
SinkInv ==
  pc = "topDown" /\ dropped = {} => /\ \A i \in 2..Last : Parent(i) # index => Ordered(i)
                                    /\ SkipOrdered

(* The loops stay inside the vector, TopDown perhaps one past its end.     *)
IndexInHeap ==
  /\ pc = "bottomUp" => index \in 1..Last
  /\ pc = "topDown" => index # 0

(* The uids of the events in the heap are different numbers of events      *)
(* inserted so far, as are those of the events taken out.                   *)
Numbered ==
  /\ \A i \in 1..Last : m_heap[i].uid < inserted
  /\ \A i, j \in 1..Last : m_heap[i].uid = m_heap[j].uid => i = j
  /\ \A e \in dropped : e.uid < inserted

(* The inductive invariant behind HeapOrdered and ImplementsList.          *)
HeapInv == TypeOK /\ HeapOrdered /\ ClimbInv /\ SinkInv /\ IndexInHeap /\ Numbered

(* The heap implements an event list: no event is lost or given back twice *)
(* on its way through the vector, and until the first Remove RemoveNext    *)
(* gives back an earliest event.                                           *)
List == INSTANCE EventList WITH pending <- F!Range(m_heap)
ImplementsList == List!ListSpec

(* scheduler.h, RemoveNext: "Remove the earliest event from the event      *)
(* list."  Heap order is lost when Remove fills a hole with an event that  *)
(* is earlier than the hole's parent.                                      *)
EarliestRemoved ==
  [][RemoveNext => IsFirst(m_heap[Root], F!Range(m_heap))]_vars
=============================================================================
