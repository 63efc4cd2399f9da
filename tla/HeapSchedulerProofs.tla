------------------------ MODULE HeapSchedulerProofs -------------------------
(***************************************************************************)
(* Proofs about HeapScheduler: for any time stamps and any number of       *)
(* events and removals, HeapInv is an inductive invariant and the heap     *)
(* implements the event list of EventList.  Shape is what holds whatever   *)
(* is called; heap order holds until the first call of Remove.             *)
(***************************************************************************)
EXTENDS HeapScheduler, FiniteSetTheorems, SequenceTheorems, WellFoundedInduction, TLAPS

Shape == TypeOK /\ IndexInHeap /\ Numbered

(* Until the first Remove. *)
Inv == HeapInv /\ dropped = {}

-----------------------------------------------------------------------------
(* Lemmas on the order of events and on the vector.                        *)

LEMMA BeforeOrder ==
  ASSUME NEW a \in Events, NEW b \in Events, NEW c \in Events
  PROVE  /\ ~Before(a, a)
         /\ Before(a, b) => ~Before(b, a)
         /\ ~Before(a, b) /\ ~Before(b, c) => ~Before(a, c)
<1>1. \A e \in Events : e.ts \in Nat /\ e.uid \in Nat
  BY StampsAssumption DEF Events
<1> QED
  BY <1>1 DEF Before

LEMMA HeapElements ==
  ASSUME TypeOK
  PROVE  /\ Last \in Nat
         /\ DOMAIN m_heap = 1..Last
         /\ \A i \in 1..Last : m_heap[i] \in Events
BY LenProperties, ElementOfSeq DEF TypeOK, Last

LEMMA ParentIsAbove ==
  ASSUME NEW i \in Nat, i >= 2
  PROVE  Parent(i) \in Nat /\ Parent(i) >= 1 /\ Parent(i) < i
BY DEF Parent

LEMMA ExchElements ==
  ASSUME TypeOK, NEW a \in 1..Last, NEW b \in 1..Last
  PROVE  /\ Exch(a, b) \in Seq(Events)
         /\ Len(Exch(a, b)) = Last
         /\ \A i \in 1..Last : Exch(a, b)[i] = IF i = b THEN m_heap[a]
                                               ELSE IF i = a THEN m_heap[b] ELSE m_heap[i]
<1> DEFINE h == [m_heap EXCEPT ![a] = m_heap[b]]
<1>1. m_heap \in Seq(Events) /\ m_heap[a] \in Events /\ m_heap[b] \in Events
  BY HeapElements DEF TypeOK
<1>2. /\ h \in Seq(Events)
      /\ Len(h) = Last
      /\ \A i \in 1..Last : h[i] = IF i = a THEN m_heap[b] ELSE m_heap[i]
  BY <1>1, ExceptSeq DEF Last
<1>3. Exch(a, b) = [h EXCEPT ![b] = m_heap[a]]
  BY DEF Exch
<1> HIDE DEF h
<1>4. /\ [h EXCEPT ![b] = m_heap[a]] \in Seq(Events)
      /\ Len([h EXCEPT ![b] = m_heap[a]]) = Last
      /\ \A i \in 1..Last : [h EXCEPT ![b] = m_heap[a]][i] = IF i = b THEN m_heap[a] ELSE h[i]
  BY <1>1, <1>2, ExceptSeq
<1> QED
  BY <1>2, <1>3, <1>4

LEMMA PopElements ==
  ASSUME TypeOK, NEW id \in 1..Last
  PROVE  /\ Last \in Nat /\ Last >= 1
         /\ PopExch(id) \in Seq(Events)
         /\ Len(PopExch(id)) = Last - 1
         /\ \A i \in 1..(Last - 1) : PopExch(id)[i] = m_heap[IF i = id THEN Last ELSE i]
<1>1. Last \in Nat /\ Last >= 1
  BY HeapElements
<1> DEFINE h == Exch(id, Last)
<1>2. /\ h \in Seq(Events)
      /\ Len(h) = Last
      /\ \A i \in 1..Last : h[i] = IF i = Last THEN m_heap[id]
                                   ELSE IF i = id THEN m_heap[Last] ELSE m_heap[i]
  BY <1>1, ExchElements
<1>3. PopExch(id) = SubSeq(h, 1, Last - 1)
  BY DEF PopExch
<1> HIDE DEF h
<1>4. \A i \in 1..(Last - 1) : h[i] \in Events
  BY <1>1, <1>2, ElementOfSeq
<1>5. /\ SubSeq(h, 1, Last - 1) \in Seq(Events)
      /\ Len(SubSeq(h, 1, Last - 1)) = IF 1 <= Last - 1 THEN (Last - 1) - 1 + 1 ELSE 0
      /\ \A i \in 1..((Last - 1) - 1 + 1) : SubSeq(h, 1, Last - 1)[i] = h[1 + i - 1]
  BY <1>1, <1>4, SubSeqProperties
<1>6. Len(SubSeq(h, 1, Last - 1)) = Last - 1
  BY <1>1, <1>5
<1>7. \A i \in 1..(Last - 1) : SubSeq(h, 1, Last - 1)[i] = h[i]
  BY <1>1, <1>5
<1>8. \A i \in 1..(Last - 1) : h[i] = m_heap[IF i = id THEN Last ELSE i]
  BY <1>1, <1>2
<1> QED
  BY <1>1, <1>3, <1>5, <1>6, <1>7, <1>8

LEMMA NotEmpty ==
  ASSUME TypeOK, m_heap # <<>>
  PROVE  Root \in 1..Last
<1>1. Last \in Nat /\ Last # 0
  BY EmptySeq DEF TypeOK, Last
<1> QED
  BY <1>1 DEF Root

-----------------------------------------------------------------------------
(* The steps.                                                              *)

LEMMA InitInv == Init => Inv
<1> SUFFICES ASSUME Init PROVE Inv
  OBVIOUS
<1>1. m_heap \in Seq(Events) /\ Last = 0
  BY EmptySeq DEF Init, Last
<1> QED
  BY <1>1, BoundsAssumption
     DEF Init, Inv, HeapInv, TypeOK, HeapOrdered, ClimbInv, SinkInv, IndexInHeap, Numbered

(* First the shape of the vector, whatever has been removed from it.       *)

LEMMA InsertShape ==
  ASSUME Shape, NEW ts \in Stamps, Insert(ts)
  PROVE  /\ Shape'
         /\ Last' = Last + 1
         /\ \A i \in 1..Last : m_heap'[i] = m_heap[i]
<1> DEFINE e == [ts |-> ts, uid |-> inserted, ev |-> inserted]
<1>1. TypeOK /\ Numbered
  BY DEF Shape
<1>2. e \in Events /\ inserted \in Nat /\ inserted + 1 \in 0..MaxInserts
  BY <1>1, BoundsAssumption DEF TypeOK, Events, Insert
<1>3. /\ m_heap' \in Seq(Events)
      /\ Last' = Last + 1
      /\ \A i \in 1..Last : m_heap'[i] = m_heap[i]
      /\ m_heap'[Last + 1] = e
  BY <1>1, <1>2, AppendProperties DEF TypeOK, Insert, Last
<1>4. e.uid = inserted
  OBVIOUS
<1> HIDE DEF e
<1>5. Last \in Nat /\ \A i \in 1..Last : m_heap[i].uid \in Nat
  BY <1>1, HeapElements DEF Events
<1>6. pc' = "bottomUp" /\ index' = Last + 1 /\ inserted' = inserted + 1 /\ dropped' = dropped
  BY DEF Insert
<1>7. TypeOK' /\ IndexInHeap'
  BY <1>1, <1>2, <1>3, <1>5, <1>6 DEF TypeOK, IndexInHeap
<1>8. Numbered'
  <2>1. \A i \in 1..Last : m_heap'[i].uid = m_heap[i].uid /\ m_heap[i].uid < inserted
    BY <1>1, <1>3 DEF Numbered
  <2>2. m_heap'[Last + 1].uid = inserted
    BY <1>3, <1>4
  <2>3. \A i \in 1..Last' : m_heap'[i].uid < inserted'
    BY <2>1, <2>2, <1>2, <1>3, <1>5, <1>6
  <2>4. ASSUME NEW i \in 1..Last', NEW j \in 1..Last', m_heap'[i].uid = m_heap'[j].uid
        PROVE  i = j
    <3>1. CASE i \in 1..Last /\ j \in 1..Last
      BY <3>1, <1>1, <2>1, <2>4 DEF Numbered
    <3>2. \A k \in 1..Last : m_heap'[k].uid < inserted /\ m_heap'[k].uid # inserted
      BY <2>1, <1>2, <1>5
    <3>3. CASE i = Last + 1 /\ j \in 1..Last
      BY <3>2, <3>3, <2>2, <2>4
    <3>4. CASE i \in 1..Last /\ j = Last + 1
      BY <3>2, <3>4, <2>2, <2>4
    <3> QED
      BY <3>1, <3>3, <3>4, <1>3, <1>5
  <2>5. \A d \in dropped : d.uid < inserted'
    <3>1. \A d \in dropped : d.uid \in Nat /\ d.uid < inserted
      BY <1>1 DEF TypeOK, Numbered, Events
    <3> QED
      BY <3>1, <1>2, <1>6
  <2> QED
    BY <2>3, <2>4, <2>5, <1>6 DEF Numbered
<1> QED
  BY <1>3, <1>7, <1>8 DEF Shape

(* An exchange leaves the numbering alone. *)
LEMMA ExchNumbered ==
  ASSUME TypeOK, Numbered, NEW a \in 1..Last, NEW b \in 1..Last,
         m_heap' = Exch(a, b), inserted' = inserted, dropped' = dropped
  PROVE  Numbered'
<1> DEFINE p(i) == IF i = b THEN a ELSE IF i = a THEN b ELSE i
<1>1. Last' = Last /\ \A i \in 1..Last : m_heap'[i] = m_heap[p(i)] /\ p(i) \in 1..Last
  BY ExchElements DEF Last
<1>2. \A i, j \in 1..Last : p(i) = p(j) => i = j
  OBVIOUS
<1> HIDE DEF p
<1> QED
  BY <1>1, <1>2 DEF Numbered

(* The last event takes the place of the one that leaves. *)
LEMMA PopShape ==
  ASSUME Shape, NEW id \in 1..Last, m_heap' = PopExch(id), index' = id, pc' = "topDown",
         inserted' = inserted, dropped' \in {dropped, dropped \union {m_heap[id]}}
  PROVE  Shape'
<1>1. TypeOK /\ Numbered
  BY DEF Shape
<1>2. /\ Last \in Nat /\ Last >= 1
      /\ m_heap' \in Seq(Events)
      /\ Last' = Last - 1
      /\ \A i \in 1..(Last - 1) : m_heap'[i] = m_heap[IF i = id THEN Last ELSE i]
  BY <1>1, PopElements DEF Last
<1>3. m_heap[id] \in Events /\ m_heap[id].uid < inserted
  BY <1>1, HeapElements DEF Numbered
<1>4. TypeOK' /\ IndexInHeap'
  BY <1>1, <1>2, <1>3 DEF TypeOK, IndexInHeap
<1>5. Numbered'
  <2> DEFINE p(i) == IF i = id THEN Last ELSE i
  <2>1. \A i \in 1..(Last - 1) : p(i) \in 1..Last /\ m_heap'[i] = m_heap[p(i)]
    BY <1>2
  <2>2. \A i, j \in 1..(Last - 1) : p(i) = p(j) => i = j
    BY <1>2
  <2> HIDE DEF p
  <2>3. \A i \in 1..Last' : m_heap'[i].uid < inserted'
    BY <1>1, <1>2, <2>1 DEF Numbered
  <2>4. \A i, j \in 1..Last' : m_heap'[i].uid = m_heap'[j].uid => i = j
    BY <1>1, <1>2, <2>1, <2>2 DEF Numbered
  <2>5. \A d \in dropped' : d.uid < inserted'
    BY <1>1, <1>3 DEF Numbered
  <2> QED
    BY <2>3, <2>4, <2>5 DEF Numbered
<1> QED
  BY <1>4, <1>5 DEF Shape

(* The two loops exchange events of the vector, or end. *)
LEMMA SiftSteps ==
  ASSUME Shape, BottomUp \/ TopDownBoth \/ TopDownLast
  PROVE  /\ UNCHANGED <<inserted, dropped>>
         /\ pc' \in {"ready", pc}
         /\ \/ m_heap' = m_heap /\ index' = index /\ pc' = "ready"
            \/ \E a, b \in 1..Last :
                 /\ m_heap' = Exch(a, b)
                 /\ index' \in {index, a, b}
                 /\ pc' = "ready" \/ index' \in {a, b}
<1>1. TypeOK /\ IndexInHeap /\ Last \in Nat
  BY HeapElements DEF Shape
<1>2. CASE BottomUp
  <2>1. index \in 1..Last
    BY <1>1, <1>2 DEF BottomUp, IndexInHeap
  <2>2. index # Root => Parent(index) \in 1..Last
    BY <2>1, <1>1, ParentIsAbove DEF Root
  <2> QED
    BY <1>2, <2>1, <2>2 DEF BottomUp
<1>3. CASE TopDownBoth
  <2>1. index \in Nat /\ index >= 1
    BY <1>1, <1>3 DEF TopDownBoth, TypeOK, IndexInHeap
  <2>2. index \in 1..Last /\ LeftChild(index) \in 1..Last /\ RightChild(index) \in 1..Last
    BY <1>3, <2>1, <1>1 DEF TopDownBoth, IsBottom, LeftChild, RightChild
  <2>3. Smallest(LeftChild(index), RightChild(index)) \in 1..Last
    BY <2>2 DEF Smallest
  <2> QED
    BY <1>3, <2>2, <2>3 DEF TopDownBoth
<1>4. CASE TopDownLast
  <2>1. index \in Nat /\ index >= 1
    BY <1>1, <1>4 DEF TopDownLast, TypeOK, IndexInHeap
  <2>2. ~IsBottom(LeftChild(index)) => index \in 1..Last /\ LeftChild(index) \in 1..Last
    BY <2>1, <1>1 DEF IsBottom, LeftChild
  <2> QED
    BY <1>4, <2>2 DEF TopDownLast
<1> QED
  BY <1>2, <1>3, <1>4

LEMMA SiftShape ==
  ASSUME Shape, BottomUp \/ TopDownBoth \/ TopDownLast
  PROVE  Shape'
<1>1. TypeOK /\ IndexInHeap /\ Numbered /\ Last \in Nat
  BY HeapElements DEF Shape
<1>2. UNCHANGED <<inserted, dropped>> /\ pc' \in {"ready", pc}
  BY SiftSteps
<1>3. CASE m_heap' = m_heap /\ index' = index /\ pc' = "ready"
  BY <1>1, <1>2, <1>3 DEF Shape, TypeOK, IndexInHeap, Numbered, Last
<1>4. ASSUME NEW a \in 1..Last, NEW b \in 1..Last, m_heap' = Exch(a, b),
             index' \in {index, a, b}, pc' = "ready" \/ index' \in {a, b}
      PROVE  Shape'
  <2>1. m_heap' \in Seq(Events) /\ Last' = Last
    BY <1>1, <1>4, ExchElements DEF Last
  <2>2. Numbered'
    BY <1>1, <1>2, <1>4, ExchNumbered
  <2> QED
    BY <1>1, <1>2, <1>4, <2>1, <2>2 DEF Shape, TypeOK, IndexInHeap
<1> QED
  BY <1>3, <1>4, SiftSteps

LEMMA NextShape == ASSUME Shape, [Next]_vars PROVE Shape'
<1>1. ASSUME RemoveNext PROVE Shape'
  <2>1. Root \in 1..Last
    BY <1>1, NotEmpty DEF Shape, RemoveNext
  <2> QED
    BY <1>1, <2>1, PopShape DEF RemoveNext
<1>2. ASSUME NEW id \in DOMAIN m_heap, Remove(id) PROVE Shape'
  <2>1. id \in 1..Last
    BY HeapElements DEF Shape
  <2> QED
    BY <1>2, <2>1, PopShape DEF Remove
<1>3. CASE UNCHANGED vars
  BY <1>3 DEF vars, Shape, TypeOK, IndexInHeap, Numbered, Last
<1> QED
  BY <1>1, <1>2, <1>3, InsertShape, SiftShape DEF Next

(* Then heap order, until the first Remove.                                *)

LEMMA InvShape == ASSUME Inv PROVE Shape /\ TypeOK /\ Numbered /\ dropped = {}
BY DEF Inv, HeapInv, Shape

LEMMA InsertInv == ASSUME Inv, NEW ts \in Stamps, Insert(ts) PROVE Inv'
<1>1. Shape /\ dropped = {} /\ Last \in Nat
  BY InvShape, HeapElements
<1>2. Shape' /\ Last' = Last + 1 /\ \A i \in 1..Last : m_heap'[i] = m_heap[i]
  BY <1>1, InsertShape
<1>3. pc' = "bottomUp" /\ index' = Last + 1 /\ dropped' = dropped
  BY DEF Insert
<1>4. \A i \in 2..Last : Ordered(i)
  BY DEF Inv, HeapInv, HeapOrdered, Insert
<1>5. ASSUME NEW i \in 2..Last', i # index'
      PROVE  Ordered(i)'
  <2>1. i \in 2..Last /\ Parent(i) \in 1..Last
    BY <1>5, <1>1, <1>2, <1>3, ParentIsAbove
  <2> QED
    BY <2>1, <1>2, <1>4 DEF Ordered, IsLessStrictly
<1>6. \A i \in 2..Last' : Parent(i) # index'
  BY <1>1, <1>2, <1>3, ParentIsAbove
<1>7. ClimbInv'
  BY <1>5, <1>6 DEF ClimbInv, SkipOrdered
<1> QED
  BY <1>1, <1>2, <1>3, <1>7 DEF Inv, HeapInv, HeapOrdered, SinkInv, Shape

LEMMA BottomUpInv == ASSUME Inv, BottomUp PROVE Inv'
<1>1. /\ TypeOK /\ dropped = {}
      /\ pc = "bottomUp"
      /\ index \in 1..Last
      /\ \A i \in 2..Last : i # index => Ordered(i)
      /\ SkipOrdered
  BY DEF Inv, HeapInv, ClimbInv, IndexInHeap, BottomUp
<1>2. Shape' /\ dropped' = dropped
  BY InvShape, SiftShape DEF BottomUp
<1>3. CASE ~(index # Root /\ IsLessStrictly(index, Parent(index)))
  <2>1. pc' = "ready" /\ m_heap' = m_heap /\ index' = index
    BY <1>3 DEF BottomUp
  <2>2. \A i \in 2..Last : Ordered(i)
    BY <1>1, <1>3 DEF Ordered, Root
  <2>3. HeapOrdered'
    BY <2>1, <2>2 DEF HeapOrdered, Ordered, IsLessStrictly, Last
  <2> QED
    BY <1>1, <1>2, <2>1, <2>3 DEF Inv, HeapInv, ClimbInv, SinkInv, Shape
<1>4. CASE index # Root /\ IsLessStrictly(index, Parent(index))
  <2> DEFINE p == Parent(index)
  <2>1. pc' = "bottomUp" /\ m_heap' = Exch(index, p) /\ index' = p
    BY <1>1, <1>4 DEF BottomUp
  <2>2. Last \in Nat /\ \A i \in 1..Last : m_heap[i] \in Events
    BY <1>1, HeapElements
  <2>3. index \in 2..Last /\ p \in 1..Last /\ p < index
    BY <1>1, <1>4, <2>2, ParentIsAbove DEF Root
  <2>4. /\ m_heap' \in Seq(Events)
        /\ Last' = Last
        /\ m_heap'[index] = m_heap[p]
        /\ m_heap'[p] = m_heap[index]
        /\ \A i \in 1..Last : i # index /\ i # p => m_heap'[i] = m_heap[i]
    BY <1>1, <2>1, <2>3, ExchElements DEF Last
  <2>5. Before(m_heap[index], m_heap[p])
    BY <1>4 DEF IsLessStrictly
  <2> HIDE DEF p
  <2>6. ASSUME NEW i \in 2..Last, i # p
        PROVE  ~Before(m_heap'[i], m_heap'[Parent(i)])
    <3>1. Parent(i) \in 1..Last /\ Parent(i) < i
      BY <2>2, ParentIsAbove
    <3>2. CASE i = index
      BY <3>2, <2>2, <2>3, <2>4, <2>5, BeforeOrder DEF p
    <3>3. CASE i # index /\ Parent(i) = p
      <4>1. ~Before(m_heap[i], m_heap[p])
        BY <1>1, <3>3 DEF Ordered, IsLessStrictly
      <4>2. ~Before(m_heap[p], m_heap[index])
        BY <2>2, <2>3, <2>5, BeforeOrder
      <4> QED
        BY <4>1, <4>2, <2>2, <2>3, <2>4, <2>6, <3>3, BeforeOrder
    <3>4. CASE Parent(i) = index
      <4>1. ~Before(m_heap[i], m_heap[p])
        BY <1>1, <1>4, <3>4 DEF SkipOrdered, IsLessStrictly, p
      <4>2. i # index
        BY <3>1, <3>4
      <4> QED
        BY <4>1, <4>2, <2>3, <2>4, <2>6, <3>4
    <3>5. CASE i # index /\ Parent(i) # p /\ Parent(i) # index
      BY <1>1, <2>3, <2>4, <2>6, <3>1, <3>5 DEF Ordered, IsLessStrictly
    <3> QED
      BY <3>2, <3>3, <3>4, <3>5
  <2>7. ASSUME NEW i \in 2..Last, Parent(i) = p, p # Root
        PROVE  ~Before(m_heap'[i], m_heap'[Parent(p)])
    <3>1. p \in 2..Last /\ Parent(p) \in 1..Last /\ Parent(p) < p
      BY <2>2, <2>3, <2>7, ParentIsAbove DEF Root
    <3>2. m_heap'[Parent(p)] = m_heap[Parent(p)]
      BY <2>3, <2>4, <3>1
    <3>3. ~Before(m_heap[p], m_heap[Parent(p)])
      BY <1>1, <2>3, <3>1 DEF Ordered, IsLessStrictly
    <3>4. CASE i = index
      BY <2>4, <3>2, <3>3, <3>4
    <3>5. CASE i # index
      <4>1. ~Before(m_heap[i], m_heap[p])
        BY <1>1, <2>7, <3>5 DEF Ordered, IsLessStrictly
      <4>2. i # p /\ i \in 1..Last
        BY <2>2, <2>7, ParentIsAbove
      <4> QED
        BY <4>1, <4>2, <2>2, <2>3, <2>4, <3>1, <3>2, <3>3, <3>5, BeforeOrder
    <3> QED
      BY <3>4, <3>5
  <2>8. ClimbInv'
    BY <2>1, <2>3, <2>4, <2>6, <2>7 DEF ClimbInv, SkipOrdered, Ordered, IsLessStrictly
  <2> QED
    BY <1>1, <1>2, <2>1, <2>8 DEF Inv, HeapInv, HeapOrdered, SinkInv, Shape
<1> QED
  BY <1>3, <1>4

LEMMA RemoveNextInv == ASSUME Inv, RemoveNext PROVE Inv'
<1>1. TypeOK /\ dropped = {} /\ m_heap # <<>> /\ \A i \in 2..Last : Ordered(i)
  BY DEF Inv, HeapInv, HeapOrdered, RemoveNext
<1>2. Shape'
  BY InvShape, NextShape DEF Next
<1>3. pc' = "topDown" /\ index' = Root /\ dropped' = dropped
  BY DEF RemoveNext
<1>4. /\ Last \in Nat
      /\ Last' = Last - 1
      /\ \A i \in 1..(Last - 1) : m_heap'[i] = m_heap[IF i = Root THEN Last ELSE i]
  BY <1>1, NotEmpty, PopElements DEF RemoveNext, Last
<1>5. \A i \in 2..(Last - 1) : m_heap'[i] = m_heap[i]
  BY <1>4 DEF Root
<1>6. ASSUME NEW i \in 2..Last', Parent(i) # Root
      PROVE  Ordered(i)'
  <2>1. i \in 2..(Last - 1) /\ Parent(i) \in 2..(Last - 1) /\ i \in 2..Last
    BY <1>4, <1>6, ParentIsAbove DEF Root
  <2> QED
    BY <2>1, <1>1, <1>5 DEF Ordered, IsLessStrictly
<1>7. SinkInv'
  BY <1>3, <1>6 DEF SinkInv, SkipOrdered, Root
<1> QED
  BY <1>1, <1>2, <1>3, <1>7 DEF Inv, HeapInv, HeapOrdered, ClimbInv, Shape

(* What holds while an event goes down.                                    *)
LEMMA Sinking ==
  ASSUME Inv, pc = "topDown"
  PROVE  /\ TypeOK /\ dropped = {}
         /\ Last \in Nat
         /\ index \in Nat /\ index >= 1
         /\ \A i \in 1..Last : m_heap[i] \in Events
         /\ \A i \in 2..Last : Parent(i) # index => Ordered(i)
         /\ SkipOrdered
<1>1. TypeOK /\ dropped = {}
  BY DEF Inv, HeapInv
<1>2. Last \in Nat /\ \A i \in 1..Last : m_heap[i] \in Events
  BY <1>1, HeapElements
<1> QED
  BY <1>1, <1>2 DEF Inv, HeapInv, SinkInv, IndexInHeap, TypeOK

(* The operation ends with every event in order.                           *)
LEMMA SinkStops ==
  ASSUME Inv, pc = "topDown", pc' = "ready", UNCHANGED <<m_heap, dropped>>, Shape',
         \A i \in 2..Last : Parent(i) = index => Ordered(i)
  PROVE  Inv'
<1>1. HeapOrdered'
  BY Sinking DEF HeapOrdered, Ordered, IsLessStrictly, Last
<1> QED
  BY <1>1, Sinking DEF Inv, HeapInv, ClimbInv, SinkInv, Shape

(* The event changes places with its earliest child tmp.                   *)
LEMMA SinkExchange ==
  ASSUME Inv, pc = "topDown",
         NEW tmp \in 2..Last, Parent(tmp) = index,
         ~IsLessStrictly(index, tmp),
         \A i \in 2..Last : Parent(i) = index => ~IsLessStrictly(i, tmp),
         m_heap' = Exch(index, tmp)
  PROVE  /\ Last' = Last
         /\ \A i \in 2..Last : Parent(i) # tmp => ~Before(m_heap'[i], m_heap'[Parent(i)])
         /\ \A i \in 2..Last : Parent(i) = tmp => ~Before(m_heap'[i], m_heap'[index])
<1>1. Last \in Nat /\ \A i \in 1..Last : m_heap[i] \in Events
  BY Sinking
<1>2. index \in 1..Last /\ index < tmp
  BY <1>1, ParentIsAbove
<1>3. /\ Last' = Last
      /\ m_heap'[index] = m_heap[tmp]
      /\ m_heap'[tmp] = m_heap[index]
      /\ \A i \in 1..Last : i # index /\ i # tmp => m_heap'[i] = m_heap[i]
  BY <1>1, <1>2, Sinking, ExchElements DEF Last
<1>5. ASSUME NEW i \in 2..Last, Parent(i) # tmp
      PROVE  ~Before(m_heap'[i], m_heap'[Parent(i)])
  <2>1. Parent(i) \in 1..Last /\ Parent(i) < i
    BY <1>1, ParentIsAbove
  <2>2. CASE i = tmp
    BY <2>2, <1>2, <1>3 DEF IsLessStrictly
  <2>3. CASE i # tmp /\ Parent(i) = index
    <3>1. i # index
      BY <2>1, <2>3
    <3> QED
      BY <3>1, <2>3, <1>3, <1>5 DEF IsLessStrictly
  <2>4. CASE i = index
    <3>1. Parent(i) # index /\ index # Root
      BY <2>1, <2>4 DEF Root
    <3>2. ~Before(m_heap[tmp], m_heap[Parent(index)])
      BY <3>1, Sinking DEF SkipOrdered, IsLessStrictly
    <3> QED
      BY <3>1, <3>2, <2>1, <2>4, <1>3, <1>5
  <2>5. CASE i # tmp /\ i # index /\ Parent(i) # index
    BY <2>1, <2>5, <1>3, <1>5, Sinking DEF Ordered, IsLessStrictly
  <2> QED
    BY <2>2, <2>3, <2>4, <2>5
<1>6. ASSUME NEW i \in 2..Last, Parent(i) = tmp
      PROVE  ~Before(m_heap'[i], m_heap'[index])
  <2>1. i # tmp /\ i # index /\ Parent(i) # index
    BY <1>1, <1>2, <1>6, ParentIsAbove
  <2> QED
    BY <2>1, <1>3, <1>6, Sinking DEF Ordered, IsLessStrictly
<1> QED
  BY <1>3, <1>5, <1>6

LEMMA TopDownBothInv == ASSUME Inv, TopDownBoth PROVE Inv'
<1> DEFINE tmp == Smallest(LeftChild(index), RightChild(index))
<1>1. pc = "topDown" /\ UNCHANGED dropped /\ Shape'
  BY InvShape, SiftShape DEF TopDownBoth
<1>2. Last \in Nat /\ index \in Nat /\ index >= 1 /\ \A i \in 1..Last : m_heap[i] \in Events
  BY <1>1, Sinking
<1>3. RightChild(index) <= Last /\ LeftChild(index) \in 2..Last /\ RightChild(index) \in 2..Last
  BY <1>2 DEF TopDownBoth, IsBottom, LeftChild, RightChild
<1>4. Parent(LeftChild(index)) = index /\ Parent(RightChild(index)) = index
  BY <1>2 DEF Parent, LeftChild, RightChild
<1>5. \A i \in 2..Last : Parent(i) = index => i \in {LeftChild(index), RightChild(index)}
  BY <1>2 DEF Parent, LeftChild, RightChild
<1>6. tmp \in {LeftChild(index), RightChild(index)}
  BY DEF Smallest
<1>7. index \in 1..Last /\ m_heap[index] \in Events
  BY <1>2, <1>3 DEF LeftChild
<1>8. \A i \in 2..Last : Parent(i) = index => ~IsLessStrictly(i, tmp)
  BY <1>2, <1>3, <1>5, BeforeOrder DEF Smallest, IsLessStrictly
<1> HIDE DEF tmp
<1>9. CASE IsLessStrictly(index, tmp)
  <2>1. pc' = "ready" /\ UNCHANGED m_heap
    BY <1>9 DEF TopDownBoth, tmp
  <2>2. ASSUME NEW i \in 2..Last, Parent(i) = index
        PROVE  Ordered(i)
    <3>1. ~Before(m_heap[i], m_heap[tmp]) /\ ~Before(m_heap[tmp], m_heap[index])
      BY <1>2, <1>3, <1>6, <1>7, <1>8, <1>9, <2>2, BeforeOrder DEF IsLessStrictly
    <3> QED
      BY <3>1, <1>2, <1>3, <1>6, <1>7, <2>2, BeforeOrder DEF Ordered, IsLessStrictly
  <2> QED
    BY <1>1, <2>1, <2>2, SinkStops
<1>10. CASE ~IsLessStrictly(index, tmp)
  <2>1. m_heap' = Exch(index, tmp) /\ index' = tmp /\ pc' = pc
    BY <1>10 DEF TopDownBoth, tmp
  <2>2. tmp \in 2..Last /\ Parent(tmp) = index
    BY <1>3, <1>4, <1>6
  <2>3. /\ Last' = Last
        /\ \A i \in 2..Last : Parent(i) # tmp => ~Before(m_heap'[i], m_heap'[Parent(i)])
        /\ \A i \in 2..Last : Parent(i) = tmp => ~Before(m_heap'[i], m_heap'[index])
    BY <1>1, <1>8, <1>10, <2>1, <2>2, SinkExchange
  <2>4. SinkInv'
    BY <1>2, <2>1, <2>2, <2>3 DEF SinkInv, SkipOrdered, Ordered, IsLessStrictly
  <2> QED
    BY <1>1, <2>1, <2>4, Sinking DEF Inv, HeapInv, HeapOrdered, ClimbInv, Shape
<1> QED
  BY <1>9, <1>10

LEMMA TopDownLastInv == ASSUME Inv, TopDownLast PROVE Inv'
<1>1. pc = "topDown" /\ pc' = "ready" /\ UNCHANGED dropped /\ Shape'
  BY InvShape, SiftShape DEF TopDownLast
<1>2. Last \in Nat /\ index \in Nat /\ index >= 1 /\ \A i \in 1..Last : m_heap[i] \in Events
  BY <1>1, Sinking
<1>3. \A i \in 2..Last : Parent(i) = index => i = LeftChild(index)
  BY <1>2 DEF TopDownLast, IsBottom, Parent, LeftChild, RightChild
<1>4. CASE IsBottom(LeftChild(index)) \/ IsLessStrictly(index, LeftChild(index))
  <2>1. UNCHANGED m_heap
    BY <1>4 DEF TopDownLast
  <2>2. ASSUME NEW i \in 2..Last, Parent(i) = index
        PROVE  Ordered(i)
    <3>1. i = LeftChild(index) /\ ~IsBottom(i) /\ index \in 1..Last
      BY <1>2, <1>3, <2>2 DEF IsBottom, LeftChild
    <3> QED
      BY <3>1, <1>2, <1>4, <2>2, BeforeOrder DEF Ordered, IsLessStrictly
  <2> QED
    BY <1>1, <2>1, <2>2, SinkStops
<1>5. CASE ~IsBottom(LeftChild(index)) /\ ~IsLessStrictly(index, LeftChild(index))
  <2> DEFINE tmp == LeftChild(index)
  <2>1. m_heap' = Exch(index, tmp)
    BY <1>5 DEF TopDownLast
  <2>2. tmp \in 2..Last /\ Parent(tmp) = index
    BY <1>2, <1>5 DEF IsBottom, LeftChild, Parent
  <2>3. \A i \in 2..Last : Parent(i) = index => ~IsLessStrictly(i, tmp)
    BY <1>2, <1>3, <2>2, BeforeOrder DEF IsLessStrictly
  <2>4. \A i \in 2..Last : Parent(i) # tmp
    BY <1>2 DEF TopDownLast, IsBottom, Parent, LeftChild, RightChild
  <2>5. /\ Last' = Last
        /\ \A i \in 2..Last : Parent(i) # tmp => ~Before(m_heap'[i], m_heap'[Parent(i)])
    BY <1>1, <1>5, <2>1, <2>2, <2>3, SinkExchange
  <2> HIDE DEF tmp
  <2>6. HeapOrdered'
    BY <2>4, <2>5 DEF HeapOrdered, Ordered, IsLessStrictly
  <2> QED
    BY <1>1, <2>6, Sinking DEF Inv, HeapInv, ClimbInv, SinkInv, Shape
<1> QED
  BY <1>4, <1>5

(* A removal leaves its event in dropped, and with it the claim of order.  *)
LEMMA RemovedOnce ==
  ASSUME HeapInv, [Next]_vars, dropped # {}
  PROVE  HeapInv' /\ dropped' # {}
<1>1. Shape'
  BY NextShape DEF HeapInv, Shape
<1>2. dropped' # {}
  BY DEF Next, vars, Insert, BottomUp, RemoveNext, Remove, TopDownBoth, TopDownLast
<1> QED
  BY <1>1, <1>2 DEF HeapInv, HeapOrdered, ClimbInv, SinkInv, Shape

LEMMA NextInv == ASSUME HeapInv, [Next]_vars PROVE HeapInv'
<1>1. CASE dropped # {}
  BY <1>1, RemovedOnce
<1>2. CASE dropped = {}
  <2>1. Inv
    BY <1>2 DEF Inv
  <2>2. ASSUME NEW id \in DOMAIN m_heap, Remove(id) PROVE HeapInv'
    <3>1. dropped' # {}
      BY <2>2 DEF Remove
    <3>2. Shape'
      BY NextShape DEF HeapInv, Shape
    <3> QED
      BY <3>1, <3>2 DEF HeapInv, HeapOrdered, ClimbInv, SinkInv, Shape
  <2>3. CASE UNCHANGED vars
    BY <2>3 DEF vars, HeapInv, TypeOK, HeapOrdered, ClimbInv, SinkInv, SkipOrdered,
                IndexInHeap, Numbered, Ordered, IsLessStrictly, Last
  <2>4. Inv' => HeapInv'
    BY DEF Inv
  <2> QED
    BY <2>1, <2>2, <2>3, <2>4, InsertInv, BottomUpInv, RemoveNextInv, TopDownBothInv,
       TopDownLastInv DEF Next
<1> QED
  BY <1>1, <1>2

-----------------------------------------------------------------------------
(* The heap as an event list.                                              *)

(* In heap order the root is an earliest event: the first index whose      *)
(* event is before the root would have a parent before the root too.       *)
LEMMA RootIsFirst ==
  ASSUME TypeOK, m_heap # <<>>, \A i \in 2..Last : Ordered(i)
  PROVE  IsFirst(m_heap[Root], F!Range(m_heap))
<1> DEFINE S == {i \in 1..Last : Before(m_heap[i], m_heap[Root])}
<1>1. /\ Last \in Nat /\ Last >= 1
      /\ DOMAIN m_heap = 1..Last
      /\ \A i \in 1..Last : m_heap[i] \in Events
  BY HeapElements, NotEmpty DEF Root
<1>2. S = {}
  <2> SUFFICES ASSUME S # {} PROVE FALSE
    OBVIOUS
  <2>1. PICK x \in S : \A y \in S : <<y, x>> \notin OpToRel(<, Nat)
    <3>1. S \subseteq Nat
      BY <1>1
    <3> HIDE DEF S
    <3> QED
      BY <3>1, WFMin, NatLessThanWellFounded
  <2>2. x \in 1..Last /\ Before(m_heap[x], m_heap[Root])
    OBVIOUS
  <2>3. x \in 2..Last
    BY <1>1, <2>2, BeforeOrder DEF Root
  <2>4. Parent(x) \in 1..Last /\ Parent(x) < x /\ Parent(x) \in Nat /\ x \in Nat
    BY <1>1, <2>3, ParentIsAbove
  <2>5. <<Parent(x), x>> \in OpToRel(<, Nat)
    BY <2>4 DEF OpToRel
  <2>6. ~Before(m_heap[Parent(x)], m_heap[Root])
    BY <2>1, <2>4, <2>5
  <2>7. ~Before(m_heap[x], m_heap[Parent(x)])
    BY <2>3 DEF Ordered, IsLessStrictly
  <2> QED
    BY <1>1, <2>2, <2>4, <2>6, <2>7, BeforeOrder DEF Root
<1> QED
  BY <1>1, <1>2 DEF IsFirst, F!Range, Root

LEMMA ExchRange ==
  ASSUME TypeOK, NEW a \in 1..Last, NEW b \in 1..Last, m_heap' = Exch(a, b)
  PROVE  F!Range(m_heap)' = F!Range(m_heap)
<1>1. /\ DOMAIN m_heap = 1..Last
      /\ DOMAIN m_heap' = 1..Last
      /\ \A i \in 1..Last : m_heap'[i] = IF i = b THEN m_heap[a]
                                       ELSE IF i = a THEN m_heap[b] ELSE m_heap[i]
  <2>1. Exch(a, b) \in Seq(Events) /\ Len(Exch(a, b)) = Last
    BY ExchElements
  <2>2. DOMAIN Exch(a, b) = 1..Last
    BY <2>1, LenProperties
  <2> QED
    BY <2>2, HeapElements, ExchElements
<1>2. m_heap'[b] = m_heap[a] /\ m_heap'[a] = m_heap[b]
  BY <1>1
<1>3. ASSUME NEW i \in 1..Last PROVE \E j \in 1..Last : m_heap'[j] = m_heap[i]
  BY <1>1, <1>2
<1>4. ASSUME NEW i \in 1..Last PROVE \E j \in 1..Last : m_heap'[i] = m_heap[j]
  BY <1>1
<1>5. F!Range(m_heap) = {m_heap[i] : i \in 1..Last}
  BY <1>1 DEF F!Range
<1>6. F!Range(m_heap)' = {m_heap'[i] : i \in 1..Last}
  BY <1>1 DEF F!Range
<1> QED
  BY <1>3, <1>4, <1>5, <1>6

(* A stutter of the event list.                                            *)
LEMMA SiftIsStutter ==
  ASSUME HeapInv, BottomUp \/ TopDownBoth \/ TopDownLast
  PROVE  UNCHANGED List!listVars
<1>1. Shape /\ TypeOK
  BY DEF HeapInv, Shape
<1>2. CASE m_heap' = m_heap
  BY <1>1, <1>2, SiftSteps DEF F!Range, List!listVars
<1>3. ASSUME NEW a \in 1..Last, NEW b \in 1..Last, m_heap' = Exch(a, b)
      PROVE  F!Range(m_heap)' = F!Range(m_heap)
  BY <1>1, <1>3, ExchRange
<1> QED
  BY <1>1, <1>2, <1>3, SiftSteps DEF List!listVars

LEMMA InsertIsInsert ==
  ASSUME HeapInv, NEW ts \in Stamps, Insert(ts)
  PROVE  \E e \in F!Range(m_heap)' \ F!Range(m_heap) : List!Insert(e)
<1> DEFINE e == [ts |-> ts, uid |-> inserted, ev |-> inserted]
<1>1. /\ TypeOK /\ Numbered /\ dropped' = dropped
      /\ inserted \in Nat
      /\ e \in Events
      /\ m_heap' = Append(m_heap, e)
  BY DEF HeapInv, TypeOK, Insert, Events
<1>2. Last \in Nat /\ DOMAIN m_heap = 1..Last
  BY <1>1, HeapElements
<1>3. e.uid = inserted
  OBVIOUS
<1> HIDE DEF e
<1>4. /\ DOMAIN m_heap' = 1..(Last + 1)
      /\ \A i \in 1..Last : m_heap'[i] = m_heap[i]
      /\ m_heap'[Last + 1] = e
  <2>1. m_heap' \in Seq(Events) /\ Len(m_heap') = Last + 1
    BY <1>1, AppendProperties DEF TypeOK, Last
  <2> QED
    BY <1>1, <2>1, AppendProperties, LenProperties DEF TypeOK, Last
<1>5. F!Range(m_heap)' = F!Range(m_heap) \union {e}
  <2>1. 1..(Last + 1) = (1..Last) \union {Last + 1}
    BY <1>2
  <2> QED
    BY <1>2, <1>4, <2>1 DEF F!Range
<1>6. e \notin F!Range(m_heap)
  <2>1. \A i \in 1..Last : m_heap[i].uid # inserted
    <3>1. \A i \in 1..Last : m_heap[i].uid \in Nat
      BY <1>1, HeapElements DEF Events
    <3> QED
      BY <1>1, <3>1 DEF Numbered
  <2> QED
    BY <2>1, <1>2, <1>3 DEF F!Range
<1>7. e \notin dropped
  <2>1. \A d \in dropped : d.uid \in Nat /\ d.uid < inserted
    BY <1>1 DEF TypeOK, Numbered, Events
  <2> QED
    BY <2>1, <1>1, <1>3
<1> QED
  BY <1>1, <1>5, <1>6, <1>7 DEF List!Insert

(* Popping an event takes that one, and no other, out of the vector.       *)
LEMMA PopRange ==
  ASSUME TypeOK, Numbered, NEW id \in 1..Last, m_heap' = PopExch(id)
  PROVE  /\ m_heap[id] \in F!Range(m_heap)
         /\ F!Range(m_heap)' = F!Range(m_heap) \ {m_heap[id]}
<1>1. Last \in Nat /\ Last >= 1 /\ DOMAIN m_heap = 1..Last
  BY HeapElements
<1>2. /\ DOMAIN m_heap' = 1..(Last - 1)
      /\ \A i \in 1..(Last - 1) : m_heap'[i] = m_heap[IF i = id THEN Last ELSE i]
  <2>1. m_heap' \in Seq(Events) /\ Len(m_heap') = Last - 1
    BY PopElements
  <2> QED
    BY <2>1, PopElements, LenProperties
<1> DEFINE Others == (1..Last) \ {id}
<1>3. ASSUME NEW i \in 1..(Last - 1) PROVE \E j \in Others : m_heap'[i] = m_heap[j]
  <2>1. CASE i = id
    BY <2>1, <1>1, <1>2
  <2>2. CASE i # id
    BY <2>2, <1>1, <1>2
  <2> QED
    BY <2>1, <2>2
<1>4. ASSUME NEW j \in Others PROVE \E i \in 1..(Last - 1) : m_heap'[i] = m_heap[j]
  <2>1. CASE j = Last
    <3>1. id \in 1..(Last - 1)
      BY <1>1, <2>1
    <3> QED
      BY <3>1, <2>1, <1>2
  <2>2. CASE j # Last
    BY <1>1, <1>2, <2>2
  <2> QED
    BY <2>1, <2>2
<1>5. \A j \in Others : m_heap[j] # m_heap[id]
  BY <1>1 DEF Numbered
<1>6. F!Range(m_heap) = {m_heap[j] : j \in Others} \union {m_heap[id]}
  <2>1. 1..Last = Others \union {id}
    OBVIOUS
  <2> HIDE DEF Others
  <2> QED
    BY <1>1, <2>1 DEF F!Range
<1>7. F!Range(m_heap)' = {m_heap[j] : j \in Others}
  <2> HIDE DEF Others
  <2> QED
    BY <1>2, <1>3, <1>4 DEF F!Range
<1> HIDE DEF Others
<1> QED
  BY <1>5, <1>6, <1>7

LEMMA RemoveNextIsRemoveNext ==
  ASSUME HeapInv, RemoveNext
  PROVE  \E e \in F!Range(m_heap) : List!RemoveNext(e)
<1>1. /\ TypeOK /\ Numbered /\ m_heap # <<>>
      /\ dropped' = dropped /\ m_heap' = PopExch(Root)
      /\ dropped = {} => \A i \in 2..Last : Ordered(i)
  BY DEF HeapInv, HeapOrdered, RemoveNext
<1>2. dropped = {} => IsFirst(m_heap[Root], F!Range(m_heap))
  BY <1>1, RootIsFirst
<1>3. Root \in 1..Last
  BY <1>1, NotEmpty
<1>4. /\ m_heap[Root] \in F!Range(m_heap)
      /\ F!Range(m_heap)' = F!Range(m_heap) \ {m_heap[Root]}
  BY <1>1, <1>3, PopRange
<1> QED
  BY <1>1, <1>2, <1>4
     DEF List!RemoveNext, List!TakeOut, List!IsFirst, List!Before, IsFirst, Before

LEMMA RemoveIsRemove ==
  ASSUME HeapInv, NEW id \in DOMAIN m_heap, Remove(id)
  PROVE  \E e \in F!Range(m_heap) : List!Remove(e)
<1>1. TypeOK /\ Numbered
  BY DEF HeapInv
<1>2. id \in 1..Last
  BY <1>1, HeapElements
<1>3. m_heap' = PopExch(id) /\ dropped' = dropped \union {m_heap[id]}
  BY DEF Remove
<1>4. /\ m_heap[id] \in F!Range(m_heap)
      /\ F!Range(m_heap)' = F!Range(m_heap) \ {m_heap[id]}
  BY <1>1, <1>2, <1>3, PopRange
<1> QED
  BY <1>3, <1>4 DEF List!Remove

-----------------------------------------------------------------------------
(* The theorems.                                                           *)

(* The heap keeps its inductive invariant: until the first Remove, heap    *)
(* order between operations and a single event out of place during one;    *)
(* whatever is called, an index inside the vector and no event doubled.    *)
THEOREM HeapInvariant == Spec => []HeapInv
<1>1. Init => HeapInv
  BY InitInv DEF Inv
<1> QED
  BY <1>1, NextInv, PTL DEF Spec

(* Until the first Remove, between operations every event is no earlier    *)
(* than its parent.                                                        *)
THEOREM HeapOrder == Spec => []HeapOrdered
<1>1. HeapInv => HeapOrdered
  BY DEF HeapInv
<1> QED
  BY <1>1, HeapInvariant, PTL

(* Every step of the heap is a step of an event list or none at all: no    *)
(* event is lost, invented or given back twice, and RemoveNext gives back  *)
(* an earliest event until the first Remove.                               *)
THEOREM HeapIsEventList == Spec => ImplementsList
<1>1. Init => List!ListInit
  BY DEF Init, List!ListInit, F!Range
<1>2. HeapInv /\ [Next]_vars => [List!ListNext]_(List!listVars)
  <2> SUFFICES ASSUME HeapInv, [Next]_vars PROVE [List!ListNext]_(List!listVars)
    OBVIOUS
  <2>1. ASSUME NEW ts \in Stamps, Insert(ts) PROVE List!ListNext
    BY <2>1, InsertIsInsert DEF List!ListNext
  <2>2. CASE BottomUp \/ TopDownBoth \/ TopDownLast
    BY <2>2, SiftIsStutter
  <2>3. CASE RemoveNext
    BY <2>3, RemoveNextIsRemoveNext DEF List!ListNext
  <2>4. ASSUME NEW id \in DOMAIN m_heap, Remove(id) PROVE List!ListNext
    BY <2>4, RemoveIsRemove DEF List!ListNext
  <2>5. CASE UNCHANGED vars
    BY <2>5 DEF vars, List!listVars, F!Range
  <2> QED
    BY <2>1, <2>2, <2>3, <2>4, <2>5 DEF Next
<1> QED
  BY <1>1, <1>2, HeapInvariant, PTL DEF Spec, ImplementsList, List!ListSpec

(* A program that never calls Remove always gets an earliest event.        *)
THEOREM EarliestFirst == ASSUME MaxRemoves = 0 PROVE Spec => EarliestRemoved
<1> DEFINE NoneDropped == dropped = {}
<1>1. Init => NoneDropped
  BY DEF Init
<1>2. NoneDropped /\ [Next]_vars => NoneDropped'
  <2>1. ASSUME NoneDropped, NEW id \in DOMAIN m_heap, Remove(id) PROVE FALSE
    BY <2>1, FS_EmptySet DEF Remove
  <2> QED
    BY <2>1 DEF Next, vars, Insert, BottomUp, RemoveNext, TopDownBoth, TopDownLast
<1>3. HeapInv /\ NoneDropped /\ [Next]_vars
        => [RemoveNext => IsFirst(m_heap[Root], F!Range(m_heap))]_vars
  BY RootIsFirst DEF HeapInv, HeapOrdered, RemoveNext
<1> QED
  BY <1>1, <1>2, <1>3, HeapInvariant, PTL DEF Spec, EarliestRemoved
=============================================================================
