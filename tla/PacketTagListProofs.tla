------------------------ MODULE PacketTagListProofs -------------------------
(***************************************************************************)
(* Proofs about PacketTagList: for any lists, tags and memory, every node  *)
(* counts exactly the links that lead to it, no link leads to freed        *)
(* memory, the copying loop never runs off its list, and the lists behave  *)
(* as TagLists says, as if they shared nothing.                            *)
(***************************************************************************)
EXTENDS PacketTagList, FiniteSetTheorems, FunctionTheorems, SequenceTheorems, TLAPS

(* The tree between calls and during a traversal, when no link is stale.   *)
TreeTypes ==
  /\ next \in [Links -> Pointers]
  /\ count \in [Nodes -> Nat]
  /\ tagData \in [Nodes -> [tid : Tids, data : Data, size : Nat] \union {NULL}]
Counted == \A n \in Allocated : count[n] = Cardinality(IncomingTo(n)) /\ count[n] > 0
Solid == \A x \in Links : next[x] \in Allocated \union {NULL}
Tidy == TreeTypes /\ Counted /\ Solid /\ Acyclic /\ FreeHoldNothing

LEMMA PointerFacts ==
  /\ NULL \notin Links /\ Links = Lists \union Nodes
  /\ Lists \intersect Nodes = {} /\ Pointers = Nodes \union {NULL}
  /\ IsFiniteSet(Links)
  /\ Allocated \subseteq Nodes
BY PointersAssumption, FS_Union DEF Links, Pointers, Allocated

LEMMA TidyWhenQuiet == ASSUME IInv, pc # "removeAll" PROVE Tidy
BY DEF IInv, TypeOK, CountsExact, NoDangling, Dying, Tidy, TreeTypes, Counted, Solid

LEMMA TidyUnchanged == ASSUME Tidy, UNCHANGED tree PROVE Tidy'
BY DEF tree, Tidy, TreeTypes, Counted, Solid, Acyclic, FreeHoldNothing, IncomingTo, Allocated

(* The counts and links of a tidy tree are those the invariant asks for.   *)
LEMMA TidyIsEnough ==
  ASSUME Tidy' PROVE CountsExact' /\ NoDangling' /\ Acyclic' /\ FreeHoldNothing'
BY DEF Tidy, Counted, Solid, CountsExact, NoDangling, Dying

-----------------------------------------------------------------------------
(* Counting links.                                                         *)

LEMMA IncomingFinite == ASSUME NEW n PROVE IsFiniteSet(IncomingTo(n))
BY PointerFacts, FS_Subset DEF IncomingTo

LEMMA OneMore ==
  ASSUME NEW S, IsFiniteSet(S), NEW x, x \notin S, NEW T, T = S \union {x}
  PROVE  Cardinality(S) \in Nat /\ Cardinality(T) = Cardinality(S) + 1
BY FS_AddElement, FS_CardinalityType

LEMMA OneLess ==
  ASSUME NEW S, IsFiniteSet(S), NEW x \in S, NEW T, T = S \ {x}
  PROVE  Cardinality(S) \in Nat /\ Cardinality(T) = Cardinality(S) - 1
BY FS_RemoveElement, FS_CardinalityType

LEMMA JustOne ==
  ASSUME NEW S, IsFiniteSet(S), NEW x \in S, Cardinality(S) = 1
  PROVE  S = {x}
<1>1. Cardinality(S \ {x}) = 0
  BY OneLess
<1>2. IsFiniteSet(S \ {x})
  BY FS_RemoveElement
<1> QED
  BY <1>1, <1>2, FS_EmptySet

LEMMA NewNodeIsFree ==
  ASSUME NEW tid, HasRoom(tid)
  PROVE  NewNode(tid) \in Nodes /\ NewNode(tid) \notin Allocated
<1>1. \E n : n \in FreeNodes(tid)
  BY DEF HasRoom
<1>2. NewNode(tid) \in FreeNodes(tid)
  BY <1>1 DEF NewNode
<1> QED
  BY <1>2 DEF FreeNodes

(* A node that is not allocated is led to by nothing.                      *)
LEMMA NothingToFree ==
  ASSUME Tidy, NEW n \in Nodes \ Allocated
  PROVE  IncomingTo(n) = {} /\ next[n] = NULL /\ n # NULL
BY PointerFacts DEF Tidy, Solid, FreeHoldNothing, IncomingTo

-----------------------------------------------------------------------------
(* One lemma for each way the tree changes.                                *)

LEMMA PrependTidy ==
  ASSUME Tidy, NEW list \in Lists, NEW tag \in Tags, Prepend(list, tag)
  PROVE  Tidy'
<1> DEFINE head == NewNode(tag.tid)
<1>1. /\ head \in Nodes \ Allocated
      /\ tagData' = [tagData EXCEPT ![head] = CreateTagData(tag)]
      /\ next' = [next EXCEPT ![head] = next[list], ![list] = head]
      /\ count' = [count EXCEPT ![head] = 1]
  BY NewNodeIsFree DEF Prepend
<1>2. CreateTagData(tag) \in [tid : Tids, data : Data, size : Nat] /\ CreateTagData(tag) # NULL
  BY TagsAssumption DEF CreateTagData, Tids, Data
<1> HIDE DEF head
<1>3. IncomingTo(head) = {} /\ next[head] = NULL
  BY <1>1, NothingToFree
<1>4. /\ list \in Links /\ head \in Links /\ head # list
      /\ next[list] \in Allocated \union {NULL}
  BY <1>1, PointerFacts DEF Tidy, Solid
<1>5. Allocated' = Allocated \union {head}
  BY <1>1, <1>2 DEF Tidy, TreeTypes, Allocated
<1>6. \A x \in Links : next'[x] = IF x = list THEN head ELSE IF x = head THEN next[list] ELSE next[x]
  BY <1>1, <1>4 DEF Tidy, TreeTypes
<1>7. TreeTypes'
  BY <1>1, <1>2, <1>4, PointerFacts DEF Tidy, TreeTypes
<1>8. Solid'
  BY <1>5, <1>6, <1>4 DEF Tidy, Solid
<1>9. FreeHoldNothing'
  BY <1>5, <1>6, PointerFacts DEF Tidy, FreeHoldNothing
<1>10. Acyclic'
  <2> SUFFICES ASSUME NEW S \in SUBSET Allocated', S # {}
               PROVE  \E n \in S : next'[n] \notin S
    BY DEF Acyclic
  <2>1. CASE S \subseteq {head}
    <3>1. S = {head}
      BY <2>1
    <3>2. next'[head] = next[list] /\ next[list] # head
      BY <1>1, <1>4, <1>6, PointerFacts
    <3> QED
      BY <3>1, <3>2
  <2>2. CASE ~(S \subseteq {head})
    <3>1. PICK n \in S \ {head} : next[n] \notin S \ {head}
      BY <2>2, <1>5 DEF Tidy, Acyclic
    <3>2. n \in Allocated /\ n \in Links /\ n # head /\ n # list
      BY <3>1, <1>5, PointerFacts
    <3>3. next'[n] = next[n] /\ next[n] # head
      BY <3>2, <1>1, <1>6, NothingToFree DEF IncomingTo
    <3> QED
      BY <3>1, <3>3
  <2> QED
    BY <2>1, <2>2
<1>11. Counted'
  <2> SUFFICES ASSUME NEW n \in Allocated'
               PROVE  count'[n] = Cardinality(IncomingTo(n)') /\ count'[n] > 0
    BY DEF Counted
  <2>1. CASE n = head
    <3>1. \A x \in Links : next'[x] = n <=> x = list
      BY <2>1, <1>1, <1>3, <1>4, <1>6, PointerFacts DEF IncomingTo
    <3>2. IncomingTo(n)' = {list}
      BY <3>1, <1>4 DEF IncomingTo
    <3>3. Cardinality(IncomingTo(n)') = 1
      BY <3>2, FS_Singleton
    <3>4. count'[n] = 1
      BY <2>1, <1>1 DEF Tidy, TreeTypes
    <3> QED
      BY <3>3, <3>4
  <2>2. CASE n # head /\ n = next[list]
    <3>1. IncomingTo(n)' = (IncomingTo(n) \ {list}) \union {head}
      BY <2>2, <1>3, <1>4, <1>6, <1>1, PointerFacts DEF IncomingTo
    <3>2. list \in IncomingTo(n) /\ head \notin IncomingTo(n)
      BY <2>2, <1>1, <1>3, <1>4, <1>5, PointerFacts DEF IncomingTo
    <3>3. Cardinality(IncomingTo(n) \ {list}) = Cardinality(IncomingTo(n)) - 1
          /\ Cardinality(IncomingTo(n)) \in Nat
      BY <3>2, IncomingFinite, OneLess
    <3>4. IsFiniteSet(IncomingTo(n) \ {list})
      BY IncomingFinite, FS_RemoveElement
    <3>5. Cardinality(IncomingTo(n)') = Cardinality(IncomingTo(n) \ {list}) + 1
      BY <3>1, <3>2, <3>4, OneMore
    <3> QED
      BY <2>2, <3>3, <3>5, <1>1, <1>5 DEF Tidy, TreeTypes, Counted
  <2>3. CASE n # head /\ n # next[list]
    <3>1. IncomingTo(n)' = IncomingTo(n)
      BY <2>3, <1>3, <1>4, <1>6, <1>1, <1>5, PointerFacts DEF IncomingTo
    <3> QED
      BY <2>3, <3>1, <1>1, <1>5 DEF Tidy, TreeTypes, Counted
  <2> QED
    BY <2>1, <2>2, <2>3
<1> QED
  BY <1>7, <1>8, <1>9, <1>10, <1>11 DEF Tidy

(* A new node in the place of a merge: a copy or a replacement.            *)
LEMMA PutInPlaceTidy ==
  ASSUME Tidy, NEW copy \in Nodes \ Allocated,
         NEW content \in [tid : Tids, data : Data, size : Nat],
         cur \in Allocated, count[cur] > 1,
         prev \in Lists \union Allocated, next[prev] = cur,
         PutInPlace(copy, content)
  PROVE  /\ Tidy'
         /\ Allocated' = Allocated \union {copy}
         /\ next[cur] # cur /\ next[cur] # copy
         /\ \A x \in Links : next'[x] = IF x = prev THEN copy ELSE IF x = copy THEN next[cur] ELSE next[x]
         /\ next[cur] # NULL => count'[next[cur]] > 1
<1>1. /\ tagData' = [tagData EXCEPT ![copy] = content]
      /\ next' = [next EXCEPT ![copy] = next[cur], ![prev] = copy]
      /\ count' = [Incremented(Decremented(count, cur), next[cur]) EXCEPT ![copy] = 1]
  BY DEF PutInPlace
<1>2. content # NULL
  BY TagsAssumption
<1>3. IncomingTo(copy) = {} /\ next[copy] = NULL /\ copy # NULL
  BY NothingToFree
<1>4. /\ prev \in Links /\ copy \in Links /\ cur \in Links /\ cur \in Nodes
      /\ copy # prev /\ copy # cur
      /\ next[cur] \in Allocated \union {NULL}
  BY PointerFacts DEF Tidy, Solid
<1>5. Allocated' = Allocated \union {copy}
  BY <1>1, <1>2 DEF Tidy, TreeTypes, Allocated
<1>6. \A x \in Links : next'[x] = IF x = prev THEN copy ELSE IF x = copy THEN next[cur] ELSE next[x]
  BY <1>1, <1>4 DEF Tidy, TreeTypes
<1>7. next[cur] # cur
  <2>1. {cur} \in SUBSET Allocated /\ {cur} # {}
    OBVIOUS
  <2> QED
    BY <2>1 DEF Tidy, Acyclic
<1>8. next[cur] # copy
  BY <1>3, <1>4 DEF IncomingTo
<1>9. \A n \in Nodes : count'[n] = IF n = copy THEN 1 ELSE IF n = cur THEN count[n] - 1
                                  ELSE IF n = next[cur] THEN count[n] + 1 ELSE count[n]
  BY <1>1, <1>7 DEF Incremented, Decremented
<1>10. \A n \in Nodes : count[n] \in Nat
  BY DEF Tidy, TreeTypes
<1>11. TreeTypes'
  <2>1. next' \in [Links -> Pointers]
    BY <1>1, <1>4, PointerFacts DEF Tidy, TreeTypes
  <2>2. tagData' \in [Nodes -> [tid : Tids, data : Data, size : Nat] \union {NULL}]
    BY <1>1 DEF Tidy, TreeTypes
  <2>3. count' = [n \in Nodes |-> count'[n]]
    BY <1>1 DEF Incremented, Decremented
  <2>4. \A n \in Nodes : count'[n] \in Nat
    BY <1>4, <1>9, <1>10
  <2>5. count' \in [Nodes -> Nat]
    BY <2>3, <2>4
  <2> QED
    BY <2>1, <2>2, <2>5 DEF TreeTypes
<1>12. Solid'
  BY <1>5, <1>6, <1>4 DEF Tidy, Solid
<1>13. FreeHoldNothing'
  <2> SUFFICES ASSUME NEW n \in Nodes \ Allocated' PROVE next'[n] = NULL
    BY DEF FreeHoldNothing
  <2>1. n \in Links /\ n # copy /\ n # prev /\ n \in Nodes \ Allocated
    BY <1>5, PointerFacts
  <2> QED
    BY <2>1, <1>6, NothingToFree
<1>14. Acyclic'
  <2> SUFFICES ASSUME NEW S \in SUBSET Allocated', S # {}
               PROVE  \E n \in S : next'[n] \notin S
    BY DEF Acyclic
  <2> DEFINE T == IF copy \in S THEN (S \ {copy}) \union {cur} ELSE S
  <2>1. T \in SUBSET Allocated /\ T # {}
    BY <1>5
  <2>2. PICK n \in T : next[n] \notin T
    BY <2>1 DEF Tidy, Acyclic
  <2>3. n \in Allocated /\ n \in Links /\ n # copy /\ next[n] # copy
    BY <2>1, <2>2, <1>3, PointerFacts DEF IncomingTo
  <2>4. CASE copy \in S
    <3>1. n # prev
      BY <2>2, <2>4
    <3>2. next'[n] = next[n] /\ next'[copy] = next[cur]
      BY <3>1, <2>3, <1>4, <1>6
    <3>3. next[n] \notin S
      BY <2>2, <2>3, <2>4
    <3>4. CASE n = cur
      BY <3>2, <3>3, <3>4, <2>4
    <3>5. CASE n # cur
      BY <3>2, <3>3, <3>5, <2>2, <2>4
    <3> QED
      BY <3>4, <3>5
  <2>5. CASE copy \notin S
    BY <2>2, <2>3, <2>5, <1>6
  <2> QED
    BY <2>4, <2>5
<1>15. Counted'
  <2> SUFFICES ASSUME NEW n \in Allocated'
               PROVE  count'[n] = Cardinality(IncomingTo(n)') /\ count'[n] > 0
    BY DEF Counted
  <2>1. CASE n = copy
    <3>1. \A x \in Links : next'[x] = n <=> x = prev
      BY <2>1, <1>3, <1>6, <1>8 DEF IncomingTo
    <3>2. IncomingTo(n)' = {prev}
      BY <3>1, <1>4 DEF IncomingTo
    <3>3. Cardinality(IncomingTo(n)') = 1
      BY <3>2, FS_Singleton
    <3> QED
      BY <2>1, <3>3, <1>9
  <2>2. CASE n = cur
    <3>0. \A x \in Links : next'[x] = n <=> next[x] = n /\ x # prev
      BY <2>2, <1>3, <1>4, <1>6, <1>7, PointerFacts
    <3>1. IncomingTo(n)' = IncomingTo(n) \ {prev}
      BY <3>0 DEF IncomingTo
    <3>2. prev \in IncomingTo(n) /\ IsFiniteSet(IncomingTo(n))
      BY <2>2, <1>4, IncomingFinite DEF IncomingTo
    <3>3. Cardinality(IncomingTo(n)') = Cardinality(IncomingTo(n)) - 1
      BY <3>1, <3>2, OneLess
    <3>4. count[n] = Cardinality(IncomingTo(n)) /\ count'[n] = count[n] - 1 /\ count[n] \in Nat
      BY <2>2, <1>4, <1>9, <1>10 DEF Tidy, Counted
    <3> QED
      BY <2>2, <3>3, <3>4
  <2>3. CASE n # copy /\ n # cur /\ n = next[cur]
    <3>0. n \in Allocated /\ n \in Nodes
      BY <2>3, <1>5, PointerFacts
    <3>1. \A x \in Links : next'[x] = n <=> next[x] = n \/ x = copy
      BY <2>3, <1>3, <1>4, <1>6
    <3>2. IncomingTo(n)' = IncomingTo(n) \union {copy}
      BY <3>1, <1>4 DEF IncomingTo
    <3>3. copy \notin IncomingTo(n) /\ IsFiniteSet(IncomingTo(n))
      BY <3>0, <1>3, PointerFacts, IncomingFinite DEF IncomingTo
    <3>4. Cardinality(IncomingTo(n)') = Cardinality(IncomingTo(n)) + 1
      BY <3>2, <3>3, OneMore
    <3>5. count[n] = Cardinality(IncomingTo(n)) /\ count'[n] = count[n] + 1 /\ count[n] \in Nat
      BY <3>0, <2>3, <1>9, <1>10 DEF Tidy, Counted
    <3> QED
      BY <3>4, <3>5
  <2>4. CASE n # copy /\ n # cur /\ n # next[cur]
    <3>0. n \in Allocated /\ n \in Nodes /\ n # NULL
      BY <2>4, <1>5, PointerFacts
    <3>1. \A x \in Links : next'[x] = n <=> next[x] = n
      BY <3>0, <2>4, <1>3, <1>4, <1>6
    <3>2. IncomingTo(n)' = IncomingTo(n)
      BY <3>1 DEF IncomingTo
    <3>3. count'[n] = count[n]
      BY <3>0, <2>4, <1>9
    <3> QED
      BY <3>0, <3>2, <3>3 DEF Tidy, Counted
  <2> QED
    BY <2>1, <2>2, <2>3, <2>4
<1>16. next[cur] # NULL => count'[next[cur]] > 1
  <2> SUFFICES ASSUME next[cur] # NULL PROVE count'[next[cur]] > 1
    OBVIOUS
  <2>1. next[cur] \in Allocated /\ next[cur] \in Nodes
    BY <1>4, PointerFacts
  <2>2. count'[next[cur]] = count[next[cur]] + 1 /\ count[next[cur]] > 0
    BY <2>1, <1>7, <1>8, <1>9 DEF Tidy, Counted
  <2> QED
    BY <2>1, <2>2, <1>10
<1> QED
  BY <1>5, <1>6, <1>7, <1>8, <1>11, <1>12, <1>13, <1>14, <1>15, <1>16 DEF Tidy

(* A traversal links past its cursor and frees it: only this list had it.  *)
LEMMA RemoveUnsharedTidy ==
  ASSUME Tidy, cur \in Allocated, count[cur] <= 1,
         prev \in Lists \union Allocated, next[prev] = cur, RemoveUnshared
  PROVE  Tidy'
<1>1. /\ tagData' = [tagData EXCEPT ![cur] = NULL]
      /\ next' = [next EXCEPT ![prev] = next[cur], ![cur] = NULL]
      /\ count' = [count EXCEPT ![cur] = 0]
  BY DEF RemoveUnshared
<1>2. next[cur] # cur
  <2>1. {cur} \in SUBSET Allocated /\ {cur} # {}
    OBVIOUS
  <2> QED
    BY <2>1 DEF Tidy, Acyclic
<1>3. /\ prev \in Links /\ cur \in Links /\ cur \in Nodes /\ cur # NULL
      /\ prev # cur /\ next[cur] \in Allocated \union {NULL}
  BY <1>2, PointerFacts DEF Tidy, Solid
<1>4. IncomingTo(cur) = {prev}
  <2>1. count[cur] = Cardinality(IncomingTo(cur)) /\ count[cur] > 0 /\ count[cur] \in Nat
    BY <1>3 DEF Tidy, Counted, TreeTypes
  <2>2. Cardinality(IncomingTo(cur)) = 1
    BY <2>1
  <2>3. prev \in IncomingTo(cur)
    BY <1>3 DEF IncomingTo
  <2> QED
    BY <2>2, <2>3, IncomingFinite, JustOne
<1>5. Allocated' = Allocated \ {cur}
  BY <1>1 DEF Tidy, TreeTypes, Allocated
<1>6. \A x \in Links : next'[x] = IF x = cur THEN NULL ELSE IF x = prev THEN next[cur] ELSE next[x]
  BY <1>1, <1>3 DEF Tidy, TreeTypes
<1>7. TreeTypes'
  BY <1>1, <1>3, PointerFacts DEF Tidy, TreeTypes
<1>8. Solid'
  <2> SUFFICES ASSUME NEW x \in Links PROVE next'[x] \in Allocated' \union {NULL}
    BY DEF Solid
  <2>1. x # prev => next[x] # cur
    BY <1>4 DEF IncomingTo
  <2> QED
    BY <2>1, <1>2, <1>3, <1>5, <1>6 DEF Tidy, Solid
<1>9. FreeHoldNothing'
  BY <1>3, <1>5, <1>6, PointerFacts DEF Tidy, FreeHoldNothing
<1>10. Acyclic'
  <2> SUFFICES ASSUME NEW S \in SUBSET Allocated', S # {}
               PROVE  \E n \in S : next'[n] \notin S
    BY DEF Acyclic
  <2>0. S \in SUBSET Allocated /\ cur \notin S
    BY <1>5
  <2>1. CASE prev \in S
    <3>1. S \union {cur} \in SUBSET Allocated
      BY <2>0
    <3>2. PICK n \in S \union {cur} : next[n] \notin S \union {cur}
      BY <3>1 DEF Tidy, Acyclic
    <3>3. n # prev
      BY <3>2
    <3>4. CASE n = cur
      BY <3>2, <3>4, <2>1, <1>3, <1>6
    <3>5. CASE n # cur
      BY <3>2, <3>3, <3>5, <2>0, <1>6, PointerFacts
    <3> QED
      BY <3>4, <3>5
  <2>2. CASE prev \notin S
    <3>1. PICK n \in S : next[n] \notin S
      BY <2>0 DEF Tidy, Acyclic
    <3>2. n \in Links /\ n # cur /\ n # prev
      BY <3>1, <2>0, <2>2, PointerFacts
    <3> QED
      BY <3>1, <3>2, <1>6
  <2> QED
    BY <2>1, <2>2
<1>11. Counted'
  <2> SUFFICES ASSUME NEW n \in Allocated'
               PROVE  count'[n] = Cardinality(IncomingTo(n)') /\ count'[n] > 0
    BY DEF Counted
  <2>0. n \in Allocated /\ n \in Nodes /\ n # cur /\ n # NULL /\ count'[n] = count[n]
    BY <1>1, <1>5, PointerFacts DEF Tidy, TreeTypes
  <2>1. CASE n = next[cur]
    <3>1. \A x \in Links : next'[x] = n <=> (next[x] = n /\ x # cur) \/ x = prev
      BY <2>0, <2>1, <1>3, <1>6
    <3>2. IncomingTo(n)' = (IncomingTo(n) \ {cur}) \union {prev}
      BY <3>1, <1>3 DEF IncomingTo
    <3>3. cur \in IncomingTo(n) /\ prev \notin IncomingTo(n)
      BY <2>0, <2>1, <1>3 DEF IncomingTo
    <3>4. Cardinality(IncomingTo(n) \ {cur}) = Cardinality(IncomingTo(n)) - 1
          /\ Cardinality(IncomingTo(n)) \in Nat
      BY <3>3, IncomingFinite, OneLess
    <3>5. IsFiniteSet(IncomingTo(n) \ {cur})
      BY IncomingFinite, FS_RemoveElement
    <3>6. Cardinality(IncomingTo(n)') = Cardinality(IncomingTo(n) \ {cur}) + 1
      BY <3>2, <3>3, <3>5, OneMore
    <3> QED
      BY <3>4, <3>6, <2>0 DEF Tidy, Counted
  <2>2. CASE n # next[cur]
    <3>1. \A x \in Links : next'[x] = n <=> next[x] = n
      BY <2>0, <2>2, <1>3, <1>6
    <3>2. IncomingTo(n)' = IncomingTo(n)
      BY <3>1 DEF IncomingTo
    <3> QED
      BY <2>0, <3>2 DEF Tidy, Counted
  <2> QED
    BY <2>1, <2>2
<1> QED
  BY <1>7, <1>8, <1>9, <1>10, <1>11 DEF Tidy

(* One link is led past a merge.                                           *)
LEMMA RemoveSharedTidy ==
  ASSUME Tidy, cur \in Allocated, count[cur] > 1,
         prev \in Lists \union Allocated, next[prev] = cur, RemoveShared
  PROVE  Tidy'
<1>1. /\ tagData' = tagData
      /\ next' = [next EXCEPT ![prev] = next[cur]]
      /\ count' = Incremented(Decremented(count, cur), next[cur])
  BY DEF RemoveShared
<1>2. next[cur] # cur
  <2>1. {cur} \in SUBSET Allocated /\ {cur} # {}
    OBVIOUS
  <2> QED
    BY <2>1 DEF Tidy, Acyclic
<1>3. /\ prev \in Links /\ cur \in Links /\ cur \in Nodes /\ cur # NULL
      /\ prev # cur /\ next[cur] \in Allocated \union {NULL}
  BY <1>2, PointerFacts DEF Tidy, Solid
<1>4. Allocated' = Allocated
  BY <1>1 DEF Allocated
<1>5. \A x \in Links : next'[x] = IF x = prev THEN next[cur] ELSE next[x]
  BY <1>1, <1>3 DEF Tidy, TreeTypes
<1>6. \A n \in Nodes : count'[n] = IF n = cur THEN count[n] - 1
                                  ELSE IF n = next[cur] THEN count[n] + 1 ELSE count[n]
  BY <1>1, <1>2 DEF Incremented, Decremented
<1>7. \A n \in Nodes : count[n] \in Nat
  BY DEF Tidy, TreeTypes
<1>8. TreeTypes'
  <2>1. next' \in [Links -> Pointers]
    BY <1>1, <1>3, PointerFacts DEF Tidy, TreeTypes
  <2>2. count' = [n \in Nodes |-> count'[n]]
    BY <1>1 DEF Incremented, Decremented
  <2>3. \A n \in Nodes : count'[n] \in Nat
    BY <1>3, <1>6, <1>7
  <2>4. count' \in [Nodes -> Nat]
    BY <2>2, <2>3
  <2> QED
    BY <2>1, <2>4, <1>1 DEF Tidy, TreeTypes
<1>9. Solid'
  BY <1>3, <1>4, <1>5 DEF Tidy, Solid
<1>10. FreeHoldNothing'
  BY <1>3, <1>4, <1>5, PointerFacts DEF Tidy, FreeHoldNothing
<1>11. Acyclic'
  <2> SUFFICES ASSUME NEW S \in SUBSET Allocated, S # {}
               PROVE  \E n \in S : next'[n] \notin S
    BY <1>4 DEF Acyclic
  <2> DEFINE T == IF prev \in S THEN S \union {cur} ELSE S
  <2>1. T \in SUBSET Allocated /\ T # {}
    OBVIOUS
  <2>2. PICK n \in T : next[n] \notin T
    BY <2>1 DEF Tidy, Acyclic
  <2>3. n \in Links /\ n # prev
    BY <2>1, <2>2, PointerFacts
  <2>4. next'[n] = next[n] /\ next[n] \notin S
    BY <2>2, <2>3, <1>5
  <2>5. CASE n \in S
    BY <2>4, <2>5
  <2>6. CASE n \notin S
    <3>1. n = cur /\ prev \in S
      BY <2>2, <2>6
    <3> QED
      BY <3>1, <2>4, <1>3, <1>5
  <2> QED
    BY <2>5, <2>6
<1>12. Counted'
  <2> SUFFICES ASSUME NEW n \in Allocated
               PROVE  count'[n] = Cardinality(IncomingTo(n)') /\ count'[n] > 0
    BY <1>4 DEF Counted
  <2>0. /\ n \in Nodes /\ n # NULL /\ IsFiniteSet(IncomingTo(n))
        /\ count[n] \in Nat /\ count[n] = Cardinality(IncomingTo(n)) /\ count[n] > 0
    BY <1>7, PointerFacts, IncomingFinite DEF Tidy, Counted
  <2>1. CASE n = cur
    <3>1. \A x \in Links : next'[x] = n <=> next[x] = n /\ x # prev
      BY <2>1, <1>2, <1>5
    <3>2. IncomingTo(n)' = IncomingTo(n) \ {prev}
      BY <3>1 DEF IncomingTo
    <3>3. prev \in IncomingTo(n)
      BY <2>1, <1>3 DEF IncomingTo
    <3>4. Cardinality(IncomingTo(n)') = Cardinality(IncomingTo(n)) - 1
      BY <2>0, <3>2, <3>3, OneLess
    <3>5. count'[n] = count[n] - 1
      BY <2>0, <2>1, <1>6
    <3> QED
      BY <2>0, <2>1, <3>4, <3>5
  <2>2. CASE n # cur /\ n = next[cur]
    <3>1. \A x \in Links : next'[x] = n <=> next[x] = n \/ x = prev
      BY <2>2, <1>5
    <3>2. IncomingTo(n)' = IncomingTo(n) \union {prev}
      BY <3>1, <1>3 DEF IncomingTo
    <3>3. prev \notin IncomingTo(n)
      BY <2>2 DEF IncomingTo
    <3>4. Cardinality(IncomingTo(n)') = Cardinality(IncomingTo(n)) + 1
      BY <2>0, <3>2, <3>3, OneMore
    <3>5. count'[n] = count[n] + 1
      BY <2>0, <2>2, <1>6
    <3> QED
      BY <2>0, <3>4, <3>5
  <2>3. CASE n # cur /\ n # next[cur]
    <3>1. \A x \in Links : next'[x] = n <=> next[x] = n
      BY <2>3, <1>5
    <3>2. IncomingTo(n)' = IncomingTo(n)
      BY <3>1 DEF IncomingTo
    <3>3. count'[n] = count[n]
      BY <2>0, <2>3, <1>6
    <3> QED
      BY <2>0, <3>2, <3>3
  <2> QED
    BY <2>1, <2>2, <2>3
<1> QED
  BY <1>8, <1>9, <1>10, <1>11, <1>12 DEF Tidy

(* A tag is rewritten where it is: no link changes.                        *)
LEMMA ReplaceUnsharedTidy ==
  ASSUME Tidy, cur \in Allocated, arg \in Tags, ReplaceUnshared
  PROVE  Tidy'
<1>1. /\ tagData' = [tagData EXCEPT ![cur].data = arg.data]
      /\ next' = next /\ count' = count
  BY DEF ReplaceUnshared
<1>2. arg.data \in Data
  BY DEF Data
<1>3. tagData[cur] \in [tid : Tids, data : Data, size : Nat]
  BY PointerFacts DEF Tidy, TreeTypes, Allocated
<1>4. /\ [tagData[cur] EXCEPT !.data = arg.data] \in [tid : Tids, data : Data, size : Nat]
      /\ tagData' = [tagData EXCEPT ![cur] = [tagData[cur] EXCEPT !.data = arg.data]]
  BY <1>1, <1>2, <1>3
<1>5. Allocated' = Allocated
  BY <1>4, TagsAssumption DEF Tidy, TreeTypes, Allocated
<1>6. TreeTypes'
  BY <1>1, <1>4 DEF Tidy, TreeTypes
<1> QED
  BY <1>1, <1>5, <1>6 DEF Tidy, Counted, Solid, Acyclic, FreeHoldNothing, IncomingTo

(* A list that has no link gets one.                                       *)
LEMMA LinkTidy ==
  ASSUME Tidy, this \in Lists, arg \in Lists, next[this] = NULL, Link
  PROVE  Tidy'
<1>1. /\ tagData' = tagData
      /\ next' = [next EXCEPT ![this] = next[arg]]
      /\ count' = Incremented(count, next[arg])
  BY DEF Link
<1>2. /\ this \in Links /\ this \notin Nodes /\ arg \in Links
      /\ next[arg] \in Allocated \union {NULL}
  BY PointerFacts DEF Tidy, Solid
<1>3. Allocated' = Allocated
  BY <1>1 DEF Allocated
<1>4. \A x \in Links : next'[x] = IF x = this THEN next[arg] ELSE next[x]
  BY <1>1 DEF Tidy, TreeTypes
<1>5. \A n \in Nodes : count'[n] = IF n = next[arg] THEN count[n] + 1 ELSE count[n]
  BY <1>1 DEF Incremented
<1>6. \A n \in Nodes : count[n] \in Nat
  BY DEF Tidy, TreeTypes
<1>7. TreeTypes'
  <2>1. next' \in [Links -> Pointers]
    BY <1>1, <1>2, PointerFacts DEF Tidy, TreeTypes
  <2>2. count' = [n \in Nodes |-> count'[n]]
    BY <1>1 DEF Incremented
  <2>3. \A n \in Nodes : count'[n] \in Nat
    BY <1>5, <1>6
  <2>4. count' \in [Nodes -> Nat]
    BY <2>2, <2>3
  <2> QED
    BY <2>1, <2>4, <1>1 DEF Tidy, TreeTypes
<1>8. Solid' /\ FreeHoldNothing'
  BY <1>2, <1>3, <1>4, PointerFacts DEF Tidy, Solid, FreeHoldNothing
<1>9. \A n \in Nodes : next'[n] = next[n]
  BY <1>2, <1>4, PointerFacts
<1>10. Acyclic'
  BY <1>3, <1>9, PointerFacts DEF Tidy, Acyclic
<1>11. Counted'
  <2> SUFFICES ASSUME NEW n \in Allocated
               PROVE  count'[n] = Cardinality(IncomingTo(n)') /\ count'[n] > 0
    BY <1>3 DEF Counted
  <2>0. /\ n \in Nodes /\ n # NULL /\ IsFiniteSet(IncomingTo(n))
        /\ count[n] \in Nat /\ count[n] = Cardinality(IncomingTo(n)) /\ count[n] > 0
    BY <1>6, PointerFacts, IncomingFinite DEF Tidy, Counted
  <2>1. CASE n = next[arg]
    <3>1. \A x \in Links : next'[x] = n <=> next[x] = n \/ x = this
      BY <2>1, <1>4
    <3>2. IncomingTo(n)' = IncomingTo(n) \union {this}
      BY <3>1, <1>2 DEF IncomingTo
    <3>3. this \notin IncomingTo(n)
      BY <2>0 DEF IncomingTo
    <3>4. Cardinality(IncomingTo(n)') = Cardinality(IncomingTo(n)) + 1
      BY <2>0, <3>2, <3>3, OneMore
    <3> QED
      BY <2>0, <2>1, <3>4, <1>5
  <2>2. CASE n # next[arg]
    <3>1. \A x \in Links : next'[x] = n <=> next[x] = n
      BY <2>0, <2>2, <1>4
    <3>2. IncomingTo(n)' = IncomingTo(n)
      BY <3>1 DEF IncomingTo
    <3> QED
      BY <2>0, <2>2, <3>2, <1>5
  <2> QED
    BY <2>1, <2>2
<1> QED
  BY <1>7, <1>8, <1>10, <1>11 DEF Tidy

-----------------------------------------------------------------------------
(* RemoveAll: the tree is tidy but for the list that goes.                 *)

(* What a removal in progress knows of the tree.                           *)
LEMMA RemovalFacts ==
  ASSUME IInv, pc = "removeAll"
  PROVE  /\ this \in Lists /\ this \in Links /\ this \notin Nodes
         /\ cur \in Allocated \union {NULL} /\ prev # this
         /\ \A n \in Allocated : n # prev => count[n] = Cardinality(IncomingTo(n)) /\ count[n] > 0
         /\ \A x \in Links : x # this /\ x # prev => next[x] \in (Allocated \ {prev}) \union {NULL}
         /\ prev # NULL => /\ prev \in Allocated /\ cur # prev
                           /\ next[prev] = cur /\ next[this] \notin Allocated \ {prev}
         /\ prev = NULL => next[this] = cur
<1>1. this \in Lists /\ this \in Links /\ this \notin Nodes /\ this # NULL
  BY PointerFacts DEF IInv, TypeOK
<1>2. cur \in Allocated \union {NULL}
  BY DEF IInv, RemovalHolds
<1>3. \/ prev = NULL /\ next[this] = cur
      \/ /\ prev \in Allocated /\ next[prev] = cur /\ cur # prev
         /\ IncomingTo(prev) \subseteq {this}
         /\ next[this] \notin Allocated \ {prev}
  BY DEF IInv, RemovalHolds
<1>4. prev # this
  BY <1>1, <1>3, PointerFacts
<1>5. \A n \in Allocated : n # prev => count[n] = Cardinality(IncomingTo(n)) /\ count[n] > 0
  BY <1>1, PointerFacts DEF IInv, CountsExact, Dying
<1>6. \A x \in Links : x # this /\ x # prev => next[x] \in Allocated \union {NULL}
  BY DEF IInv, NoDangling, Dying
<1>7. \A x \in Links : x # this => next[x] # prev \/ prev = NULL
  BY <1>3 DEF IncomingTo
<1>8. prev # NULL => prev \in Allocated
  BY <1>3
<1>9. \A x \in Links : x # this /\ x # prev => next[x] \in (Allocated \ {prev}) \union {NULL}
  BY <1>6, <1>7, PointerFacts
<1>10. NULL \notin Links /\ NULL \notin Allocated
  BY PointerFacts
<1> QED
  BY <1>1, <1>2, <1>3, <1>4, <1>5, <1>9, <1>10

LEMMA RemoveOnKeeps ==
  ASSUME IInv, RemoveOn
  PROVE  TreeTypes' /\ CountsExact' /\ NoDangling' /\ Acyclic' /\ FreeHoldNothing' /\ RemovalHolds'
<1>1. /\ pc = "removeAll" /\ pc' = "removeAll" /\ this' = this
      /\ cur # NULL /\ count[cur] = 1 /\ cur' = next[cur] /\ prev' = cur
      /\ count' = Decremented(count, cur)
      /\ tagData' = [n \in Nodes |-> IF n = prev THEN NULL ELSE tagData[n]]
      /\ next' = [x \in Links |-> IF x = prev THEN NULL ELSE next[x]]
  BY DEF RemoveOn, Freed
<1>2. /\ this \in Lists /\ this \in Links /\ this \notin Nodes
      /\ cur \in Allocated /\ cur # prev /\ cur \in Nodes /\ cur \in Links /\ prev # this
      /\ prev # NULL => prev \in Allocated /\ next[prev] = cur /\ next[this] \notin Allocated \ {prev}
      /\ prev = NULL => next[this] = cur
      /\ NULL \notin Links
  BY <1>1, RemovalFacts, PointerFacts
<1>3. /\ \A n \in Allocated : n # prev => count[n] = Cardinality(IncomingTo(n)) /\ count[n] > 0
      /\ \A x \in Links : x # this /\ x # prev => next[x] \in (Allocated \ {prev}) \union {NULL}
  <2>1. \A n \in Allocated : n # prev => count[n] = Cardinality(IncomingTo(n)) /\ count[n] > 0
    BY <1>1, RemovalFacts
  <2>2. \A x \in Links : x # this /\ x # prev => next[x] \in (Allocated \ {prev}) \union {NULL}
    BY <1>1, RemovalFacts
  <2> QED
    BY <2>1, <2>2
<1>4. TreeTypes
  BY DEF IInv, TypeOK, TreeTypes
<1>5. Allocated' = Allocated \ {prev}
  BY <1>1, <1>2 DEF Allocated
<1>6. next[cur] # cur
  <2>1. {cur} \in SUBSET Allocated /\ {cur} # {}
    BY <1>2
  <2> QED
    BY <2>1 DEF IInv, Acyclic
<1>7. \A n \in Nodes : count'[n] = IF n = cur THEN 0 ELSE count[n]
  BY <1>1 DEF Decremented
<1>8. TreeTypes'
  <2>1. count' = [n \in Nodes |-> count'[n]]
    BY <1>1 DEF Decremented
  <2>2. \A n \in Nodes : count'[n] \in Nat
    BY <1>4, <1>7 DEF TreeTypes
  <2>3. count' \in [Nodes -> Nat]
    BY <2>1, <2>2
  <2>4. next' \in [Links -> Pointers] /\ tagData' \in [Nodes -> [tid : Tids, data : Data, size : Nat] \union {NULL}]
    BY <1>1, <1>4, PointerFacts DEF TreeTypes
  <2> QED
    BY <2>3, <2>4 DEF TreeTypes
<1>9. CountsExact'
  <2> SUFFICES ASSUME NEW n \in Allocated', ~Dying(n)'
               PROVE  count'[n] = Cardinality(IncomingTo(n)') /\ count'[n] > 0
    BY DEF CountsExact
  <2>1. n \in Allocated /\ n \in Nodes /\ n # prev /\ n # cur /\ n # NULL
    BY <1>1, <1>5, PointerFacts DEF Dying
  <2>2. \A x \in Links : next'[x] = n <=> next[x] = n
    BY <2>1, <1>1, <1>2
  <2>3. IncomingTo(n)' = IncomingTo(n)
    BY <2>2 DEF IncomingTo
  <2> QED
    BY <2>1, <2>3, <1>3, <1>7
<1>10. NoDangling'
  <2> SUFFICES ASSUME NEW x \in Links, ~Dying(x)'
               PROVE  next'[x] \in Allocated' \union {NULL}
    BY DEF NoDangling
  <2>1. x # this
    BY <1>1 DEF Dying
  <2> QED
    BY <2>1, <1>1, <1>3, <1>5
<1>11. Acyclic'
  <2> SUFFICES ASSUME NEW S \in SUBSET Allocated', S # {}
               PROVE  \E n \in S : next'[n] \notin S
    BY DEF Acyclic
  <2>1. S \in SUBSET Allocated /\ prev \notin S
    BY <1>5
  <2>2. PICK n \in S : next[n] \notin S
    BY <2>1 DEF IInv, Acyclic
  <2>3. n \in Links /\ n # prev
    BY <2>1, PointerFacts
  <2> QED
    BY <2>2, <2>3, <1>1
<1>12. FreeHoldNothing'
  <2> SUFFICES ASSUME NEW n \in Nodes \ Allocated' PROVE next'[n] = NULL
    BY DEF FreeHoldNothing
  <2>1. n \in Links /\ (n = prev \/ n \in Nodes \ Allocated)
    BY <1>5, PointerFacts
  <2> QED
    BY <2>1, <1>1 DEF IInv, FreeHoldNothing
<1>13. RemovalHolds'
  <2>1. next'[cur] = next[cur] /\ next'[this] = next[this]
    BY <1>1, <1>2
  <2>2. next[cur] \in Allocated' \union {NULL}
    BY <1>2, <1>3, <1>5
  <2>3. cur \in Allocated'
    BY <1>2, <1>5
  <2>4. IncomingTo(cur) = IF prev = NULL THEN {this} ELSE {prev}
    <3>1. Cardinality(IncomingTo(cur)) = 1
      BY <1>1, <1>2, <1>3
    <3>2. CASE prev = NULL
      <4>1. this \in IncomingTo(cur)
        BY <3>2, <1>2 DEF IncomingTo
      <4> QED
        BY <4>1, <3>1, <3>2, JustOne, IncomingFinite
    <3>3. CASE prev # NULL
      <4>1. prev \in IncomingTo(cur)
        BY <3>3, <1>2, PointerFacts DEF IncomingTo
      <4> QED
        BY <4>1, <3>1, <3>3, JustOne, IncomingFinite
    <3> QED
      BY <3>2, <3>3
  <2>5. \A x \in Links : next'[x] = cur => x = this
    <3> SUFFICES ASSUME NEW x \in Links, next'[x] = cur PROVE x = this
      OBVIOUS
    <3>1. x # prev /\ next[x] = cur
      BY <1>1
    <3>2. x \in IncomingTo(cur)
      BY <3>1 DEF IncomingTo
    <3> QED
      BY <2>4, <3>1, <3>2
  <2>6. (IncomingTo(cur))' = {x \in Links : next'[x] = next[cur]}
    BY <1>1 DEF IncomingTo
  <2>7. IncomingTo(prev)' \subseteq {this'}
    BY <2>5, <1>1 DEF IncomingTo
  <2>8. next'[this] \notin Allocated' \ {cur}
    BY <2>1, <1>2, <1>5
  <2> QED
    BY <2>1, <2>2, <2>3, <2>7, <2>8, <1>1, <1>6 DEF RemovalHolds
<1> QED
  BY <1>8, <1>9, <1>10, <1>11, <1>12, <1>13

LEMMA RemoveEndTidy ==
  ASSUME IInv, RemoveEnd
  PROVE  Tidy' /\ next'[this] = NULL /\ this \in Lists
<1>1. /\ pc = "removeAll" /\ (cur # NULL => count[cur] > 1)
      /\ count' = Decremented(count, cur)
      /\ tagData' = [n \in Nodes |-> IF n = prev THEN NULL ELSE tagData[n]]
      /\ next' = [x \in Links |-> IF x \in {prev, this} THEN NULL ELSE next[x]]
  BY DEF RemoveEnd, AtMerge
<1>2. /\ this \in Lists /\ this \in Links /\ this \notin Nodes
      /\ cur \in Allocated \union {NULL} /\ prev # this
      /\ prev # NULL => prev \in Allocated /\ cur # prev /\ next[prev] = cur /\ next[this] \notin Allocated \ {prev}
      /\ prev = NULL => next[this] = cur
      /\ NULL \notin Links /\ NULL \notin Nodes
  BY <1>1, RemovalFacts, PointerFacts
<1>3. \A n \in Allocated : n # prev => count[n] = Cardinality(IncomingTo(n)) /\ count[n] > 0
  BY <1>1, RemovalFacts
<1>4. \A x \in Links : x # this /\ x # prev => next[x] \in (Allocated \ {prev}) \union {NULL}
  BY <1>1, RemovalFacts
<1>5. TreeTypes
  BY DEF IInv, TypeOK, TreeTypes
<1>6. Allocated' = Allocated \ {prev}
  BY <1>1, <1>2 DEF Allocated
<1>7. \A n \in Nodes : count'[n] = IF n = cur THEN count[n] - 1 ELSE count[n]
  BY <1>1 DEF Decremented
<1>8. TreeTypes'
  <2>1. count' = [n \in Nodes |-> count'[n]]
    BY <1>1 DEF Decremented
  <2>2. \A n \in Nodes : count'[n] \in Nat
    BY <1>1, <1>2, <1>5, <1>7 DEF TreeTypes
  <2>3. count' \in [Nodes -> Nat]
    BY <2>1, <2>2
  <2>4. next' \in [Links -> Pointers] /\ tagData' \in [Nodes -> [tid : Tids, data : Data, size : Nat] \union {NULL}]
    BY <1>1, <1>5, PointerFacts DEF TreeTypes
  <2> QED
    BY <2>3, <2>4 DEF TreeTypes
<1>9. Counted'
  <2> SUFFICES ASSUME NEW n \in Allocated'
               PROVE  count'[n] = Cardinality(IncomingTo(n)') /\ count'[n] > 0
    BY DEF Counted
  <2>1. /\ n \in Allocated /\ n \in Nodes /\ n # prev /\ n # NULL /\ IsFiniteSet(IncomingTo(n))
        /\ count[n] = Cardinality(IncomingTo(n)) /\ count[n] > 0 /\ count[n] \in Nat
    BY <1>3, <1>5, <1>6, PointerFacts, IncomingFinite DEF TreeTypes
  <2>2. CASE n = cur
    <3> DEFINE holder == IF prev = NULL THEN this ELSE prev
    <3>1. holder \in Links /\ next[holder] = n
      BY <2>2, <1>2, PointerFacts
    <3>2. prev # NULL => next[this] # n
      BY <2>1, <1>2
    <3>3. \A x \in Links : next'[x] = n <=> next[x] = n /\ x # holder
      BY <2>1, <3>1, <3>2, <1>1, <1>2
    <3>4. IncomingTo(n)' = IncomingTo(n) \ {holder}
      BY <3>3 DEF IncomingTo
    <3>5. holder \in IncomingTo(n)
      BY <3>1 DEF IncomingTo
    <3> HIDE DEF holder
    <3>6. Cardinality(IncomingTo(n)') = Cardinality(IncomingTo(n)) - 1
      BY <2>1, <3>4, <3>5, OneLess
    <3>7. count'[n] = count[n] - 1 /\ count[n] > 1
      BY <2>1, <2>2, <1>1, <1>7
    <3> QED
      BY <2>1, <3>6, <3>7
  <2>3. CASE n # cur
    <3>1. \A x \in Links : next'[x] = n <=> next[x] = n
      BY <2>1, <2>3, <1>1, <1>2
    <3>2. IncomingTo(n)' = IncomingTo(n)
      BY <3>1 DEF IncomingTo
    <3> QED
      BY <2>1, <2>3, <3>2, <1>7
  <2> QED
    BY <2>2, <2>3
<1>10. Solid'
  BY <1>1, <1>4, <1>6 DEF Solid
<1>11. Acyclic'
  <2> SUFFICES ASSUME NEW S \in SUBSET Allocated', S # {}
               PROVE  \E n \in S : next'[n] \notin S
    BY DEF Acyclic
  <2>1. S \in SUBSET Allocated /\ prev \notin S
    BY <1>6
  <2>2. PICK n \in S : next[n] \notin S
    BY <2>1 DEF IInv, Acyclic
  <2>3. n \in Links /\ n # prev /\ n # this
    BY <2>1, <1>2, PointerFacts
  <2> QED
    BY <2>2, <2>3, <1>1
<1>12. FreeHoldNothing'
  <2> SUFFICES ASSUME NEW n \in Nodes \ Allocated' PROVE next'[n] = NULL
    BY DEF FreeHoldNothing
  <2>1. n \in Links /\ (n = prev \/ n \in Nodes \ Allocated)
    BY <1>6, PointerFacts
  <2> QED
    BY <2>1, <1>1 DEF IInv, FreeHoldNothing
<1>13. next'[this] = NULL
  BY <1>1, <1>2
<1> QED
  BY <1>2, <1>8, <1>9, <1>10, <1>11, <1>12, <1>13 DEF Tidy

-----------------------------------------------------------------------------
(* The nodes of a list.                                                    *)

LEMMA HeadOfList == ASSUME NEW n \in Allocated PROVE n \in NodesFrom(n)
BY PointerFacts DEF NodesFrom

LEMMA ListGoesOn ==
  ASSUME Tidy, NEW n, NEW m \in NodesFrom(n), next[m] # NULL
  PROVE  next[m] \in NodesFrom(n)
<1>1. m \in Allocated /\ m \in Links
  BY PointerFacts DEF NodesFrom
<1>2. next[m] \in Allocated
  BY <1>1 DEF Tidy, Solid
<1> SUFFICES ASSUME NEW S \in SUBSET Allocated, n \in S \union {NULL}, Closed(S)
             PROVE  next[m] \in S
  BY <1>2 DEF NodesFrom
<1>3. m \in S
  BY DEF NodesFrom
<1> QED
  BY <1>3 DEF Closed

LEMMA RestOfList ==
  ASSUME NEW n \in Allocated, NEW m \in NodesFrom(n), m # n
  PROVE  m \in NodesFrom(next[n]) /\ next[n] # NULL
<1>1. m \in Allocated
  BY DEF NodesFrom
<1>2. ASSUME NEW S \in SUBSET Allocated, next[n] \in S \union {NULL}, Closed(S)
      PROVE  m \in S
  <2>1. S \union {n} \in SUBSET Allocated /\ Closed(S \union {n})
    BY <1>2 DEF Closed
  <2>2. m \in S \union {n}
    BY <2>1 DEF NodesFrom
  <2> QED
    BY <2>2
<1>3. m \in NodesFrom(next[n])
  BY <1>1, <1>2 DEF NodesFrom
<1>4. next[n] # NULL
  <2> SUFFICES ASSUME next[n] = NULL PROVE FALSE
    OBVIOUS
  <2>1. {} \in SUBSET Allocated /\ Closed({}) /\ next[n] \in {} \union {NULL}
    BY DEF Closed
  <2> QED
    BY <2>1, <1>2
<1> QED
  BY <1>3, <1>4

(* A list does not come back to what leads to it.                          *)
LEMMA NoWayBack ==
  ASSUME Tidy, NEW n \in Allocated, NEW p \in Allocated, next[p] = n
  PROVE  p \notin NodesFrom(n)
<1> SUFFICES ASSUME p \in NodesFrom(n) PROVE FALSE
  OBVIOUS
<1> DEFINE C == {m \in NodesFrom(n) : p \in NodesFrom(m)}
<1>1. C \in SUBSET Allocated /\ n \in C
  BY HeadOfList DEF NodesFrom
<1>2. PICK m \in C : next[m] \notin C
  BY <1>1 DEF Tidy, Acyclic
<1>3. m \in Allocated /\ m \in NodesFrom(n) /\ p \in NodesFrom(m) /\ m # p
  BY <1>1, <1>2
<1>4. p \in NodesFrom(next[m]) /\ next[m] # NULL
  BY <1>3, RestOfList
<1>5. next[m] \in NodesFrom(n)
  BY <1>3, <1>4, ListGoesOn
<1> QED
  BY <1>2, <1>4, <1>5

(* Copying a node leaves the rest of its list as it was.                   *)
LEMMA RestKept ==
  ASSUME Tidy, cur \in Allocated, prev \in Lists \union Allocated, next[prev] = cur,
         NEW copy \in Nodes \ Allocated, Allocated' = Allocated \union {copy},
         \A x \in Links : next'[x] = IF x = prev THEN copy ELSE IF x = copy THEN next[cur] ELSE next[x],
         cur' = next[cur], next[cur] # NULL, NEW m \in NodesFrom(next[cur])
  PROVE  m \in NodesFrom(cur)'
<1>1. m \in Allocated'
  BY DEF NodesFrom
<1>2. ASSUME NEW S \in SUBSET Allocated', next[cur] \in S,
             \A k \in S : next'[k] \in S \union {NULL}
      PROVE  m \in S
  <2> DEFINE T == S \intersect NodesFrom(cur)
  <2>1. T \in SUBSET Allocated
    BY DEF NodesFrom
  <2>2. cur \in NodesFrom(cur)
    BY HeadOfList
  <2>3. next[cur] \in T
    BY <1>2, <2>2, ListGoesOn
  <2>4. ASSUME NEW k \in T PROVE next[k] \in T \union {NULL}
    <3>1. k \in Links /\ k \in Allocated /\ k # copy /\ k \in NodesFrom(cur) /\ k \in S
      BY <2>1, PointerFacts
    <3>2. k # prev
      <4>1. prev \in Allocated => prev \notin NodesFrom(cur)
        BY NoWayBack
      <4> QED
        BY <4>1, <3>1
    <3>3. next'[k] = next[k]
      BY <3>1, <3>2
    <3>4. next[k] # NULL => next[k] \in NodesFrom(cur)
      BY <3>1, ListGoesOn
    <3> QED
      BY <3>1, <3>3, <3>4, <1>2
  <2> HIDE DEF T
  <2>5. m \in T
    BY <2>1, <2>3, <2>4 DEF NodesFrom, Closed
  <2> QED
    BY <2>5 DEF T
<1>3. NULL \notin Allocated
  BY PointerFacts
<1> QED
  BY <1>1, <1>2 DEF NodesFrom, Closed

-----------------------------------------------------------------------------
(* The inductive invariant.                                                *)

(* What a step that ends with a tidy tree has left to show.                *)
LEMMA TidyStep ==
  ASSUME Tidy', TypeOK', pc' # "removeAll", CopiesMerges', TraversalHolds', Unlinked'
  PROVE  IInv'
BY TidyIsEnough DEF IInv, RemovalHolds

LEMMA ReturnStep ==
  ASSUME IInv, Tidy', Return, found' \in BOOLEAN
  PROVE  IInv'
<1>1. pc' = "idle"
  BY DEF Return, Frame
<1>2. TypeOK'
  BY <1>1 DEF TypeOK, Tidy, TreeTypes
<1> QED
  BY <1>1, <1>2, TidyStep DEF CopiesMerges, TraversalHolds, Unlinked

LEMMA InitIInv == Init => IInv
<1> SUFFICES ASSUME Init PROVE IInv
  OBVIOUS
<1>1. Allocated = {} /\ pc = "idle"
  BY DEF Init, Allocated
<1>2. TypeOK
  BY DEF Init, TypeOK, Pointers
<1>3. \A x \in Links : next[x] = NULL
  BY DEF Init
<1> QED
  BY <1>1, <1>2, <1>3, PointerFacts
     DEF IInv, CountsExact, NoDangling, CopiesMerges, Acyclic, FreeHoldNothing,
         TraversalHolds, RemovalHolds, Unlinked

(* What a traversal knows at its cursor.                                   *)
LEMMA TraversalFacts ==
  ASSUME IInv, pc \in {"search", "copy"}
  PROVE  /\ Tidy
         /\ this \in Lists /\ op \in {"Remove", "Replace"} /\ found \in BOOLEAN
         /\ arg \in [tid : Tids, data : Data \union {NULL}]
         /\ op = "Replace" => arg \in Tags
         /\ next[prev] = cur /\ prev \in Lists \union Allocated /\ prev \in Links
         /\ cur \in Allocated \union {NULL}
         /\ pc = "copy" => /\ cur \in Allocated /\ count[cur] > 1
                           /\ HasTid(cur, arg.tid)
<1>1. Tidy
  BY TidyWhenQuiet
<1>2. next[prev] = cur /\ prev \in Lists \union Allocated
  BY DEF IInv, TraversalHolds
<1>3. prev \in Links
  BY <1>2, PointerFacts
<1>4. cur \in Allocated \union {NULL}
  BY <1>1, <1>2, <1>3 DEF Tidy, Solid
<1>5. pc = "copy" => cur # NULL /\ count[cur] > 1 /\ HasTid(cur, arg.tid)
  BY DEF IInv, CopiesMerges, TraversalHolds
<1> QED
  BY <1>1, <1>2, <1>3, <1>4, <1>5 DEF IInv, TypeOK

LEMMA CopyOnKeeps == ASSUME IInv, CopyOn PROVE IInv'
<1> DEFINE tid == tagData[cur].tid
           copy == NewNode(tid)
<1>1. /\ pc = "copy" /\ pc' = "copy" /\ tid # arg.tid /\ HasRoom(tid)
      /\ PutInPlace(copy, tagData[cur])
      /\ cur' = next[cur] /\ prev' = copy
      /\ UNCHANGED <<this, op, arg, found>>
  BY DEF CopyOn
<1>2. copy \in Nodes \ Allocated
  BY <1>1, NewNodeIsFree
<1> HIDE DEF copy
<1>3. /\ Tidy /\ cur \in Allocated /\ count[cur] > 1 /\ HasTid(cur, arg.tid)
      /\ prev \in Lists \union Allocated /\ next[prev] = cur /\ prev \in Links
      /\ this \in Lists /\ op \in {"Remove", "Replace"} /\ found \in BOOLEAN
      /\ arg \in [tid : Tids, data : Data \union {NULL}]
      /\ op = "Replace" => arg \in Tags
  BY <1>1, TraversalFacts
<1>4. tagData[cur] \in [tid : Tids, data : Data, size : Nat]
  BY <1>3, PointerFacts DEF Tidy, TreeTypes, Allocated
<1>5. /\ Tidy' /\ Allocated' = Allocated \union {copy}
      /\ next[cur] # cur /\ next[cur] # copy
      /\ \A x \in Links : next'[x] = IF x = prev THEN copy ELSE IF x = copy THEN next[cur] ELSE next[x]
      /\ next[cur] # NULL => count'[next[cur]] > 1
  BY <1>1, <1>2, <1>3, <1>4, PutInPlaceTidy
<1>6. PICK m \in NodesFrom(cur) : tagData[m].tid = arg.tid
  BY <1>3 DEF HasTid
<1>7. m # cur /\ m \in Allocated /\ m # copy /\ m \in Nodes
  BY <1>1, <1>2, <1>6, PointerFacts DEF NodesFrom
<1>8. m \in NodesFrom(next[cur]) /\ next[cur] # NULL
  BY <1>3, <1>6, <1>7, RestOfList
<1>9. m \in NodesFrom(cur)'
  BY <1>1, <1>2, <1>3, <1>5, <1>8, RestKept
<1>10. tagData'[m].tid = arg'.tid
  BY <1>1, <1>6, <1>7 DEF PutInPlace, Tidy, TreeTypes
<1>11. HasTid(cur, arg.tid)'
  BY <1>9, <1>10 DEF HasTid
<1>12. cur' \in Allocated /\ copy \in Links
  BY <1>1, <1>2, <1>3, <1>8, PointerFacts DEF Tidy, Solid
<1>13. next'[prev'] = cur' /\ prev' \in Lists \union Allocated'
  BY <1>1, <1>2, <1>3, <1>5, <1>12, PointerFacts
<1>14. TypeOK'
  BY <1>1, <1>3, <1>5, <1>12, PointerFacts DEF TypeOK, Tidy, TreeTypes
<1>15. CopiesMerges' /\ TraversalHolds' /\ Unlinked'
  BY <1>1, <1>5, <1>8, <1>11, <1>13 DEF CopiesMerges, TraversalHolds, Unlinked
<1> QED
  BY <1>1, <1>5, <1>14, <1>15, TidyStep

(* The calls, and the steps of a traversal that change no node.            *)
LEMMA QuietStep ==
  ASSUME IInv, UNCHANGED <<tree, found>>, pc # "removeAll", TypeOK',
         pc' # "removeAll", CopiesMerges', TraversalHolds', Unlinked'
  PROVE  IInv'
BY TidyWhenQuiet, TidyUnchanged, TidyStep

LEMMA COWTraverseKeeps ==
  ASSUME IInv, NEW list \in Lists, NEW method, NEW tag,
         \/ method = "Replace" /\ tag \in Tags
         \/ \E tid \in Tids : method = "Remove" /\ tag = [tid |-> tid, data |-> NULL],
         COWTraverse(list, method, tag)
  PROVE  IInv'
<1>1. /\ pc = "idle" /\ pc' = "search" /\ this' = list /\ op' = method /\ arg' = tag
      /\ cur' = next[list] /\ prev' = list /\ UNCHANGED <<tree, found>>
  BY DEF COWTraverse, Frame
<1>2. list \in Links /\ next[list] \in Pointers
  BY PointerFacts DEF IInv, TypeOK
<1>3. tag \in [tid : Tids, data : Data \union {NULL}]
  <2>1. CASE tag \in Tags
    BY <2>1, TagsAssumption DEF Tids, Data
  <2>2. CASE \E tid \in Tids : tag = [tid |-> tid, data |-> NULL]
    BY <2>2
  <2> QED
    BY <2>1, <2>2
<1>4. TypeOK'
  BY <1>1, <1>2, <1>3 DEF IInv, TypeOK, tree
<1> QED
  BY <1>1, <1>4, QuietStep DEF CopiesMerges, TraversalHolds, Unlinked, tree

LEMMA SearchKeeps ==
  ASSUME IInv, SearchOn \/ StartCopy
  PROVE  IInv'
<1>1. pc = "search" /\ UNCHANGED <<tree, this, op, arg, found>> /\ cur # NULL
  BY DEF SearchOn, StartCopy, AtMerge
<1>2. /\ Tidy /\ cur \in Allocated /\ cur \in Links /\ next[cur] \in Pointers
      /\ next[prev] = cur /\ prev \in Lists \union Allocated
  BY <1>1, TraversalFacts, PointerFacts DEF Tidy, TreeTypes
<1>3. CASE SearchOn
  <2>1. pc' = pc /\ cur' = next[cur] /\ prev' = cur
    BY <1>3 DEF SearchOn
  <2>2. TypeOK'
    BY <2>1, <1>1, <1>2 DEF IInv, TypeOK, tree
  <2> QED
    BY <2>1, <2>2, <1>1, <1>2, QuietStep DEF CopiesMerges, TraversalHolds, Unlinked, tree, Allocated
<1>4. CASE StartCopy
  <2>1. pc' = "copy" /\ UNCHANGED <<cur, prev>> /\ count[cur] > 1 /\ HasTid(cur, arg.tid)
    BY <1>4 DEF StartCopy, AtMerge
  <2>2. TypeOK'
    BY <2>1, <1>1, <1>2 DEF IInv, TypeOK, tree
  <2>3. HasTid(cur, arg.tid)' /\ Allocated' = Allocated
    BY <2>1, <1>1 DEF HasTid, NodesFrom, Closed, Allocated, tree
  <2> QED
    BY <2>1, <2>2, <2>3, <1>1, <1>2, QuietStep DEF CopiesMerges, TraversalHolds, Unlinked, tree
<1> QED
  BY <1>3, <1>4

(* RemoveAll and operator= begin.                                          *)
LEMMA RemovalStarts ==
  ASSUME IInv, NEW list \in Lists, RemoveAll(list) \/ \E other \in Lists : Assign(list, other)
  PROVE  IInv'
<1>1. /\ pc = "idle" /\ pc' = "removeAll" /\ this' = list
      /\ cur' = next[list] /\ prev' = NULL /\ UNCHANGED <<tree, found>>
      /\ \/ op' = "RemoveAll"
         \/ op' = "Assign" /\ arg' \in Lists
  BY DEF RemoveAll, Assign, Frame
<1>2. Tidy /\ Tidy'
  BY <1>1, TidyWhenQuiet, TidyUnchanged
<1>3. list \in Links /\ next[list] \in Allocated \union {NULL} /\ next[list] \in Pointers
  BY <1>2, PointerFacts DEF Tidy, Solid, TreeTypes
<1>4. TypeOK'
  BY <1>1, <1>2, <1>3, PointerFacts DEF IInv, TypeOK, Tidy, TreeTypes
<1>5. RemovalHolds'
  BY <1>1, <1>3 DEF RemovalHolds, Allocated, tree
<1> QED
  BY <1>1, <1>2, <1>4, <1>5, TidyIsEnough DEF IInv, CopiesMerges, TraversalHolds, Unlinked

LEMMA StepIInv == ASSUME IInv, [Next]_vars PROVE IInv'
<1>1. CASE UNCHANGED vars
  BY <1>1 DEF vars, tree, locals, IInv, TypeOK, CountsExact, NoDangling, Dying, CopiesMerges,
              Acyclic, FreeHoldNothing, TraversalHolds, RemovalHolds, Unlinked,
              IncomingTo, Allocated, HasTid, NodesFrom, Closed
<1>2. ASSUME NEW list \in Lists, NEW tag \in Tags, Add(list, tag) PROVE IInv'
  <2>1. pc = "idle" /\ Prepend(list, tag) /\ UNCHANGED <<locals, found>>
    BY <1>2 DEF Add
  <2>2. Tidy'
    BY <2>1, TidyWhenQuiet, PrependTidy
  <2>3. pc' = "idle" /\ found' \in BOOLEAN
    BY <2>1 DEF locals, IInv, TypeOK
  <2>4. TypeOK'
    BY <2>2, <2>3 DEF TypeOK, Tidy, TreeTypes
  <2> QED
    BY <2>2, <2>3, <2>4, TidyStep DEF CopiesMerges, TraversalHolds, Unlinked
<1>3. ASSUME NEW list \in Lists, NEW tag \in Tags, COWTraverse(list, "Replace", tag) PROVE IInv'
  BY <1>3, COWTraverseKeeps
<1>4. ASSUME NEW list \in Lists, NEW tid \in Tids,
             COWTraverse(list, "Remove", [tid |-> tid, data |-> NULL])
      PROVE  IInv'
  BY <1>4, COWTraverseKeeps
<1>5. ASSUME NEW list \in Lists, RemoveAll(list) \/ \E other \in Lists : Assign(list, other)
      PROVE  IInv'
  BY <1>5, RemovalStarts
<1>6. CASE SearchOn \/ StartCopy
  BY <1>6, SearchKeeps
<1>7. CASE NotFound
  <2>1. /\ pc = "search" /\ found' = FALSE /\ Return
        /\ (op = "Replace" /\ Prepend(this, arg)) \/ UNCHANGED tree
    BY <1>7 DEF NotFound
  <2>2. Tidy'
    BY <2>1, TraversalFacts, PrependTidy, TidyUnchanged
  <2> QED
    BY <2>1, <2>2, ReturnStep
<1>8. CASE CopyOn
  BY <1>8, CopyOnKeeps
<1>9. CASE RemoveUnshared
  <2>1. pc = "search" /\ cur # NULL /\ ~(count[cur] > 1) /\ found' = TRUE /\ Return
    BY <1>9 DEF RemoveUnshared, FoundUnshared, AtMerge
  <2>2. Tidy /\ cur \in Allocated /\ prev \in Lists \union Allocated /\ next[prev] = cur
    BY <2>1, TraversalFacts
  <2>3. count[cur] <= 1
    BY <2>1, <2>2, PointerFacts DEF Tidy, TreeTypes
  <2> QED
    BY <1>9, <2>1, <2>2, <2>3, RemoveUnsharedTidy, ReturnStep
<1>10. CASE RemoveShared
  <2>1. pc = "copy" /\ found' = TRUE /\ Return
    BY <1>10 DEF RemoveShared, FoundShared
  <2> QED
    BY <1>10, <2>1, TraversalFacts, RemoveSharedTidy, ReturnStep
<1>11. CASE ReplaceUnshared
  <2>1. pc = "search" /\ cur # NULL /\ op = "Replace" /\ found' = TRUE /\ Return
    BY <1>11 DEF ReplaceUnshared, FoundUnshared
  <2> QED
    BY <1>11, <2>1, TraversalFacts, ReplaceUnsharedTidy, ReturnStep
<1>12. CASE Overrun
  <2>1. pc = "search" /\ pc' = "overrun" /\ UNCHANGED <<tree, found>>
    BY <1>12 DEF Overrun, FoundUnshared, Frame
  <2>2. TypeOK'
    BY <2>1 DEF IInv, TypeOK, tree
  <2> QED
    BY <2>1, <2>2, QuietStep DEF CopiesMerges, TraversalHolds, Unlinked
<1>13. CASE ReplaceShared
  <2>1. /\ pc = "copy" /\ op = "Replace" /\ HasRoom(arg.tid)
        /\ PutInPlace(NewNode(arg.tid), CreateTagData(arg))
        /\ found' = TRUE /\ Return
    BY <1>13 DEF ReplaceShared, FoundShared
  <2>2. NewNode(arg.tid) \in Nodes \ Allocated
    BY <2>1, NewNodeIsFree
  <2>3. arg \in Tags
    BY <2>1, TraversalFacts
  <2>4. CreateTagData(arg) \in [tid : Tids, data : Data, size : Nat]
    BY <2>3, TagsAssumption DEF CreateTagData, Tids, Data
  <2>5. Tidy'
    BY <2>1, <2>2, <2>4, TraversalFacts, PutInPlaceTidy
  <2> QED
    BY <2>1, <2>5, ReturnStep
<1>14. CASE RemoveOn
  <2>1. /\ pc = "removeAll" /\ UNCHANGED <<pc, this, op, arg, found>>
        /\ cur' = next[cur] /\ prev' = cur /\ cur # NULL
    BY <1>14 DEF RemoveOn
  <2>2. TreeTypes' /\ CountsExact' /\ NoDangling' /\ Acyclic' /\ FreeHoldNothing' /\ RemovalHolds'
    BY <1>14, RemoveOnKeeps
  <2>3. cur \in Links /\ cur \in Pointers /\ next[cur] \in Pointers
    BY <2>1, PointerFacts DEF IInv, TypeOK
  <2>4. TypeOK'
    BY <2>1, <2>2, <2>3 DEF IInv, TypeOK, TreeTypes
  <2> QED
    BY <2>1, <2>2, <2>4 DEF IInv, CopiesMerges, TraversalHolds, Unlinked
<1>15. CASE RemoveEnd
  <2>1. Tidy' /\ next'[this] = NULL /\ this \in Lists
    BY <1>15, RemoveEndTidy
  <2>2. /\ pc = "removeAll" /\ found' = found
        /\ \/ op = "Assign" /\ Frame("assign", this, op, arg, NULL, NULL)
           \/ Return
    BY <1>15 DEF RemoveEnd
  <2>3. found \in BOOLEAN /\ (op = "Assign" => arg \in Lists)
    BY <2>2 DEF IInv, TypeOK
  <2>4. CASE op = "Assign" /\ Frame("assign", this, op, arg, NULL, NULL)
    <3>1. pc' = "assign" /\ this' = this /\ op' = op /\ arg' = arg
      BY <2>4 DEF Frame
    <3>2. TypeOK'
      BY <3>1, <2>1, <2>2, <2>3, <2>4 DEF TypeOK, Tidy, TreeTypes
    <3> QED
      BY <3>1, <3>2, <2>1, <2>4, TidyStep DEF CopiesMerges, TraversalHolds, Unlinked
  <2>5. CASE Return
    BY <2>5, <2>1, <2>2, <2>3, ReturnStep
  <2> QED
    BY <2>2, <2>4, <2>5
<1>16. CASE Link
  <2>1. pc = "assign" /\ Return /\ found' = found
    BY <1>16 DEF Link
  <2>2. Tidy
    BY <2>1, TidyWhenQuiet
  <2>3. this \in Lists /\ arg \in Lists /\ next[this] = NULL /\ found \in BOOLEAN
    BY <2>1 DEF IInv, TypeOK, Unlinked
  <2> QED
    BY <2>1, <2>2, <2>3, <1>16, LinkTidy, ReturnStep
<1> QED
  BY <1>1, <1>2, <1>3, <1>4, <1>5, <1>6, <1>7, <1>8, <1>9, <1>10, <1>11, <1>12, <1>13,
     <1>14, <1>15, <1>16 DEF Next, Call, Step, Traverse

(* Type correctness.                                                       *)
THEOREM TypeCorrect == Spec => []TypeOK
<1>1. IInv => TypeOK
  BY DEF IInv
<1> QED
  BY <1>1, InitIInv, StepIInv, PTL DEF Spec

(* The invariant holds at every iteration of every loop.                   *)
THEOREM Invariance == Spec => []IInv
BY InitIInv, StepIInv, PTL DEF Spec

(* "count is the number of incoming pointers" (packet-tag-list.h): a node  *)
(* is freed when nothing leads to it, and not before.                      *)
THEOREM CountsCorrect == Spec => []CountsExact
<1>1. IInv => CountsExact
  BY DEF IInv
<1> QED
  BY <1>1, InitIInv, StepIInv, PTL DEF Spec

(* No list and no node ever points at freed memory.                        *)
THEOREM NeverDangling == Spec => []NoDangling
<1>1. IInv => NoDangling
  BY DEF IInv
<1> QED
  BY <1>1, InitIInv, StepIInv, PTL DEF Spec

(* The assertions of COWTraverse's copying loop hold, so the test for the  *)
(* end of the list may be skipped there as the comment says.               *)
THEOREM CopyingAsserted == Spec => []CopiesMerges
<1>1. IInv => CopiesMerges
  BY DEF IInv
<1> QED
  BY <1>1, InitIInv, StepIInv, PTL DEF Spec

-----------------------------------------------------------------------------
(* Leaks.  A node no list reaches would be led to by another such node:    *)
(* the links of the leaked nodes would reach as many nodes as there are,   *)
(* and so go round.                                                        *)
LEMMA TidyHasNoLeak ==
  ASSUME Tidy
  PROVE  \A n \in Allocated : \E list \in Lists : n \in NodesFrom(next[list])
<1> DEFINE Reached == {n \in Allocated : \E list \in Lists : n \in NodesFrom(next[list])}
           C == Allocated \ Reached
           D == {x \in C : next[x] \in C}
           f == [x \in D |-> next[x]]
<1>1. IsFiniteSet(C) /\ IsFiniteSet(D)
  <2>1. IsFiniteSet(Nodes) /\ C \subseteq Nodes /\ D \subseteq Nodes
    BY PointersAssumption, PointerFacts
  <2> QED
    BY <2>1, FS_Subset
<1>2. ASSUME NEW m \in C PROVE \E x \in D : next[x] = m
  <2>1. count[m] = Cardinality(IncomingTo(m)) /\ count[m] > 0
    BY DEF Tidy, Counted
  <2>2. IncomingTo(m) # {}
    <3> SUFFICES ASSUME IncomingTo(m) = {} PROVE FALSE
      OBVIOUS
    <3>1. Cardinality(IncomingTo(m)) = 0
      BY FS_EmptySet
    <3> QED
      BY <2>1, <3>1
  <2>3. PICK x \in Links : next[x] = m
    BY <2>2 DEF IncomingTo
  <2>4. m \in Allocated /\ m # NULL /\ m \notin Reached
    BY PointerFacts
  <2>5. x \notin Lists
    <3>1. m \in NodesFrom(next[x])
      BY <2>3, <2>4, HeadOfList
    <3> QED
      BY <3>1, <2>4
  <2>6. x \in Allocated
    BY <2>3, <2>4, <2>5, PointerFacts DEF Tidy, FreeHoldNothing
  <2>7. x \notin Reached
    <3> SUFFICES ASSUME x \in Reached PROVE FALSE
      OBVIOUS
    <3>1. PICK list \in Lists : x \in NodesFrom(next[list])
      OBVIOUS
    <3>2. m \in NodesFrom(next[list])
      BY <3>1, <2>3, <2>4, ListGoesOn
    <3> QED
      BY <3>2, <2>4
  <2> QED
    BY <2>3, <2>6, <2>7
<1>3. f \in Surjection(D, C)
  BY <1>2 DEF Surjection
<1>4. Cardinality(C) <= Cardinality(D)
  BY <1>1, <1>3, FS_Surjection
<1>5. C = D
  <2>1. D \in SUBSET C
    OBVIOUS
  <2>2. Cardinality(D) <= Cardinality(C) /\ (Cardinality(C) = Cardinality(D) => C = D)
    BY <1>1, <2>1, FS_Subset
  <2>3. Cardinality(C) \in Nat /\ Cardinality(D) \in Nat
    BY <1>1, FS_CardinalityType
  <2> HIDE DEF C, D
  <2> QED
    BY <2>2, <2>3, <1>4
<1>6. C = {}
  <2> SUFFICES ASSUME C # {} PROVE FALSE
    OBVIOUS
  <2>1. PICK n \in C : next[n] \notin C
    BY DEF Tidy, Acyclic
  <2> QED
    BY <2>1, <1>5
<1> QED
  BY <1>6

(* Between calls every node belongs to some list: nothing is leaked.       *)
THEOREM NothingLeaks == Spec => []NoLeak
<1>1. IInv => NoLeak
  BY TidyWhenQuiet, TidyHasNoLeak DEF NoLeak
<1> QED
  BY <1>1, InitIInv, StepIInv, PTL DEF Spec

-----------------------------------------------------------------------------
(* The loops end.                                                          *)

(* Where a part D of the memory, from which no link leads out, is left as  *)
(* it is, a cursor that follows a link of D has left its node behind.      *)
LEMMA AheadShrinks ==
  ASSUME NEW D \in SUBSET Allocated, cur \in D, Closed(D), Acyclic,
         D \subseteq Allocated', \A x \in D : next'[x] = next[x], cur' = next[cur]
  PROVE  NodesFrom(cur)' \subseteq NodesFrom(cur) \ {cur}
<1>1. /\ \A x \in D : next[x] \in D \union {NULL}
      /\ NULL \notin D
  BY PointerFacts DEF Closed
<1>2. ASSUME NEW T \in SUBSET D, next[cur] \in T \union {NULL}, Closed(T)
      PROVE  NodesFrom(cur)' \subseteq T
  <2>1. T \in SUBSET Allocated' /\ Closed(T)'
    BY <1>2 DEF Closed
  <2> QED
    BY <1>2, <2>1 DEF NodesFrom
<1>3. ASSUME NEW m \in NodesFrom(cur)' PROVE m \in NodesFrom(cur)
  <2>1. ASSUME NEW S \in SUBSET Allocated, cur \in S \union {NULL}, Closed(S)
        PROVE  m \in S
    <3>1. Closed(S \intersect D) /\ next[cur] \in (S \intersect D) \union {NULL}
      BY <1>1, <2>1 DEF Closed
    <3> QED
      BY <1>2, <3>1
  <2>2. m \in D
    BY <1>1, <1>2
  <2> QED
    BY <2>1, <2>2 DEF NodesFrom
<1>4. cur \notin NodesFrom(cur)'
  <2> DEFINE C == {x \in D : \A T \in SUBSET D : x \in T /\ Closed(T) => cur \in T}
  <2> SUFFICES ASSUME cur \in NodesFrom(cur)' PROVE FALSE
    OBVIOUS
  <2>1. cur \in C /\ C \in SUBSET Allocated
    OBVIOUS
  <2>2. PICK x \in C : next[x] \notin C
    BY <2>1 DEF Acyclic
  <2>3. x \in D /\ next[x] \in D \union {NULL}
    BY <1>1, <2>2
  <2>4. CASE x = cur
    <3>1. next[cur] = NULL => cur \in {}
      <4>1. Closed({})
        BY DEF Closed
      <4> QED
        BY <1>2, <4>1
    <3>2. next[cur] \in D
      BY <2>3, <2>4, <3>1
    <3>3. next[cur] \in C
      BY <1>2, <3>2
    <3> QED
      BY <2>2, <2>4, <3>3
  <2>5. CASE x # cur
    <3>1. PICK T \in SUBSET D : next[x] \in T \union {NULL} /\ Closed(T) /\ cur \notin T
      <4>1. CASE next[x] = NULL
        <5>1. Closed({})
          BY DEF Closed
        <5> QED
          BY <4>1, <5>1
      <4>2. CASE next[x] \in D
        BY <2>2, <4>2
      <4> QED
        BY <2>3, <4>1, <4>2
    <3>2. Closed(T \union {x}) /\ T \union {x} \in SUBSET D /\ cur \notin T \union {x}
      BY <2>3, <2>5, <3>1 DEF Closed
    <3> QED
      BY <2>2, <3>2
  <2> QED
    BY <2>4, <2>5
<1> QED
  BY <1>3, <1>4

LEMMA StepAdvances ==
  ASSUME IInv, Next, pc # "idle", pc' = pc
  PROVE  NodesFrom(cur)' \subseteq NodesFrom(cur) \ {cur}
<1>1. Acyclic /\ NULL \notin Allocated
  BY PointerFacts DEF IInv
<1>2. CASE SearchOn
  <2>1. Tidy /\ cur \in Allocated
    BY <1>2, TraversalFacts DEF SearchOn
  <2>2. Closed(Allocated)
    BY <2>1, PointerFacts DEF Tidy, Solid, Closed
  <2>3. Allocated' = Allocated /\ next' = next /\ cur' = next[cur]
    BY <1>2 DEF SearchOn, tree, Allocated
  <2> QED
    BY <1>1, <2>1, <2>2, <2>3, AheadShrinks
<1>3. CASE CopyOn
  <2> DEFINE tid == tagData[cur].tid
             copy == NewNode(tid)
  <2>1. /\ pc = "copy" /\ HasRoom(tid) /\ PutInPlace(copy, tagData[cur]) /\ cur' = next[cur]
    BY <1>3 DEF CopyOn
  <2>2. copy \in Nodes \ Allocated
    BY <2>1, NewNodeIsFree
  <2> HIDE DEF copy
  <2>3. /\ Tidy /\ cur \in Allocated /\ count[cur] > 1
        /\ prev \in Lists \union Allocated /\ next[prev] = cur
    BY <2>1, TraversalFacts
  <2>4. tagData[cur] \in [tid : Tids, data : Data, size : Nat]
    BY <2>3, PointerFacts DEF Tidy, TreeTypes, Allocated
  <2>5. /\ Allocated' = Allocated \union {copy}
        /\ \A x \in Links : next'[x] = IF x = prev THEN copy ELSE IF x = copy THEN next[cur] ELSE next[x]
    BY <2>1, <2>2, <2>3, <2>4, PutInPlaceTidy
  <2>6. /\ cur \in NodesFrom(cur) /\ NodesFrom(cur) \in SUBSET Allocated
        /\ NodesFrom(cur) \subseteq Allocated'
    BY <2>3, <2>5, HeadOfList DEF NodesFrom
  <2>7. Closed(NodesFrom(cur))
    BY <2>3, ListGoesOn DEF Closed
  <2>8. ASSUME NEW x \in NodesFrom(cur) PROVE next'[x] = next[x]
    <3>1. x \in Allocated /\ x \in Links /\ x # copy
      BY <2>2, <2>6, PointerFacts
    <3>2. x # prev
      BY <2>3, <3>1, NoWayBack
    <3> QED
      BY <2>5, <3>1, <3>2
  <2> QED
    BY <1>1, <2>1, <2>6, <2>7, <2>8, AheadShrinks
<1>4. CASE RemoveOn
  <2> DEFINE D == Allocated \ {prev}
  <2>1. /\ cur # NULL /\ pc = "removeAll" /\ cur' = next[cur]
        /\ tagData' = [n \in Nodes |-> IF n = prev THEN NULL ELSE tagData[n]]
        /\ next' = [x \in Links |-> IF x = prev THEN NULL ELSE next[x]]
    BY <1>4 DEF RemoveOn, Freed
  <2>2. /\ cur \in Allocated /\ this \notin Nodes
        /\ \A x \in Links : x # this /\ x # prev => next[x] \in D \union {NULL}
        /\ prev # NULL => cur # prev
    BY <2>1, RemovalFacts
  <2>3. D \in SUBSET Allocated /\ cur \in D /\ Closed(D)
    BY <1>1, <2>1, <2>2, PointerFacts DEF Closed
  <2>4. D \subseteq Allocated' /\ \A x \in D : next'[x] = next[x]
    BY <2>1, PointerFacts DEF Allocated
  <2> QED
    BY <1>1, <2>1, <2>3, <2>4, AheadShrinks
<1>5. CASE Call
  BY <1>5 DEF Call, Add, COWTraverse, RemoveAll, Assign
<1>6. CASE StartCopy \/ NotFound \/ RemoveUnshared \/ RemoveShared \/ ReplaceUnshared
           \/ Overrun \/ ReplaceShared \/ RemoveEnd \/ Link
  BY <1>6 DEF StartCopy, NotFound, RemoveUnshared, RemoveShared, ReplaceUnshared, Overrun,
              ReplaceShared, RemoveEnd, Link, FoundUnshared, FoundShared, Return, Frame
<1> QED
  BY <1>2, <1>3, <1>4, <1>5, <1>6 DEF Next, Step, Traverse

(* Each iteration of each loop leaves strictly fewer nodes ahead of its    *)
(* cursor, so that no call goes round in the tree for ever.                *)
THEOREM LoopsEnd == Spec => LoopsAdvance
<1>1. IInv /\ [Next]_vars =>
        [pc # "idle" /\ pc' = pc => NodesFrom(cur)' \subseteq NodesFrom(cur) \ {cur}]_vars
  BY StepAdvances
<1> QED
  BY <1>1, InitIInv, StepIInv, PTL DEF Spec, LoopsAdvance

-----------------------------------------------------------------------------
(* What the lists hold: from here on, that nobody can see the sharing.     *)

(* The tag in a node. *)
Item(d) == [tid |-> d.tid, data |-> d.data]

-----------------------------------------------------------------------------
(* Sequences.                                                              *)

Cons(x, s) == <<x>> \o s
Joined(s, t) == s \o t
HasIn(s, tid) == \E i \in DOMAIN s : s[i].tid = tid

(* w is s, then x, then t.                                                 *)
Lays(w, s, x, t) ==
  /\ Len(w) = Len(s) + 1 + Len(t) /\ DOMAIN w = 1..(Len(s) + 1 + Len(t))
  /\ \A i \in 1..Len(s) : w[i] = s[i]
  /\ w[Len(s) + 1] = x
  /\ \A i \in 1..Len(t) : w[Len(s) + 1 + i] = t[i]
LaysTwo(w, s, t) ==
  /\ Len(w) = Len(s) + Len(t) /\ DOMAIN w = 1..(Len(s) + Len(t))
  /\ \A i \in 1..Len(s) : w[i] = s[i]
  /\ \A i \in 1..Len(t) : w[Len(s) + i] = t[i]

LEMMA ConsFacts ==
  ASSUME NEW X, NEW x \in X, NEW s \in Seq(X)
  PROVE  Cons(x, s) \in Seq(X) /\ LaysTwo(Cons(x, s), <<x>>, s)
BY DEF Cons, LaysTwo

LEMMA JoinedFacts ==
  ASSUME NEW X, NEW s \in Seq(X), NEW t \in Seq(X)
  PROVE  Joined(s, t) \in Seq(X) /\ LaysTwo(Joined(s, t), s, t)
BY DEF Joined, LaysTwo

LEMMA MiddleFacts ==
  ASSUME NEW X, NEW x \in X, NEW s \in Seq(X), NEW t \in Seq(X)
  PROVE  Joined(s, Cons(x, t)) \in Seq(X) /\ Lays(Joined(s, Cons(x, t)), s, x, t)
<1>1. PICK c : c = Cons(x, t)
  OBVIOUS
<1>2. c \in Seq(X) /\ LaysTwo(c, <<x>>, t)
  BY <1>1, ConsFacts
<1>3. PICK w : w = Joined(s, c)
  OBVIOUS
<1>4. w \in Seq(X) /\ LaysTwo(w, s, c)
  BY <1>2, <1>3, JoinedFacts
<1>5. Len(s) \in Nat /\ Len(t) \in Nat /\ Len(<<x>>) = 1 /\ <<x>>[1] = x
  OBVIOUS
<1>6. Len(c) = Len(t) + 1
  BY <1>2, <1>5 DEF LaysTwo
<1>7. c[1] = x /\ \A i \in 1..Len(t) : c[1 + i] = t[i]
  BY <1>2, <1>5 DEF LaysTwo
<1>8. /\ Len(w) = Len(s) + 1 + Len(t) /\ DOMAIN w = 1..(Len(s) + 1 + Len(t))
      /\ \A i \in 1..Len(s) : w[i] = s[i]
      /\ w[Len(s) + 1] = x
  BY <1>4, <1>5, <1>6, <1>7 DEF LaysTwo
<1>9. ASSUME NEW i \in 1..Len(t) PROVE w[Len(s) + 1 + i] = t[i]
  <2>1. 1 + i \in 1..Len(c) /\ Len(s) + 1 + i = Len(s) + (1 + i)
    BY <1>5, <1>6
  <2>2. w[Len(s) + (1 + i)] = c[1 + i]
    BY <2>1, <1>4 DEF LaysTwo
  <2> QED
    BY <2>1, <2>2, <1>7
<1>10. Lays(w, s, x, t)
  BY <1>8, <1>9 DEF Lays
<1> QED
  BY <1>1, <1>3, <1>4, <1>10

LEMMA JoinedEmpty ==
  ASSUME NEW X, NEW s \in Seq(X) PROVE <<>> \in Seq(X) /\ Joined(<<>>, s) = s
BY DEF Joined

LEMMA ConsJoined ==
  ASSUME NEW X, NEW x \in X, NEW s \in Seq(X), NEW t \in Seq(X)
  PROVE  Cons(x, Joined(s, t)) = Joined(Cons(x, s), t)
BY DEF Cons, Joined

(* Without takes out the element in the middle.                            *)
LEMMA MiddleOut ==
  ASSUME NEW X, NEW x \in X, NEW s \in Seq(X), NEW t \in Seq(X)
  PROVE  Separate!Without(Joined(s, Cons(x, t)), Len(s) + 1) = Joined(s, t)
<1>1. PICK w : w = Joined(s, Cons(x, t))
  OBVIOUS
<1>2. w \in Seq(X) /\ Lays(w, s, x, t)
  BY <1>1, MiddleFacts
<1>3. /\ w \in Seq(X) /\ Len(w) = Len(s) + 1 + Len(t)
      /\ \A i \in 1..Len(s) : w[i] = s[i]
      /\ \A i \in 1..Len(t) : w[Len(s) + 1 + i] = t[i]
  BY <1>2 DEF Lays
<1>4. Len(s) \in Nat /\ Len(t) \in Nat
  OBVIOUS
<1>5. SubSeq(w, 1, Len(s)) = s
  <2>1. /\ SubSeq(w, 1, Len(s)) \in Seq(X) /\ Len(SubSeq(w, 1, Len(s))) = Len(s)
        /\ \A i \in 1..Len(s) : SubSeq(w, 1, Len(s))[i] = w[i]
    BY <1>3, <1>4
  <2> QED
    BY <2>1, <1>3, SeqEqual
<1>6. SubSeq(w, Len(s) + 2, Len(w)) = t
  <2>1. /\ SubSeq(w, Len(s) + 2, Len(w)) \in Seq(X) /\ Len(SubSeq(w, Len(s) + 2, Len(w))) = Len(t)
    BY <1>3, <1>4
  <2>2. \A i \in 1..Len(t) : SubSeq(w, Len(s) + 2, Len(w))[i] = w[Len(s) + 1 + i]
    BY <1>3, <1>4
  <2> QED
    BY <2>1, <2>2, <1>3, SeqEqual
<1>7. (Len(s) + 1) - 1 = Len(s) /\ (Len(s) + 1) + 1 = Len(s) + 2
  BY <1>4
<1> QED
  BY <1>1, <1>5, <1>6, <1>7 DEF Joined, Separate!Without

(* The element in the middle is the only one of its type.                  *)
LEMMA MiddleReplaced ==
  ASSUME NEW X, NEW x \in X, NEW y \in X, NEW s \in Seq(X), NEW t \in Seq(X),
         ~HasIn(s, x.tid), ~HasIn(t, x.tid),
         NEW w, w = Joined(s, Cons(x, t))
  PROVE  [i \in DOMAIN w |-> IF w[i].tid = x.tid THEN y ELSE w[i]] = Joined(s, Cons(y, t))
<1>1. PICK v : v = Joined(s, Cons(y, t))
  OBVIOUS
<1>2. /\ w \in Seq(X) /\ Lays(w, s, x, t) /\ v \in Seq(X) /\ Lays(v, s, y, t)
  BY <1>1, MiddleFacts
<1>3. /\ w \in Seq(X) /\ Len(w) = Len(s) + 1 + Len(t) /\ DOMAIN w = 1..Len(w)
      /\ \A i \in 1..Len(s) : w[i] = s[i]
      /\ w[Len(s) + 1] = x
      /\ \A i \in 1..Len(t) : w[Len(s) + 1 + i] = t[i]
  BY <1>2 DEF Lays
<1>4. /\ v \in Seq(X) /\ Len(v) = Len(s) + 1 + Len(t) /\ DOMAIN v = 1..Len(v)
      /\ \A i \in 1..Len(s) : v[i] = s[i]
      /\ v[Len(s) + 1] = y
      /\ \A i \in 1..Len(t) : v[Len(s) + 1 + i] = t[i]
  BY <1>2 DEF Lays
<1>5. Len(s) \in Nat /\ Len(t) \in Nat
  OBVIOUS
<1>6. ASSUME NEW i \in 1..Len(w)
      PROVE  v[i] = IF w[i].tid = x.tid THEN y ELSE w[i]
  <2>1. CASE i \in 1..Len(s)
    <3>1. s[i].tid # x.tid
      BY <2>1 DEF HasIn
    <3> QED
      BY <3>1, <2>1, <1>3, <1>4
  <2>2. CASE i = Len(s) + 1
    BY <2>2, <1>3, <1>4
  <2>3. CASE i \notin 1..Len(s) /\ i # Len(s) + 1
    <3>1. i - Len(s) - 1 \in 1..Len(t) /\ i = Len(s) + 1 + (i - Len(s) - 1)
      BY <2>3, <1>3, <1>5
    <3>2. t[i - Len(s) - 1].tid # x.tid
      BY <3>1 DEF HasIn
    <3> QED
      BY <3>1, <3>2, <1>3, <1>4
  <2> QED
    BY <2>1, <2>2, <2>3
<1>7. v = [i \in 1..Len(w) |-> v[i]]
  BY <1>3, <1>4
<1> QED
  BY <1>1, <1>3, <1>6, <1>7

(* Whether an element of a type is in a joined sequence.                   *)
LEMMA InJoined ==
  ASSUME NEW X, NEW s \in Seq(X), NEW t \in Seq(X), NEW tid
  PROVE  HasIn(Joined(s, t), tid) <=> HasIn(s, tid) \/ HasIn(t, tid)
<1>1. PICK w : w = Joined(s, t)
  OBVIOUS
<1>2. w \in Seq(X) /\ LaysTwo(w, s, t)
  BY <1>1, JoinedFacts
<1>3. /\ w \in Seq(X) /\ Len(w) = Len(s) + Len(t)
      /\ \A i \in 1..Len(s) : w[i] = s[i]
      /\ \A i \in 1..Len(t) : w[Len(s) + i] = t[i]
  BY <1>2 DEF LaysTwo
<1>4. /\ Len(s) \in Nat /\ Len(t) \in Nat
      /\ DOMAIN s = 1..Len(s) /\ DOMAIN t = 1..Len(t) /\ DOMAIN w = 1..(Len(s) + Len(t))
  BY <1>3
<1>5. ASSUME NEW i \in 1..Len(s), s[i].tid = tid PROVE HasIn(w, tid)
  <2>1. i \in DOMAIN w /\ w[i].tid = tid
    BY <1>3, <1>4, <1>5
  <2> QED
    BY <2>1 DEF HasIn
<1>6. ASSUME NEW i \in 1..Len(t), t[i].tid = tid PROVE HasIn(w, tid)
  <2>1. Len(s) + i \in DOMAIN w /\ w[Len(s) + i].tid = tid
    BY <1>3, <1>4, <1>6
  <2> QED
    BY <2>1 DEF HasIn
<1>7. ASSUME NEW i \in DOMAIN w, w[i].tid = tid PROVE HasIn(s, tid) \/ HasIn(t, tid)
  <2>1. CASE i \in 1..Len(s)
    BY <2>1, <1>3, <1>4, <1>7 DEF HasIn
  <2>2. CASE i \notin 1..Len(s)
    <3>1. i - Len(s) \in 1..Len(t) /\ i = Len(s) + (i - Len(s))
      BY <2>2, <1>4
    <3>2. t[i - Len(s)].tid = tid
      BY <3>1, <1>3, <1>7
    <3> QED
      BY <3>1, <3>2, <1>4 DEF HasIn
  <2> QED
    BY <2>1, <2>2
<1> QED
  BY <1>1, <1>4, <1>5, <1>6, <1>7 DEF HasIn

LEMMA NoneInCons ==
  ASSUME NEW X, NEW x \in X, NEW s \in Seq(X), NEW tid, x.tid # tid, ~HasIn(s, tid)
  PROVE  ~HasIn(Cons(x, s), tid)
<1>1. ~HasIn(<<x>>, tid) /\ <<x>> \in Seq(X)
  BY DEF HasIn
<1> QED
  BY <1>1, InJoined DEF Cons, Joined

LEMMA InCons ==
  ASSUME NEW X, NEW x \in X, NEW s \in Seq(X)
  PROVE  HasIn(Cons(x, s), x.tid)
<1>1. 1 \in DOMAIN Cons(x, s) /\ Cons(x, s)[1] = x
  BY DEF Cons
<1> QED
  BY <1>1 DEF HasIn

-----------------------------------------------------------------------------
(* Reading the tree.  TagsFrom is chosen among the functions that satisfy  *)
(* its equation, so one must be shown to exist: each node has a part of    *)
(* the tree, closed under next, on which the tags can be given, and two    *)
(* such parts agree.  That the tree has no cycle takes the place of        *)
(* induction: a set of nodes without a reading has a last one.             *)

(* f gives the tags from each node on, in the tree with these links and    *)
(* contents.                                                               *)
Reads(f, links, datas) ==
  f = [n \in Pointers |-> IF n = NULL THEN <<>> ELSE <<Item(datas[n])>> \o f[links[n]]]

LEMMA TagsFromChosen ==
  ASSUME \E f : Reads(f, next, tagData)
  PROVE  Reads(TagsFrom, next, tagData)
BY DEF TagsFrom, Reads, Item

LEMMA TagsFromChosenNext ==
  ASSUME \E f : Reads(f, next', tagData')
  PROVE  Reads(TagsFrom', next', tagData')
BY DEF TagsFrom, Reads, Item

(* A tree without cycles on which no link leads to a free node.            *)
Tree(A, links) ==
  /\ A \subseteq Nodes
  /\ \A n \in A : links[n] \in A \union {NULL}
  /\ \A n \in Nodes \ A : links[n] = NULL
  /\ \A S \in SUBSET A : S # {} => \E n \in S : links[n] \notin S

(* f gives them on a part of the tree.                                     *)
ReadsPart(C, f, links, datas) == \A n \in C :
  /\ links[n] \in C \union {NULL}
  /\ f[n] = <<Item(datas[n])>> \o (IF links[n] = NULL THEN <<>> ELSE f[links[n]])

Given(n, A, links, datas) ==
  \E C \in SUBSET A : \E f : n \in C /\ ReadsPart(C, f, links, datas)

LEMMA PartsAgree ==
  ASSUME NEW A, NEW links, NEW datas, Tree(A, links),
         NEW C \in SUBSET A, NEW f, ReadsPart(C, f, links, datas),
         NEW D \in SUBSET A, NEW g, ReadsPart(D, g, links, datas)
  PROVE  \A n \in C \intersect D : f[n] = g[n]
<1> DEFINE S == {n \in C \intersect D : f[n] # g[n]}
<1> SUFFICES ASSUME S # {} PROVE FALSE
  OBVIOUS
<1>1. PICK n \in S : links[n] \notin S
  BY DEF Tree
<1>2. links[n] = NULL \/ links[n] \in C \intersect D
  BY <1>1, PointerFacts DEF ReadsPart, Tree
<1>3. links[n] # NULL => f[links[n]] = g[links[n]]
  BY <1>1, <1>2
<1>4. f[n] = g[n]
  BY <1>1, <1>3 DEF ReadsPart
<1> QED
  BY <1>1, <1>4

LEMMA PartsExist ==
  ASSUME NEW A, NEW links, NEW datas, Tree(A, links)
  PROVE  \A n \in A : Given(n, A, links, datas)
<1> DEFINE S == {n \in A : ~Given(n, A, links, datas)}
<1> SUFFICES ASSUME S # {} PROVE FALSE
  OBVIOUS
<1>1. PICK n \in S : links[n] \notin S
  BY DEF Tree
<1>2. NULL \notin A
  BY PointerFacts DEF Tree
<1>3. CASE links[n] = NULL
  <2> DEFINE f == [k \in {n} |-> <<Item(datas[n])>> \o <<>>]
  <2>1. ReadsPart({n}, f, links, datas)
    BY <1>3 DEF ReadsPart
  <2> QED
    BY <2>1, <1>1 DEF Given
<1>4. CASE links[n] # NULL
  <2>1. PICK C \in SUBSET A : \E f : links[n] \in C /\ ReadsPart(C, f, links, datas)
    BY <1>1, <1>4 DEF Tree, Given
  <2>2. PICK f : links[n] \in C /\ ReadsPart(C, f, links, datas)
    BY <2>1
  <2>3. n \notin C
    BY <1>1, <2>2 DEF Given
  <2> DEFINE g == [k \in C \union {n} |-> IF k = n THEN <<Item(datas[n])>> \o f[links[n]] ELSE f[k]]
  <2>4. g[n] = <<Item(datas[n])>> \o g[links[n]]
    BY <2>2, <2>3
  <2>5. \A k \in C : g[k] = f[k]
    BY <2>3
  <2> HIDE DEF g
  <2>6. ReadsPart(C \union {n}, g, links, datas)
    BY <2>2, <2>4, <2>5, <1>2, <1>4 DEF ReadsPart
  <2> QED
    BY <2>6, <1>1 DEF Given
<1> QED
  BY <1>3, <1>4

LEMMA ReadingExists ==
  ASSUME NEW A, NEW links, NEW datas, Tree(A, links)
  PROVE  \E f : Reads(f, links, datas)
<1> DEFINE Gives(n, v) == \E C \in SUBSET A : \E f : n \in C /\ ReadsPart(C, f, links, datas) /\ v = f[n]
           value(n) == CHOOSE v : Gives(n, v)
           F == [n \in Pointers |-> IF n = NULL THEN <<>>
                                    ELSE IF n \in A THEN value(n) ELSE <<Item(datas[n])>> \o <<>>]
<1>1. ASSUME NEW C \in SUBSET A, NEW f, ReadsPart(C, f, links, datas), NEW n \in C
      PROVE  value(n) = f[n]
  <2>1. Gives(n, f[n])
    BY <1>1
  <2>2. Gives(n, value(n))
    BY <2>1
  <2> HIDE DEF value
  <2>3. PICK D \in SUBSET A : \E g : n \in D /\ ReadsPart(D, g, links, datas) /\ value(n) = g[n]
    BY <2>2
  <2>4. PICK g : n \in D /\ ReadsPart(D, g, links, datas) /\ value(n) = g[n]
    BY <2>3
  <2> QED
    BY <1>1, <2>4, PartsAgree
<1> HIDE DEF value
<1>2. A \subseteq Pointers /\ NULL \notin A /\ NULL \in Pointers
  BY PointerFacts DEF Tree
<1>3. /\ F[NULL] = <<>>
      /\ \A n \in A : F[n] = value(n)
      /\ \A n \in Nodes \ A : F[n] = <<Item(datas[n])>> \o <<>>
      /\ F = [n \in Pointers |-> F[n]]
  BY <1>2, PointerFacts
<1> HIDE DEF F, Gives
<1>4. ASSUME NEW n \in A
      PROVE  F[n] = <<Item(datas[n])>> \o F[links[n]]
  <2>1. Given(n, A, links, datas)
    BY PartsExist
  <2>2. PICK C \in SUBSET A : \E f : n \in C /\ ReadsPart(C, f, links, datas)
    BY <2>1 DEF Given
  <2>3. PICK f : n \in C /\ ReadsPart(C, f, links, datas)
    BY <2>2
  <2>4. F[n] = f[n]
    BY <1>1, <1>3, <2>3
  <2>5. \A m \in C : F[m] = f[m]
    BY <1>1, <1>3, <2>3
  <2>6. links[n] \in C \union {NULL}
    BY <2>3 DEF ReadsPart
  <2>7. f[n] = <<Item(datas[n])>> \o F[links[n]]
    BY <2>3, <2>5, <2>6, <1>2, <1>3 DEF ReadsPart
  <2> QED
    BY <2>4, <2>7
<1>5. ASSUME NEW n \in Nodes \ A
      PROVE  F[n] = <<Item(datas[n])>> \o F[links[n]]
  <2>1. links[n] = NULL /\ n \in Pointers /\ n # NULL
    BY PointerFacts DEF Tree
  <2> QED
    BY <2>1, <1>3
<1>6. \A n \in Pointers : F[n] = IF n = NULL THEN <<>> ELSE <<Item(datas[n])>> \o F[links[n]]
  BY <1>3, <1>4, <1>5, PointerFacts
<1>7. F = [n \in Pointers |-> IF n = NULL THEN <<>> ELSE <<Item(datas[n])>> \o F[links[n]]]
  BY <1>6, <1>3
<1> QED
  BY <1>7 DEF Reads

Items == [tid : Tids, data : Data]
Typed(A, datas) == \A n \in A : datas[n] \in [tid : Tids, data : Data, size : Nat]
ClosedIn(D, links) == \A n \in D : links[n] \in D \union {NULL}

LEMMA ReadsFacts ==
  ASSUME NEW f, NEW links, NEW datas, Reads(f, links, datas)
  PROVE  f[NULL] = <<>> /\ \A n \in Nodes : f[n] = Cons(Item(datas[n]), f[links[n]])
BY PointerFacts DEF Reads, Cons

LEMMA ItemTyped ==
  ASSUME NEW d \in [tid : Tids, data : Data, size : Nat]
  PROVE  Item(d) \in Items /\ Item(d).tid = d.tid
BY DEF Item, Items

LEMMA ReadsSeq ==
  ASSUME NEW A, NEW links, NEW datas, NEW f,
         Tree(A, links), Reads(f, links, datas), Typed(A, datas)
  PROVE  \A n \in A \union {NULL} : f[n] \in Seq(Items)
<1>1. f[NULL] = <<>>
  BY ReadsFacts
<1>2. f[NULL] \in Seq(Items)
  BY <1>1
<1> DEFINE S == {n \in A : f[n] \notin Seq(Items)}
<1> SUFFICES ASSUME S # {} PROVE FALSE
  BY <1>2
<1>3. PICK n \in S : links[n] \notin S
  BY DEF Tree
<1>4. n \in Nodes /\ links[n] \in A \union {NULL} /\ n \in A
  BY <1>3 DEF Tree
<1>5. f[links[n]] \in Seq(Items)
  BY <1>2, <1>3, <1>4
<1>6. Item(datas[n]) \in Items
  BY <1>4, ItemTyped DEF Typed
<1>7. f[n] = Cons(Item(datas[n]), f[links[n]])
  BY <1>4, ReadsFacts
<1>8. f[n] \in Seq(Items)
  BY <1>5, <1>6, <1>7, ConsFacts
<1> QED
  BY <1>3, <1>8

(* What is read on a part of the tree depends on that part alone.          *)
LEMMA SameReading ==
  ASSUME NEW A, NEW links, NEW datas, NEW f, Tree(A, links), Reads(f, links, datas),
         NEW newLinks, NEW newDatas, NEW g, Reads(g, newLinks, newDatas),
         NEW D \in SUBSET A, ClosedIn(D, links),
         \A n \in D : newLinks[n] = links[n] /\ newDatas[n] = datas[n]
  PROVE  \A n \in D \union {NULL} : g[n] = f[n]
<1>1. f[NULL] = <<>> /\ g[NULL] = <<>>
  BY ReadsFacts
<1> DEFINE S == {n \in D : g[n] # f[n]}
<1> SUFFICES ASSUME S # {} PROVE FALSE
  BY <1>1
<1>2. PICK n \in S : links[n] \notin S
  BY DEF Tree
<1>3. n \in Nodes /\ links[n] \in D \union {NULL} /\ n \in D
  BY <1>2 DEF Tree, ClosedIn
<1>4. f[links[n]] = g[links[n]]
  BY <1>1, <1>2, <1>3
<1>5. f[n] = Cons(Item(datas[n]), f[links[n]]) /\ g[n] = Cons(Item(newDatas[n]), g[newLinks[n]])
  BY <1>3, ReadsFacts
<1> QED
  BY <1>2, <1>3, <1>4, <1>5

LEMMA ClearReading ==
  ASSUME NEW A, NEW links, NEW datas, NEW f,
         Tree(A, links), Reads(f, links, datas), Typed(A, datas),
         NEW D \in SUBSET A, ClosedIn(D, links), NEW tid, \A n \in D : datas[n].tid # tid
  PROVE  \A n \in D \union {NULL} : ~HasIn(f[n], tid)
<1>1. f[NULL] = <<>> /\ ~HasIn(<<>>, tid)
  BY ReadsFacts DEF HasIn
<1> DEFINE S == {n \in D : HasIn(f[n], tid)}
<1> SUFFICES ASSUME S # {} PROVE FALSE
  BY <1>1
<1>2. PICK n \in S : links[n] \notin S
  BY DEF Tree
<1>3. n \in Nodes /\ links[n] \in D \union {NULL} /\ n \in D
  BY <1>2 DEF Tree, ClosedIn
<1>4. ~HasIn(f[links[n]], tid)
  BY <1>1, <1>2, <1>3
<1>5. f[n] = Cons(Item(datas[n]), f[links[n]])
  BY <1>3, ReadsFacts
<1>6. Item(datas[n]) \in Items /\ Item(datas[n]).tid # tid
  BY <1>3, ItemTyped DEF Typed
<1>7. f[links[n]] \in Seq(Items)
  BY <1>3, ReadsSeq
<1> QED
  BY <1>2, <1>4, <1>5, <1>6, <1>7, NoneInCons

-----------------------------------------------------------------------------
(* The way of a traversal.                                                 *)

(* P are the nodes of the list this that a traversal has left behind: it   *)
(* leads from one to the next and no other list joins in between.          *)
Walk(P) ==
  /\ prev \in {this} \union P
  /\ \A h \in {this} \union P : h # prev => next[h] \in P
  /\ \A n \in P : tagData[n].tid # arg.tid /\ IncomingTo(n) \subseteq {this} \union P

(* A list whose way leads on to x at the end: what is read is the same up  *)
(* to there.                                                               *)
Split(s, t, from, to, tid) == \E p \in Seq(Items) :
  /\ s = Joined(p, from) /\ t = Joined(p, to)
  /\ ~HasIn(p, tid)

LEMMA WalkSplits ==
  ASSUME NEW P \in SUBSET Allocated, Walk(P), this \in Lists, next[prev] = cur,
         NEW f, Tree(Allocated, next), Reads(f, next, tagData), Typed(Allocated, tagData),
         NEW newLinks, NEW newDatas, NEW g, Reads(g, newLinks, newDatas), NEW x,
         newLinks[prev] = x, \A h \in {this} \union P : h # prev => newLinks[h] = next[h],
         \A n \in P : newDatas[n] = tagData[n],
         f[cur] \in Seq(Items), g[x] \in Seq(Items)
  PROVE  Split(f[next[this]], g[newLinks[this]], f[cur], g[x], arg.tid)
<1>1. P \subseteq Nodes /\ P \subseteq Allocated /\ this \notin Nodes
  BY PointerFacts
<1>2. CASE this = prev
  <2>1. <<>> \in Seq(Items) /\ f[cur] = Joined(<<>>, f[cur]) /\ g[x] = Joined(<<>>, g[x])
    BY JoinedEmpty
  <2>2. ~HasIn(<<>>, arg.tid)
    BY DEF HasIn
  <2>3. f[next[this]] = f[cur] /\ g[newLinks[this]] = g[x]
    BY <1>2
  <2> QED
    BY <2>1, <2>2, <2>3 DEF Split
<1>3. CASE this # prev
  <2> DEFINE S == {n \in P : ~Split(f[n], g[n], f[cur], g[x], arg.tid)}
  <2>1. next[this] \in P /\ newLinks[this] = next[this] /\ prev \in P
    BY <1>3 DEF Walk
  <2> SUFFICES ASSUME S # {} PROVE FALSE
    BY <2>1
  <2>2. PICK n \in S : next[n] \notin S
    BY <1>1 DEF Tree
  <2>3. /\ n \in P /\ n \in Nodes /\ Item(tagData[n]) \in Items /\ Item(tagData[n]).tid # arg.tid
        /\ f[n] = Cons(Item(tagData[n]), f[next[n]])
        /\ g[n] = Cons(Item(tagData[n]), g[newLinks[n]])
    <3>1. n \in P /\ n \in Nodes /\ newDatas[n] = tagData[n]
      BY <2>2, <1>1
    <3>2. f[n] = Cons(Item(tagData[n]), f[next[n]]) /\ g[n] = Cons(Item(newDatas[n]), g[newLinks[n]])
      BY <3>1, ReadsFacts
    <3>3. tagData[n].tid # arg.tid /\ tagData[n] \in [tid : Tids, data : Data, size : Nat]
      BY <3>1, <1>1 DEF Walk, Typed
    <3> QED
      BY <3>1, <3>2, <3>3, ItemTyped
  <2>4. CASE n = prev
    <3> DEFINE p == <<Item(tagData[n])>>
    <3>1. p \in Seq(Items) /\ ~HasIn(p, arg.tid)
      BY <2>3 DEF HasIn
    <3>2. f[n] = Joined(p, f[cur]) /\ g[n] = Joined(p, g[x])
      BY <2>3, <2>4 DEF Joined, Cons
    <3> QED
      BY <3>1, <3>2, <2>2 DEF Split
  <2>5. CASE n # prev
    <3>1. next[n] \in P /\ newLinks[n] = next[n]
      BY <2>3, <2>5 DEF Walk
    <3>2. Split(f[next[n]], g[next[n]], f[cur], g[x], arg.tid)
      BY <3>1, <2>2
    <3>3. PICK p \in Seq(Items) : /\ f[next[n]] = Joined(p, f[cur]) /\ g[next[n]] = Joined(p, g[x])
                                  /\ ~HasIn(p, arg.tid)
      BY <3>2 DEF Split
    <3>4. PICK q : q = Cons(Item(tagData[n]), p)
      OBVIOUS
    <3>5. q \in Seq(Items) /\ ~HasIn(q, arg.tid)
      BY <3>3, <3>4, <2>3, ConsFacts, NoneInCons
    <3>6. f[n] = Joined(q, f[cur])
      BY <2>3, <3>3, <3>4, ConsJoined
    <3>7. g[n] = Joined(q, g[x])
      BY <2>3, <3>1, <3>3, <3>4, ConsJoined
    <3> QED
      BY <3>5, <3>6, <3>7, <2>2 DEF Split
  <2> QED
    BY <2>4, <2>5
<1> QED
  BY <1>2, <1>3

-----------------------------------------------------------------------------
(* The invariant of the refinement.                                        *)

(* No tag of this type from n on.                                          *)
Clear(n, tid) == \E D \in SUBSET Allocated :
  n \in D \union {NULL} /\ Closed(D) /\ \A m \in D : tagData[m].tid # tid

(* A list has at most one tag of a type.                                   *)
OneOfAType == \A n \in Allocated : Clear(next[n], tagData[n].tid)
Walked == pc \in {"search", "copy"} => \E P \in SUBSET Allocated : Walk(P)
Separated == IInv /\ OneOfAType /\ Walked

Readable == Tree(Allocated, next) /\ Typed(Allocated, tagData)

LEMMA TreeReadable == IInv => Readable
<1> SUFFICES ASSUME IInv PROVE Readable
  OBVIOUS
<1>1. Typed(Allocated, tagData)
  BY PointerFacts DEF IInv, TypeOK, Typed, Allocated
<1>2. ASSUME NEW n \in Allocated PROVE next[n] \in Allocated \union {NULL}
  <2>1. n \in Links /\ n \notin Lists
    BY PointerFacts
  <2>2. CASE Dying(n)
    <3>1. pc = "removeAll" /\ this \in Lists
      BY <2>2 DEF Dying, IInv, TypeOK
    <3>2. n = prev /\ prev # NULL
      BY <3>1, <2>1, <2>2, PointerFacts DEF Dying
    <3> QED
      BY <3>1, <3>2 DEF IInv, RemovalHolds
  <2>3. CASE ~Dying(n)
    BY <2>1, <2>3 DEF IInv, NoDangling
  <2> QED
    BY <2>2, <2>3
<1>3. \A n \in Nodes \ Allocated : next[n] = NULL
  BY DEF IInv, FreeHoldNothing
<1> QED
  BY <1>1, <1>2, <1>3, PointerFacts DEF Readable, Tree, IInv, Acyclic

LEMMA TreeReadableNext == IInv' => Readable'
BY TreeReadable, PTL

LEMMA TreeNow == ASSUME IInv PROVE Tree(Allocated, next) /\ Typed(Allocated, tagData)
BY TreeReadable DEF Readable

LEMMA TreeThen == ASSUME IInv' PROVE Tree(Allocated', next') /\ Typed(Allocated', tagData')
BY TreeReadableNext DEF Readable

LEMMA ReadingNow == ASSUME IInv PROVE Reads(TagsFrom, next, tagData)
BY TreeNow, ReadingExists, TagsFromChosen

LEMMA ReadingThen == ASSUME IInv' PROVE Reads(TagsFrom', next', tagData')
BY TreeThen, ReadingExists, TagsFromChosenNext

(* Between calls and during a traversal a list holds what is read from it. *)
LEMMA ContentsNow ==
  ASSUME pc \notin {"removeAll", "assign"}, NEW list \in Lists
  PROVE  Contents[list] = TagsFrom[next[list]]
BY DEF Contents

LEMMA ContentsThen ==
  ASSUME pc' \notin {"removeAll", "assign"}, NEW list \in Lists
  PROVE  Contents'[list] = TagsFrom'[next'[list]]
BY DEF Contents

LEMMA NoTidClear ==
  ASSUME Tidy, NEW n \in Allocated \union {NULL}, NEW tid, ~HasTid(n, tid)
  PROVE  Clear(n, tid)
<1>1. CASE n = NULL
  <2>1. Closed({}) /\ {} \in SUBSET Allocated
    BY DEF Closed
  <2> QED
    BY <1>1, <2>1 DEF Clear
<1>2. CASE n # NULL
  <2>1. n \in NodesFrom(n)
    BY <1>2, HeadOfList
  <2>2. NodesFrom(n) \in SUBSET Allocated
    BY DEF NodesFrom
  <2>3. Closed(NodesFrom(n))
    BY ListGoesOn DEF Closed
  <2>4. \A m \in NodesFrom(n) : tagData[m].tid # tid
    BY DEF HasTid
  <2> QED
    BY <2>1, <2>2, <2>3, <2>4 DEF Clear
<1> QED
  BY <1>1, <1>2

(* Nothing of a type is read where nothing of it is.                       *)
LEMMA ClearIsRead ==
  ASSUME IInv, NEW n, NEW tid, Clear(n, tid)
  PROVE  TagsFrom[n] \in Seq(Items) /\ ~HasIn(TagsFrom[n], tid)
<1>1. PICK D \in SUBSET Allocated :
        n \in D \union {NULL} /\ Closed(D) /\ \A m \in D : tagData[m].tid # tid
  BY DEF Clear
<1>2. /\ Tree(Allocated, next) /\ Typed(Allocated, tagData)
      /\ Reads(TagsFrom, next, tagData) /\ ClosedIn(D, next)
  BY <1>1, TreeNow, ReadingNow DEF Closed, ClosedIn
<1>3. \A m \in D \union {NULL} : ~HasIn(TagsFrom[m], tid)
  BY <1>1, <1>2, ClearReading
<1>4. \A m \in Allocated \union {NULL} : TagsFrom[m] \in Seq(Items)
  BY <1>2, ReadsSeq
<1> QED
  BY <1>1, <1>3, <1>4

-----------------------------------------------------------------------------
(* The others of a traversal's way.                                        *)

Unshared(E, P) == \/ E = P
                  \/ E = P \union {cur} /\ cur \in Allocated /\ IncomingTo(cur) \subseteq {prev}

LEMMA BesideTheWay ==
  ASSUME Tidy, this \in Lists, next[prev] = cur, cur \in Allocated \union {NULL},
         NEW P \in SUBSET Allocated, Walk(P), NEW E, Unshared(E, P)
  PROVE  /\ ClosedIn(Allocated \ E, next) /\ E \in SUBSET Allocated
         /\ \A list \in Lists : list # this => next[list] \in (Allocated \ E) \union {NULL}
         /\ cur # NULL => cur \notin P /\ next[cur] \in (Allocated \ E) \union {NULL}
         /\ cur # NULL /\ E = P => cur \in Allocated \ E
<1>1. /\ P \subseteq Nodes /\ this \notin Nodes /\ NULL \notin Allocated
      /\ \A x \in Links : next[x] \in Allocated \union {NULL}
      /\ Allocated \subseteq Links /\ Lists \subseteq Links
      /\ \A list \in Lists : list \notin Allocated
  BY PointerFacts DEF Tidy, Solid
<1>2. ASSUME cur # NULL PROVE cur \notin P
  <2> SUFFICES ASSUME cur \in P PROVE FALSE
    OBVIOUS
  <2>1. \A n \in P : next[n] \in P
    BY <1>1 DEF Walk
  <2> QED
    BY <2>1 DEF Tidy, Acyclic
<1>3. ASSUME NEW x \in Links, next[x] \in P PROVE x \in {this} \union P
  BY <1>3 DEF Walk, IncomingTo
<1>4. ASSUME cur # NULL PROVE next[cur] \in (Allocated \ P) \union {NULL} /\ next[cur] # cur
  <2>1. cur \in Allocated /\ cur \in Links /\ cur # this
    BY <1>4, <1>1
  <2>2. next[cur] \notin P
    BY <2>1, <1>2, <1>3, <1>4
  <2>3. next[cur] # cur
    <3>1. {cur} \in SUBSET Allocated /\ {cur} # {}
      BY <2>1
    <3> QED
      BY <3>1 DEF Tidy, Acyclic
  <2> QED
    BY <2>1, <2>2, <2>3, <1>1
<1>5. ASSUME NEW x \in Links, x \notin E, x # this PROVE next[x] \in (Allocated \ E) \union {NULL}
  <2>1. next[x] \notin P
    BY <1>3, <1>5 DEF Unshared
  <2>2. CASE E = P
    BY <2>1, <2>2, <1>1
  <2>3. CASE E = P \union {cur} /\ cur \in Allocated /\ IncomingTo(cur) \subseteq {prev}
    <3>1. prev \in {this} \union P
      BY DEF Walk
    <3>2. next[x] # cur
      BY <3>1, <2>3, <1>5 DEF IncomingTo
    <3> QED
      BY <2>1, <2>3, <3>2, <1>1
  <2> QED
    BY <2>2, <2>3 DEF Unshared
<1>6. E \in SUBSET Allocated
  BY DEF Unshared
<1>7. ClosedIn(Allocated \ E, next)
  BY <1>1, <1>5 DEF ClosedIn
<1>8. \A list \in Lists : list # this => next[list] \in (Allocated \ E) \union {NULL}
  BY <1>1, <1>5, <1>6
<1>9. cur # NULL => next[cur] \in (Allocated \ E) \union {NULL}
  BY <1>4 DEF Unshared
<1> QED
  BY <1>2, <1>6, <1>7, <1>8, <1>9

-----------------------------------------------------------------------------
(* Changing the end of the way.                                            *)

(* A step of a traversal that leads the way on to x, and leaves what is    *)
(* outside E as it is.                                                     *)
LeadsTo(x, E, P) ==
  /\ next'[prev] = x
  /\ \A h \in {this} \union P : h # prev => next'[h] = next[h]
  /\ \A n \in P : tagData'[n] = tagData[n]
  /\ \A n \in Allocated \ E : next'[n] = next[n] /\ tagData'[n] = tagData[n]
  /\ \A list \in Lists : list # this => next'[list] = next[list]

LEMMA WayChanges ==
  ASSUME IInv, IInv', pc \in {"search", "copy"}, pc' \notin {"removeAll", "assign"},
         NEW P \in SUBSET Allocated, Walk(P), NEW E, Unshared(E, P),
         NEW x \in Allocated' \union {NULL}, LeadsTo(x, E, P)
  PROVE  /\ \A list \in Lists : list # this => Contents'[list] = Contents[list]
         /\ Split(Contents[this], Contents'[this], TagsFrom[cur], TagsFrom'[x], arg.tid)
         /\ \A n \in (Allocated \ E) \union {NULL} : TagsFrom'[n] = TagsFrom[n]
         /\ cur # NULL => next[cur] \in (Allocated \ E) \union {NULL}
<1>1. /\ Tidy /\ this \in Lists /\ next[prev] = cur /\ cur \in Allocated \union {NULL}
  BY TraversalFacts
<1>2. /\ Tree(Allocated, next) /\ Typed(Allocated, tagData) /\ Reads(TagsFrom, next, tagData)
      /\ Tree(Allocated', next') /\ Typed(Allocated', tagData') /\ Reads(TagsFrom', next', tagData')
  BY TreeNow, TreeThen, ReadingNow, ReadingThen
<1>3. /\ ClosedIn(Allocated \ E, next) /\ E \in SUBSET Allocated
      /\ \A list \in Lists : list # this => next[list] \in (Allocated \ E) \union {NULL}
      /\ cur # NULL => next[cur] \in (Allocated \ E) \union {NULL}
  BY <1>1, BesideTheWay
<1>4. \A n \in (Allocated \ E) \union {NULL} : TagsFrom'[n] = TagsFrom[n]
  <2>1. Allocated \ E \in SUBSET Allocated
    OBVIOUS
  <2>2. \A n \in Allocated \ E : next'[n] = next[n] /\ tagData'[n] = tagData[n]
    BY DEF LeadsTo
  <2> QED
    BY <2>1, <2>2, <1>2, <1>3, SameReading
<1>5. /\ TagsFrom[cur] \in Seq(Items) /\ TagsFrom'[x] \in Seq(Items)
  BY <1>1, <1>2, ReadsSeq
<1>6. Split(TagsFrom[next[this]], TagsFrom'[next'[this]], TagsFrom[cur], TagsFrom'[x], arg.tid)
  <2>1. /\ next'[prev] = x /\ \A h \in {this} \union P : h # prev => next'[h] = next[h]
        /\ \A n \in P : tagData'[n] = tagData[n]
    BY DEF LeadsTo
  <2> QED
    BY <2>1, <1>1, <1>2, <1>5, WalkSplits
<1>7. \A list \in Lists : Contents[list] = TagsFrom[next[list]] /\ Contents'[list] = TagsFrom'[next'[list]]
  BY ContentsNow, ContentsThen
<1>8. \A list \in Lists : list # this => Contents'[list] = Contents[list]
  BY <1>3, <1>4, <1>7 DEF LeadsTo
<1> QED
  BY <1>1, <1>3, <1>4, <1>6, <1>7, <1>8

(* What the two states of a function have in common.                       *)
LEMMA ContentsStay ==
  ASSUME \A list \in Lists : Contents'[list] = Contents[list]
  PROVE  Contents' = Contents
BY DEF Contents

LEMMA ContentsPut ==
  ASSUME NEW list \in Lists, \A l \in Lists : l # list => Contents'[l] = Contents[l]
  PROVE  Contents' = [Contents EXCEPT ![list] = Contents'[list]]
BY DEF Contents

-----------------------------------------------------------------------------
(* The copying step.                                                       *)

LEMMA PutInPlaceFacts ==
  ASSUME Tidy, NEW copy \in Nodes \ Allocated, this \in Lists,
         NEW content \in [tid : Tids, data : Data, size : Nat],
         cur \in Allocated, count[cur] > 1,
         prev \in Lists \union Allocated, next[prev] = cur,
         PutInPlace(copy, content),
         NEW P \in SUBSET Allocated, Walk(P)
  PROVE  /\ Allocated' = Allocated \union {copy}
         /\ LeadsTo(copy, P, P)
         /\ tagData'[copy] = content /\ next'[copy] = next[cur]
         /\ \A n \in Allocated : tagData'[n] = tagData[n]
<1>1. /\ Allocated' = Allocated \union {copy}
      /\ \A x \in Links : next'[x] = IF x = prev THEN copy ELSE IF x = copy THEN next[cur] ELSE next[x]
  BY PutInPlaceTidy
<1>2. /\ \A n \in Allocated : tagData'[n] = tagData[n] /\ n \in Links /\ n # copy
      /\ tagData'[copy] = content /\ copy \in Links /\ copy # prev
      /\ \A list \in Lists : list \in Links /\ list # copy /\ list \notin Allocated
      /\ prev \in Links
  BY PointerFacts DEF PutInPlace, Tidy, TreeTypes
<1>3. prev \in {this} \union P
  BY DEF Walk
<1> QED
  BY <1>1, <1>2, <1>3 DEF LeadsTo

LEMMA CopyOnRefines ==
  ASSUME IInv, IInv', Walked, CopyOn
  PROVE  Contents' = Contents /\ found' = found
<1>1. /\ pc = "copy" /\ pc' = "copy" /\ found' = found
      /\ HasRoom(tagData[cur].tid) /\ PutInPlace(NewNode(tagData[cur].tid), tagData[cur])
  BY DEF CopyOn
<1>2. /\ Tidy /\ this \in Lists /\ cur \in Allocated /\ count[cur] > 1
      /\ prev \in Lists \union Allocated /\ next[prev] = cur
  BY <1>1, TraversalFacts
<1>3. PICK P \in SUBSET Allocated : Walk(P)
  BY <1>1 DEF Walked
<1>4. PICK copy : copy = NewNode(tagData[cur].tid)
  OBVIOUS
<1>5. copy \in Nodes \ Allocated
  BY <1>1, <1>4, NewNodeIsFree
<1>6. tagData[cur] \in [tid : Tids, data : Data, size : Nat]
  BY <1>2, TreeNow DEF Typed
<1>7. /\ Allocated' = Allocated \union {copy} /\ LeadsTo(copy, P, P)
      /\ tagData'[copy] = tagData[cur] /\ next'[copy] = next[cur]
  BY <1>1, <1>2, <1>3, <1>4, <1>5, <1>6, PutInPlaceFacts
<1>8. /\ \A list \in Lists : list # this => Contents'[list] = Contents[list]
      /\ Split(Contents[this], Contents'[this], TagsFrom[cur], TagsFrom'[copy], arg.tid)
      /\ TagsFrom'[next[cur]] = TagsFrom[next[cur]]
  <2>1. Unshared(P, P) /\ copy \in Allocated' \union {NULL} /\ cur # NULL
    BY <1>2, <1>7, PointerFacts DEF Unshared
  <2> QED
    BY <2>1, <1>1, <1>3, <1>7, WayChanges
<1>9. TagsFrom'[copy] = TagsFrom[cur]
  <2>1. /\ TagsFrom[cur] = Cons(Item(tagData[cur]), TagsFrom[next[cur]])
        /\ TagsFrom'[copy] = Cons(Item(tagData'[copy]), TagsFrom'[next'[copy]])
    BY <1>2, <1>5, ReadingNow, ReadingThen, ReadsFacts, PointerFacts
  <2> QED
    BY <2>1, <1>7, <1>8
<1>10. Contents'[this] = Contents[this]
  BY <1>8, <1>9 DEF Split
<1> QED
  BY <1>1, <1>8, <1>10, ContentsStay

-----------------------------------------------------------------------------
(* The tag was found: it is removed or replaced.                           *)

LEMMA InTheMiddle == ASSUME NEW m \in Nat, NEW n \in Nat PROVE m + 1 \in 1..(m + 1 + n)
OBVIOUS

(* The tag of the cursor, which is the one looked for, in its list.        *)
LEMMA FoundInList ==
  ASSUME IInv, OneOfAType, this \in Lists, cur \in Allocated, tagData[cur].tid = arg.tid,
         TagsFrom[next[cur]] \in Seq(Items),
         NEW q \in Seq(Items), Contents[this] = Joined(q, TagsFrom[cur])
  PROVE  LET x == Item(tagData[cur])
         IN  /\ x \in Items /\ x.tid = arg.tid
             /\ TagsFrom[cur] = Cons(x, TagsFrom[next[cur]])
             /\ ~HasIn(TagsFrom[next[cur]], arg.tid)
             /\ Contents[this] = Joined(q, Cons(x, TagsFrom[next[cur]]))
             /\ Len(q) + 1 \in DOMAIN Contents[this] /\ Contents[this][Len(q) + 1] = x
             /\ Separate!Has(this, arg.tid)
<1>1. PICK x : x = Item(tagData[cur])
  OBVIOUS
<1>2. x \in Items /\ x.tid = arg.tid
  BY <1>1, TreeNow, ItemTyped DEF Typed
<1>3. TagsFrom[cur] = Cons(x, TagsFrom[next[cur]])
  BY <1>1, ReadingNow, ReadsFacts, PointerFacts
<1>4. ~HasIn(TagsFrom[next[cur]], arg.tid)
  BY ClearIsRead DEF OneOfAType
<1>5. PICK w : w = Contents[this]
  OBVIOUS
<1>6. w = Joined(q, Cons(x, TagsFrom[next[cur]]))
  BY <1>3, <1>5
<1>7. Lays(w, q, x, TagsFrom[next[cur]])
  BY <1>2, <1>6, MiddleFacts
<1>8. Len(q) + 1 \in DOMAIN w /\ w[Len(q) + 1] = x
  <2>1. Len(q) \in Nat /\ Len(TagsFrom[next[cur]]) \in Nat
    OBVIOUS
  <2>2. Len(q) + 1 \in 1..(Len(q) + 1 + Len(TagsFrom[next[cur]]))
    BY <2>1, InTheMiddle
  <2> QED
    BY <2>2, <1>7 DEF Lays
<1>9. Separate!Has(this, arg.tid)
  BY <1>2, <1>5, <1>8 DEF Separate!Has
<1> QED
  BY <1>1, <1>2, <1>3, <1>4, <1>5, <1>6, <1>8, <1>9

(* Only its own list leads to a node that is no merge.                     *)
LEMMA OnlyThisWay ==
  ASSUME Tidy, cur \in Allocated, ~AtMerge, next[prev] = cur, prev \in Links
  PROVE  IncomingTo(cur) \subseteq {prev}
<1>1. cur # NULL /\ cur \in Nodes
  BY PointerFacts
<1>2. count[cur] \in Nat /\ count[cur] = Cardinality(IncomingTo(cur)) /\ count[cur] > 0
  BY <1>1 DEF Tidy, TreeTypes, Counted
<1>3. Cardinality(IncomingTo(cur)) = 1
  BY <1>1, <1>2 DEF AtMerge
<1>4. prev \in IncomingTo(cur) /\ IsFiniteSet(IncomingTo(cur))
  BY IncomingFinite DEF IncomingTo
<1> QED
  BY <1>3, <1>4, JustOne

LEMMA RemoveRefines ==
  ASSUME IInv, IInv', Walked, OneOfAType, RemoveUnshared \/ RemoveShared
  PROVE  \E tag \in Tags : Separate!Remove(this, tag.tid)
<1>1. /\ pc \in {"search", "copy"} /\ pc' = "idle" /\ found' = TRUE /\ cur # NULL
      /\ tagData[cur].tid = arg.tid
  <2>1. CASE RemoveUnshared
    BY <2>1 DEF RemoveUnshared, FoundUnshared, Return, Frame
  <2>2. CASE RemoveShared
    <3>1. pc = "copy" /\ pc' = "idle" /\ found' = TRUE /\ tagData[cur].tid = arg.tid
      BY <2>2 DEF RemoveShared, FoundShared, Return, Frame
    <3> QED
      BY <3>1 DEF IInv, CopiesMerges
  <2> QED
    BY <2>1, <2>2
<1>2. /\ Tidy /\ this \in Lists /\ this \notin Nodes /\ cur \in Allocated /\ cur \in Nodes
      /\ prev \in Lists \union Allocated /\ prev \in Links /\ next[prev] = cur
      /\ arg.tid \in Tids
  BY <1>1, TraversalFacts, PointerFacts
<1>3. PICK P \in SUBSET Allocated : Walk(P)
  BY <1>1 DEF Walked
<1>4. next[cur] # cur /\ cur \notin P /\ cur # prev
  <2>1. Unshared(P, P)
    BY DEF Unshared
  <2>2. cur \notin P
    BY <1>2, <1>1, <1>3, <2>1, BesideTheWay
  <2>3. {cur} \in SUBSET Allocated /\ {cur} # {}
    BY <1>2
  <2>4. next[cur] # cur
    BY <2>3 DEF Tidy, Acyclic, IInv
  <2> QED
    BY <2>2, <2>4, <1>2, <1>3 DEF Walk
<1>5. PICK E : /\ Unshared(E, P) /\ LeadsTo(next[cur], E, P)
  <2>1. CASE RemoveShared
    <3>1. Unshared(P, P)
      BY DEF Unshared
    <3>2. LeadsTo(next[cur], P, P)
      <4>1. tagData' = tagData /\ next' = [next EXCEPT ![prev] = next[cur]] /\ next \in [Links -> Pointers]
        BY <2>1, <1>2 DEF RemoveShared, Tidy, TreeTypes
      <4> QED
        BY <4>1, <1>2, <1>3, PointerFacts DEF LeadsTo, Walk
    <3> QED
      BY <3>1, <3>2
  <2>2. CASE RemoveUnshared
    <3>1. Unshared(P \union {cur}, P)
      BY <2>2, <1>2, OnlyThisWay DEF Unshared, RemoveUnshared, FoundUnshared
    <3>2. LeadsTo(next[cur], P \union {cur}, P)
      <4>1. /\ tagData' = [tagData EXCEPT ![cur] = NULL]
            /\ next' = [next EXCEPT ![prev] = next[cur], ![cur] = NULL]
            /\ next \in [Links -> Pointers]
            /\ tagData \in [Nodes -> [tid : Tids, data : Data, size : Nat] \union {NULL}]
        BY <2>2, <1>2 DEF RemoveUnshared, Tidy, TreeTypes
      <4>2. \A x \in Links : x # cur => next'[x] = IF x = prev THEN next[cur] ELSE next[x]
        BY <4>1
      <4>3. \A n \in Nodes : n # cur => tagData'[n] = tagData[n]
        BY <4>1
      <4> QED
        BY <4>2, <4>3, <1>2, <1>3, <1>4, PointerFacts DEF LeadsTo, Walk
    <3> QED
      BY <3>1, <3>2
  <2> QED
    BY <2>1, <2>2
<1>6. next[cur] \in Allocated' \union {NULL}
  <2>1. prev \in Links /\ next'[prev] = next[cur] /\ pc' # "removeAll"
    BY <1>1, <1>2, <1>5 DEF LeadsTo
  <2> QED
    BY <2>1 DEF IInv, NoDangling, Dying
<1>7. /\ \A list \in Lists : list # this => Contents'[list] = Contents[list]
      /\ Split(Contents[this], Contents'[this], TagsFrom[cur], TagsFrom'[next[cur]], arg.tid)
      /\ TagsFrom'[next[cur]] = TagsFrom[next[cur]]
  <2>1. pc' \notin {"removeAll", "assign"}
    BY <1>1
  <2> QED
    BY <2>1, <1>1, <1>3, <1>5, <1>6, WayChanges
<1>8. TagsFrom[next[cur]] \in Seq(Items)
  BY <1>2, ClearIsRead DEF OneOfAType
<1>9. PICK q \in Seq(Items) : /\ Contents[this] = Joined(q, TagsFrom[cur])
                              /\ Contents'[this] = Joined(q, TagsFrom[next[cur]])
  BY <1>7 DEF Split
<1>10. PICK x \in Items : /\ x.tid = arg.tid
                          /\ Contents[this] = Joined(q, Cons(x, TagsFrom[next[cur]]))
                          /\ Len(q) + 1 \in DOMAIN Contents[this] /\ Contents[this][Len(q) + 1] = x
                          /\ Separate!Has(this, arg.tid)
  BY <1>1, <1>2, <1>8, <1>9, FoundInList
<1>11. Contents'[this] = Separate!Without(Contents[this], Len(q) + 1)
  BY <1>8, <1>9, <1>10, MiddleOut
<1>12. Contents' = Separate!Put(this, Separate!Without(Contents[this], Len(q) + 1))
  BY <1>2, <1>7, <1>11, ContentsPut DEF Separate!Put
<1>13. Separate!Remove(this, arg.tid)
  BY <1>1, <1>10, <1>12 DEF Separate!Remove
<1> QED
  BY <1>2, <1>13 DEF Tids

LEMMA ReplaceFoundRefines ==
  ASSUME IInv, IInv', Walked, OneOfAType, ReplaceUnshared \/ ReplaceShared
  PROVE  arg \in Tags /\ Separate!Replace(this, arg)
<1>1. /\ pc \in {"search", "copy"} /\ pc' = "idle" /\ found' = TRUE /\ cur # NULL
      /\ tagData[cur].tid = arg.tid /\ op = "Replace"
  <2>1. CASE ReplaceUnshared
    BY <2>1 DEF ReplaceUnshared, FoundUnshared, Return, Frame
  <2>2. CASE ReplaceShared
    <3>1. /\ pc = "copy" /\ pc' = "idle" /\ found' = TRUE /\ tagData[cur].tid = arg.tid
          /\ op = "Replace"
      BY <2>2 DEF ReplaceShared, FoundShared, Return, Frame
    <3> QED
      BY <3>1 DEF IInv, CopiesMerges
  <2> QED
    BY <2>1, <2>2
<1>2. /\ Tidy /\ this \in Lists /\ this \notin Nodes /\ cur \in Allocated /\ cur \in Nodes
      /\ prev \in Lists \union Allocated /\ prev \in Links /\ next[prev] = cur
      /\ arg \in Tags
  BY <1>1, TraversalFacts, PointerFacts
<1>3. PICK P \in SUBSET Allocated : Walk(P)
  BY <1>1 DEF Walked
<1>4. /\ tagData[cur] \in [tid : Tids, data : Data, size : Nat] /\ CreateTagData(arg) \in [tid : Tids, data : Data, size : Nat]
      /\ Item(CreateTagData(arg)) = arg /\ arg \in Items
  BY <1>2, TreeNow, TagsAssumption DEF Typed, CreateTagData, Item, Items, Tids, Data
<1>5. TagsFrom[next[cur]] \in Seq(Items)
  BY <1>2, ClearIsRead DEF OneOfAType
<1>6. PICK E, x : /\ Unshared(E, P) /\ LeadsTo(x, E, P)
                  /\ x \in Allocated' /\ Item(tagData'[x]) = arg /\ next'[x] = next[cur]
  <2>1. CASE ReplaceShared
    <3>1. pc = "copy" /\ count[cur] > 1
      BY <2>1, TraversalFacts DEF ReplaceShared, FoundShared
    <3>2. PICK copy : copy = NewNode(arg.tid)
      OBVIOUS
    <3>3. copy \in Nodes \ Allocated /\ PutInPlace(copy, CreateTagData(arg))
      BY <2>1, <3>2, NewNodeIsFree DEF ReplaceShared
    <3>4. /\ Allocated' = Allocated \union {copy} /\ LeadsTo(copy, P, P)
          /\ tagData'[copy] = CreateTagData(arg) /\ next'[copy] = next[cur]
      BY <1>2, <1>3, <1>4, <3>1, <3>3, PutInPlaceFacts
    <3> QED
      BY <3>4, <1>4 DEF Unshared
  <2>2. CASE ReplaceUnshared
    <3>1. Unshared(P \union {cur}, P)
      BY <2>2, <1>2, OnlyThisWay DEF Unshared, ReplaceUnshared, FoundUnshared
    <3>2. /\ tagData' = [tagData EXCEPT ![cur].data = arg.data] /\ next' = next
          /\ tagData \in [Nodes -> [tid : Tids, data : Data, size : Nat] \union {NULL}]
      BY <2>2, <1>2 DEF ReplaceUnshared, Tidy, TreeTypes
    <3>3. \A n \in Nodes : n # cur => tagData'[n] = tagData[n]
      BY <3>2
    <3>4. tagData'[cur] = [tagData[cur] EXCEPT !.data = arg.data]
      BY <3>2, <1>2
    <3>5. Item(tagData'[cur]) = arg /\ tagData'[cur] \in [tid : Tids, data : Data, size : Nat]
      <4>1. /\ tagData'[cur].tid = arg.tid /\ tagData'[cur].data = arg.data
            /\ tagData'[cur] \in [tid : Tids, data : Data, size : Nat]
        BY <3>4, <1>1, <1>2, <1>4 DEF Data
      <4> QED
        BY <4>1, <1>2, TagsAssumption DEF Item
    <3>6. cur \in Allocated'
      BY <3>5, <1>2, TagsAssumption DEF Allocated
    <3>7. cur \notin P
      <4>1. Unshared(P, P)
        BY DEF Unshared
      <4> QED
        BY <4>1, <1>1, <1>2, <1>3, BesideTheWay
    <3>8. LeadsTo(cur, P \union {cur}, P)
      BY <3>2, <3>3, <3>7, <1>2, <1>3, PointerFacts DEF LeadsTo
    <3> QED
      BY <3>1, <3>2, <3>5, <3>6, <3>8
  <2> QED
    BY <2>1, <2>2
<1>7. /\ \A list \in Lists : list # this => Contents'[list] = Contents[list]
      /\ Split(Contents[this], Contents'[this], TagsFrom[cur], TagsFrom'[x], arg.tid)
      /\ TagsFrom'[next[cur]] = TagsFrom[next[cur]]
  <2>1. pc' \notin {"removeAll", "assign"} /\ x \in Allocated' \union {NULL}
    BY <1>1, <1>6
  <2> QED
    BY <2>1, <1>1, <1>3, <1>6, WayChanges
<1>8. TagsFrom'[x] = Cons(arg, TagsFrom[next[cur]])
  <2>1. x \in Nodes
    BY <1>6, PointerFacts DEF Allocated
  <2>2. TagsFrom'[x] = Cons(Item(tagData'[x]), TagsFrom'[next'[x]])
    BY <2>1, ReadingThen, ReadsFacts
  <2> QED
    BY <2>2, <1>6, <1>7
<1>9. PICK q \in Seq(Items) : /\ Contents[this] = Joined(q, TagsFrom[cur])
                              /\ Contents'[this] = Joined(q, Cons(arg, TagsFrom[next[cur]]))
                              /\ ~HasIn(q, arg.tid)
  BY <1>7, <1>8 DEF Split
<1>10. PICK y \in Items : /\ y.tid = arg.tid
                          /\ Contents[this] = Joined(q, Cons(y, TagsFrom[next[cur]]))
                          /\ ~HasIn(TagsFrom[next[cur]], arg.tid)
                          /\ Separate!Has(this, arg.tid)
  BY <1>1, <1>2, <1>5, <1>9, FoundInList
<1>11. Contents'[this] = [i \in DOMAIN Contents[this] |->
                            IF Contents[this][i].tid = arg.tid THEN arg ELSE Contents[this][i]]
  <2>1. PICK w : w = Contents[this]
    OBVIOUS
  <2>2. [i \in DOMAIN w |-> IF w[i].tid = y.tid THEN arg ELSE w[i]]
          = Joined(q, Cons(arg, TagsFrom[next[cur]]))
    BY <2>1, <1>4, <1>5, <1>9, <1>10, MiddleReplaced
  <2> QED
    BY <2>1, <2>2, <1>9, <1>10
<1>12. Separate!Overwrite(this, arg)
  BY <1>2, <1>7, <1>10, <1>11, ContentsPut DEF Separate!Overwrite, Separate!Put
<1> QED
  BY <1>1, <1>2, <1>10, <1>12 DEF Separate!Replace

-----------------------------------------------------------------------------
(* The tag was not found.                                                  *)

(* A new tag in front of a list.                                           *)
LEMMA PrependFacts ==
  ASSUME Tidy, NEW list \in Lists, NEW tag \in Tags, Prepend(list, tag)
  PROVE  \E head \in Nodes \ Allocated :
           /\ Allocated' = Allocated \union {head}
           /\ \A n \in Allocated : next'[n] = next[n] /\ tagData'[n] = tagData[n]
           /\ \A l \in Lists : next'[l] = IF l = list THEN head ELSE next[l]
           /\ next'[head] = next[list] /\ tagData'[head] = CreateTagData(tag)
<1>1. PICK head : head = NewNode(tag.tid)
  OBVIOUS
<1>2. /\ head \in Nodes \ Allocated
      /\ tagData' = [tagData EXCEPT ![head] = CreateTagData(tag)]
      /\ next' = [next EXCEPT ![head] = next[list], ![list] = head]
  BY <1>1, NewNodeIsFree DEF Prepend
<1>3. CreateTagData(tag) # NULL
  BY TagsAssumption DEF CreateTagData, Tids, Data
<1>4. Allocated' = Allocated \union {head}
  BY <1>2, <1>3 DEF Tidy, TreeTypes, Allocated
<1>5. /\ \A n \in Allocated : next'[n] = next[n] /\ tagData'[n] = tagData[n]
      /\ \A l \in Lists : next'[l] = IF l = list THEN head ELSE next[l]
      /\ next'[head] = next[list] /\ tagData'[head] = CreateTagData(tag)
  BY <1>2, PointerFacts DEF Tidy, TreeTypes
<1> QED
  BY <1>2, <1>4, <1>5

(* A list's contents when no node in use changes.                          *)
LEMMA NodesKept ==
  ASSUME IInv, IInv', \A n \in Allocated : next'[n] = next[n] /\ tagData'[n] = tagData[n]
  PROVE  \A n \in Allocated \union {NULL} : TagsFrom'[n] = TagsFrom[n]
<1>1. Allocated \in SUBSET Allocated /\ ClosedIn(Allocated, next) /\ Tree(Allocated, next)
  BY TreeNow DEF Tree, ClosedIn
<1> QED
  BY <1>1, ReadingNow, ReadingThen, SameReading

LEMMA PrependRefines ==
  ASSUME IInv, IInv', pc \notin {"removeAll", "assign"}, pc' \notin {"removeAll", "assign"},
         NEW list \in Lists, NEW tag \in Tags, Prepend(list, tag), ~HasIn(Contents[list], tag.tid)
  PROVE  Separate!Prepend(list, tag)
<1>1. Tidy
  BY TidyWhenQuiet
<1>2. PICK head \in Nodes \ Allocated :
           /\ Allocated' = Allocated \union {head}
           /\ \A n \in Allocated : next'[n] = next[n] /\ tagData'[n] = tagData[n]
           /\ \A l \in Lists : next'[l] = IF l = list THEN head ELSE next[l]
           /\ next'[head] = next[list] /\ tagData'[head] = CreateTagData(tag)
  BY <1>1, PrependFacts
<1>3. \A n \in Allocated \union {NULL} : TagsFrom'[n] = TagsFrom[n]
  BY <1>2, NodesKept
<1>4. \A l \in Lists : /\ next[l] \in Allocated \union {NULL}
                       /\ Contents[l] = TagsFrom[next[l]] /\ Contents'[l] = TagsFrom'[next'[l]]
  BY <1>1, PointerFacts, ContentsNow, ContentsThen DEF Tidy, Solid
<1>5. \A l \in Lists : l # list => Contents'[l] = Contents[l]
  BY <1>2, <1>3, <1>4
<1>6. Item(CreateTagData(tag)) = tag
  BY TagsAssumption DEF CreateTagData, Item
<1>7. TagsFrom'[head] = Cons(tag, TagsFrom'[next[list]])
  BY <1>2, <1>6, ReadingThen, ReadsFacts
<1>8. Contents'[list] = <<tag>> \o Contents[list]
  BY <1>2, <1>3, <1>4, <1>7 DEF Cons
<1>9. Contents' = [Contents EXCEPT ![list] = <<tag>> \o Contents[list]]
  BY <1>5, <1>8, ContentsPut
<1> QED
  BY <1>9 DEF Separate!Prepend, Separate!Put, Separate!Has, HasIn

LEMMA AddRefines ==
  ASSUME IInv, IInv', NEW list \in Lists, NEW tag \in Tags, Add(list, tag)
  PROVE  Separate!Add(list, tag)
<1>1. /\ pc = "idle" /\ pc' = "idle" /\ found' = found
      /\ ~HasTid(next[list], tag.tid) /\ Prepend(list, tag)
  BY DEF Add, locals
<1>2. Tidy /\ next[list] \in Allocated \union {NULL} /\ Contents[list] = TagsFrom[next[list]]
  BY <1>1, TidyWhenQuiet, PointerFacts, ContentsNow DEF Tidy, Solid
<1>3. ~HasIn(Contents[list], tag.tid)
  BY <1>1, <1>2, NoTidClear, ClearIsRead
<1> QED
  BY <1>1, <1>3, PrependRefines DEF Separate!Add

(* The tag is neither in what the search left behind nor ahead of it.      *)
LEMMA NotInList ==
  ASSUME IInv, Walked, NotFound
  PROVE  /\ Contents[this] \in Seq(Items) /\ ~HasIn(Contents[this], arg.tid)
         /\ Clear(cur, arg.tid)
<1>1. pc = "search" /\ (cur = NULL \/ ~HasTid(cur, arg.tid))
  BY DEF NotFound
<1>2. /\ Tidy /\ this \in Lists /\ prev \in Lists \union Allocated /\ next[prev] = cur
      /\ cur \in Allocated \union {NULL}
  BY <1>1, TraversalFacts
<1>3. PICK P \in SUBSET Allocated : Walk(P)
  BY <1>1 DEF Walked
<1>4. Clear(cur, arg.tid)
  <2>1. CASE cur = NULL
    <3>1. {} \in SUBSET Allocated /\ Closed({})
      BY DEF Closed
    <3> QED
      BY <2>1, <3>1 DEF Clear
  <2>2. CASE cur # NULL
    BY <1>1, <1>2, <2>2, NoTidClear
  <2> QED
    BY <2>1, <2>2
<1>5. TagsFrom[cur] \in Seq(Items) /\ ~HasIn(TagsFrom[cur], arg.tid)
  BY <1>4, ClearIsRead
<1>6. Split(TagsFrom[next[this]], TagsFrom[next[this]], TagsFrom[cur], TagsFrom[cur], arg.tid)
  <2>1. Tree(Allocated, next) /\ Typed(Allocated, tagData) /\ Reads(TagsFrom, next, tagData)
    BY TreeNow, ReadingNow
  <2> QED
    BY <2>1, <1>2, <1>3, <1>5, WalkSplits
<1>7. PICK q \in Seq(Items) : TagsFrom[next[this]] = Joined(q, TagsFrom[cur]) /\ ~HasIn(q, arg.tid)
  BY <1>6 DEF Split
<1>8. Contents[this] = TagsFrom[next[this]]
  BY <1>1, <1>2, ContentsNow
<1> QED
  BY <1>4, <1>5, <1>7, <1>8, InJoined, JoinedFacts

LEMMA NotFoundRefines ==
  ASSUME IInv, IInv', Walked, NotFound
  PROVE  \E tag \in Tags : Separate!Remove(this, tag.tid) \/ Separate!Replace(this, tag)
<1>1. /\ pc = "search" /\ pc' = "idle" /\ found' = FALSE
      /\ IF op = "Replace" THEN Prepend(this, arg) ELSE UNCHANGED tree
  BY DEF NotFound, Return, Frame
<1>2. /\ this \in Lists /\ op \in {"Remove", "Replace"} /\ arg.tid \in Tids
      /\ op = "Replace" => arg \in Tags
  BY <1>1, TraversalFacts
<1>3. ~HasIn(Contents[this], arg.tid)
  BY NotInList
<1>4. CASE op = "Replace"
  <2>1. Separate!Prepend(this, arg)
    BY <1>1, <1>2, <1>3, <1>4, PrependRefines
  <2> QED
    BY <2>1, <1>1, <1>2, <1>3, <1>4 DEF Separate!Replace, Separate!Has, HasIn
<1>5. CASE op = "Remove"
  <2>1. UNCHANGED <<next, tagData>>
    BY <1>1, <1>5 DEF tree
  <2>2. TagsFrom' = TagsFrom
    BY <2>1 DEF TagsFrom
  <2>3. Contents' = Contents
    BY <2>1, <2>2, <1>1, ContentsNow, ContentsThen, ContentsStay
  <2>4. Separate!Remove(this, arg.tid)
    BY <2>3, <1>1, <1>3 DEF Separate!Remove, Separate!Has, HasIn
  <2> QED
    BY <2>4, <1>2 DEF Tids
<1> QED
  BY <1>2, <1>4, <1>5

(* Steps of a call that change no list.                                    *)
LEMMA QuietRefines ==
  ASSUME UNCHANGED tree, pc \notin {"removeAll", "assign"}, pc' \notin {"removeAll", "assign"}
  PROVE  Contents' = Contents
<1>1. UNCHANGED <<next, tagData>>
  BY DEF tree
<1>2. TagsFrom' = TagsFrom
  BY <1>1 DEF TagsFrom
<1> QED
  BY <1>1, <1>2, ContentsNow, ContentsThen, ContentsStay

-----------------------------------------------------------------------------
(* RemoveAll and operator=.                                                *)

LEMMA RemovalStartRefines ==
  ASSUME NEW list \in Lists, RemoveAll(list) \/ \E other \in Lists : Assign(list, other)
  PROVE  Separate!RemoveAll(list)
<1>1. /\ pc = "idle" /\ pc' = "removeAll" /\ this' = list /\ found' = found
      /\ UNCHANGED <<next, tagData>>
  BY DEF RemoveAll, Assign, Frame, tree
<1>2. TagsFrom' = TagsFrom
  BY <1>1 DEF TagsFrom
<1>3. \A l \in Lists : Contents'[l] = IF l = list THEN <<>> ELSE Contents[l]
  BY <1>1, <1>2 DEF Contents
<1>4. Contents' = [Contents EXCEPT ![list] = <<>>]
  BY <1>3, ContentsPut
<1> QED
  BY <1>1, <1>4 DEF Separate!RemoveAll, Separate!Put

(* What RemoveAll frees belongs to no other list.                          *)
LEMMA RemovalReads ==
  ASSUME IInv, IInv', pc = "removeAll", 
         \A x \in Links : x # prev /\ x # this => next'[x] = next[x],
         \A n \in Nodes : n # prev => tagData'[n] = tagData[n]
  PROVE  \A list \in Lists : list # this => TagsFrom'[next'[list]] = TagsFrom[next[list]]
<1> DEFINE D == Allocated \ {prev}
<1>1. /\ this \in Lists /\ this \notin Nodes
      /\ \A x \in Links : x # this /\ x # prev => next[x] \in D \union {NULL}
  BY RemovalFacts
<1>2. prev \notin Lists
  BY PointerFacts DEF IInv, TypeOK
<1>3. ClosedIn(D, next) /\ D \in SUBSET Allocated
  BY <1>1, PointerFacts DEF ClosedIn
<1>4. \A n \in D : next'[n] = next[n] /\ tagData'[n] = tagData[n]
  BY <1>1, PointerFacts
<1>5. \A n \in D \union {NULL} : TagsFrom'[n] = TagsFrom[n]
  <2>1. Tree(Allocated, next)
    BY TreeNow
  <2> HIDE DEF D
  <2> QED
    BY <2>1, <1>3, <1>4, ReadingNow, ReadingThen, SameReading
<1> QED
  BY <1>1, <1>2, <1>5, PointerFacts

LEMMA RemoveOnRefines ==
  ASSUME IInv, IInv', RemoveOn
  PROVE  Contents' = Contents /\ found' = found
<1>1. /\ pc = "removeAll" /\ pc' = "removeAll" /\ this' = this /\ found' = found
      /\ \A x \in Links : x # prev => next'[x] = next[x]
      /\ \A n \in Nodes : n # prev => tagData'[n] = tagData[n]
  BY DEF RemoveOn, Freed
<1>2. \A list \in Lists : list # this => TagsFrom'[next'[list]] = TagsFrom[next[list]]
  BY <1>1, RemovalReads
<1>3. \A list \in Lists : Contents'[list] = Contents[list]
  BY <1>1, <1>2 DEF Contents
<1> QED
  BY <1>1, <1>3, ContentsStay

LEMMA RemoveEndRefines ==
  ASSUME IInv, IInv', RemoveEnd
  PROVE  Contents' = Contents /\ found' = found
<1>1. /\ pc = "removeAll" /\ found' = found /\ this \in Lists
      /\ \A x \in Links : x # prev /\ x # this => next'[x] = next[x]
      /\ next'[this] = NULL
      /\ \A n \in Nodes : n # prev => tagData'[n] = tagData[n]
      /\ (pc' = "assign" /\ this' = this) \/ pc' = "idle"
  <2>1. pc = "removeAll" /\ found' = found /\ this \in Lists /\ this \in Links
    BY RemovalFacts DEF RemoveEnd
  <2>2. (pc' = "assign" /\ this' = this) \/ pc' = "idle"
    BY DEF RemoveEnd, Return, Frame
  <2> QED
    BY <2>1, <2>2 DEF RemoveEnd
<1>2. \A list \in Lists : list # this => TagsFrom'[next'[list]] = TagsFrom[next[list]]
  BY <1>1, RemovalReads
<1>3. TagsFrom'[next'[this]] = <<>>
  BY <1>1, ReadingThen, ReadsFacts
<1>4. \A list \in Lists : Contents'[list] = Contents[list]
  BY <1>1, <1>2, <1>3 DEF Contents
<1> QED
  BY <1>1, <1>4, ContentsStay

LEMMA LinkRefines ==
  ASSUME IInv, IInv', Link
  PROVE  arg \in Lists /\ this \in Lists /\ Separate!Assign(this, arg)
<1>1. /\ pc = "assign" /\ pc' = "idle" /\ found' = found /\ tagData' = tagData
      /\ next' = [next EXCEPT ![this] = next[arg]]
  BY DEF Link, Return, Frame
<1>2. /\ Tidy /\ this \in Lists /\ arg \in Lists /\ next[this] = NULL
  BY <1>1, TidyWhenQuiet DEF IInv, TypeOK, Unlinked
<1>3. \A x \in Links : next'[x] = IF x = this THEN next[arg] ELSE next[x]
  BY <1>1, <1>2 DEF Tidy, TreeTypes
<1>4. \A n \in Allocated : next'[n] = next[n] /\ tagData'[n] = tagData[n]
  BY <1>1, <1>2, <1>3, PointerFacts
<1>5. \A n \in Allocated \union {NULL} : TagsFrom'[n] = TagsFrom[n]
  BY <1>4, NodesKept
<1>6. TagsFrom[NULL] = <<>>
  BY ReadingNow, ReadsFacts
<1>7. \A l \in Lists : l \in Links /\ next[l] \in Allocated \union {NULL}
  BY <1>2, PointerFacts DEF Tidy, Solid
<1>8. \A l \in Lists : Contents[l] = IF l = this THEN <<>> ELSE TagsFrom[next[l]]
  BY <1>1 DEF Contents
<1>9. \A l \in Lists : Contents'[l] = TagsFrom'[next'[l]]
  BY <1>1, ContentsThen
<1>10. \A l \in Lists : l # this => Contents'[l] = Contents[l]
  BY <1>3, <1>5, <1>7, <1>8, <1>9
<1>11. Contents'[this] = Contents[arg]
  BY <1>2, <1>3, <1>5, <1>6, <1>7, <1>8, <1>9
<1>12. Contents' = [Contents EXCEPT ![this] = Contents[arg]]
  BY <1>2, <1>10, <1>11, ContentsPut
<1> QED
  BY <1>1, <1>2, <1>12 DEF Separate!Assign, Separate!Put

-----------------------------------------------------------------------------
(* Every step keeps a list free of a second tag of a type.                 *)

(* D holds the list from n on, in such a tree, and no tag of the type.     *)
Lacks(D, A, links, datas, n, tid) ==
  /\ D \in SUBSET A /\ n \in D \union {NULL} /\ ClosedIn(D, links)
  /\ \A m \in D : datas[m].tid # tid

LEMMA OneNow ==
  ASSUME OneOfAType, NEW n \in Allocated
  PROVE  \E D : Lacks(D, Allocated, next, tagData, next[n], tagData[n].tid)
BY DEF OneOfAType, Clear, Closed, ClosedIn, Lacks

LEMMA OneThen ==
  ASSUME \A n \in Allocated' : \E D : Lacks(D, Allocated', next', tagData', next'[n], tagData'[n].tid)
  PROVE  OneOfAType'
BY DEF OneOfAType, Clear, Closed, ClosedIn, Lacks

LEMMA OneKept ==
  ASSUME OneOfAType, Allocated' = Allocated,
         \A n \in Allocated : next'[n] = next[n] /\ tagData'[n].tid = tagData[n].tid
  PROVE  OneOfAType'
<1> SUFFICES ASSUME NEW n \in Allocated
             PROVE  \E D : Lacks(D, Allocated', next', tagData', next'[n], tagData'[n].tid)
  BY OneThen
<1>1. PICK D : Lacks(D, Allocated, next, tagData, next[n], tagData[n].tid)
  BY OneNow
<1>2. Lacks(D, Allocated', next', tagData', next'[n], tagData'[n].tid)
  BY <1>1 DEF Lacks, ClosedIn
<1> QED
  BY <1>2

LEMMA OneAfterFree ==
  ASSUME OneOfAType, NEW gone, Allocated' = Allocated \ {gone},
         \A n \in Allocated' : next'[n] = next[n] /\ tagData'[n] = tagData[n] /\ next[n] # gone
  PROVE  OneOfAType'
<1> SUFFICES ASSUME NEW n \in Allocated'
             PROVE  \E D : Lacks(D, Allocated', next', tagData', next'[n], tagData'[n].tid)
  BY OneThen
<1>1. PICK D : Lacks(D, Allocated, next, tagData, next[n], tagData[n].tid)
  BY OneNow
<1>2. Lacks(D \ {gone}, Allocated', next', tagData', next'[n], tagData'[n].tid)
  BY <1>1 DEF Lacks, ClosedIn
<1> QED
  BY <1>2

LEMMA OneAfterPrepend ==
  ASSUME Tidy, OneOfAType, NEW list \in Lists, NEW tag \in Tags, Prepend(list, tag),
         Clear(next[list], tag.tid)
  PROVE  OneOfAType'
<1>1. PICK head \in Nodes \ Allocated :
           /\ Allocated' = Allocated \union {head}
           /\ \A n \in Allocated : next'[n] = next[n] /\ tagData'[n] = tagData[n]
           /\ next'[head] = next[list] /\ tagData'[head] = CreateTagData(tag)
  BY PrependFacts
<1>2. tagData'[head].tid = tag.tid
  BY <1>1 DEF CreateTagData
<1> SUFFICES ASSUME NEW n \in Allocated'
             PROVE  \E D : Lacks(D, Allocated', next', tagData', next'[n], tagData'[n].tid)
  BY OneThen
<1>3. CASE n = head
  <2>1. PICK D : Lacks(D, Allocated, next, tagData, next[list], tag.tid)
    BY DEF Clear, Closed, ClosedIn, Lacks
  <2>2. Lacks(D, Allocated', next', tagData', next'[n], tagData'[n].tid)
    BY <1>1, <1>2, <1>3, <2>1 DEF Lacks, ClosedIn
  <2> QED
    BY <2>2
<1>4. CASE n # head
  <2>1. PICK D : Lacks(D, Allocated, next, tagData, next[n], tagData[n].tid)
    BY <1>1, <1>4, OneNow
  <2>2. Lacks(D, Allocated', next', tagData', next'[n], tagData'[n].tid)
    BY <1>1, <1>4, <2>1 DEF Lacks, ClosedIn
  <2> QED
    BY <2>2
<1> QED
  BY <1>3, <1>4

LEMMA OneAfterPutInPlace ==
  ASSUME Tidy, OneOfAType, NEW copy \in Nodes \ Allocated,
         NEW content \in [tid : Tids, data : Data, size : Nat], content.tid = tagData[cur].tid,
         cur \in Allocated, count[cur] > 1,
         prev \in Lists \union Allocated, next[prev] = cur,
         PutInPlace(copy, content)
  PROVE  OneOfAType'
<1>1. /\ Allocated' = Allocated \union {copy}
      /\ \A x \in Links : next'[x] = IF x = prev THEN copy ELSE IF x = copy THEN next[cur] ELSE next[x]
  BY PutInPlaceTidy
<1>2. /\ \A n \in Allocated : tagData'[n] = tagData[n]
      /\ tagData'[copy] = content
  BY DEF PutInPlace, Tidy, TreeTypes, Allocated
<1>3. /\ cur # NULL /\ copy \in Links /\ copy # prev /\ copy # cur /\ Allocated \subseteq Links
      /\ next'[copy] = next[cur] /\ next'[prev] = copy
  BY <1>1, PointerFacts
<1> SUFFICES ASSUME NEW n \in Allocated'
             PROVE  \E D : Lacks(D, Allocated', next', tagData', next'[n], tagData'[n].tid)
  BY OneThen
<1>4. PICK m \in Allocated : /\ tagData'[n].tid = tagData[m].tid
                             /\ m = IF n = copy THEN cur ELSE n
  BY <1>1, <1>2
<1>5. PICK D : Lacks(D, Allocated, next, tagData, next[m], tagData[m].tid)
  BY OneNow
<1> DEFINE E == IF cur \in D THEN D \union {copy} ELSE D
<1>6. E \in SUBSET Allocated' /\ \A k \in E : tagData'[k].tid # tagData'[n].tid
  BY <1>1, <1>2, <1>4, <1>5 DEF Lacks
<1>7. next'[n] \in E \union {NULL}
  BY <1>1, <1>3, <1>4, <1>5 DEF Lacks
<1>8. ClosedIn(E, next')
  BY <1>1, <1>3, <1>5 DEF Lacks, ClosedIn
<1>9. Lacks(E, Allocated', next', tagData', next'[n], tagData'[n].tid)
  BY <1>6, <1>7, <1>8 DEF Lacks
<1> QED
  BY <1>9

LEMMA OneAfterRemove ==
  ASSUME IInv, OneOfAType, RemoveUnshared \/ RemoveShared
  PROVE  OneOfAType'
<1>1. /\ pc \in {"search", "copy"} /\ cur # NULL
      /\ RemoveUnshared => ~AtMerge
  <2>1. RemoveUnshared => pc = "search" /\ cur # NULL /\ ~AtMerge
    BY DEF RemoveUnshared, FoundUnshared
  <2>2. RemoveShared => pc = "copy"
    BY DEF RemoveShared, FoundShared
  <2> QED
    BY <2>1, <2>2 DEF IInv, CopiesMerges
<1>2. /\ Tidy /\ this \in Lists /\ cur \in Allocated /\ cur \in Nodes
      /\ prev \in Lists \union Allocated /\ prev \in Links /\ next[prev] = cur
      /\ Allocated \subseteq Links
  BY <1>1, TraversalFacts, PointerFacts
<1>3. next[cur] # cur
  <2>1. {cur} \in SUBSET Allocated /\ {cur} # {}
    BY <1>2
  <2> QED
    BY <2>1 DEF Tidy, Acyclic, IInv
<1> DEFINE gone == IF RemoveUnshared THEN cur ELSE NULL
<1>4. /\ Allocated' = Allocated \ {gone}
      /\ \A n \in Allocated' : /\ tagData'[n] = tagData[n]
                               /\ next'[n] = IF n = prev THEN next[cur] ELSE next[n]
      /\ \A n \in Allocated' : n # prev => next[n] # gone \/ gone = NULL
  <2>1. CASE RemoveUnshared
    <3>1. /\ tagData' = [tagData EXCEPT ![cur] = NULL]
          /\ next' = [next EXCEPT ![prev] = next[cur], ![cur] = NULL]
      BY <2>1 DEF RemoveUnshared
    <3>2. Allocated' = Allocated \ {cur}
      BY <3>1, <1>2 DEF Tidy, TreeTypes, Allocated
    <3>3. \A n \in Allocated' : n \in Links /\ n # cur /\ tagData'[n] = tagData[n]
      BY <3>1, <3>2, <1>2, PointerFacts DEF Tidy, TreeTypes
    <3>4. \A n \in Allocated' : next'[n] = IF n = prev THEN next[cur] ELSE next[n]
      BY <3>1, <3>3, <1>2 DEF Tidy, TreeTypes
    <3>5. IncomingTo(cur) \subseteq {prev}
      BY <2>1, <1>1, <1>2, OnlyThisWay
    <3> QED
      BY <2>1, <3>2, <3>3, <3>4, <3>5, <1>2 DEF IncomingTo
  <2>2. CASE ~RemoveUnshared
    <3>1. tagData' = tagData /\ next' = [next EXCEPT ![prev] = next[cur]]
      BY <2>2 DEF RemoveShared
    <3>2. Allocated' = Allocated /\ NULL \notin Allocated
      BY <3>1, PointerFacts DEF Allocated
    <3> QED
      BY <2>2, <3>1, <3>2, <1>2 DEF Tidy, TreeTypes
  <2> QED
    BY <2>1, <2>2
<1> HIDE DEF gone
<1>5. gone # NULL => gone = cur
  BY DEF gone
<1> SUFFICES ASSUME NEW n \in Allocated'
             PROVE  \E D : Lacks(D, Allocated', next', tagData', next'[n], tagData'[n].tid)
  BY OneThen
<1>6. PICK D : Lacks(D, Allocated, next, tagData, next[n], tagData[n].tid)
  BY <1>4, OneNow
<1>7. next'[n] \in (D \ {gone}) \union {NULL}
  BY <1>1, <1>2, <1>3, <1>4, <1>5, <1>6 DEF Lacks, ClosedIn
<1>8. ASSUME NEW m \in D \ {gone} PROVE next'[m] \in (D \ {gone}) \union {NULL}
  <2>1. m \in Allocated'
    BY <1>4, <1>6 DEF Lacks
  <2> QED
    BY <2>1, <1>1, <1>2, <1>3, <1>4, <1>5, <1>6 DEF Lacks, ClosedIn
<1>9. Lacks(D \ {gone}, Allocated', next', tagData', next'[n], tagData'[n].tid)
  BY <1>4, <1>6, <1>7, <1>8 DEF Lacks, ClosedIn
<1> QED
  BY <1>9

(* What stays clear while a removal frees the node it left.                *)
LEMMA OneAfterRemoval ==
  ASSUME IInv, OneOfAType, RemoveOn \/ RemoveEnd
  PROVE  OneOfAType'
<1>1. /\ pc = "removeAll"
      /\ tagData' = [n \in Nodes |-> IF n = prev THEN NULL ELSE tagData[n]]
      /\ \A x \in Links : x # prev /\ x # this => next'[x] = next[x]
  BY DEF RemoveOn, RemoveEnd, Freed
<1>2. /\ Allocated' = Allocated \ {prev} /\ Allocated \subseteq Nodes /\ Nodes \subseteq Links
      /\ \A n \in Allocated' : tagData'[n] = tagData[n]
  BY <1>1, PointerFacts DEF Allocated
<1>3. /\ this \notin Nodes /\ (prev # NULL => prev \in Allocated)
      /\ \A x \in Links : x # this /\ x # prev => next[x] \in (Allocated \ {prev}) \union {NULL}
  BY <1>1, RemovalFacts
<1>4. CASE prev = NULL
  <2>1. Allocated' = Allocated /\ NULL \notin Allocated
    BY <1>2, <1>4, PointerFacts
  <2>2. \A n \in Allocated : next'[n] = next[n] /\ tagData'[n] = tagData[n]
    BY <2>1, <1>1, <1>2, <1>3, <1>4
  <2> QED
    BY <2>1, <2>2, OneKept
<1>5. CASE prev # NULL
  BY <1>1, <1>2, <1>3, <1>5, OneAfterFree
<1> QED
  BY <1>4, <1>5

(* The list whose search ended has no tag of the type sought.              *)
LEMMA SearchedClear ==
  ASSUME IInv, Walked, NotFound
  PROVE  Clear(next[this], arg.tid)
<1>1. pc = "search"
  BY DEF NotFound
<1>2. Tidy /\ next[prev] = cur /\ this \in Lists
  BY <1>1, TraversalFacts
<1>3. PICK P \in SUBSET Allocated : Walk(P)
  BY <1>1 DEF Walked
<1>4. PICK C : Lacks(C, Allocated, next, tagData, cur, arg.tid)
  BY NotInList DEF Clear, Closed, ClosedIn, Lacks
<1>5. \A h \in {this} \union P : next[h] \in P \union C \union {NULL}
  BY <1>2, <1>3, <1>4 DEF Walk, Lacks
<1>6. Lacks(P \union C, Allocated, next, tagData, next[this], arg.tid)
  BY <1>3, <1>4, <1>5 DEF Walk, Lacks, ClosedIn
<1> QED
  BY <1>6 DEF Clear, Closed, ClosedIn, Lacks

LEMMA QuietOne ==
  ASSUME OneOfAType, UNCHANGED tree PROVE OneOfAType'
BY DEF tree, OneOfAType, Clear, Closed, Allocated

LEMMA StepOne == ASSUME IInv, OneOfAType, Walked, Next PROVE OneOfAType'
<1>1. ASSUME NEW list \in Lists, NEW tag \in Tags, Add(list, tag) PROVE OneOfAType'
  <2>1. pc = "idle" /\ ~HasTid(next[list], tag.tid) /\ Prepend(list, tag)
    BY <1>1 DEF Add
  <2>2. Tidy /\ next[list] \in Allocated \union {NULL}
    BY <2>1, TidyWhenQuiet, PointerFacts DEF Tidy, Solid
  <2> QED
    BY <2>1, <2>2, NoTidClear, OneAfterPrepend
<1>2. CASE NotFound
  <2>1. pc = "search" /\ ((op = "Replace" /\ Prepend(this, arg)) \/ UNCHANGED tree)
    BY <1>2 DEF NotFound
  <2>2. CASE UNCHANGED tree
    BY <2>2, QuietOne
  <2>3. CASE op = "Replace" /\ Prepend(this, arg)
    <3>1. Tidy /\ this \in Lists /\ arg \in Tags
      BY <2>1, <2>3, TraversalFacts
    <3> QED
      BY <1>2, <2>3, <3>1, SearchedClear, OneAfterPrepend
  <2> QED
    BY <2>1, <2>2, <2>3
<1>3. CASE CopyOn
  <2>1. /\ pc = "copy" /\ HasRoom(tagData[cur].tid)
        /\ PutInPlace(NewNode(tagData[cur].tid), tagData[cur])
    BY <1>3 DEF CopyOn
  <2>2. PICK copy : copy = NewNode(tagData[cur].tid)
    OBVIOUS
  <2>3. copy \in Nodes \ Allocated
    BY <2>1, <2>2, NewNodeIsFree
  <2>4. /\ Tidy /\ cur \in Allocated /\ count[cur] > 1
        /\ prev \in Lists \union Allocated /\ next[prev] = cur
    BY <2>1, TraversalFacts
  <2>5. tagData[cur] \in [tid : Tids, data : Data, size : Nat]
    BY <2>4, TreeNow DEF Typed
  <2> QED
    BY <2>1, <2>2, <2>3, <2>4, <2>5, OneAfterPutInPlace
<1>4. CASE ReplaceShared
  <2>1. /\ pc = "copy" /\ op = "Replace" /\ HasRoom(arg.tid) /\ tagData[cur].tid = arg.tid
        /\ PutInPlace(NewNode(arg.tid), CreateTagData(arg))
    BY <1>4 DEF ReplaceShared, FoundShared
  <2>2. PICK copy : copy = NewNode(arg.tid)
    OBVIOUS
  <2>3. copy \in Nodes \ Allocated
    BY <2>1, <2>2, NewNodeIsFree
  <2>4. /\ Tidy /\ cur \in Allocated /\ count[cur] > 1 /\ arg \in Tags
        /\ prev \in Lists \union Allocated /\ next[prev] = cur
    BY <2>1, TraversalFacts
  <2>5. /\ CreateTagData(arg) \in [tid : Tids, data : Data, size : Nat]
        /\ CreateTagData(arg).tid = tagData[cur].tid
    BY <2>1, <2>4, TagsAssumption DEF CreateTagData, Tids, Data
  <2> QED
    BY <2>1, <2>2, <2>3, <2>4, <2>5, OneAfterPutInPlace
<1>5. CASE ReplaceUnshared
  <2>1. /\ pc = "search" /\ cur # NULL
        /\ tagData' = [tagData EXCEPT ![cur].data = arg.data] /\ next' = next
    BY <1>5 DEF ReplaceUnshared, FoundUnshared
  <2>2. cur \in Allocated /\ cur \in Nodes /\ tagData[cur] \in [tid : Tids, data : Data, size : Nat]
    BY <2>1, TraversalFacts, TreeNow, PointerFacts DEF Typed
  <2>3. /\ \A n \in Nodes : n # cur => tagData'[n] = tagData[n]
        /\ tagData \in [Nodes -> [tid : Tids, data : Data, size : Nat] \union {NULL}]
    BY <2>1 DEF IInv, TypeOK
  <2>4. tagData'[cur] = [tagData[cur] EXCEPT !.data = arg.data]
    BY <2>1, <2>2, <2>3
  <2>5. tagData'[cur].tid = tagData[cur].tid /\ tagData'[cur].data = arg.data /\ tagData'[cur] # NULL
    <3>1. op = "Replace"
      BY <1>5 DEF ReplaceUnshared
    <3>2. arg \in Tags
      BY <2>1, <3>1, TraversalFacts
    <3> QED
      BY <2>2, <2>4, <3>2, TagsAssumption DEF Data
  <2>6. Allocated' = Allocated
    BY <2>2, <2>3, <2>5 DEF Allocated
  <2>7. \A n \in Allocated : next'[n] = next[n] /\ tagData'[n].tid = tagData[n].tid
    BY <2>1, <2>3, <2>5, PointerFacts
  <2> QED
    BY <2>6, <2>7, OneKept
<1>6. CASE Link
  <2>1. pc = "assign" /\ tagData' = tagData /\ next' = [next EXCEPT ![this] = next[arg]]
    BY <1>6 DEF Link
  <2>2. this \in Lists /\ next \in [Links -> Pointers] /\ Allocated' = Allocated
    BY <2>1 DEF IInv, TypeOK, Allocated
  <2>3. \A n \in Allocated : next'[n] = next[n] /\ tagData'[n].tid = tagData[n].tid
    BY <2>1, <2>2, PointerFacts
  <2> QED
    BY <2>2, <2>3, OneKept
<1>7. CASE RemoveUnshared \/ RemoveShared
  BY <1>7, OneAfterRemove
<1>8. CASE RemoveOn \/ RemoveEnd
  BY <1>8, OneAfterRemoval
<1>9. CASE SearchOn \/ StartCopy \/ Overrun
  BY <1>9, QuietOne DEF SearchOn, StartCopy, Overrun
<1>10. ASSUME NEW list \in Lists, NEW method, NEW tag, COWTraverse(list, method, tag)
       PROVE  OneOfAType'
  BY <1>10, QuietOne DEF COWTraverse
<1>11. ASSUME NEW list \in Lists, RemoveAll(list) \/ \E other \in Lists : Assign(list, other)
       PROVE  OneOfAType'
  BY <1>11, QuietOne DEF RemoveAll, Assign
<1> QED
  BY <1>1, <1>2, <1>3, <1>4, <1>5, <1>6, <1>7, <1>8, <1>9, <1>10, <1>11 DEF Next, Call, Step, Traverse

-----------------------------------------------------------------------------
(* Every step keeps a way behind the traversal that runs.                  *)

LEMMA WalkNext ==
  ASSUME NEW P \in SUBSET Allocated', Walk(P)' PROVE Walked'
BY DEF Walked

LEMMA StepWalked == ASSUME IInv, IInv', Walked, Next PROVE Walked'
<1> SUFFICES ASSUME pc' \in {"search", "copy"} PROVE Walked'
  BY DEF Walked
<1>1. ASSUME NEW list \in Lists, NEW method, NEW tag, COWTraverse(list, method, tag)
      PROVE  Walked'
  <2>1. this' = list /\ prev' = list
    BY <1>1 DEF COWTraverse, Frame
  <2>2. Walk({})'
    BY <2>1 DEF Walk
  <2> QED
    BY <2>2, WalkNext
<1>2. CASE SearchOn
  <2>1. /\ pc = "search" /\ cur # NULL /\ ~AtMerge /\ tagData[cur].tid # arg.tid
        /\ prev' = cur /\ UNCHANGED <<next, tagData, this, arg>>
    BY <1>2 DEF SearchOn, tree
  <2>2. /\ Tidy /\ this \in Lists /\ cur \in Allocated /\ prev \in Links /\ next[prev] = cur
    BY <2>1, TraversalFacts
  <2>3. PICK P \in SUBSET Allocated : Walk(P)
    BY <2>1 DEF Walked
  <2>4. IncomingTo(cur) \subseteq {prev}
    BY <2>1, <2>2, OnlyThisWay
  <2>5. PICK Q : Q = P \union {cur}
    OBVIOUS
  <2>6. Walk(Q)'
    <3>1. prev \in {this} \union P
      BY <2>3 DEF Walk
    <3>2. \A h \in {this} \union P : next'[h] \in Q
      BY <2>1, <2>2, <2>3, <2>5 DEF Walk
    <3>3. \A n \in Q : tagData'[n].tid # arg'.tid /\ IncomingTo(n)' \subseteq {this} \union P
      BY <2>1, <2>3, <2>4, <2>5, <3>1 DEF Walk, IncomingTo
    <3>4. {this'} \union Q = {this} \union P \union {prev'}
      BY <2>1, <2>5
    <3> QED
      BY <3>2, <3>3, <3>4 DEF Walk
  <2>7. Q \in SUBSET Allocated'
    BY <2>1, <2>2, <2>3, <2>5 DEF Allocated
  <2> QED
    BY <2>6, <2>7, WalkNext
<1>3. CASE StartCopy
  <2>1. pc = "search" /\ UNCHANGED <<next, tagData, this, arg, prev>>
    BY <1>3 DEF StartCopy, tree
  <2>2. PICK P \in SUBSET Allocated : Walk(P)
    BY <2>1 DEF Walked
  <2>3. Walk(P)' /\ P \in SUBSET Allocated'
    BY <2>1, <2>2 DEF Walk, IncomingTo, Allocated
  <2> QED
    BY <2>3, WalkNext
<1>4. CASE CopyOn
  <2>1. PICK copy : copy = NewNode(tagData[cur].tid)
    OBVIOUS
  <2>2. /\ pc = "copy" /\ tagData[cur].tid # arg.tid /\ HasRoom(tagData[cur].tid)
        /\ PutInPlace(copy, tagData[cur])
        /\ prev' = copy /\ UNCHANGED <<this, arg>>
    BY <1>4, <2>1 DEF CopyOn
  <2>3. /\ copy \in Nodes \ Allocated /\ copy # NULL /\ Allocated \subseteq Nodes
        /\ \A list \in Lists : list # copy
    BY <2>1, <2>2, NewNodeIsFree, PointerFacts
  <2>4. /\ Tidy /\ this \in Lists /\ cur \in Allocated /\ count[cur] > 1
        /\ prev \in Lists \union Allocated /\ next[prev] = cur /\ cur # NULL
    BY <2>2, TraversalFacts, PointerFacts
  <2>5. tagData[cur] \in [tid : Tids, data : Data, size : Nat]
    BY <2>4, TreeNow DEF Typed
  <2>6. PICK P \in SUBSET Allocated : Walk(P)
    BY <2>2 DEF Walked
  <2>7. /\ Allocated' = Allocated \union {copy} /\ LeadsTo(copy, P, P)
        /\ tagData'[copy] = tagData[cur]
    BY <2>2, <2>3, <2>4, <2>5, <2>6, PutInPlaceFacts
  <2>8. /\ \A x \in Links : next'[x] = IF x = prev THEN copy ELSE IF x = copy THEN next[cur] ELSE next[x]
        /\ next[cur] # copy
    BY <2>2, <2>3, <2>4, <2>5, PutInPlaceTidy
  <2>9. next[cur] \notin P /\ cur \notin P
    <3>1. Unshared(P, P)
      BY DEF Unshared
    <3>2. cur \notin P /\ next[cur] \in (Allocated \ P) \union {NULL}
      BY <2>4, <2>6, <3>1, BesideTheWay
    <3> QED
      BY <2>6, <3>2, PointerFacts
  <2>10. IncomingTo(copy) = {}
    BY <2>3, <2>4, NothingToFree
  <2>11. prev \in {this} \union P /\ copy \notin P /\ this # copy
    BY <2>3, <2>4, <2>6 DEF Walk
  <2>12. \A h \in {this} \union P : next'[h] \in P \union {copy}
    BY <2>6, <2>7 DEF Walk, LeadsTo
  <2>13. \A n \in P \union {copy} : tagData'[n].tid # arg.tid
    BY <2>2, <2>6, <2>7 DEF Walk, LeadsTo
  <2>14. \A n \in P : \A x \in Links : next'[x] = n => x \in {this} \union P
    BY <2>6, <2>8, <2>9, <2>11 DEF Walk, IncomingTo
  <2>15. \A x \in Links : next'[x] = copy => x = prev
    BY <2>8, <2>10 DEF IncomingTo
  <2>16. PICK Q : Q = P \union {copy}
    OBVIOUS
  <2>17. Walk(Q)'
    BY <2>2, <2>11, <2>12, <2>13, <2>14, <2>15, <2>16 DEF Walk, IncomingTo
  <2>18. Q \in SUBSET Allocated'
    BY <2>6, <2>7, <2>16
  <2> QED
    BY <2>17, <2>18, WalkNext
<1>5. CASE NotFound \/ RemoveUnshared \/ RemoveShared \/ ReplaceUnshared \/ Overrun
           \/ ReplaceShared \/ RemoveOn \/ RemoveEnd \/ Link
  BY <1>5 DEF NotFound, RemoveUnshared, RemoveShared, ReplaceUnshared, Overrun,
              ReplaceShared, RemoveOn, RemoveEnd, Link, Return, Frame
<1>6. ASSUME NEW list \in Lists, NEW tag \in Tags, Add(list, tag) PROVE Walked'
  BY <1>6 DEF Add, locals
<1>7. ASSUME NEW list \in Lists, RemoveAll(list) \/ \E other \in Lists : Assign(list, other)
      PROVE  Walked'
  BY <1>7 DEF RemoveAll, Assign, Frame
<1> QED
  BY <1>1, <1>2, <1>3, <1>4, <1>5, <1>6, <1>7 DEF Next, Call, Step, Traverse

-----------------------------------------------------------------------------
LEMMA InitSeparated == Init => Separated
<1> SUFFICES ASSUME Init PROVE Separated
  OBVIOUS
<1>1. Allocated = {} /\ pc = "idle"
  BY DEF Init, Allocated
<1> QED
  BY <1>1, InitIInv DEF Separated, OneOfAType, Walked

LEMMA StepSeparated == ASSUME Separated, [Next]_vars PROVE Separated'
<1>1. IInv'
  BY StepIInv DEF Separated
<1>2. CASE Next
  BY <1>1, <1>2, StepOne, StepWalked DEF Separated
<1>3. CASE UNCHANGED vars
  BY <1>1, <1>3 DEF Separated, OneOfAType, Walked, Walk, Clear, Closed, Allocated, IncomingTo,
                    vars, tree, locals
<1> QED
  BY <1>2, <1>3

LEMMA InitContents == Init => Separate!ListsInit
<1> SUFFICES ASSUME Init PROVE Separate!ListsInit
  OBVIOUS
<1>1. TagsFrom[NULL] = <<>>
  BY InitIInv, ReadingNow, ReadsFacts
<1>2. Contents = [list \in Lists |-> <<>>]
  BY <1>1, PointerFacts DEF Init, Contents
<1> QED
  BY <1>2 DEF Init, Separate!ListsInit

(* Every step is an operation on one list, or leaves all of them alone.    *)
LEMMA StepContents ==
  ASSUME Separated, [Next]_vars
  PROVE  [Separate!ListsNext]_(Separate!listsVars)
<1> DEFINE Same == Contents' = Contents /\ found' = found
           Operation == \E list \in Lists :
             \/ \E tag \in Tags : \/ Separate!Add(list, tag) \/ Separate!Remove(list, tag.tid)
                                  \/ Separate!Replace(list, tag)
             \/ Separate!RemoveAll(list)
             \/ \E other \in Lists : Separate!Assign(list, other)
<1> SUFFICES Same \/ Operation
  BY DEF Separate!ListsNext, Separate!listsVars
<1>1. IInv /\ OneOfAType /\ Walked /\ IInv'
  BY StepSeparated DEF Separated
<1>2. CASE UNCHANGED vars
  BY <1>2 DEF vars, tree, locals, Contents, TagsFrom
<1>3. ASSUME NEW list \in Lists, NEW tag \in Tags, Add(list, tag) PROVE Operation
  BY <1>1, <1>3, AddRefines
<1>4. ASSUME NEW list \in Lists, NEW method, NEW tag, COWTraverse(list, method, tag) PROVE Same
  BY <1>4, QuietRefines DEF COWTraverse, Frame
<1>5. ASSUME NEW list \in Lists, RemoveAll(list) \/ \E other \in Lists : Assign(list, other)
      PROVE  Operation
  BY <1>5, RemovalStartRefines
<1>6. CASE SearchOn \/ StartCopy \/ Overrun
  BY <1>6, QuietRefines DEF SearchOn, StartCopy, Overrun, FoundUnshared, Frame
<1>7. CASE NotFound
  <2>1. pc = "search"
    BY <1>7 DEF NotFound
  <2>2. this \in Lists
    BY <1>1, <2>1, TraversalFacts
  <2> QED
    BY <1>1, <1>7, <2>2, NotFoundRefines
<1>8. CASE CopyOn
  BY <1>1, <1>8, CopyOnRefines
<1>9. CASE RemoveUnshared \/ RemoveShared
  <2>1. pc \in {"search", "copy"}
    BY <1>9 DEF RemoveUnshared, RemoveShared, FoundUnshared, FoundShared
  <2>2. this \in Lists
    BY <1>1, <2>1, TraversalFacts
  <2> QED
    BY <1>1, <1>9, <2>2, RemoveRefines
<1>10. CASE ReplaceUnshared \/ ReplaceShared
  <2>1. pc \in {"search", "copy"}
    BY <1>10 DEF ReplaceUnshared, ReplaceShared, FoundUnshared, FoundShared
  <2>2. this \in Lists
    BY <1>1, <2>1, TraversalFacts
  <2> QED
    BY <1>1, <1>10, <2>2, ReplaceFoundRefines
<1>11. CASE RemoveOn
  BY <1>1, <1>11, RemoveOnRefines
<1>12. CASE RemoveEnd
  BY <1>1, <1>12, RemoveEndRefines
<1>13. CASE Link
  BY <1>1, <1>13, LinkRefines
<1> HIDE DEF Same, Operation
<1> QED
  BY <1>2, <1>3, <1>4, <1>5, <1>6, <1>7, <1>8, <1>9, <1>10, <1>11, <1>12, <1>13
     DEF Next, Call, Step, Traverse

(* No list holds two tags of a type, and a traversal that runs leaves      *)
(* behind it only nodes of its own list that are not what it looks for.    *)
THEOREM ListsApart == Spec => []Separated
BY InitSeparated, StepSeparated, PTL DEF Spec

(* Sharing cannot be seen: whatever nodes the lists share, and at every    *)
(* iteration of every loop, an operation on one list changes no other, and *)
(* does to its own what packet-tag-list.h says of a list of tags.          *)
THEOREM TagListsImplemented == Spec => ImplementsTagLists
<1>1. Init => Separate!ListsInit
  BY InitContents
<1>2. Separated /\ [Next]_vars => [Separate!ListsNext]_(Separate!listsVars)
  BY StepContents
<1> QED
  BY <1>1, <1>2, ListsApart, PTL DEF Spec, ImplementsTagLists, Separate!ListsSpec
=============================================================================
