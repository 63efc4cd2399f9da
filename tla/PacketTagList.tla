--------------------------- MODULE PacketTagList ----------------------------
(***************************************************************************)
(* ns3::PacketTagList: the tags of packets, kept in one tree that packets  *)
(* share.  A copy of a packet points at the nodes of the original; nodes   *)
(* count the links that lead to them, and an operation that would change a *)
(* shared node copies its way to it first.                                 *)
(*                                                                         *)
(* Each iteration of a loop of COWTraverse and of RemoveAll is a step;     *)
(* pc says which loop of which call runs:                                  *)
(*   idle       between calls                                              *)
(*   search     COWTraverse, before the first merge                        *)
(*   copy       COWTraverse, copying shared nodes                          *)
(*   removeAll  RemoveAll                                                  *)
(*   assign     operator=, after its RemoveAll                             *)
(*   overrun    a tag was written past the end of its node                 *)
(* Constructors and the destructor are Assign and RemoveAll on a list that *)
(* is empty before, or after, the object exists.  Peek, Head and           *)
(* Serialize only read.                                                    *)
(***************************************************************************)
EXTENDS Naturals, Sequences, FiniteSets

CONSTANTS
  Lists,    \* the PacketTagList objects
  Tags,     \* the tags: a type, tid, and what the tag says, data
  SizeOf,   \* the serialized size of a tag
  Slots,    \* bound: memory has room for so many nodes of each type
  NULL      \* the null pointer

Tids == {tag.tid : tag \in Tags}
Data == {tag.data : tag \in Tags}
Nodes == Tids \X Slots   \* the TagData, told apart by type and slot

ASSUME PointersAssumption ==
  /\ IsFiniteSet(Lists) /\ IsFiniteSet(Nodes)
  /\ Lists \intersect Nodes = {}
  /\ NULL \notin Lists \union Nodes
ASSUME TagsAssumption ==
  /\ \A tag \in Tags : tag = [tid |-> tag.tid, data |-> tag.data]
  /\ SizeOf \in [Tags -> Nat]
  /\ NULL \notin [tid : Tids, data : Data, size : Nat]

VARIABLES
  next,      \* of a node its next, of a list its m_next
  count,     \* of a node its count, 0 while it is free
  tagData,   \* what a node stores, NULL while it is free
  pc,        \* the loop that runs
  this,      \* the list whose method runs
  op,        \* the method: Remove, Replace, RemoveAll or Assign
  arg,       \* its argument: a tag, or the list assigned from
  cur,       \* the loop's cursor
  prev,      \* COWTraverse: the holder of *prevNext; RemoveAll: prev
  found      \* what the last Remove or Replace returned

tree   == <<next, count, tagData>>
locals == <<pc, this, op, arg, cur, prev>>
vars   == <<tree, locals, found>>

Links    == Lists \union Nodes          \* what has a pointer to a node
Pointers == Nodes \union {NULL}
Allocated == {n \in Nodes : tagData[n] # NULL}

(* The frame of the call that runs, and its return. *)
Frame(where, list, method, argument, cursor, previous) ==
  /\ pc' = where /\ this' = list /\ op' = method /\ arg' = argument
  /\ cur' = cursor /\ prev' = previous
Return == Frame("idle", NULL, NULL, NULL, NULL, NULL)

Init ==
  /\ next = [x \in Links |-> NULL]
  /\ count = [n \in Nodes |-> 0]
  /\ tagData = [n \in Nodes |-> NULL]
  /\ pc = "idle" /\ this = NULL /\ op = NULL /\ arg = NULL /\ cur = NULL /\ prev = NULL
  /\ found = FALSE

-----------------------------------------------------------------------------
(* Reading a list.                                                         *)

(* The nodes of the list that starts at n: those in every set of nodes     *)
(* that holds n and the next of each of its nodes.                         *)
Closed(S) == \A m \in S : next[m] \in S \union {NULL}
NodesFrom(n) == {m \in Allocated :
  \A S \in SUBSET Allocated : n \in S \union {NULL} /\ Closed(S) => m \in S}

HasTid(n, tid) == \E m \in NodesFrom(n) : tagData[m].tid = tid

-----------------------------------------------------------------------------
(* Memory.                                                                 *)

FreeNodes(tid) == {n \in Nodes \ Allocated : n[1] = tid}
HasRoom(tid) == FreeNodes(tid) # {}
NewNode(tid) == CHOOSE n \in FreeNodes(tid) : TRUE   \* malloc

(* CreateTagData for a tag, which is then serialized into it. *)
CreateTagData(tag) == [tid |-> tag.tid, data |-> tag.data, size |-> SizeOf[tag]]

(* A pointer to a freed node leads nowhere, a freed node holds no pointer. *)
Freed(pointer) ==
  /\ tagData' = [n \in Nodes |-> IF n = pointer THEN NULL ELSE tagData[n]]
  /\ next' = [x \in Links |-> IF x = pointer THEN NULL ELSE next[x]]

(* count++ and count--; nothing where the code tests for a null pointer. *)
Incremented(counts, pointer) ==
  [n \in Nodes |-> IF n = pointer THEN counts[n] + 1 ELSE counts[n]]
Decremented(counts, pointer) ==
  [n \in Nodes |-> IF n = pointer THEN counts[n] - 1 ELSE counts[n]]

-----------------------------------------------------------------------------
(* Add.                                                                    *)

(* The new head takes over the link of the list: nothing else is counted. *)
Prepend(list, tag) ==
  /\ HasRoom(tag.tid)
  /\ LET head == NewNode(tag.tid)
     IN  /\ tagData' = [tagData EXCEPT ![head] = CreateTagData(tag)]
         /\ next' = [next EXCEPT ![head] = next[list], ![list] = head]
         /\ count' = [count EXCEPT ![head] = 1]

(* The same kind of tag must not be there yet: NS_ASSERT_MSG. *)
Add(list, tag) ==
  /\ pc = "idle"
  /\ ~HasTid(next[list], tag.tid)
  /\ Prepend(list, tag)
  /\ UNCHANGED <<locals, found>>

-----------------------------------------------------------------------------
(* COWTraverse, for Remove and Replace.                                    *)

COWTraverse(list, method, tag) ==
  /\ pc = "idle"
  /\ Frame("search", list, method, tag, next[list], list)
  /\ UNCHANGED <<tree, found>>

AtMerge == cur # NULL /\ count[cur] > 1

(* No merge and no tid yet. *)
SearchOnStuck ==   \* slip: the cursor stays behind
  /\ pc = "search"
  /\ cur # NULL /\ ~AtMerge
  /\ tagData[cur].tid # arg.tid
  /\ prev' = cur
  /\ UNCHANGED <<tree, pc, this, op, arg, cur, found>>
SearchOn ==
  /\ pc = "search"
  /\ cur # NULL /\ ~AtMerge
  /\ tagData[cur].tid # arg.tid
  /\ cur' = next[cur] /\ prev' = cur
  /\ UNCHANGED <<tree, pc, this, op, arg, found>>

(* A merge, and behind it the tag: the way there must be copied. *)
StartCopy ==
  /\ pc = "search"
  /\ AtMerge
  /\ HasTid(cur, arg.tid)
  /\ pc' = "copy"
  /\ UNCHANGED <<tree, this, op, arg, cur, prev, found>>

(* The end of the list, or a merge and no such tag from there on. *)
NotFound ==
  /\ pc = "search"
  /\ cur = NULL \/ (AtMerge /\ ~HasTid(cur, arg.tid))
  /\ IF op = "Replace" THEN Prepend(this, arg) ELSE UNCHANGED tree
  /\ found' = FALSE
  /\ Return

(* A new node takes the place of the merge cur in this list; cur keeps its *)
(* other links, and its next becomes a merge.                              *)
PutInPlaceUnmarked(copy, content) ==   \* slip: the new merge is not marked
  /\ tagData' = [tagData EXCEPT ![copy] = content]
  /\ next' = [next EXCEPT ![copy] = next[cur], ![prev] = copy]
  /\ count' = [Decremented(count, cur) EXCEPT ![copy] = 1]
PutInPlace(copy, content) ==
  /\ tagData' = [tagData EXCEPT ![copy] = content]
  /\ next' = [next EXCEPT ![copy] = next[cur], ![prev] = copy]
  /\ count' = [Incremented(Decremented(count, cur), next[cur]) EXCEPT ![copy] = 1]

CopyOn ==
  /\ pc = "copy"
  /\ LET tid == tagData[cur].tid
     IN  /\ tid # arg.tid
         /\ HasRoom(tid)
         /\ PutInPlace(NewNode(tid), tagData[cur])
         /\ cur' = next[cur] /\ prev' = NewNode(tid)
  /\ UNCHANGED <<pc, this, op, arg, found>>

(* The tag was found, before a merge or at one. *)
FoundBeforeMerge ==   \* slip: at a merge the node is not yet shared
  /\ pc = "search"
  /\ cur # NULL
  /\ tagData[cur].tid = arg.tid
FoundUnshared ==
  /\ pc = "search"
  /\ cur # NULL /\ ~AtMerge
  /\ tagData[cur].tid = arg.tid
FoundShared ==
  /\ pc = "copy"
  /\ tagData[cur].tid = arg.tid

(* RemoveWriter. *)
RemoveUnshared ==
  /\ op = "Remove" /\ FoundUnshared
  /\ tagData' = [tagData EXCEPT ![cur] = NULL]
  /\ next' = [next EXCEPT ![prev] = next[cur], ![cur] = NULL]
  /\ count' = [count EXCEPT ![cur] = 0]
  /\ found' = TRUE
  /\ Return

RemoveShared ==
  /\ op = "Remove" /\ FoundShared
  /\ next' = [next EXCEPT ![prev] = next[cur]]
  /\ count' = Incremented(Decremented(count, cur), next[cur])
  /\ found' = TRUE
  /\ Return
  /\ UNCHANGED tagData

(* ReplaceWriter.  Before a merge the node is rewritten in its old room;   *)
(* at a merge a node of the new size takes its place.                      *)
Fits == SizeOf[arg] <= tagData[cur].size

ReplaceUnshared ==
  /\ op = "Replace" /\ FoundUnshared
  /\ Fits
  /\ tagData' = [tagData EXCEPT ![cur].data = arg.data]
  /\ found' = TRUE
  /\ Return
  /\ UNCHANGED <<next, count>>

Overrun ==
  /\ op = "Replace" /\ FoundUnshared
  /\ ~Fits
  /\ Frame("overrun", NULL, NULL, NULL, NULL, NULL)
  /\ UNCHANGED <<tree, found>>

ReplaceSharedInPlace ==   \* slip: a shared node is rewritten
  /\ op = "Replace" /\ FoundShared
  /\ tagData' = [tagData EXCEPT ![cur].data = arg.data]
  /\ found' = TRUE
  /\ Return
  /\ UNCHANGED <<next, count>>
ReplaceShared ==
  /\ op = "Replace" /\ FoundShared
  /\ HasRoom(arg.tid)
  /\ PutInPlace(NewNode(arg.tid), CreateTagData(arg))
  /\ found' = TRUE
  /\ Return

-----------------------------------------------------------------------------
(* RemoveAll and operator=.                                                *)

RemoveAll(list) ==
  /\ pc = "idle"
  /\ Frame("removeAll", list, "RemoveAll", NULL, next[list], NULL)
  /\ UNCHANGED <<tree, found>>

(* Lists that start at one node are the same already. *)
Assign(list, other) ==
  /\ pc = "idle"
  /\ next[list] # next[other]
  /\ Frame("removeAll", list, "Assign", other, next[list], NULL)
  /\ UNCHANGED <<tree, found>>

(* A node of this list only loses its last link; it is freed one iteration *)
(* later, when its next has been followed.                                 *)
RemoveOn ==
  /\ pc = "removeAll"
  /\ cur # NULL /\ count[cur] = 1
  /\ count' = Decremented(count, cur)
  /\ Freed(prev)
  /\ cur' = next[cur] /\ prev' = cur
  /\ UNCHANGED <<pc, this, op, arg, found>>

(* The end of the list, or the first node that others share. *)
RemoveEndLeak ==   \* slip: the last node is not freed
  /\ pc = "removeAll"
  /\ cur # NULL => AtMerge
  /\ count' = Decremented(count, cur)
  /\ next' = [next EXCEPT ![this] = NULL]
  /\ IF op = "Assign" THEN Frame("assign", this, op, arg, NULL, NULL) ELSE Return
  /\ UNCHANGED <<tagData, found>>
RemoveEnd ==
  /\ pc = "removeAll"
  /\ cur # NULL => AtMerge
  /\ count' = Decremented(count, cur)
  /\ tagData' = [n \in Nodes |-> IF n = prev THEN NULL ELSE tagData[n]]
  /\ next' = [x \in Links |-> IF x \in {prev, this} THEN NULL ELSE next[x]]
  /\ IF op = "Assign" THEN Frame("assign", this, op, arg, NULL, NULL) ELSE Return
  /\ UNCHANGED found

LinkUncounted ==   \* slip: the new link is not counted
  /\ pc = "assign"
  /\ next' = [next EXCEPT ![this] = next[arg]]
  /\ Return
  /\ UNCHANGED <<count, tagData, found>>
Link ==
  /\ pc = "assign"
  /\ next' = [next EXCEPT ![this] = next[arg]]
  /\ count' = Incremented(count, next[arg])
  /\ Return
  /\ UNCHANGED <<tagData, found>>

-----------------------------------------------------------------------------
Traverse ==
  \/ SearchOn \/ StartCopy \/ NotFound \/ CopyOn
  \/ RemoveUnshared \/ RemoveShared
  \/ ReplaceUnshared \/ Overrun \/ ReplaceShared

Step == Traverse \/ RemoveOn \/ RemoveEnd \/ Link

Call == \E list \in Lists :
  \/ \E tag \in Tags :
       \/ Add(list, tag)
       \/ COWTraverse(list, "Replace", tag)
  \/ \E tid \in Tids : COWTraverse(list, "Remove", [tid |-> tid, data |-> NULL])
  \/ RemoveAll(list)
  \/ \E other \in Lists : Assign(list, other)

Next == Call \/ Step

Spec == Init /\ [][Next]_vars

-----------------------------------------------------------------------------
(* Properties.                                                             *)

TypeOK ==
  /\ next \in [Links -> Pointers]
  /\ count \in [Nodes -> Nat]
  /\ tagData \in [Nodes -> [tid : Tids, data : Data, size : Nat] \union {NULL}]
  /\ pc \in {"idle", "search", "copy", "removeAll", "assign", "overrun"}
  /\ found \in BOOLEAN
  /\ pc \in {"search", "copy", "removeAll", "assign"} => this \in Lists
  /\ pc \in {"search", "copy"} => /\ op \in {"Remove", "Replace"}
                                 /\ arg \in [tid : Tids, data : Data \union {NULL}]
                                 /\ (op = "Replace" => arg \in Tags)
                                 /\ cur \in Pointers /\ prev \in Links
  /\ pc = "removeAll" => op \in {"RemoveAll", "Assign"} /\ cur \in Pointers /\ prev \in Pointers
  /\ pc \in {"removeAll", "assign"} /\ op = "Assign" => arg \in Lists

(* RemoveAll leaves the list's own link, and the node it just left, as     *)
(* they are until it is done.                                              *)
Dying(x) == pc = "removeAll" /\ x \in {this, prev}

(* "count is the number of incoming pointers": a node is freed when, and   *)
(* only when, nothing leads to it.                                         *)
IncomingTo(n) == {x \in Links : next[x] = n}
CountsExact == \A n \in Allocated :
  ~Dying(n) => count[n] = Cardinality(IncomingTo(n)) /\ count[n] > 0

(* No list and no node points at freed memory.                             *)
NoDangling == \A x \in Links : ~Dying(x) => next[x] \in Allocated \union {NULL}

(* Between calls every node still belongs to some list: none is leaked.    *)
NoLeak == pc = "idle" =>
  \A n \in Allocated : \E list \in Lists : n \in NodesFrom(next[list])

(* The assertions of the copying loop, which skips the test for the end of *)
(* the list: its cursor is a node, a merge.                                *)
CopiesMerges == pc = "copy" => cur # NULL /\ count[cur] > 1

(* What keeps the four above: the tree has no cycle, a free node holds no  *)
(* link, a traversal holds the link to its cursor and copies only towards  *)
(* a tag that is there, and RemoveAll alone knows the node it is to free.  *)
Acyclic == \A S \in SUBSET Allocated : S # {} => \E n \in S : next[n] \notin S
FreeHoldNothing == \A n \in Nodes \ Allocated : next[n] = NULL
TraversalHolds == pc \in {"search", "copy"} =>
  /\ next[prev] = cur
  /\ prev \in Lists \union Allocated
  /\ pc = "copy" => HasTid(cur, arg.tid)
RemovalHolds == pc = "removeAll" =>
  /\ cur \in Allocated \union {NULL}
  /\ \/ prev = NULL /\ next[this] = cur
     \/ /\ prev \in Allocated /\ next[prev] = cur /\ cur # prev
        /\ IncomingTo(prev) \subseteq {this}
        /\ next[this] \notin Allocated \ {prev}
Unlinked == pc = "assign" => op = "Assign" /\ next[this] = NULL
IInv == /\ TypeOK /\ CountsExact /\ NoDangling /\ CopiesMerges
        /\ Acyclic /\ FreeHoldNothing /\ TraversalHolds /\ RemovalHolds /\ Unlinked

(* Sharing cannot be seen: the lists behave as sequences of their own,     *)
(* whatever nodes they share, at every step of every call.  A list that is *)
(* being replaced counts as empty.                                         *)
TagsFrom[n \in Pointers] ==
  IF n = NULL THEN <<>>
  ELSE <<[tid |-> tagData[n].tid, data |-> tagData[n].data]>> \o TagsFrom[next[n]]
Contents == [list \in Lists |->
  IF pc \in {"removeAll", "assign"} /\ list = this THEN <<>> ELSE TagsFrom[next[list]]]
Separate == INSTANCE TagLists WITH contents <- Contents
ImplementsTagLists == Separate!ListsSpec

(* Every loop ends: an iteration leaves fewer nodes ahead of the cursor,   *)
(* even when it puts a copy in the tree or frees the node it came from.    *)
LoopsAdvance == [][pc # "idle" /\ pc' = pc =>
  NodesFrom(cur)' \subseteq NodesFrom(cur) \ {cur}]_vars
=============================================================================
