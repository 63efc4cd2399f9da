------------------------------ MODULE TagLists ------------------------------
(***************************************************************************)
(* The contract of ns3::PacketTagList (network/model/packet-tag-list.h) as *)
(* packets use it: each list is a sequence of tags of its own, at most one *)
(* of a type, newest first.  No operation on one list can be seen in       *)
(* another.                                                                *)
(***************************************************************************)
EXTENDS Sequences, Naturals

CONSTANTS
  Lists,   \* the tag lists
  Tags     \* the tags: records with a type, tid, and a payload, data

VARIABLES
  contents,   \* the tags each list holds
  found       \* what the last Remove or Replace returned

listsVars == <<contents, found>>

Has(list, tid) == \E i \in DOMAIN contents[list] : contents[list][i].tid = tid
Without(s, i) == SubSeq(s, 1, i - 1) \o SubSeq(s, i + 1, Len(s))
Put(list, new) == [contents EXCEPT ![list] = new]

Prepend(list, tag) ==
  /\ ~Has(list, tag.tid)
  /\ contents' = Put(list, <<tag>> \o contents[list])

Add(list, tag) == Prepend(list, tag) /\ UNCHANGED found

Remove(list, tid) ==
  /\ found' = Has(list, tid)
  /\ \/ /\ ~Has(list, tid)
        /\ UNCHANGED contents
     \/ \E i \in DOMAIN contents[list] :
          /\ contents[list][i].tid = tid
          /\ contents' = Put(list, Without(contents[list], i))

Overwrite(list, tag) ==
  /\ Has(list, tag.tid)
  /\ contents' = Put(list, [i \in DOMAIN contents[list] |->
                     IF contents[list][i].tid = tag.tid THEN tag ELSE contents[list][i]])

Replace(list, tag) ==
  /\ found' = Has(list, tag.tid)
  /\ Overwrite(list, tag) \/ Prepend(list, tag)

RemoveAll(list) == contents' = Put(list, <<>>) /\ UNCHANGED found

Assign(list, other) == contents' = Put(list, contents[other]) /\ UNCHANGED found

ListsInit ==
  /\ contents = [list \in Lists |-> <<>>]
  /\ found = FALSE

ListsNext == \E list \in Lists :
  \/ \E tag \in Tags : Add(list, tag) \/ Remove(list, tag.tid) \/ Replace(list, tag)
  \/ RemoveAll(list)
  \/ \E other \in Lists : Assign(list, other)

ListsSpec == ListsInit /\ [][ListsNext]_listsVars
=============================================================================
