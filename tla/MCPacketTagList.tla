-------------------------- MODULE MCPacketTagList ---------------------------
(***************************************************************************)
(* Constants for model checking PacketTagList.                             *)
(***************************************************************************)
EXTENDS PacketTagList, TLC

Tag(tid, data) == [tid |-> tid, data |-> data]

(* A path of three nodes can be shared; one type has two values of         *)
(* different length, as plates have.                                       *)
ThreeTypes == {Tag("r", "short"), Tag("s", "short"), Tag("t", "short"), Tag("t", "long")}
Sizes      == [tag \in Tags |-> IF tag.data = "long" THEN 2 ELSE 1]

(* No list is special. *)
ListSymmetry == Permutations(Lists)
=============================================================================
