----------------------------- MODULE AodvTable -----------------------------
(***************************************************************************)
(* The routing table of an AODV node (aodv-rtable.cc): for every           *)
(* destination an entry, which the code keeps in a map and a lookup        *)
(* returns a copy of.  A missing entry is one whose flag is "NONE".        *)
(* Lifetimes are left to the module that uses the table, which lets an     *)
(* entry expire at any moment.                                             *)
(***************************************************************************)
EXTENDS Integers, FiniteSets

CONSTANTS
  Nodes,  \* the nodes, and their addresses
  None    \* Ipv4Address(), the next hop of a route that leads nowhere

Entry == [flag: {"NONE", "VALID", "INVALID", "IN_SEARCH"},
          validSeqNo: BOOLEAN, seqNo: Nat, hops: Nat,
          nextHop: Nodes \cup {None}, reqCount: Nat, precursors: SUBSET Nodes]

NoEntry == [flag |-> "NONE", validSeqNo |-> FALSE, seqNo |-> 0, hops |-> 0,
            nextHop |-> None, reqCount |-> 0, precursors |-> {}]

(* The constructor: every new entry is valid and has no precursor. *)
NewEntry(validSeqNo, seqNo, hops, nextHop) ==
  [flag |-> "VALID", validSeqNo |-> validSeqNo, seqNo |-> seqNo, hops |-> hops,
   nextHop |-> nextHop, reqCount |-> 0, precursors |-> {}]

Has(t, d) == t[d].flag # "NONE"
Valid(t, d) == t[d].flag = "VALID"
InSearch(t, d) == t[d].flag = "IN_SEARCH"

(* InsertPrecursor on the copy a lookup returned, then Update, which fails *)
(* silently when there is no entry.                                        *)
WithPrecursor(t, d, p) ==
  [x \in Nodes |-> IF x = d /\ Has(t, x)
                   THEN [t[x] EXCEPT !.precursors = @ \cup {p}] ELSE t[x]]

Precursors(t, ds) == UNION {t[d].precursors : d \in ds}

WithNextHop(t, h) == {d \in Nodes : Has(t, d) /\ t[d].nextHop = h}

Invalidate(t, ds) ==
  [d \in Nodes |-> IF d \in ds /\ Valid(t, d)
                   THEN [t[d] EXCEPT !.flag = "INVALID", !.reqCount = 0] ELSE t[d]]

(* Purge of one entry whose lifetime is over: a valid one becomes invalid, *)
(* an invalid one goes.  One that is being searched stays.                 *)
Purge(t, d) ==
  CASE Valid(t, d) -> Invalidate(t, {d})
    [] t[d].flag = "INVALID" -> [t EXCEPT ![d] = NoEntry]
    [] OTHER -> t
=============================================================================
