---------------------------- MODULE FanTopology ----------------------------
(***************************************************************************)
(* What fan_init (congestion/src/fan_util.rs) makes of the host names that *)
(* rank 0 has gathered: names[r] is the one in slot r.  A host is a number,*)
(* in the order of the names.  Rank 0 computes this alone and broadcasts   *)
(* it, so all ranks agree, even if allgather filled the slots in another   *)
(* order than the ranks'.                                                  *)
(***************************************************************************)
EXTENDS Naturals, SequencesExt

Hosts(names) == {names[r] : r \in DOMAIN names}

OnHost(names, h) == {r \in DOMAIN names : names[r] = h}

FirstHost(names) == Min(Hosts(names))

LastHost(names) == Max(Hosts(names))

(* The length of the first host's run in the sorted list. *)
FirstPpn(names) == Cardinality(OnHost(names, FirstHost(names)))

(***************************************************************************)
(* A host's processes are counted against the first host's when the walk   *)
(* along the sorted list leaves it: never those of the last host.          *)
(***************************************************************************)
Rejected(names) ==
  \E h \in Hosts(names) \ {LastHost(names)} :
    Cardinality(OnHost(names, h)) # FirstPpn(names)

(* On one host a second node is made up: every rank but 0, one to a node. *)
OneNode(names) == Cardinality(Hosts(names)) = 1

NodeId(names, r) ==
  IF OneNode(names) THEN IF r = 0 THEN 1 ELSE 2
  ELSE 1 + Cardinality({h \in Hosts(names) : h < names[r]})

LocalRank(names, r) ==
  IF OneNode(names) THEN 0
  ELSE Cardinality({q \in OnHost(names, names[r]) : q < r})

IsParent(names, r) == NodeId(names, r) = 1

(* Fault: every rank of the other nodes is a child. *)
AllChildRanks(names) == {r \in DOMAIN names : NodeId(names, r) >= 2}

ChildRanks(names) ==
  {r \in DOMAIN names : NodeId(names, r) >= 2 /\ LocalRank(names, r) = 0}

ParentRank(names) ==
  Min({r \in DOMAIN names : NodeId(names, r) = 1 /\ LocalRank(names, r) = 0})

(* Every rank of node 1 has the same queue; every other rank one parent. *)
RanksQueue(names, r) ==
  IF IsParent(names, r) THEN SetToSortSeq(ChildRanks(names), <)
                        ELSE <<ParentRank(names)>>
=============================================================================
