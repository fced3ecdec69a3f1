---------------------------- MODULE Collectives ----------------------------
(***************************************************************************)
(* The blocking collectives of common/src/runtime/collective_blocking.rs,  *)
(* one operator per function: what rank r of n makes UCX do.  The tags are *)
(* the code's.  A function that runs two handshakes is a sequence of two   *)
(* calls.  OpenSHMEM is never initialised, so its branches are not taken.  *)
(***************************************************************************)
EXTENDS Calls

Barrier(r, n) == ToAll("BEEFCAFE", r, n)

AllreduceU64(r, n) == ToAll("DEADBEEF", r, n)

(* Sums the bits first and drops the sum. *)
AllreduceMin(r, n) == <<AllreduceU64(r, n), ToAll("DEAD0001", r, n)>>

(* Fault: the receive loop starts at peer 1. *)
AllreduceMaxOneShort(r, n) ==
  <<Exchange("DEAD0002", PeersOf(r, n), Tail(PeersOf(r, n)))>>

AllreduceMax(r, n) == <<ToAll("DEAD0002", r, n)>>

AllreduceSum(r, n) == <<ToAll("DEAD0003", r, n)>>

Bcast(r, n, root) == RootSends("BADC0DE0", r, n, root)

(* Every rank gathers everything; only the root adds it up. *)
Reduce(r, n, root) ==
  [ToAll("BADC0DE1", r, n) EXCEPT !.keep = (r = root)]

Allgather(r, n) == ToAll("BADC0DE2", r, n)

Alltoall(r, n) == ToAll("BADC0DE3", r, n)

Gather(r, n, root) == RootReceives("BADC0DE4", r, n, root)

Scatter(r, n, root) == RootSends("BADC0DE5", r, n, root)

Gatherv(r, n, root) == Awaited(RootReceives("BADC0DE6", r, n, root))

Scatterv(r, n, root) == Awaited(RootSends("BADC0DE7", r, n, root))

Allgatherv(r, n) == Awaited(ToAll("BADC0DE8", r, n))

Alltoallv(r, n) == Awaited(ToAll("BADC0DEA", r, n))

Alltoallw(r, n) == Alltoallv(r, n)

ReduceScatterBlock(r, n) == Awaited(ToAll("BADC0DEB", r, n))

Reducescatter(r, n) == Awaited(ToAll("BADC0DE9", r, n))

-----------------------------------------------------------------------------

(***************************************************************************)
(* The ring of the neighbor collectives.  The receives are posted in this  *)
(* order too: the first slot is meant for the left neighbor.               *)
(***************************************************************************)
Ring(r, n) == <<WrappingPrev(r, n), NextRank(r, n)>>

OnRing(tag, r, n) ==
  IF n <= 1 THEN Exchange(tag, NoPeers, NoPeers)
            ELSE Exchange(tag, Ring(r, n), Ring(r, n))

(***************************************************************************)
(* The alltoall variants send only pieces that lie inside the send buffer, *)
(* which for empty messages none does, but always receive two.             *)
(***************************************************************************)
PiecesOnRing(tag, r, n, bytes) ==
  [OnRing(tag, r, n) EXCEPT !.to = IF bytes = 0 THEN NoPeers ELSE @]

NeighborAllgather(r, n) == OnRing("BADC0DEA", r, n)

NeighborAllgatherv(r, n) == OnRing("BADC0DEB", r, n)

NeighborAlltoall(r, n, bytes) == PiecesOnRing("BADC0DEC", r, n, bytes)

NeighborAlltoallv(r, n, bytes) == PiecesOnRing("BADC0DED", r, n, bytes)

NeighborAlltoallw(r, n, bytes) == NeighborAlltoallv(r, n, bytes)
=============================================================================
