---------------------------- MODULE NonBlocking ----------------------------
(***************************************************************************)
(* The non-blocking collectives of common/src/runtime/non_blocking.rs, one *)
(* operator per i* function: what the call and the wait() on its OsURequest*)
(* do together.  They use the tags of their blocking counterparts.         *)
(*                                                                         *)
(* Every send request is dropped.  Receives go to temporary buffers that   *)
(* the function drops before wait() is called, so nothing of them reaches  *)
(* the caller; ibcast and iscatter alone receive into the caller's buffer. *)
(* A request without receives has a null worker, and test() says it is     *)
(* complete without any progress.                                          *)
(***************************************************************************)
EXTENDS Collectives

Ibarrier(r, n) == Dropped(Barrier(r, n))

Iallreduce(r, n) == Dropped(AllreduceU64(r, n))

Ibcast(r, n, root) == RootSends("BADC0DE0", r, n, root)

Iallgather(r, n) == Dropped(ToAll("BADC0DE2", r, n))

(* The root is not even looked at: every rank receives and no rank adds. *)
Ireduce(r, n) == Dropped(ToAll("BADC0DE1", r, n))

Iscatter(r, n, root) == RootSends("BADC0DE5", r, n, root)

Igather(r, n, root) == Dropped(RootReceives("BADC0DE4", r, n, root))

Ialltoall(r, n) == Dropped(ToAll("BADC0DE3", r, n))

Iallgatherv(r, n) == Dropped(ToAll("BADC0DE8", r, n))

Igatherv(r, n, root) == Dropped(RootReceives("BADC0DE6", r, n, root))

Iscatterv(r, n, root) == Dropped(RootSends("BADC0DE7", r, n, root))

Ialltoallv(r, n) == Dropped(ToAll("BADC0DEA", r, n))

Ialltoallw(r, n) == Ialltoallv(r, n)

IreduceScatter(r, n) == Dropped(ToAll("BADC0DE9", r, n))

IreduceScatterBlock(r, n) == Dropped(ToAll("BADC0DEB", r, n))

-----------------------------------------------------------------------------

(* The one source and the one destination of rank r. *)
NeighborRing(r, n) ==
  IF n <= 2 THEN [sources |-> <<1 - r>>, destinations |-> <<1 - r>>]
            ELSE [sources |-> <<WrappingPrev(r, n)>>,
                  destinations |-> <<NextRank(r, n)>>]

OnOneWayRing(tag, r, n) ==
  Dropped(IF n <= 1 THEN Exchange(tag, NoPeers, NoPeers)
          ELSE Exchange(tag, NeighborRing(r, n).destinations,
                             NeighborRing(r, n).sources))

IneighborAllgather(r, n) == OnOneWayRing("01010001", r, n)

IneighborAllgatherv(r, n) == OnOneWayRing("01010002", r, n)

(***************************************************************************)
(* A piece is sent only if it starts inside the send buffer, which no piece*)
(* of an empty message does; the receive is posted in any case.            *)
(***************************************************************************)
IneighborAlltoall(r, n, bytes) ==
  [OnOneWayRing("01010003", r, n) EXCEPT !.to = IF bytes = 0 THEN NoPeers ELSE @]

IneighborAlltoallv(r, n, bytes) ==
  [OnOneWayRing("01010004", r, n) EXCEPT !.to = IF bytes = 0 THEN NoPeers ELSE @]

IneighborAlltoallw(r, n, bytes) == IneighborAlltoallv(r, n, bytes)
=============================================================================
