----------------------- MODULE NonBlockingBenchmarks -----------------------
(***************************************************************************)
(* The programs of the non-blocking collective benchmarks (osu_i* of       *)
(* collective/src/bin), one operator per binary.  They time a call and the *)
(* wait() on its request.  Unlike the blocking benchmarks they have no     *)
(* barrier between the warm-up iterations, nor between the warm-up and the *)
(* first timed iteration.                                                  *)
(***************************************************************************)
EXTENDS NonBlocking, TimedLoops

CONSTANT
  Skip          \* warm-up iterations; Sizes are those of the ring benchmarks

ASSUME SkipAssumption == Skip \in Nat

MinAndMax(r, n) == AllreduceMin(r, n) \o AllreduceMax(r, n)

(* Fault: the timed iterations have no barrier either. *)
LoopWithoutBarriers(r, n, collective) ==
  Repeat(Skip + Iterations, <<collective>>) \o MinAndMax(r, n)

(* Fault: rank 0 waits for the others before its call. *)
LoopBarrierFirst(r, n, collective) ==
  LET iteration == IF r = 0 THEN <<Barrier(r, n), collective>> ELSE <<collective, Barrier(r, n)>>
  IN  Repeat(Skip, <<collective>>) \o Repeat(Iterations, iteration) \o MinAndMax(r, n)

TimedLoop(r, n, collective) ==
  Repeat(Skip, <<collective>>) \o
  Repeat(Iterations, <<collective, Barrier(r, n)>>) \o MinAndMax(r, n)

(* One message size, 0. *)
TimedOnce(r, n, collective) == <<Barrier(r, n)>> \o TimedLoop(r, n, collective)

(* The ring benchmarks run through their own list of sizes. *)
TimedRing(r, n, collective) ==
  <<Barrier(r, n)>> \o
  FlattenSeq([i \in DOMAIN Sizes |-> TimedLoop(r, n, collective[i])])

-----------------------------------------------------------------------------

osu_ibarrier(r, n) == TimedOnce(r, n, Ibarrier(r, n))

osu_ibcast(r, n) == TimedOnce(r, n, Ibcast(r, n, 0))

osu_ireduce(r, n) == TimedOnce(r, n, Ireduce(r, n))

osu_iallreduce(r, n) == TimedOnce(r, n, Iallreduce(r, n))

osu_igather(r, n) == TimedOnce(r, n, Igather(r, n, 0))

osu_igatherv(r, n) == TimedOnce(r, n, Igatherv(r, n, 0))

osu_iscatter(r, n) == TimedOnce(r, n, Iscatter(r, n, 0))

osu_iscatterv(r, n) == TimedOnce(r, n, Iscatterv(r, n, 0))

osu_iallgather(r, n) == TimedOnce(r, n, Iallgather(r, n))

osu_iallgatherv(r, n) == TimedOnce(r, n, Iallgatherv(r, n))

osu_ialltoall(r, n) == TimedOnce(r, n, Ialltoall(r, n))

osu_ialltoallv(r, n) == TimedOnce(r, n, Ialltoallv(r, n))

osu_ialltoallw(r, n) == TimedOnce(r, n, Ialltoallw(r, n))

osu_ireduce_scatter(r, n) == TimedOnce(r, n, IreduceScatter(r, n))

osu_ireduce_scatter_block(r, n) == TimedOnce(r, n, IreduceScatterBlock(r, n))

osu_ineighbor_allgather(r, n) ==
  TimedRing(r, n, [i \in DOMAIN Sizes |-> IneighborAllgather(r, n)])

osu_ineighbor_allgatherv(r, n) ==
  TimedRing(r, n, [i \in DOMAIN Sizes |-> IneighborAllgatherv(r, n)])

osu_ineighbor_alltoall(r, n) ==
  TimedRing(r, n, [i \in DOMAIN Sizes |-> IneighborAlltoall(r, n, Sizes[i])])

osu_ineighbor_alltoallv(r, n) ==
  TimedRing(r, n, [i \in DOMAIN Sizes |-> IneighborAlltoallv(r, n, Sizes[i])])

osu_ineighbor_alltoallw(r, n) ==
  TimedRing(r, n, [i \in DOMAIN Sizes |-> IneighborAlltoallw(r, n, Sizes[i])])
=============================================================================
