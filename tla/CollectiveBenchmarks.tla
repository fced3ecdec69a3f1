----------------------- MODULE CollectiveBenchmarks -----------------------
(***************************************************************************)
(* The programs of the blocking collective benchmarks (collective/src/bin):*)
(* the calls rank r of n makes in run_benchmark, one operator per binary.  *)
(* They differ in the collective they time; every one separates its        *)
(* iterations with barriers and reduces its timings after each message     *)
(* size.  The warm-up loop and the timed loop make the same calls, so that *)
(* Iterations counts both.                                                 *)
(***************************************************************************)
EXTENDS TimedLoops

Statistics(r, n) == AllreduceMin(r, n) \o AllreduceMax(r, n) \o AllreduceSum(r, n)

(* Fault: no barrier after an iteration. *)
TimedWithoutBarriers(r, n, collective) ==
  <<Barrier(r, n)>> \o
  Repeat(Len(Sizes), Repeat(Iterations, <<collective>>) \o Statistics(r, n))

(* The loops over sizes and iterations around one timed collective. *)
Timed(r, n, collective) ==
  <<Barrier(r, n)>> \o
  Repeat(Len(Sizes), Repeat(Iterations, <<collective, Barrier(r, n)>>) \o Statistics(r, n))

(* The same for a collective that looks at the message size: one for each size. *)
TimedBySize(r, n, collective) ==
  <<Barrier(r, n)>> \o
  FlattenSeq([i \in DOMAIN Sizes |->
    Repeat(Iterations, <<collective[i], Barrier(r, n)>>) \o Statistics(r, n)])

(* Only sizes every rank gets an equal share of are run. *)
TimedIfDivisible(r, n, collective) ==
  <<Barrier(r, n)>> \o
  FlattenSeq([i \in DOMAIN Sizes |->
    IF Sizes[i] % n = 0
    THEN Repeat(Iterations, <<collective, Barrier(r, n)>>) \o Statistics(r, n)
    ELSE <<>>])

-----------------------------------------------------------------------------

(* Timed iterations have a second barrier; every iteration is counted so. *)
osu_barrier(r, n) ==
  <<Barrier(r, n)>> \o
  Repeat(Iterations, <<Barrier(r, n), Barrier(r, n)>>) \o Statistics(r, n)

osu_bcast(r, n) == Timed(r, n, Bcast(r, n, 0))

osu_reduce(r, n) == Timed(r, n, Reduce(r, n, 0))

osu_gather(r, n) == Timed(r, n, Gather(r, n, 0))

osu_gatherv(r, n) == Timed(r, n, Gatherv(r, n, 0))

osu_scatter(r, n) == Timed(r, n, Scatter(r, n, 0))

osu_scatterv(r, n) == Timed(r, n, Scatterv(r, n, 0))

osu_allgather(r, n) == Timed(r, n, Allgather(r, n))

osu_allgatherv(r, n) == Timed(r, n, Allgatherv(r, n))

osu_alltoall(r, n) == Timed(r, n, Alltoall(r, n))

osu_alltoallv(r, n) == Timed(r, n, Alltoallv(r, n))

osu_alltoallw(r, n) == Timed(r, n, Alltoallw(r, n))

osu_reduce_scatter(r, n) == TimedIfDivisible(r, n, Reducescatter(r, n))

osu_reduce_scatter_block(r, n) == TimedIfDivisible(r, n, ReduceScatterBlock(r, n))

osu_neighbor_allgather(r, n) == Timed(r, n, NeighborAllgather(r, n))

osu_neighbor_allgatherv(r, n) == Timed(r, n, NeighborAllgatherv(r, n))

osu_neighbor_alltoall(r, n) ==
  TimedBySize(r, n, [i \in DOMAIN Sizes |-> NeighborAlltoall(r, n, Sizes[i])])

osu_neighbor_alltoallv(r, n) ==
  TimedBySize(r, n, [i \in DOMAIN Sizes |-> NeighborAlltoallv(r, n, Sizes[i])])

osu_neighbor_alltoallw(r, n) ==
  TimedBySize(r, n, [i \in DOMAIN Sizes |-> NeighborAlltoallw(r, n, Sizes[i])])

-----------------------------------------------------------------------------
(* The allreduce benchmarks have handshakes of their own. *)

AllreduceFallback(r, n) == ToAll("ABCDEF00", r, n)

AllreduceBw(r, n) == ToAll("BADDEF00", r, n)

AllreduceLatency(r, n) == ToAll("BADDEF01", r, n)

(* UCC completes an allreduce when every member of the team has made it. *)
UccAllreduce(r, n) == ToAll("UCC", r, n)

(* A rank takes UCC's path if it has a team and UCC accepts the call. *)
osu_allreduce(r, n, ucc) ==
  Timed(r, n, IF ucc THEN UccAllreduce(r, n) ELSE AllreduceFallback(r, n))

osu_allreduce_bw(r, n) == Timed(r, n, AllreduceBw(r, n))

osu_allreduce_latency(r, n) == Timed(r, n, AllreduceLatency(r, n))
=============================================================================
