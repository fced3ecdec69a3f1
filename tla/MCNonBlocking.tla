--------------------------- MODULE MCNonBlocking ---------------------------
(***************************************************************************)
(* Every non-blocking collective benchmark, run by 2 and by 3 ranks.       *)
(***************************************************************************)
EXTENDS Job, NonBlockingBenchmarks

NonBlockingProgram(j, r) ==
  LET n == j.size IN
  CASE j.bench = "osu_ibarrier"              -> osu_ibarrier(r, n)
    [] j.bench = "osu_ibcast"                -> osu_ibcast(r, n)
    [] j.bench = "osu_ireduce"               -> osu_ireduce(r, n)
    [] j.bench = "osu_iallreduce"            -> osu_iallreduce(r, n)
    [] j.bench = "osu_igather"               -> osu_igather(r, n)
    [] j.bench = "osu_igatherv"              -> osu_igatherv(r, n)
    [] j.bench = "osu_iscatter"              -> osu_iscatter(r, n)
    [] j.bench = "osu_iscatterv"             -> osu_iscatterv(r, n)
    [] j.bench = "osu_iallgather"            -> osu_iallgather(r, n)
    [] j.bench = "osu_iallgatherv"           -> osu_iallgatherv(r, n)
    [] j.bench = "osu_ialltoall"             -> osu_ialltoall(r, n)
    [] j.bench = "osu_ialltoallv"            -> osu_ialltoallv(r, n)
    [] j.bench = "osu_ialltoallw"            -> osu_ialltoallw(r, n)
    [] j.bench = "osu_ireduce_scatter"       -> osu_ireduce_scatter(r, n)
    [] j.bench = "osu_ireduce_scatter_block" -> osu_ireduce_scatter_block(r, n)
    [] j.bench = "osu_ineighbor_allgather"   -> osu_ineighbor_allgather(r, n)
    [] j.bench = "osu_ineighbor_allgatherv"  -> osu_ineighbor_allgatherv(r, n)
    [] j.bench = "osu_ineighbor_alltoall"    -> osu_ineighbor_alltoall(r, n)
    [] j.bench = "osu_ineighbor_alltoallv"   -> osu_ineighbor_alltoallv(r, n)
    [] j.bench = "osu_ineighbor_alltoallw"   -> osu_ineighbor_alltoallw(r, n)

JobsOf(benches, sizes) == [bench : benches, size : sizes, rndv : {FALSE}]

AllToAll ==
  {"osu_ibarrier", "osu_ireduce", "osu_iallreduce", "osu_iallgather",
   "osu_iallgatherv", "osu_ialltoall", "osu_ialltoallv", "osu_ialltoallw",
   "osu_ireduce_scatter", "osu_ireduce_scatter_block"}

Rooted == {"osu_ibcast", "osu_igather", "osu_igatherv", "osu_iscatter", "osu_iscatterv"}

OnARing == {"osu_ineighbor_allgather", "osu_ineighbor_allgatherv"}

(* The first message size of the ring alltoalls is 0. *)
EmptyRing ==
  JobsOf({"osu_ineighbor_alltoall", "osu_ineighbor_alltoallv", "osu_ineighbor_alltoallw"}, {2})

NonBlockingJobs == JobsOf(AllToAll \cup Rooted \cup OnARing, {2, 3}) \cup EmptyRing

OneAllgather == JobsOf({"osu_iallgather"}, {2})

(* "@@ <<>>" makes TLC evaluate the function once, not in every state. *)
Compiled == [j \in Jobs |-> [r \in 0 .. j.size - 1 |-> NonBlockingProgram(j, r)]] @@ <<>>

CompiledProgram(j, r) == Compiled[j][r]

FirstSizes == <<0>>
=============================================================================
