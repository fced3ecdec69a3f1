--------------------------- MODULE MCCollectives ---------------------------
(***************************************************************************)
(* Every blocking collective benchmark run by 2 ranks, and by 3 those whose*)
(* programs differ in more than the tags of their messages.                *)
(***************************************************************************)
EXTENDS JobInvariant, CollectiveBenchmarks

(***************************************************************************)
(* The same benchmarks with two message sizes and one iteration of each:   *)
(* what a rank sends in the statistics of one size may be on its way in the*)
(* collective of the next.  Two ranks do not get equal shares of the second*)
(* size.  One size with two iterations has the rest: a collective follows  *)
(* another with a barrier in between.                                      *)
(***************************************************************************)
TwoSizes == INSTANCE CollectiveBenchmarks WITH Sizes <- <<12, 9>>, Iterations <- 1

BlockingProgram(j, r) ==
  LET n == j.size IN
  CASE j.bench = "osu_barrier"              -> osu_barrier(r, n)
    [] j.bench = "osu_bcast"                -> osu_bcast(r, n)
    [] j.bench = "osu_reduce"               -> osu_reduce(r, n)
    [] j.bench = "osu_gather"               -> osu_gather(r, n)
    [] j.bench = "osu_gatherv"              -> osu_gatherv(r, n)
    [] j.bench = "osu_scatter"              -> osu_scatter(r, n)
    [] j.bench = "osu_scatterv"             -> osu_scatterv(r, n)
    [] j.bench = "osu_allgather"            -> osu_allgather(r, n)
    [] j.bench = "osu_allgatherv"           -> osu_allgatherv(r, n)
    [] j.bench = "osu_alltoall"             -> osu_alltoall(r, n)
    [] j.bench = "osu_alltoallv"            -> osu_alltoallv(r, n)
    [] j.bench = "osu_alltoallw"            -> osu_alltoallw(r, n)
    [] j.bench = "osu_reduce_scatter"       -> osu_reduce_scatter(r, n)
    [] j.bench = "osu_reduce_scatter_block" -> osu_reduce_scatter_block(r, n)
    [] j.bench = "osu_neighbor_allgather"   -> osu_neighbor_allgather(r, n)
    [] j.bench = "osu_neighbor_allgatherv"  -> osu_neighbor_allgatherv(r, n)
    [] j.bench = "osu_neighbor_alltoall"    -> osu_neighbor_alltoall(r, n)
    [] j.bench = "osu_neighbor_alltoallv"   -> osu_neighbor_alltoallv(r, n)
    [] j.bench = "osu_neighbor_alltoallw"   -> osu_neighbor_alltoallw(r, n)
    [] j.bench = "osu_allreduce"            -> osu_allreduce(r, n, r \in j.ucc)
    [] j.bench = "osu_allreduce_bw"         -> osu_allreduce_bw(r, n)
    [] j.bench = "osu_allreduce_latency"    -> osu_allreduce_latency(r, n)
    [] j.bench = "osu_bcast, two sizes"     -> TwoSizes!osu_bcast(r, n)
    [] j.bench = "osu_gather, two sizes"    -> TwoSizes!osu_gather(r, n)
    [] j.bench = "osu_scatterv, two sizes"  -> TwoSizes!osu_scatterv(r, n)
    [] j.bench = "osu_reduce_scatter, two sizes" -> TwoSizes!osu_reduce_scatter(r, n)

(* On three ranks these run the programs of osu_allgather, osu_bcast and   *)
(* osu_alltoallv with other tags.                                          *)
AlikeOnThree ==
  {"osu_alltoall", "osu_allreduce_bw", "osu_allreduce_latency", "osu_scatter",
   "osu_allgatherv", "osu_alltoallw", "osu_reduce_scatter", "osu_reduce_scatter_block"}

AllToAll ==
  {"osu_reduce", "osu_allgather", "osu_alltoall", "osu_allreduce_bw",
   "osu_allreduce_latency"}

Rooted == {"osu_bcast", "osu_gather", "osu_gatherv", "osu_scatter", "osu_scatterv"}

Posting ==
  {"osu_allgatherv", "osu_alltoallv", "osu_alltoallw",
   "osu_reduce_scatter", "osu_reduce_scatter_block"}

OnARing ==
  {"osu_neighbor_allgather", "osu_neighbor_allgatherv", "osu_neighbor_alltoall",
   "osu_neighbor_alltoallv", "osu_neighbor_alltoallw"}

(* Rendezvous sends matter only to a program that waits for one. *)
JobsOf(benches, sizes, rndv) == [bench : benches, size : sizes, rndv : rndv]

(* Ranks in ucc have a team and use it; see TeamMeansEveryoneJoined of Startup. *)
SomeUseUcc ==
  [bench : {"osu_allreduce"}, size : {2}, rndv : {FALSE}, ucc : SUBSET {0, 1}]

BlockingJobs ==
  JobsOf(AllToAll \cup Rooted \cup OnARing \cup {"osu_barrier"}, {2}, {FALSE})
    \cup JobsOf(Posting, {2}, BOOLEAN)
    \cup JobsOf((AllToAll \cup Rooted \cup OnARing \cup {"osu_barrier"}) \ AlikeOnThree,
               {3}, {FALSE})
    \cup JobsOf((Posting \ AlikeOnThree) \cup {"osu_gatherv", "osu_scatterv"}, {3}, BOOLEAN)
    \cup JobsOf({"osu_bcast, two sizes", "osu_gather, two sizes"}, {2, 3}, {FALSE})
    \cup JobsOf({"osu_scatterv, two sizes", "osu_reduce_scatter, two sizes"}, {2}, {FALSE})
    \cup SomeUseUcc

(* The handshake fan_init gathers the host names with. *)
GatherNames == JobsOf({"osu_allgather"}, {3}, {FALSE})

(***************************************************************************)
(* "@@ <<>>" makes TLC evaluate the function once, not in every state, and *)
(* it finds a program sooner by name and size than by the job.             *)
(***************************************************************************)
Compiled ==
  [b \in {j.bench : j \in BlockingJobs \ SomeUseUcc} |->
     [n \in 2 .. 3 |->
        [r \in 0 .. n - 1 |-> BlockingProgram([bench |-> b, size |-> n], r)]]] @@ <<>>

CompiledWithUcc ==
  [ucc \in SUBSET {0, 1} |-> [r \in 0 .. 1 |-> osu_allreduce(r, 2, r \in ucc)]] @@ <<>>

CompiledProgram(j, r) ==
  IF j.bench = "osu_allreduce" THEN CompiledWithUcc[j.ucc][r] ELSE Compiled[j.bench][j.size][r]

OneSize == <<12>>
=============================================================================
