------------------------------ MODULE MCStuck ------------------------------
(***************************************************************************)
(* One job for each way a benchmark is known to hang, with one message size*)
(* and one iteration.                                                      *)
(***************************************************************************)
EXTENDS Job, TLC

Blocking == INSTANCE CollectiveBenchmarks WITH Sizes <- <<12>>, Iterations <- 1

NonBlocking == INSTANCE NonBlockingBenchmarks
                 WITH Sizes <- <<0>>, Skip <- 0, Iterations <- 1

Fan == INSTANCE FanBenchmarks WITH SizesRun <- 1, Iterations <- 1, WindowSize <- 1

StuckProgram(j, r) ==
  CASE j.bench = "osu_neighbor_allgather" -> Blocking!osu_neighbor_allgather(r, j.size)
    [] j.bench = "osu_ineighbor_alltoall" -> NonBlocking!osu_ineighbor_alltoall(r, j.size)
    [] j.bench = "osu_latency"            -> Fan!osu_latency(r, j.size)
    [] j.bench = "osu_bw_fan_in"          -> Fan!osu_bw_fan_in(j.names, j.usize, r, j.size)

Hang(bench, size) == [bench |-> bench, size |-> size, rndv |-> FALSE]

HangingFan(hosts, usize) ==
  [bench |-> "osu_bw_fan_in", size |-> Len(hosts), rndv |-> FALSE, usize |-> usize,
   names |-> [r \in 0 .. Len(hosts) - 1 |-> hosts[r + 1]]]

(***************************************************************************)
(* The ring of three; an empty piece; a third rank; two processes on each  *)
(* host; a usize of 8 bytes.                                               *)
(***************************************************************************)
StuckJobs ==
  {Hang("osu_neighbor_allgather", 3), Hang("osu_ineighbor_alltoall", 2),
   Hang("osu_latency", 3),
   HangingFan(<<0, 0, 1, 1>>, 4), HangingFan(<<0, 1>>, 8)}

(* "@@ <<>>" makes TLC evaluate the function once, not in every state. *)
Compiled == [j \in Jobs |-> [r \in 0 .. j.size - 1 |-> StuckProgram(j, r)]] @@ <<>>

CompiledProgram(j, r) == Compiled[j][r]
=============================================================================
