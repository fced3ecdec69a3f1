------------------------------ MODULE PairJobs ------------------------------
(***************************************************************************)
(* The jobs that run a point-to-point benchmark, and what is to hold of    *)
(* them alone.                                                             *)
(***************************************************************************)
EXTENDS Job, PairBenchmarks

PairPrograms(n) ==
  {[r \in 0 .. n - 1 |-> osu_latency(r, n)],
   [r \in 0 .. n - 1 |-> osu_latency_mp(r, n)],
   [r \in 0 .. n - 1 |-> osu_latency_mt(r, n)],
   [r \in 0 .. n - 1 |-> osu_latency_persistent(r, n)],
   [r \in 0 .. n - 1 |-> osu_multi_lat(r, n)],
   [r \in 0 .. n - 1 |-> osu_partitioned_latency(r, n)],
   [r \in 0 .. n - 1 |-> osu_bw(r, n)],
   [r \in 0 .. n - 1 |-> osu_mbw_mr(r, n)],
   [r \in 0 .. n - 1 |-> osu_bw_persistent(r, n)],
   [r \in 0 .. n - 1 |-> osu_bibw(r, n)],
   [r \in 0 .. n - 1 |-> osu_bibw_persistent(r, n)]}

(* One rank alone is turned away before it makes a call. *)
RunsPair(j) ==
  /\ j.size >= 2
  /\ \E p \in PairPrograms(j.size) : \A r \in 0 .. j.size - 1 : Program(j, r) = p[r]

JobsOfPairs == {j : j \in {k \in Jobs : RunsPair(k)}}

(***************************************************************************)
(* No send of a latency benchmark is waited for, and the pairs send from   *)
(* one buffer all the time: a message is taken before its sender gets past *)
(* its next call, at the next message size too.  A fan's parent may        *)
(* acknowledge a window it has not received: with two children it takes    *)
(* what comes first.                                                       *)
(***************************************************************************)
PairBuffersNotReusedEarly ==
  job \in JobsOfPairs =>
    \A s, d \in Ranks : \A i \in DOMAIN chan[s][d] :
      chan[s][d][i].tag # BarrierTag => ~Passed(s, chan[s][d][i].call + 1)
=============================================================================
