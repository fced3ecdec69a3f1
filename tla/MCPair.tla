------------------------------ MODULE MCPair ------------------------------
(***************************************************************************)
(* Every point-to-point benchmark, run by its two ranks and by a third one *)
(* that leaves; the fan benchmarks on every placement of their ranks.      *)
(***************************************************************************)
EXTENDS PairJobs, FanBenchmarks

PairProgram(j, r) ==
  LET n == j.size IN
  CASE j.bench = "osu_latency"             -> osu_latency(r, n)
    [] j.bench = "osu_latency_mp"          -> osu_latency_mp(r, n)
    [] j.bench = "osu_latency_mt"          -> osu_latency_mt(r, n)
    [] j.bench = "osu_latency_persistent"  -> osu_latency_persistent(r, n)
    [] j.bench = "osu_multi_lat"           -> osu_multi_lat(r, n)
    [] j.bench = "osu_partitioned_latency" -> osu_partitioned_latency(r, n)
    [] j.bench = "osu_bw"                  -> osu_bw(r, n)
    [] j.bench = "osu_mbw_mr"              -> osu_mbw_mr(r, n)
    [] j.bench = "osu_bw_persistent"       -> osu_bw_persistent(r, n)
    [] j.bench = "osu_bibw"                -> osu_bibw(r, n)
    [] j.bench = "osu_bibw_persistent"     -> osu_bibw_persistent(r, n)
    [] j.bench = "osu_bw_fan_in"           -> osu_bw_fan_in(j.names, j.usize, r, n)
    [] j.bench = "osu_bw_fan_out"          -> osu_bw_fan_out(j.names, j.usize, r, n)

JobsOf(benches, sizes, rndv) == [bench : benches, size : sizes, rndv : rndv]

Pairs ==
  {"osu_latency", "osu_latency_mp", "osu_latency_mt", "osu_latency_persistent",
   "osu_multi_lat", "osu_partitioned_latency", "osu_bw", "osu_mbw_mr",
   "osu_bw_persistent", "osu_bibw", "osu_bibw_persistent"}

Fans == {"osu_bw_fan_in", "osu_bw_fan_out"}

(***************************************************************************)
(* Ranks on one host, on hosts of their own, and two on one host, the first*)
(* or the last.  Three hosts in order make the same programs as one host.  *)
(***************************************************************************)
Placements ==
  {<<0, 0>>, <<0, 1>>, <<1, 0>>,
   <<0, 0, 0>>, <<1, 0, 2>>, <<0, 0, 1>>, <<1, 0, 0>>, <<0, 1, 1>>}

FanOf(bench, hosts, rndv, usize) ==
  [bench |-> bench, size |-> Len(hosts), rndv |-> rndv, usize |-> usize,
   names |-> [r \in 0 .. Len(hosts) - 1 |-> hosts[r + 1]]]

FanJobs ==
  {FanOf(b, hosts, rndv, 4) : b \in Fans, hosts \in Placements, rndv \in BOOLEAN}
    \cup {FanOf(b, hosts, FALSE, 8) : b \in Fans, hosts \in Placements}

(***************************************************************************)
(* Four ranks, too many to run: two on each of two hosts, a middle host    *)
(* with one too many, which fan_init rejects, the same on the last, which  *)
(* it does not, and one on each host.                                      *)
(***************************************************************************)
LargerFans ==
  {FanOf(b, hosts, FALSE, 4) :
     b \in Fans, hosts \in {<<0, 0, 1, 1>>, <<0, 1, 1, 2>>, <<0, 1, 2, 2>>, <<2, 3, 1, 0>>}}

PairAndFanJobs == JobsOf(Pairs, {2}, BOOLEAN) \cup JobsOf(Pairs, {3}, {FALSE}) \cup FanJobs

(* Messages so large that a send is not finished before it is received. *)
LargeMessages == JobsOf({"osu_latency_persistent"}, {2}, {TRUE})

(* "@@ <<>>" makes TLC evaluate the function once, not in every state. *)
Compiled == [j \in Jobs \cup LargerFans |-> [r \in 0 .. j.size - 1 |-> PairProgram(j, r)]] @@ <<>>

CompiledProgram(j, r) == Compiled[j][r]

-----------------------------------------------------------------------------

OneProcessOn(names) == \A h \in Hosts(names) : Cardinality(OnHost(names, h)) = 1

Works(j) == j.usize = 4 /\ (OneNode(j.names) \/ OneProcessOn(j.names))

FansThatWork == {j : j \in {k \in FanJobs \cup LargerFans : Works(k)}}

FedFans == {j : j \in {k \in FanJobs \cup LargerFans : Fed(k)}}

(***************************************************************************)
(* Of all fan jobs those are fed whose usize is 4 bytes wide and that run  *)
(* on one host or with one process on every host.  By FinishesIffFed these *)
(* are the ones that finish; the larger ones are counted and not run.      *)
(***************************************************************************)
FansFinishOnOnePerNode ==
  job.bench \in Fans => FedFans = FansThatWork
=============================================================================
