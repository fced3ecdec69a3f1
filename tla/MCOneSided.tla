----------------------------- MODULE MCOneSided -----------------------------
(* Every one-sided benchmark, with room for an atomic operation or not. *)
EXTENDS OneSided

AllBenchmarks ==
  {osu_put_latency, osu_put_bw, osu_put_bibw, osu_get_latency, osu_get_bw,
   osu_acc_latency, osu_cas_latency, osu_fop_latency, osu_get_acc_latency}

OnePut == {osu_put_latency}
=============================================================================
