--------------------------- MODULE FanBenchmarks ---------------------------
(***************************************************************************)
(* The programs of the fan-in and fan-out benchmarks (congestion/src/bin). *)
(* The ranks of the first node are the parents: they receive a window from *)
(* each child and acknowledge it (fan-in), or send one to each child and   *)
(* wait for its acknowledgement (fan-out).                                 *)
(*                                                                         *)
(* Their receives name a tag and no child: which child's messages a parent *)
(* takes is left to their arrival.                                         *)
(***************************************************************************)
EXTENDS PairBenchmarks, FanTopology

SendWindow(to) ==
  AllWaited(Exchange("100", [i \in 1 .. WindowSize |-> to], NoPeers))

TakeWindow(from) == Exchange("100", NoPeers, [i \in 1 .. WindowSize |-> from])

SendAck(to) == Exchange("101", <<to>>, NoPeers)

TakeAck(from) == Exchange("101", NoPeers, <<from>>)

-----------------------------------------------------------------------------

(* "usize" is the width of that type in bytes; a slice of 4 is to hold it. *)
FanInitFails(names, usize) == Rejected(names) \/ usize # 4

(***************************************************************************)
(* Where fan_init fails rank 0 exits or panics; no other rank knows.       *)
(***************************************************************************)
Fan(names, usize, r, n, iteration) ==
  <<Allgather(r, n)>> \o
  IF r = 0 /\ FanInitFails(names, usize) THEN <<>>
  ELSE Repeat(4, <<Bcast(r, n, 0)>>) \o <<Barrier(r, n)>> \o
       Repeat(SizesRun,
              <<Barrier(r, n)>> \o Repeat(Iterations, iteration) \o AllreduceSum(r, n))

run_fan_in_send(queue) == <<SendWindow(queue[1]), TakeAck(queue[1])>>

run_fan_in_recv(queue) ==
  FlattenSeq([i \in DOMAIN queue |-> <<TakeWindow(queue[i]), SendAck(queue[i])>>])

osu_bw_fan_in(names, usize, r, n) ==
  Fan(names, usize, r, n,
      IF IsParent(names, r) THEN run_fan_in_recv(RanksQueue(names, r))
                            ELSE run_fan_in_send(RanksQueue(names, r)))

run_fan_out_send(queue) ==
  FlattenSeq([i \in DOMAIN queue |-> <<SendWindow(queue[i]), TakeAck(queue[i])>>])

run_fan_out_recv(queue) == <<TakeWindow(queue[1]), SendAck(queue[1])>>

osu_bw_fan_out(names, usize, r, n) ==
  Fan(names, usize, r, n,
      IF IsParent(names, r) THEN run_fan_out_send(RanksQueue(names, r))
                            ELSE run_fan_out_recv(RanksQueue(names, r)))
=============================================================================
