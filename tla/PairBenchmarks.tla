-------------------------- MODULE PairBenchmarks --------------------------
(***************************************************************************)
(* The programs of the point-to-point benchmarks (pt2pt/src/bin), one      *)
(* operator per binary.  Ranks 0 and 1 exchange messages; any other rank   *)
(* returns at once, before the barrier the two start with.                 *)
(*                                                                         *)
(* The receive of a message is the same step of the receiver's program as  *)
(* its send is of the sender's.  The coordinator threads of osu_latency_mt *)
(* make no UCX call and the main thread never waits for what they send.    *)
(***************************************************************************)
EXTENDS Collectives, SequencesExt

CONSTANTS
  SizesRun,     \* number of message sizes
  Iterations,   \* warm-up and timed iterations for each size, together
  WindowSize    \* messages of a bandwidth iteration

ASSUME PairAssumption ==
  SizesRun \in Nat /\ Iterations \in Nat /\ WindowSize \in Nat \ {0}

Repeat(k, calls) == FlattenSeq([i \in 1 .. k |-> calls])

OnPair(r, calls) == IF r >= 2 THEN <<>> ELSE calls

Partner(r) == 1 - r

(* k messages from one of the two ranks to the other. *)
OneWay(tag, r, sender, k) ==
  LET partner == [i \in 1 .. k |-> Partner(r)]
  IN  IF r = sender THEN Exchange(tag, partner, NoPeers)
                    ELSE Exchange(tag, NoPeers, partner)

AllWaited(call) == [call EXCEPT !.waits = "all"]

(* The loops: a call before each size, iterations, a call after each size. *)
Loops(r, n, before, iteration, after) ==
  OnPair(r, <<Barrier(r, n)>> \o
            Repeat(SizesRun, before \o Repeat(Iterations, iteration) \o after))

-----------------------------------------------------------------------------
(* Latency: ping and pong, neither of which its sender waits for. *)

PingPong(tag, r) == <<OneWay(tag, r, 0, 1), OneWay(tag, r, 1, 1)>>

osu_latency(r, n) == Loops(r, n, <<>>, PingPong("123456789ABCDEF0", r), <<>>)

osu_latency_mp(r, n) ==
  Loops(r, n, <<>>, <<Barrier(r, n)>> \o PingPong("123456789ABCDEF0", r), <<>>)

osu_latency_mt(r, n) ==
  Loops(r, n, <<>>, PingPong("123456789ABCDEF0", r), <<Barrier(r, n)>>)

persistent_latency_iteration(r) == PingPong("1", r)

osu_latency_persistent(r, n) == Loops(r, n, <<>>, persistent_latency_iteration(r), <<>>)

osu_multi_lat(r, n) == Loops(r, n, <<>>, PingPong("1", r), <<>>)

osu_partitioned_latency(r, n) == Loops(r, n, <<>>, PingPong("1", r), <<>>)

-----------------------------------------------------------------------------
(* Bandwidth: a window of sends, waited for together, and one ACK. *)

(* Fault: no ACK. *)
BwWithoutAck(r) == <<AllWaited(OneWay("100", r, 0, WindowSize))>>

do_bw_iteration(r) ==
  <<AllWaited(OneWay("100", r, 0, WindowSize)), OneWay("101", r, 1, 1)>>

osu_bw(r, n) == Loops(r, n, <<>>, do_bw_iteration(r), <<>>)

do_mbw_mr_iteration(r) == do_bw_iteration(r)

osu_mbw_mr(r, n) == Loops(r, n, <<>>, do_mbw_mr_iteration(r), <<>>)

persistent_bw_iteration(r) == do_bw_iteration(r)

osu_bw_persistent(r, n) == Loops(r, n, <<>>, persistent_bw_iteration(r), <<>>)

(* Fault: the receive loop ends one short of the window. *)
BibwOneShort(r) ==
  LET tag(s) == IF s = 0 THEN "100" ELSE "10"
      window(k) == [i \in 1 .. k |-> Partner(r)]
  IN  <<AllWaited([Exchange(tag(r), window(WindowSize), window(WindowSize - 1))
                    EXCEPT !.takes = tag(Partner(r))])>>

(* Both ranks post a window of receives, then one of sends.  No ACK. *)
do_bibw_iteration(r) ==
  LET tag(s) == IF s = 0 THEN "100" ELSE "10"
      window == [i \in 1 .. WindowSize |-> Partner(r)]
  IN  <<AllWaited([Exchange(tag(r), window, window) EXCEPT !.takes = tag(Partner(r))])>>

osu_bibw(r, n) == Loops(r, n, <<Barrier(r, n)>>, do_bibw_iteration(r), <<>>)

persistent_bibw_iteration(r) == do_bibw_iteration(r)

osu_bibw_persistent(r, n) ==
  Loops(r, n, <<Barrier(r, n)>>, persistent_bibw_iteration(r), <<>>)
=============================================================================
