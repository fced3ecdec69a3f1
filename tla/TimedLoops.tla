----------------------------- MODULE TimedLoops -----------------------------
(***************************************************************************)
(* What the loops of all collective benchmarks are made of: a run goes     *)
(* through its message sizes, and repeats the timed call for each.         *)
(***************************************************************************)
EXTENDS Collectives, SequencesExt

CONSTANTS
  Sizes,        \* the message sizes of one run: a sequence, in place of 1..1 MiB
  Iterations    \* timed iterations for each size; warm-up included if it is no different

ASSUME LoopAssumption == Sizes \in Seq(Nat) /\ Iterations \in Nat

Repeat(k, calls) == FlattenSeq([i \in 1 .. k |-> calls])
=============================================================================
