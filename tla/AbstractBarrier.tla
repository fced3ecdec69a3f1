-------------------------- MODULE AbstractBarrier --------------------------
(***************************************************************************)
(* What a caller of OsUContext::barrier relies on: a rank that is told the *)
(* k-th barrier is over knows that every rank has called it k times.       *)
(* Messages, buffers and the order of the sends are invisible here.        *)
(***************************************************************************)
EXTENDS Naturals

CONSTANTS
  Ranks,     \* the ranks of the job
  Rounds     \* how many times each rank calls barrier()

VARIABLES
  arrived,   \* arrived[r]: calls of barrier() rank r has made
  departed   \* departed[r]: calls that have returned

vars == <<arrived, departed>>

Init ==
  /\ arrived = [r \in Ranks |-> 0]
  /\ departed  = [r \in Ranks |-> 0]

Arrive(r) ==
  /\ arrived[r] = departed[r]
  /\ arrived[r] < Rounds
  /\ arrived' = [arrived EXCEPT ![r] = @ + 1]
  /\ UNCHANGED departed

Leave(r) ==
  /\ departed[r] < arrived[r]
  /\ \A q \in Ranks : arrived[q] >= arrived[r]
  /\ departed' = [departed EXCEPT ![r] = @ + 1]
  /\ UNCHANGED arrived

Next == \E r \in Ranks : Arrive(r) \/ Leave(r)

Spec == Init /\ [][Next]_vars
=============================================================================
