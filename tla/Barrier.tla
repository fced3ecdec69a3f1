------------------------------ MODULE Barrier ------------------------------
(***************************************************************************)
(* OsUContext::barrier, the all-to-all handshake every benchmark separates *)
(* its iterations with (common/src/runtime/collective_blocking.rs).        *)
(*                                                                         *)
(* Each call sends one byte to every peer and then receives size-1 bytes.  *)
(* All calls use the one tag BARRIER_TAG and the full tag mask, so a       *)
(* receive takes the next barrier message of ANY peer and of ANY call:     *)
(* nothing in a message says which call it belongs to.  The model keeps    *)
(* the round of a message only as history; no guard of the code reads it.  *)
(*                                                                         *)
(* A send is never waited for (the request is dropped), so it only puts    *)
(* the message in flight.  Messages of one sender to one receiver are      *)
(* matched in the order they were sent.                                    *)
(***************************************************************************)
EXTENDS Naturals, FiniteSets

CONSTANTS
  N,         \* the job size
  Rounds     \* how many times each rank calls barrier(): bounds the model

ASSUME NAssumption == N \in Nat \ {0}
ASSUME RoundsAssumption == Rounds \in Nat

VARIABLES
  entered,   \* entered[r]: calls of barrier() rank r has made
  exited,    \* exited[r]: calls that have returned
  sent,      \* sent[r]: peers served by the send loop of the current call
  rcvd,      \* rcvd[r]: receives completed by the current call
  net,       \* messages in flight
  got        \* got[r]: history of the messages rank r has consumed

vars == <<entered, exited, sent, rcvd, net, got>>

Ranks == 0 .. N-1

Message == [src : Ranks, dst : Ranks, round : Nat]

(* Fault: the send loop forgets "peer != rank". *)
PeerOrSelf(r, k) == k

(***************************************************************************)
(* The k-th iteration of "for peer in 0..size { if peer != rank { ... } }" *)
(* that passes the test, counted from 0.                                   *)
(***************************************************************************)
PeerOf(r, k) == IF k < r THEN k ELSE k + 1

Inside(r) == exited[r] < entered[r]

Init ==
  /\ entered = [r \in Ranks |-> 0]
  /\ exited  = [r \in Ranks |-> 0]
  /\ sent    = [r \in Ranks |-> 0]
  /\ rcvd    = [r \in Ranks |-> 0]
  /\ net     = {}
  /\ got     = [r \in Ranks |-> {}]

Enter(r) ==
  /\ ~Inside(r)
  /\ entered[r] < Rounds
  /\ entered' = [entered EXCEPT ![r] = @ + 1]
  /\ sent' = [sent EXCEPT ![r] = 0]
  /\ rcvd' = [rcvd EXCEPT ![r] = 0]
  /\ UNCHANGED <<exited, net, got>>

(* Fault: one send too many. *)
SendOnceMore(r) ==
  /\ Inside(r)
  /\ sent[r] <= N - 1
  /\ net' = net \cup {[src |-> r, dst |-> PeerOf(r, sent[r]), round |-> entered[r]]}
  /\ sent' = [sent EXCEPT ![r] = @ + 1]
  /\ UNCHANGED <<entered, exited, rcvd, got>>

SendToPeer(r) ==
  /\ Inside(r)
  /\ sent[r] < N - 1
  /\ net' = net \cup {[src |-> r, dst |-> PeerOf(r, sent[r]), round |-> entered[r]]}
  /\ sent' = [sent EXCEPT ![r] = @ + 1]
  /\ UNCHANGED <<entered, exited, rcvd, got>>

(***************************************************************************)
(* The oldest message in flight of each sender to r: the candidates of the *)
(* next receive, which names no sender.                                    *)
(***************************************************************************)
Arrivals(r) ==
  {m \in net : /\ m.dst = r
               /\ \A o \in net : o.src = m.src /\ o.dst = r => m.round <= o.round}

RecvFromAny(r) ==
  /\ Inside(r)
  /\ sent[r] = N - 1
  /\ rcvd[r] < N - 1
  /\ \E m \in Arrivals(r) :
       /\ net' = net \ {m}
       /\ got' = [got EXCEPT ![r] = @ \cup {<<m.src, m.round>>}]
  /\ rcvd' = [rcvd EXCEPT ![r] = @ + 1]
  /\ UNCHANGED <<entered, exited, sent>>

(* Fault: the last receive is not waited for. *)
ReturnEarly(r) ==
  /\ Inside(r)
  /\ sent[r] = N - 1
  /\ rcvd[r] >= N - 2
  /\ exited' = [exited EXCEPT ![r] = @ + 1]
  /\ UNCHANGED <<entered, sent, rcvd, net, got>>

Return(r) ==
  /\ Inside(r)
  /\ sent[r] = N - 1
  /\ rcvd[r] = N - 1
  /\ exited' = [exited EXCEPT ![r] = @ + 1]
  /\ UNCHANGED <<entered, sent, rcvd, net, got>>

Step(r) == Enter(r) \/ SendToPeer(r) \/ RecvFromAny(r) \/ Return(r)

(* The benchmark has made its last call on every rank and stops here. *)
Finished ==
  /\ \A r \in Ranks : exited[r] = Rounds
  /\ UNCHANGED vars

Next == Finished \/ \E r \in Ranks : Step(r)

(***************************************************************************)
(* A rank inside barrier() spins on check_finished() and progress(), and   *)
(* the benchmark calls it again when it returns: no rank stops on its own. *)
(***************************************************************************)
Fairness == \A r \in Ranks : WF_vars(Step(r))

Spec == Init /\ [][Next]_vars

FairSpec == Spec /\ Fairness

-----------------------------------------------------------------------------

(* The variables range over what the code can hold. *)
TypeOK ==
  /\ entered \in [Ranks -> Nat]
  /\ exited \in [Ranks -> Nat]
  /\ sent \in [Ranks -> 0 .. N-1]
  /\ rcvd \in [Ranks -> 0 .. N-1]
  /\ net \in SUBSET Message
  /\ got \in [Ranks -> SUBSET (Ranks \X Nat)]

(***************************************************************************)
(* Barrier: when barrier() returns to rank i for the k-th time every rank  *)
(* has called it k times, although i may have counted two messages of one  *)
(* fast peer and none of a slow one.                                       *)
(***************************************************************************)
NobodyLeavesEarly ==
  \A i, j \in Ranks : exited[i] <= entered[j]

(***************************************************************************)
(* Between two barriers nothing is left over: when every rank has returned *)
(* from the same number of calls, no barrier message is in flight to be    *)
(* taken for one of the next call, or of an ibarrier, which shares the tag.*)
(***************************************************************************)
NothingLeftOver ==
  (\A i, j \in Ranks : exited[i] = entered[j]) => net = {}

(* Every call returns: message counting never starves a rank. *)
EveryCallReturns ==
  \A r \in Ranks : \A k \in 1 .. Rounds : entered[r] >= k ~> exited[r] >= k

(***************************************************************************)
(* What makes NobodyLeavesEarly inductive.  SlotOf inverts PeerOf; Sent    *)
(* says that s has executed the send of its k-th call to d.                *)
(***************************************************************************)
SlotOf(s, d) == IF d < s THEN d ELSE d - 1

Sent(s, d, k) ==
  /\ s # d
  /\ 1 <= k /\ k <= entered[s]
  /\ k = entered[s] /\ Inside(s) => SlotOf(s, d) < sent[s]

OneCallAtATime ==
  \A r \in Ranks : exited[r] <= entered[r] /\ entered[r] <= exited[r] + 1

(* Only messages that were sent exist, and none is consumed twice. *)
OnlySentMessages ==
  /\ \A m \in net : /\ Sent(m.src, m.dst, m.round)
                     /\ <<m.src, m.round>> \notin got[m.dst]
  /\ \A r \in Ranks : \A p \in got[r] : Sent(p[1], r, p[2])

(* A rank's consumed messages are counted by its loop alone. *)
Counted ==
  \A r \in Ranks :
    /\ IsFiniteSet(got[r])
    /\ Cardinality(got[r]) = (N - 1) * exited[r] + (IF Inside(r) THEN rcvd[r] ELSE 0)

IInv ==
  /\ TypeOK
  /\ OneCallAtATime
  /\ OnlySentMessages
  /\ Counted
  /\ NobodyLeavesEarly

(* The message implementation hides behind the abstract barrier. *)
Abstract == INSTANCE AbstractBarrier WITH arrived <- entered, departed <- exited

ImplementsAbstract == Abstract!Spec
=============================================================================
