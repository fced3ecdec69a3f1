------------------------------ MODULE OneSided ------------------------------
(***************************************************************************)
(* The one-sided benchmarks (onesided/src/bin): two ranks, one of which    *)
(* accesses the registered memory of the other, or both each other's       *)
(* (osu_put_bibw).  Every iteration is flush, accesses, flush; the target  *)
(* makes the two flushes and no access.  A flush waits for the accesses of *)
(* its own rank alone: nothing tells one rank how far the other is.        *)
(*                                                                         *)
(* An access is in flight until it has been carried out at the target,     *)
(* which takes the target's worker where a transport emulates it, and the  *)
(* registered memory alone where the hardware does it.  When the target has*)
(* dropped what it takes the access fails, check_finished() returns an     *)
(* error and the flush keeps waiting.                                      *)
(***************************************************************************)
EXTENDS MessageSizes, Sequences

CONSTANTS
  Benchmarks,   \* the benchmarks considered, a set of Loops
  Iterations,   \* warm-up and timed iterations for each size, together
  WindowSize    \* accesses of a bandwidth iteration

Ranks == {0, 1}

(***************************************************************************)
(* What tells the loop of one binary from that of another:                 *)
(* origins    the ranks that access their partner's memory                 *)
(* accesses   "one" for a message, a "window" of messages side by side, or *)
(*            one for each of the "words" of a message                     *)
(* waits      whether an access is waited for before the next is made      *)
(***************************************************************************)
Loops ==
  [origins : SUBSET Ranks, accesses : {"one", "window", "words"}, waits : BOOLEAN]

Loop(origins, accesses, waits) ==
  [origins |-> origins, accesses |-> accesses, waits |-> waits]

osu_put_latency == Loop({0}, "one", FALSE)

osu_put_bw == Loop({0}, "window", FALSE)

osu_put_bibw == Loop({0, 1}, "window", FALSE)

osu_get_latency == Loop({0}, "one", FALSE)

osu_get_bw == Loop({0}, "window", FALSE)

osu_acc_latency == Loop({0}, "words", FALSE)

osu_cas_latency == Loop({0}, "words", FALSE)

(* Their atomics return the old value of a word, which is stored at once. *)
osu_fop_latency == Loop({0}, "words", TRUE)

osu_get_acc_latency == Loop({0}, "words", TRUE)

ASSUME OneSidedAssumption ==
  /\ Benchmarks \subseteq Loops
  /\ Iterations \in Nat \ {0}
  /\ WindowSize \in Nat \ {0}

VARIABLES
  args,     \* what runs: [bench, min, max, needs], never changes
  pc,       \* pc[r]: where rank r is
  size,     \* size[r]: the message size it runs
  round,    \* round[r]: iterations it has made with this size
  issued,   \* issued[r]: accesses it has made in this iteration
  flight    \* flight[r]: those of its accesses that have not been carried out

vars == <<args, pc, size, round, issued, flight>>

Partner(r) == 1 - r

IsOrigin(r) == r \in args.bench.origins

Windowed == args.bench.accesses = "window"

Atomic == args.bench.accesses = "words"

Runs ==
  [bench : Benchmarks, min : MinSizes, max : MaxSizes, needs : {"worker", "memory"}]

(* Bytes of an atomic operation on a u64. *)
AmoBytes == 8

Init ==
  /\ args \in Runs
  /\ pc = [r \in Ranks |-> "size"]
  /\ size = [r \in Ranks |-> args.min]
  /\ round = [r \in Ranks |-> 0]
  /\ issued = [r \in Ranks |-> 0]
  /\ flight = [r \in Ranks |-> {}]

(* Fault: the window does not count. *)
RegisteredForOne == args.max

(* The bytes of memory main registers. *)
Registered == IF Windowed THEN args.max * WindowSize ELSE args.max

(* Fault: the offset of an access in the window is not added. *)
AccessAtStart(r, i) ==
  [round |-> round[r], index |-> i, addr |-> 0,
   len |-> IF Atomic THEN AmoBytes ELSE size[r]]

(***************************************************************************)
(* An access at the target.  Atomics never advance the remote address: all *)
(* words of a message meet in the first word of the memory.                *)
(***************************************************************************)
Access(r, i) ==
  [round |-> round[r], index |-> i,
   addr |-> IF Windowed THEN (i - 1) * size[r] ELSE 0,
   len |-> IF Atomic THEN AmoBytes ELSE size[r]]

(* The number of accesses of one iteration. *)
Accesses(r) ==
  IF ~IsOrigin(r) THEN 0
  ELSE IF Windowed THEN WindowSize
  ELSE IF Atomic THEN (size[r] + AmoBytes - 1) \div AmoBytes
  ELSE 1

(* What an access at q's memory takes is still there. *)
Reachable(q) ==
  pc[q] # "gone" /\ (args.needs = "worker" => pc[q] # "closed")

-----------------------------------------------------------------------------

Goto(r, there) == pc' = [pc EXCEPT ![r] = there]

(* Allocate the buffer of a size, or return from run_benchmark. *)
BeginSize(r) ==
  /\ pc[r] = "size"
  /\ Goto(r, IF size[r] <= args.max THEN "before" ELSE "leaving")
  /\ UNCHANGED <<args, size, round, issued, flight>>

FlushBefore(r) ==
  /\ pc[r] = "before"
  /\ flight[r] = {}
  /\ Goto(r, "ops")
  /\ issued' = [issued EXCEPT ![r] = 0]
  /\ UNCHANGED <<args, size, round, flight>>

(* One access, or all if none is waited for. *)
Issue(r) ==
  /\ pc[r] = "ops"
  /\ issued[r] < Accesses(r)
  /\ \/ /\ args.bench.waits
        /\ flight[r] = {}
        /\ issued' = [issued EXCEPT ![r] = @ + 1]
     \/ /\ ~args.bench.waits
        /\ issued' = [issued EXCEPT ![r] = Accesses(r)]
  /\ flight' = [flight EXCEPT ![r] =
                  @ \cup {Access(r, i) : i \in issued[r] + 1 .. issued'[r]}]
  /\ UNCHANGED <<args, pc, size, round>>

(* Fault: one iteration too many. *)
EndRoundOnceMore(r) ==
  /\ pc[r] = "ops"
  /\ issued[r] = Accesses(r)
  /\ \/ /\ round[r] < Iterations
        /\ round' = [round EXCEPT ![r] = @ + 1]
        /\ Goto(r, "before")
        /\ UNCHANGED size
     \/ /\ round[r] = Iterations
        /\ round' = [round EXCEPT ![r] = 0]
        /\ size' = [size EXCEPT ![r] = Grow(@)]
        /\ Goto(r, "size")
  /\ UNCHANGED <<args, issued, flight>>

(* The end of an iteration: go on with the next one, or the next size. *)
EndRound(r) ==
  /\ pc[r] = "ops"
  /\ issued[r] = Accesses(r)
  /\ \/ /\ round[r] + 1 < Iterations
        /\ round' = [round EXCEPT ![r] = @ + 1]
        /\ Goto(r, "before")
        /\ UNCHANGED size
     \/ /\ round[r] + 1 = Iterations
        /\ round' = [round EXCEPT ![r] = 0]
        /\ size' = [size EXCEPT ![r] = Grow(@)]
        /\ Goto(r, "size")
  /\ UNCHANGED <<args, issued, flight>>

(* Fault: the second flush is missing. *)
EndWithoutFlush(r) == EndRound(r)

FlushAfter(r) == flight[r] = {} /\ EndRound(r)

(* The access of r is carried out at its partner's memory. *)
Land(r) ==
  /\ Reachable(Partner(r))
  /\ \E a \in flight[r] : flight' = [flight EXCEPT ![r] = @ \ {a}]
  /\ UNCHANGED <<args, pc, size, round, issued>>

(* Drop the context: endpoints, worker, UCX context and PMIx, in this order. *)
Close(r) ==
  /\ pc[r] = "leaving"
  /\ Goto(r, "closed")
  /\ UNCHANGED <<args, size, round, issued, flight>>

(* Then remote keys and the memory handle, and at last the memory itself. *)
Free(r) ==
  /\ pc[r] = "closed"
  /\ Goto(r, "gone")
  /\ UNCHANGED <<args, size, round, issued, flight>>

Step(r) ==
  \/ BeginSize(r) \/ FlushBefore(r) \/ Issue(r) \/ FlushAfter(r)
  \/ Close(r) \/ Free(r)

Finished(r) == pc[r] = "gone"

AllFinished ==
  /\ \A r \in Ranks : Finished(r)
  /\ UNCHANGED vars

Next == AllFinished \/ \E r \in Ranks : Step(r) \/ Land(r)

(***************************************************************************)
(* A rank goes on when it can, and UCX carries out an access while there is*)
(* a target for it.                                                        *)
(***************************************************************************)
Fairness == \A r \in Ranks : WF_vars(Step(r)) /\ WF_vars(Land(r))

Spec == Init /\ [][Next]_vars

FairSpec == Spec /\ Fairness

-----------------------------------------------------------------------------

Flights == [round : 0 .. Iterations - 1, index : Nat, addr : Nat, len : Nat]

(* Every variable has its type; rounds and sizes are those of some iteration. *)
TypeOK ==
  /\ args \in Runs
  /\ pc \in [Ranks -> {"size", "before", "ops", "leaving", "closed", "gone"}]
  /\ size \in [Ranks -> Nat]
  /\ round \in [Ranks -> 0 .. Iterations - 1]
  /\ issued \in [Ranks -> Nat]
  /\ flight \in [Ranks -> SUBSET Flights]

(***************************************************************************)
(* The send and receive buffers of a size are dropped when it is done, and *)
(* the requests of most accesses are dropped at once: still no access is in*)
(* flight outside the iteration that made it.                              *)
(***************************************************************************)
OriginBuffersOutliveAccesses ==
  \A r \in Ranks : \A a \in flight[r] :
    pc[r] = "ops" /\ a.round = round[r] /\ a.len \in {size[r], AmoBytes}

(***************************************************************************)
(* Accesses stay inside the memory the target has registered.  Atomics do  *)
(* only if it holds a whole word: main registers the largest message size, *)
(* and nothing makes that 8 bytes.                                         *)
(***************************************************************************)
AccessesStayInside ==
  \A r \in Ranks : \A a \in flight[r] :
    a.addr + a.len <= Registered \/ (Atomic /\ args.max < AmoBytes)

(***************************************************************************)
(* Two puts or gets under way at the same time never touch the same bytes, *)
(* although every iteration uses the same addresses.                       *)
(***************************************************************************)
AccessesDoNotOverlap ==
  ~Atomic =>
    \A r \in Ranks : \A a, b \in flight[r] :
      a # b => a.addr + a.len <= b.addr \/ b.addr + b.len <= a.addr

(* The sizes a rank runs grow strictly, so there is a last one. *)
SizesGrow == [][\A r \in Ranks : size'[r] # size[r] => size'[r] > size[r]]_vars

(***************************************************************************)
(* The inductive invariant behind these: what is in flight is a part of the*)
(* accesses of the current iteration, which has no more than it should, and*)
(* the size of an iteration is one that was asked for.                     *)
(***************************************************************************)
IInv ==
  /\ TypeOK
  /\ \A r \in Ranks :
       /\ pc[r] \in {"before", "ops"} => size[r] <= args.max
       /\ pc[r] # "ops" => flight[r] = {}
       /\ pc[r] = "ops" => issued[r] <= Accesses(r)
       /\ flight[r] \subseteq {Access(r, i) : i \in 1 .. issued[r]}

(***************************************************************************)
(* A rank leaves, unless its partner left before it: an access that is then*)
(* still in flight keeps its flush waiting for ever.                       *)
(***************************************************************************)
Abandoned(r) == flight[r] # {} /\ ~Reachable(Partner(r))

LeavesUnlessAbandoned == \A r \in Ranks : <>(Finished(r) \/ Abandoned(r))

(***************************************************************************)
(* What a fence on both sides promises: nobody gets past the last one while*)
(* its memory may still be accessed.                                       *)
(***************************************************************************)
FenceHoldsTarget ==
  \A r \in Ranks :
    IsOrigin(Partner(r)) /\ pc[r] \in {"closed", "gone"} =>
      pc[Partner(r)] \in {"leaving", "closed", "gone"}
=============================================================================
